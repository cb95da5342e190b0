-------------------------- MODULE DurableRateLimit --------------------------
(***************************************************************************)
(* durableObjectRateLimit() and the DurableObjectRateLimiter object behind *)
(* one bucket key                                                          *)
(* (packages/gateway/src/middleware/durable-object-rate-limit.ts).         *)
(*                                                                         *)
(* limit() reads the clock, awaits the stored window, computes, and awaits *)
(* the write.  Nothing in it excludes a second call in between: it relies  *)
(* on the input gate of Durable Objects, which delivers no call while a    *)
(* storage operation is pending.  The gate is modelled by GateOpen.        *)
(* A call may throw in storage, and its reply may be lost after the window *)
(* was written.                                                            *)
(***************************************************************************)
EXTENDS LimiterClock, FiniteSets

CONSTANTS
  Limit,  \* options.limit
  Period  \* options.periodSeconds

\* assertPositiveInteger() of both options.
ASSUME LimitAssumption  == Limit \in Nat \ {0}
ASSUME PeriodAssumption == Period \in Nat \ {0}

VARIABLES
  stored, \* the window in the object's storage
  call,   \* each request's call of limit()
  log     \* the admissions decided, each with its window and its time

vars == <<now, stored, call, log>>

\* No window is an empty one that has expired.
NoWindow == [windowStart |-> -Period, count |-> 0]

NewCall == [pc |-> "idle", at |-> 0, existing |-> NoWindow,
            success |-> FALSE, retryAfter |-> 0]

Init ==
  /\ now = 0
  /\ stored = NoWindow
  /\ call = [r \in Requests |-> NewCall]
  /\ log = {}

GateIgnored == TRUE

GateOpen == \A r \in Requests : call[r].pc # "reading"

\* The middleware awaits namespace.getByName(objectName).limit().
CallLimit(r) ==
  /\ call[r].pc = "idle"
  /\ call' = [call EXCEPT ![r].pc = "called"]
  /\ UNCHANGED <<now, stored, log>>

\* limit() up to the storage read.
ReadWindow(r) ==
  /\ call[r].pc = "called"
  /\ GateOpen
  /\ call' = [call EXCEPT ![r].pc = "reading", ![r].at = now,
                          ![r].existing = stored]
  /\ UNCHANGED <<now, stored, log>>

\* The window a call made at `at` counts in.
ReopenLate(existing, at) ==
  IF at <= existing.windowStart + Period THEN existing
  ELSE [windowStart |-> at, count |-> 0]

ReopenAlways(existing, at) ==
  IF at < existing.windowStart THEN existing
  ELSE [windowStart |-> at, count |-> 0]

CurrentWindow(existing, at) ==
  IF at < existing.windowStart + Period THEN existing
  ELSE [windowStart |-> at, count |-> 0]

Admits(current) == current.count < Limit

Later(a, b) == IF a >= b THEN a ELSE b

\* The rest of limit(): the write and the reply.
WriteWindow(r) ==
  /\ call[r].pc = "reading"
  /\ LET current == CurrentWindow(call[r].existing, call[r].at)
         success == Admits(current)
     IN  /\ stored' = [current EXCEPT !.count = IF success THEN @ + 1 ELSE @]
         /\ call' = [call EXCEPT
              ![r].pc = "replied", ![r].success = success,
              ![r].retryAfter = Later(0, current.windowStart + Period - call[r].at)]
         /\ log' = IF success
                   THEN log \union {[request |-> r, window |-> current.windowStart,
                                     at |-> call[r].at]}
                   ELSE log
  /\ UNCHANGED now

\* The storage operation rejects: limit() throws, nothing is written.
StorageFails(r) ==
  /\ call[r].pc = "reading"
  /\ call' = [call EXCEPT ![r].pc = "failed"]
  /\ UNCHANGED <<now, stored, log>>

\* The reply reaches the middleware: next(), or 429 RATE_LIMITED; or it is
\* lost with the object or the gateway isolate.
Answer(r) ==
  /\ call[r].pc = "replied"
  /\ call' = [call EXCEPT ![r].pc = IF call[r].success THEN "admitted" ELSE "limited"]
  /\ UNCHANGED <<now, stored, log>>

ReplyLost(r) ==
  /\ call[r].pc = "replied"
  /\ call' = [call EXCEPT ![r].pc = "failed"]
  /\ UNCHANGED <<now, stored, log>>

Tick ==
  /\ now < Horizon
  /\ now' = now + 1
  /\ UNCHANGED <<stored, call, log>>

Next ==
  \/ \E r \in Requests :
       \/ CallLimit(r) \/ ReadWindow(r) \/ WriteWindow(r)
       \/ StorageFails(r) \/ Answer(r) \/ ReplyLost(r)
  \/ Tick

Spec == Init /\ [][Next]_vars

-----------------------------------------------------------------------------
(* Properties. *)

Windows == [windowStart : Int, count : 0 .. Limit]

Calls ==
  [pc : {"idle", "called", "reading", "replied", "admitted", "limited", "failed"},
   at : Nat, existing : Windows, success : BOOLEAN, retryAfter : 0 .. Period]

\* The state variables keep their shapes; a stored count never exceeds the
\* limit, and a client is never told to wait longer than a period.
TypeOK ==
  /\ now \in Nat
  /\ stored \in Windows
  /\ call \in [Requests -> Calls]
  /\ log \in SUBSET [request : Requests, window : Nat, at : Nat]

InWindow(w) == {e \in log : e.window = w}

\* However the calls of different isolates interleave, at most Limit requests
\* are admitted in one window.
WindowLimit == \A e \in log : Cardinality(InWindow(e.window)) <= Limit

\* Windows never overlap, so a burst across a window boundary is bounded: no
\* interval of one period holds more than twice the limit.
RollingLimit ==
  \A e \in log :
    Cardinality({f \in log : e.at <= f.at /\ f.at < e.at + Period}) <= 2 * Limit

\* A request is refused only when the limit was really spent within the last
\* period, and is told to wait until that window ends, never for no time.
RefusedOnlyWhenSpent ==
  \A r \in Requests :
    (call[r].pc \in {"replied", "limited"} /\ ~call[r].success) =>
      /\ Cardinality({e \in log : /\ call[r].at - Period < e.at
                                  /\ e.at <= call[r].at}) >= Limit
      /\ call[r].retryAfter > 0

=============================================================================
