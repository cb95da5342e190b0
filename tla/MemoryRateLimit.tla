--------------------------- MODULE MemoryRateLimit ---------------------------
(***************************************************************************)
(* memoryRateLimit() (packages/gateway/src/middleware/memory-rate-limit.ts)*)
(* in one isolate.                                                         *)
(*                                                                         *)
(* The buckets live in one module-level map, indexed by the bucket key     *)
(* alone: every limiter of the isolate that computes the same key shares   *)
(* the bucket, whatever its own limit and window.  A request passes the    *)
(* limiters of the chain in the order they were mounted.  Each check is    *)
(* synchronous, so it is one step.                                         *)
(***************************************************************************)
EXTENDS LimiterClock, Sequences, FiniteSets

CONSTANTS
  Keys,  \* bucket keys: user ids, or "anonymous"
  Chain  \* the mounted limiters: a sequence of [limit, window]

ASSUME ChainAssumption == Chain \in Seq([limit : Int, window : Nat])

VARIABLES
  store,   \* the map: key to bucket, or NoBucket
  at,      \* each request's next limiter; beyond the chain it is admitted
  key,     \* each request's key, fixed by Init
  limited, \* requests answered 429
  passed   \* every passage of a limiter: [request, limiter, time]

memoryVars == <<now, store, at, key, limited, passed>>

\* A missing bucket is one that has expired.
NoBucket == [count |-> 0, expiresAt |-> 0]

MemoryInit ==
  /\ now = 0
  /\ store = [k \in Keys |-> NoBucket]
  /\ at = [r \in Requests |-> 1]
  /\ key \in [Requests -> Keys]
  /\ limited = {}
  /\ passed = {}

Expired(bucket) == bucket.expiresAt <= now

\* A new bucket admits its first request unchecked; an old one counts the
\* request whether or not it admits it.
Unchecked(bucket, limiter) == bucket.count > 0

HasRoom(bucket, limiter) == bucket.count <= limiter.limit

Pass(r) ==
  /\ passed' = passed \union {[request |-> r, limiter |-> at[r], time |-> now]}
  /\ at' = [at EXCEPT ![r] = @ + 1]
  /\ UNCHANGED limited

Reject(r) ==
  /\ limited' = limited \union {r}
  /\ UNCHANGED <<passed, at>>

CheckBucket(r) ==
  /\ r \notin limited /\ at[r] \in DOMAIN Chain
  /\ LET limiter == Chain[at[r]]
         bucket  == store[key[r]]
         counted == [bucket EXCEPT !.count = @ + 1]
     IN  \/ /\ Expired(bucket)
            /\ store' = [store EXCEPT ![key[r]] =
                 [count |-> 1, expiresAt |-> now + limiter.window]]
            /\ Pass(r)
         \/ /\ ~Expired(bucket)
            /\ store' = [store EXCEPT ![key[r]] = counted]
            /\ IF HasRoom(counted, limiter) THEN Pass(r) ELSE Reject(r)
  /\ UNCHANGED <<now, key>>

MemoryTick ==
  /\ now < Horizon
  /\ now' = now + 1
  /\ UNCHANGED <<store, at, key, limited, passed>>

MemoryNext == (\E r \in Requests : CheckBucket(r)) \/ MemoryTick

MemorySpec == MemoryInit /\ [][MemoryNext]_memoryVars

-----------------------------------------------------------------------------
(* Properties. *)

\* The passages of limiter i under key k in the window that begins at t.
Admitted(i, k, t) ==
  {e \in passed : /\ e.limiter = i /\ key[e.request] = k
                  /\ t <= e.time /\ e.time < t + Chain[i].window}

\* "Max requests allowed during the window": no limiter admits, under one key
\* and within one of its windows, more than twice its limit, which is what
\* fixed windows that do not overlap allow.
LimitPerWindow ==
  \A i \in DOMAIN Chain, k \in Keys :
    \A e \in passed : Cardinality(Admitted(i, k, e.time)) <= 2 * Chain[i].limit

\* A limiter that does not share its buckets refuses a request only when it
\* admitted its limit under that very key since the bucket was opened, that is
\* within one window: neither other keys nor refused requests use it up.
RefusesOnlyWhenSpent ==
  \A r \in limited' \ limited :
    Cardinality({e \in passed : /\ e.limiter = at[r] /\ key[e.request] = key[r]
                                /\ now - Chain[at[r]].window < e.time})
      >= Chain[at[r]].limit

\* Both limits: never more than the windows admit, and never less.
MemoryLimits == [][LimitPerWindow' /\ RefusesOnlyWhenSpent]_memoryVars

=============================================================================
