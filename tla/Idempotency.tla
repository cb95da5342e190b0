---------------------------- MODULE Idempotency ----------------------------
(***************************************************************************)
(* The idempotency() middleware of the gateway                             *)
(* (packages/gateway/src/middleware/idempotency.ts) over a Workers KV      *)
(* namespace.                                                              *)
(*                                                                         *)
(* Attempts arrive at several locations, each running its own gateway      *)
(* isolates, and interleave at every await: the KV read, the execution     *)
(* below (`await next()`) and the KV write.  Any await may fail, and an    *)
(* isolate may be lost in between.  KV is external and eventually          *)
(* consistent: a location reads its own cached copy, "no record" included, *)
(* until that copy is dropped, and sees its own writes at once.            *)
(***************************************************************************)
EXTENDS Integers, Sequences, FiniteSets

CONSTANTS
  Attempts,   \* requests, retries included
  Inputs,     \* what a request may be: see InputType
  Locations,  \* Cloudflare locations
  Callers,    \* [tenant, user] of context.auth, ids split at ":"
  RawKeys,    \* values of the idempotency-key header, split at ":"
  Fingerprints, \* method, path, query, content type and body hash
  Ttl,        \* options.ttlSeconds
  Horizon     \* bound on time

NoKey   == <<>>   \* the header is missing or empty
NoIds   == [tenant |-> <<"tenant", "none">>, user |-> <<"user", "none">>]

\* defaultScopedKey(): three ids joined by ":".
ScopedKey(caller, rawKey) == caller.tenant \o caller.user \o rawKey

InputType == [loc : Locations, caller : Callers, rawKey : RawKeys \union {NoKey},
              fp : Fingerprints, protected : BOOLEAN]

ASSUME InputsAssumption == Inputs \subseteq InputType
ASSUME TtlAssumption == Ttl \in Nat \ {0}
ASSUME HorizonAssumption == Horizon \in Nat
\* The joined key determines its parts.  It does for ids without a ":".
ASSUME ScopedKeyAssumption ==
  \A c, d \in Callers, j, k \in RawKeys :
    ScopedKey(c, j) = ScopedKey(d, k) => c = d /\ j = k

StorageKeys == {ScopedKey(c, k) : c \in Callers, k \in RawKeys}

VARIABLES
  input,   \* each attempt's request, fixed by Init
  now,     \* seconds
  central, \* KV: the last record written under each key
  edge,    \* KV: each location's cached copy of each key
  att      \* each attempt's progress through the middleware

vars == <<input, now, central, edge, att>>

-----------------------------------------------------------------------------
(* Records. *)

Statuses == {"success", "clientError", "serverError"}

RequestOf(a) ==
  [keyed  |-> input[a].protected /\ input[a].rawKey # NoKey,
   caller |-> input[a].caller, key |-> input[a].rawKey, fp |-> input[a].fp]

NoRecord == [kind |-> "none", fp |-> {}, origin |-> {}, status |-> "none",
             expiresAt |-> 0]
Uncached == [kind |-> "uncached", fp |-> {}, origin |-> {}, status |-> "none",
             expiresAt |-> 0]

\* storeResponse(); a response is identified by the attempt that executed.
StoredResponse(a, status, expiresAt) ==
  [kind |-> "stored", fp |-> {input[a].fp}, origin |-> {a}, status |-> status,
   expiresAt |-> expiresAt]

\* pc: "idle", "reading" (awaiting store.get), "executing" (awaiting next()),
\* "storing" (awaiting store.put), "done".  `bypass`: shouldApply() was false.
\* finishedAt is recorded for the properties.
NewAttempt == [pc |-> "idle", status |-> "none", outcome |-> "none",
               origin |-> {}, finishedAt |-> 0]

Init ==
  /\ input \in [Attempts -> Inputs]
  /\ now = 0
  /\ central = [k \in StorageKeys |-> NoRecord]
  /\ edge = [l \in Locations |-> [k \in StorageKeys |-> Uncached]]
  /\ att = [a \in Attempts |-> NewAttempt]

KeyOf(a) == ScopedKey(input[a].caller, input[a].rawKey)

Finish(a, outcome, origin) ==
  att' = [att EXCEPT ![a].pc = "done", ![a].outcome = outcome,
                     ![a].origin = origin, ![a].finishedAt = now]

-----------------------------------------------------------------------------
(* Workers KV. *)

\* A copy is served until it is dropped; expired records read as absent.
Visible(record) ==
  IF record.kind = "stored" /\ record.expiresAt > now THEN record ELSE NoRecord

KvCopy(l, k) == IF edge[l][k] = Uncached THEN central[k] ELSE edge[l][k]

\* A read leaves a copy at the location; a write replaces it.
KvGet(l, k) == edge' = [edge EXCEPT ![l][k] = KvCopy(l, k)]

KvPut(l, k, record) ==
  /\ central' = [central EXCEPT ![k] = record]
  /\ edge' = [edge EXCEPT ![l][k] = record]

DropCopy(l, k) ==
  /\ edge[l][k] # Uncached
  /\ edge' = [edge EXCEPT ![l][k] = Uncached]
  /\ UNCHANGED <<input, now, central, att>>

-----------------------------------------------------------------------------
(* The middleware. *)

\* Up to the first await: an unprotected request goes straight to next(), a
\* protected one without a key is refused.
Arrive(a) ==
  /\ att[a].pc = "idle"
  /\ \/ /\ ~input[a].protected
        /\ att' = [att EXCEPT ![a].pc = "executing"]
     \/ /\ input[a].protected /\ input[a].rawKey = NoKey
        /\ Finish(a, "keyRequired", {})
     \/ /\ input[a].protected /\ input[a].rawKey # NoKey
        /\ att' = [att EXCEPT ![a].pc = "reading"]
  /\ UNCHANGED <<input, now, central, edge>>

\* readStoredResponse() and the decision on its result.
DecideByKeyAlone(a, existing) ==
  IF existing.kind = "none" THEN att' = [att EXCEPT ![a].pc = "executing"]
  ELSE Finish(a, "replayed", existing.origin)

Decide(a, existing) ==
  \/ /\ existing.kind = "none"
     /\ att' = [att EXCEPT ![a].pc = "executing"]
  \/ /\ existing.kind = "stored" /\ existing.fp # {input[a].fp}
     /\ Finish(a, "conflict", existing.origin)
  \/ /\ existing.kind = "stored" /\ existing.fp = {input[a].fp}
     /\ Finish(a, "replayed", existing.origin)

ReadStored(a) ==
  /\ att[a].pc = "reading"
  /\ KvGet(input[a].loc, KeyOf(a))
  /\ Decide(a, Visible(KvCopy(input[a].loc, KeyOf(a))))
  /\ UNCHANGED <<input, now, central>>

\* cacheResponse: `response.status < 500` unless configured otherwise.
DefaultCacheResponse(status) == status # "serverError"

\* next() returned a response of this status.
Execute(a, status) ==
  /\ att[a].pc = "executing"
  /\ \/ /\ input[a].protected /\ DefaultCacheResponse(status)
        /\ att' = [att EXCEPT ![a].pc = "storing", ![a].status = status]
     \/ /\ ~(input[a].protected /\ DefaultCacheResponse(status))
        /\ att' = [att EXCEPT ![a].pc = "done", ![a].status = status,
                              ![a].outcome = "answered", ![a].origin = {a},
                              ![a].finishedAt = now]
  /\ UNCHANGED <<input, now, central, edge>>

\* The put is awaited before the response is returned.
Record(a) == StoredResponse(a, att[a].status, now + Ttl)

StoreUnawaited(a) ==
  /\ att[a].pc = "storing"
  /\ \/ KvPut(input[a].loc, KeyOf(a), Record(a))
     \/ UNCHANGED <<central, edge>>
  /\ Finish(a, "answered", {a})
  /\ UNCHANGED <<input, now>>

Store(a) ==
  /\ att[a].pc = "storing"
  /\ KvPut(input[a].loc, KeyOf(a), Record(a))
  /\ Finish(a, "answered", {a})
  /\ UNCHANGED <<input, now>>

\* The put took effect, but the isolate is lost before it answers.
LostAfterStore(a) ==
  /\ att[a].pc = "storing"
  /\ KvPut(input[a].loc, KeyOf(a), Record(a))
  /\ Finish(a, "failed", {})
  /\ UNCHANGED <<input, now>>

\* An await rejects (KV or next() throws) or the isolate is lost: the caller
\* gets an error or nothing, and what was executed stays executed.
Fail(a) ==
  /\ att[a].pc \in {"reading", "executing", "storing"}
  /\ Finish(a, "failed", {})
  /\ UNCHANGED <<input, now, central, edge>>

Tick ==
  /\ now < Horizon
  /\ now' = now + 1
  /\ UNCHANGED <<input, central, edge, att>>

Handle(a) ==
  \/ Arrive(a)
  \/ ReadStored(a)
  \/ \E status \in Statuses : Execute(a, status)
  \/ Store(a)

Next ==
  \/ \E a \in Attempts : Handle(a) \/ LostAfterStore(a) \/ Fail(a)
  \/ Tick
  \/ \E l \in Locations, k \in StorageKeys : DropCopy(l, k)

Spec == Init /\ [][Next]_vars

-----------------------------------------------------------------------------
(* Properties. *)

\* A stored record has one fingerprint and one origin, and never a 5xx.
StoredRecords ==
  [kind : {"stored"}, fp : {{f} : f \in Fingerprints},
   origin : {{a} : a \in Attempts}, status : {"success", "clientError"},
   expiresAt : Int]

Copies == StoredRecords \union {NoRecord, Uncached}

Progress ==
  [pc : {"idle", "reading", "executing", "storing", "done"},
   status : Statuses \union {"none"},
   outcome : {"none", "keyRequired", "conflict", "replayed", "answered", "failed"},
   origin : SUBSET Attempts, finishedAt : Int]

\* The state variables keep the shapes that the code's types give them.
TypeOK ==
  /\ input \in [Attempts -> Inputs]
  /\ now \in Nat
  /\ central \in [StorageKeys -> Copies]
  /\ edge \in [Locations -> [StorageKeys -> Copies]]
  /\ att \in [Attempts -> Progress]

\* What each attempt executed and was answered, seen through the contract.
AnswerKind(a) ==
  CASE att[a].pc # "done"               -> "pending"
    [] att[a].outcome = "answered"      -> "own"
    [] att[a].outcome = "replayed"      -> "replay"
    [] att[a].outcome = "keyRequired"   -> "refused"
    [] OTHER                            -> att[a].outcome

Promise == INSTANCE IdempotencyContract WITH
  Requests   <- [keyed : BOOLEAN, caller : Callers,
                 key : RawKeys \union {NoKey}, fp : Fingerprints],
  Replayable <- {"success", "clientError"},
  request    <- [a \in Attempts |-> RequestOf(a)],
  execution  <- [a \in Attempts |-> att[a].status],
  answer     <- [a \in Attempts |-> [kind |-> AnswerKind(a),
                                     origin |-> att[a].origin]]

\* The middleware keeps the contract however attempts interleave, whatever
\* stale copies the locations read and wherever an await fails: a replay is the
\* response of an execution of the very same request by the same caller, never
\* of a 5xx; a replay, a 409 and a 400 execute nothing; a 409 means that the
\* caller's key was really used for another request; nothing executes twice.
KeepsContract == Promise!Contract

\* Once a caller has been answered with a stored response, a retry under the
\* same key does not execute again while the record lives, if it reads at the
\* location of the answer or at one that holds no copy of the key.
AnsweredOnce ==
  [][\A a, b \in Attempts :
       (/\ att[b].pc = "reading" /\ att'[b].pc = "executing"
        /\ att[a].outcome = "answered" /\ RequestOf(a).keyed
        /\ att[a].status # "serverError"
        /\ KeyOf(a) = KeyOf(b)
        /\ \/ input[b].loc = input[a].loc
           \/ edge[input[b].loc][KeyOf(b)] = Uncached)
         => now >= att[a].finishedAt + Ttl]_vars

=============================================================================
