-------------------------- MODULE IdempotencyProofs --------------------------
(***************************************************************************)
(* Proofs about Idempotency: for every set of attempts, callers, keys,     *)
(* locations and lifetimes, the middleware over an eventually consistent   *)
(* store implements IdempotencyContract, and an answered request is not    *)
(* executed again where its record can be read.                            *)
(***************************************************************************)
EXTENDS Idempotency, TLAPS

-----------------------------------------------------------------------------
(* The inductive invariant. *)

Replayable == {"success", "clientError"}

\* What an attempt has done agrees with where it is: only keyed requests read
\* and store, nothing is executed before next(), no answer before the end.
ProgressOK(a, p) ==
  /\ p.pc \in {"idle", "reading", "executing"} => p.status = "none"
  /\ p.pc # "done" => p.outcome = "none" /\ p.origin = {}
  /\ p.pc = "reading" => RequestOf(a).keyed
  /\ p.pc = "executing" /\ input[a].protected => RequestOf(a).keyed
  /\ p.pc = "storing" => RequestOf(a).keyed /\ p.status \in Replayable

\* A record under a key, wherever it is read, is the response of an execution
\* of a request that was sent under that very key.
Genuine(record, k) ==
  record.kind = "stored" =>
    \E o \in Attempts :
      /\ record.origin = {o} /\ record.fp = {input[o].fp}
      /\ RequestOf(o).keyed /\ KeyOf(o) = k
      /\ att[o].status \in Replayable

LivesUntil(record, time) == record.kind = "stored" /\ record.expiresAt >= time

\* The record of an answered attempt, or a later one, lives for Ttl in the
\* store, and at the location of the answer in any copy.
AnsweredIsStored ==
  \A a \in Attempts :
    att[a].outcome = "answered" /\ RequestOf(a).keyed /\ att[a].status # "serverError" =>
      LET until == att[a].finishedAt + Ttl
          copy  == edge[input[a].loc][KeyOf(a)]
      IN  /\ LivesUntil(central[KeyOf(a)], until)
          /\ copy = Uncached \/ LivesUntil(copy, until)
          /\ att[a].finishedAt <= now

StoreInv ==
  /\ TypeOK
  /\ \A a \in Attempts : ProgressOK(a, att[a])
  /\ \A k \in StorageKeys : Genuine(central[k], k)
  /\ \A l \in Locations, k \in StorageKeys : Genuine(edge[l][k], k)
  /\ AnsweredIsStored

-----------------------------------------------------------------------------
(* Facts about the definitions. *)

LEMMA InputFact ==
  ASSUME TypeOK, NEW a \in Attempts
  PROVE  /\ input[a] \in InputType
         /\ att[a] \in Progress
         /\ input[a].loc \in Locations
         /\ RequestOf(a).keyed => KeyOf(a) \in StorageKeys
<1>1. input[a] \in InputType /\ att[a] \in Progress
  BY InputsAssumption DEF TypeOK
<1>2. ASSUME RequestOf(a).keyed
      PROVE  KeyOf(a) \in StorageKeys
  <2>1. input[a].caller \in Callers /\ input[a].rawKey \in RawKeys
    BY <1>1, <1>2 DEF InputType, RequestOf
  <2> QED
    BY <2>1 DEF KeyOf, StorageKeys
<1> QED
  BY <1>1, <1>2 DEF InputType

\* Keyed requests that share a storage key share its caller and raw key.
LEMMA SameStorageKey ==
  ASSUME TypeOK, NEW a \in Attempts, NEW b \in Attempts,
         RequestOf(a).keyed, RequestOf(b).keyed, KeyOf(a) = KeyOf(b)
  PROVE  input[a].caller = input[b].caller /\ input[a].rawKey = input[b].rawKey
<1>1. \A c \in {a, b} : input[c].caller \in Callers /\ input[c].rawKey \in RawKeys
  BY InputFact DEF InputType, RequestOf
<1> QED
  BY <1>1, ScopedKeyAssumption DEF KeyOf

LEMMA RecordFact ==
  /\ NoRecord.kind = "none" /\ Uncached.kind = "uncached"
  /\ NoRecord \in Copies /\ Uncached \in Copies
  /\ \A k : Genuine(NoRecord, k) /\ Genuine(Uncached, k)
BY DEF NoRecord, Uncached, Copies, Genuine

Outcomes == {"none", "keyRequired", "conflict", "replayed", "answered", "failed"}

\* Finish() answers one attempt and leaves the others alone.
LEMMA FinishFact ==
  ASSUME TypeOK, NEW a \in Attempts, NEW outcome \in Outcomes,
         NEW origin \in SUBSET Attempts, Finish(a, outcome, origin)
  PROVE  /\ att' \in [Attempts -> Progress]
         /\ \A o \in Attempts \ {a} : att'[o] = att[o]
         /\ att'[a].pc = "done" /\ att'[a].status = att[a].status
         /\ att'[a].outcome = outcome /\ att'[a].origin = origin
         /\ att'[a].finishedAt = now
<1>1. att \in [Attempts -> Progress] /\ att[a] \in Progress /\ now \in Int
  BY DEF TypeOK
<1>2. /\ att'[a] = [att[a] EXCEPT !.pc = "done", !.outcome = outcome,
                                  !.origin = origin, !.finishedAt = now]
      /\ att' = [o \in Attempts |-> att'[o]]
      /\ \A o \in Attempts \ {a} : att'[o] = att[o]
  BY <1>1 DEF Finish
<1>3. /\ att'[a] \in Progress
      /\ att'[a].pc = "done" /\ att'[a].status = att[a].status
      /\ att'[a].outcome = outcome /\ att'[a].origin = origin /\ att'[a].finishedAt = now
  BY <1>1, <1>2 DEF Progress, Outcomes
<1> QED
  BY <1>1, <1>2, <1>3

\* So does an execution that is answered without being stored.
LEMMA AnsweredFact ==
  ASSUME TypeOK, NEW a \in Attempts, NEW status \in Statuses, NEW origin \in SUBSET Attempts,
         att' = [att EXCEPT ![a].pc = "done", ![a].status = status,
                            ![a].outcome = "answered", ![a].origin = origin,
                            ![a].finishedAt = now]
  PROVE  /\ att' \in [Attempts -> Progress]
         /\ \A o \in Attempts \ {a} : att'[o] = att[o]
         /\ att'[a].pc = "done" /\ att'[a].status = status
         /\ att'[a].outcome = "answered" /\ att'[a].origin = origin
<1>1. att \in [Attempts -> Progress] /\ att[a] \in Progress /\ now \in Int
  BY DEF TypeOK
<1>2. /\ att'[a] = [att[a] EXCEPT !.pc = "done", !.status = status,
                      !.outcome = "answered", !.origin = origin, !.finishedAt = now]
      /\ att' = [o \in Attempts |-> att'[o]]
      /\ \A o \in Attempts \ {a} : att'[o] = att[o]
  BY <1>1
<1>3. /\ att'[a] \in Progress
      /\ att'[a].pc = "done" /\ att'[a].status = status
      /\ att'[a].outcome = "answered" /\ att'[a].origin = origin
  BY <1>1, <1>2 DEF Progress
<1> QED
  BY <1>1, <1>2, <1>3

\* An attempt that only moves to its next await keeps everything else.
LEMMA ProceedFact ==
  ASSUME TypeOK, NEW a \in Attempts, NEW pc \in {"executing", "reading"},
         att' = [att EXCEPT ![a].pc = pc]
  PROVE  /\ att' \in [Attempts -> Progress]
         /\ \A o \in Attempts \ {a} : att'[o] = att[o]
         /\ att'[a].pc = pc /\ att'[a].status = att[a].status
         /\ att'[a].outcome = att[a].outcome /\ att'[a].origin = att[a].origin
<1>1. att \in [Attempts -> Progress] /\ att[a] \in Progress
  BY DEF TypeOK
<1>2. /\ att'[a] = [att[a] EXCEPT !.pc = pc]
      /\ att' = [o \in Attempts |-> att'[o]]
      /\ \A o \in Attempts \ {a} : att'[o] = att[o]
  BY <1>1
<1>3. /\ att'[a] \in Progress
      /\ att'[a].pc = pc /\ att'[a].status = att[a].status
      /\ att'[a].outcome = att[a].outcome /\ att'[a].origin = att[a].origin
  BY <1>1, <1>2 DEF Progress
<1> QED
  BY <1>1, <1>2, <1>3

-----------------------------------------------------------------------------
(* The invariant is inductive: one lemma for each kind of step. *)

LEMMA StoreInit == Init => StoreInv
<1> SUFFICES ASSUME Init PROVE StoreInv
  OBVIOUS
<1>1. \A a \in Attempts : att[a] = NewAttempt
  BY DEF Init
<1>2. TypeOK
  BY RecordFact DEF Init, TypeOK, NewAttempt, Progress
<1>3. \A a \in Attempts : ProgressOK(a, att[a])
  BY <1>1 DEF NewAttempt, ProgressOK
<1>4. \A k \in StorageKeys : Genuine(central[k], k)
  BY RecordFact DEF Init
<1>5. \A l \in Locations, k \in StorageKeys : Genuine(edge[l][k], k)
  BY RecordFact DEF Init
<1>6. AnsweredIsStored
  BY <1>1 DEF AnsweredIsStored, NewAttempt
<1> QED
  BY <1>2, <1>3, <1>4, <1>5, <1>6 DEF StoreInv

\* One attempt moves on.
Moves(a) ==
  /\ att' \in [Attempts -> Progress]
  /\ \A o \in Attempts \ {a} : att'[o] = att[o]
  /\ ProgressOK(a, att'[a])
  /\ att[a].status \in Replayable => att'[a].status = att[a].status
  /\ input' = input

\* When an attempt moves on, what is stored stays genuine, and what was asked
\* stays as it is.
LEMMA MovesFact ==
  ASSUME StoreInv, NEW a \in Attempts, Moves(a)
  PROVE  /\ \A o \in Attempts : RequestOf(o)' = RequestOf(o) /\ KeyOf(o)' = KeyOf(o)
         /\ \A o \in Attempts : ProgressOK(o, att[o])'
         /\ \A record, k : Genuine(record, k) => Genuine(record, k)'
<1>1. \A o \in Attempts : RequestOf(o)' = RequestOf(o) /\ KeyOf(o)' = KeyOf(o)
  BY DEF Moves, RequestOf, KeyOf
<1>2. ASSUME NEW o \in Attempts PROVE ProgressOK(o, att[o])'
  BY <1>1 DEF Moves, StoreInv, ProgressOK
<1>3. \A o \in Attempts : att[o].status \in Replayable => att'[o].status = att[o].status
  BY DEF Moves
<1>4. ASSUME NEW record, NEW k, Genuine(record, k) PROVE Genuine(record, k)'
  BY <1>1, <1>3, <1>4 DEF Genuine, Moves
<1> QED
  BY <1>1, <1>2, <1>4

\* Steps of an attempt that leave the store alone: Arrive, Execute, Fail.
LEMMA AttemptStep ==
  ASSUME StoreInv, NEW a \in Attempts, Moves(a), UNCHANGED <<now, central, edge>>,
         att[a].pc # "done",
         att'[a].outcome = "answered" /\ RequestOf(a).keyed => att'[a].status = "serverError"
  PROVE  StoreInv'
<1>1. TypeOK'
  BY DEF StoreInv, TypeOK, Moves
<1>2. /\ \A k \in StorageKeys : Genuine(central[k], k)'
      /\ \A l \in Locations, k \in StorageKeys : Genuine(edge[l][k], k)'
  BY MovesFact DEF StoreInv
<1>3. ASSUME NEW b \in Attempts, att'[b].outcome = "answered",
             RequestOf(b)'.keyed, att'[b].status # "serverError"
      PROVE  /\ att'[b] = att[b] /\ RequestOf(b)' = RequestOf(b)
             /\ KeyOf(b)' = KeyOf(b)
  BY <1>3, MovesFact DEF Moves
<1>4. ASSUME NEW b \in Attempts, att'[b].outcome = "answered",
             RequestOf(b)'.keyed, att'[b].status # "serverError"
      PROVE  /\ LivesUntil(central[KeyOf(b)], att[b].finishedAt + Ttl)
             /\ \/ edge[input[b].loc][KeyOf(b)] = Uncached
                \/ LivesUntil(edge[input[b].loc][KeyOf(b)], att[b].finishedAt + Ttl)
             /\ att[b].finishedAt <= now
  <2>1. att'[b] = att[b] /\ RequestOf(b)' = RequestOf(b)
    BY <1>3, <1>4
  <2> QED
    BY <1>4, <2>1 DEF StoreInv, AnsweredIsStored
<1>5. AnsweredIsStored'
  BY <1>3, <1>4 DEF AnsweredIsStored, LivesUntil, Moves
<1> QED
  BY <1>1, <1>2, <1>5, MovesFact DEF StoreInv

LEMMA ArriveStep ==
  ASSUME StoreInv, NEW a \in Attempts, Arrive(a)
  PROVE  StoreInv' /\ Moves(a)
<1>1. /\ UNCHANGED <<input, now, central, edge>> /\ att[a].pc = "idle"
      /\ att[a] \in Progress /\ ProgressOK(a, att[a]) /\ TypeOK
  BY InputFact DEF Arrive, StoreInv
<1>2. CASE \/ ~input[a].protected /\ att' = [att EXCEPT ![a].pc = "executing"]
           \/ /\ input[a].protected /\ input[a].rawKey # NoKey
              /\ att' = [att EXCEPT ![a].pc = "reading"]
  <2>1. PICK pc \in {"executing", "reading"} :
          /\ att' = [att EXCEPT ![a].pc = pc]
          /\ (pc = "executing" /\ ~input[a].protected) \/ RequestOf(a).keyed
    BY <1>2 DEF RequestOf
  <2>2. /\ att' \in [Attempts -> Progress] /\ \A o \in Attempts \ {a} : att'[o] = att[o]
        /\ att'[a].pc = pc
        /\ att'[a].status = "none" /\ att'[a].outcome = "none" /\ att'[a].origin = {}
    BY <1>1, <2>1, ProceedFact DEF ProgressOK
  <2>3. Moves(a)
    BY <1>1, <2>1, <2>2 DEF Moves, ProgressOK, Replayable
  <2> QED
    BY <1>1, <2>2, <2>3, AttemptStep
<1>3. CASE Finish(a, "keyRequired", {})
  <2>1. Moves(a) /\ att'[a].outcome = "keyRequired"
    BY <1>1, <1>3, FinishFact DEF Moves, ProgressOK, Outcomes
  <2> QED
    BY <1>1, <2>1, AttemptStep
<1> QED
  BY <1>2, <1>3 DEF Arrive

LEMMA ExecuteStep ==
  ASSUME StoreInv, NEW a \in Attempts, NEW status \in Statuses, Execute(a, status)
  PROVE  StoreInv' /\ Moves(a)
<1>1. /\ UNCHANGED <<input, now, central, edge>> /\ att[a].pc = "executing"
      /\ att[a] \in Progress /\ ProgressOK(a, att[a]) /\ TypeOK
      /\ input[a] \in InputType /\ now \in Int /\ att \in [Attempts -> Progress]
  BY InputFact DEF Execute, StoreInv, TypeOK
<1>2. CASE /\ input[a].protected /\ DefaultCacheResponse(status)
           /\ att' = [att EXCEPT ![a].pc = "storing", ![a].status = status]
  <2>1. att' \in [Attempts -> Progress] /\ \A o \in Attempts \ {a} : att'[o] = att[o]
    BY <1>1, <1>2 DEF TypeOK, Progress
  <2>2. /\ att'[a].pc = "storing" /\ att'[a].status = status /\ status \in Replayable
        /\ att'[a].outcome = "none" /\ att'[a].origin = {} /\ RequestOf(a).keyed
    BY <1>1, <1>2 DEF Progress, ProgressOK, Statuses, DefaultCacheResponse, Replayable
  <2>3. Moves(a)
    BY <1>1, <2>1, <2>2 DEF Moves, ProgressOK, Replayable
  <2> QED
    BY <1>1, <2>2, <2>3, AttemptStep
<1>3. CASE /\ ~(input[a].protected /\ DefaultCacheResponse(status))
           /\ att' = [att EXCEPT ![a].pc = "done", ![a].status = status,
                                 ![a].outcome = "answered", ![a].origin = {a},
                                 ![a].finishedAt = now]
  <2>1. {a} \in SUBSET Attempts
    OBVIOUS
  <2>2. /\ att' \in [Attempts -> Progress]
        /\ \A o \in Attempts \ {a} : att'[o] = att[o]
        /\ att'[a].pc = "done" /\ att'[a].status = status
    BY <1>1, <1>3, <2>1, AnsweredFact
  <2>3. RequestOf(a).keyed => status = "serverError"
    BY <1>1, <1>3 DEF RequestOf, DefaultCacheResponse
  <2>4. Moves(a)
    BY <1>1, <2>2 DEF Moves, ProgressOK, Replayable
  <2> QED
    BY <1>1, <2>2, <2>3, <2>4, AttemptStep
<1> QED
  BY <1>2, <1>3 DEF Execute

LEMMA FailStep ==
  ASSUME StoreInv, NEW a \in Attempts, Fail(a)
  PROVE  StoreInv' /\ Moves(a)
<1>1. /\ UNCHANGED <<input, now, central, edge>>
      /\ att[a].pc \in {"reading", "executing", "storing"} /\ TypeOK
  BY DEF Fail, StoreInv
<1>2. Moves(a) /\ att'[a].outcome = "failed"
  BY <1>1, FinishFact DEF Fail, Moves, ProgressOK, Outcomes
<1> QED
  BY <1>1, <1>2, AttemptStep

-----------------------------------------------------------------------------
(* Steps that read or write the store. *)

\* What a read answers with is a genuine record, alive, or the absence of one.
LEMMA CopyFact ==
  ASSUME StoreInv, NEW l \in Locations, NEW k \in StorageKeys
  PROVE  /\ KvCopy(l, k) \in Copies
         /\ Genuine(KvCopy(l, k), k) /\ Genuine(Visible(KvCopy(l, k)), k)
         /\ Visible(KvCopy(l, k)) \in Copies
BY RecordFact DEF StoreInv, TypeOK, KvCopy, Visible

\* A step of the store that forgets no record before its time.
KeepsRecords ==
  \A l \in Locations, k \in StorageKeys, time \in Int :
    /\ LivesUntil(central[k], time) /\ time <= now + Ttl
    /\ edge[l][k] = Uncached \/ LivesUntil(edge[l][k], time)
    => /\ LivesUntil(central'[k], time)
       /\ edge'[l][k] = Uncached \/ LivesUntil(edge'[l][k], time)

\* Whoever was answered before keeps the record of the answer.
LEMMA KeptFact ==
  ASSUME StoreInv, KeepsRecords, NEW b \in Attempts,
         att[b].outcome = "answered", RequestOf(b).keyed, att[b].status # "serverError"
  PROVE  /\ LivesUntil(central'[KeyOf(b)], att[b].finishedAt + Ttl)
         /\ \/ edge'[input[b].loc][KeyOf(b)] = Uncached
            \/ LivesUntil(edge'[input[b].loc][KeyOf(b)], att[b].finishedAt + Ttl)
         /\ att[b].finishedAt <= now
<1>1. KeyOf(b) \in StorageKeys /\ input[b].loc \in Locations /\ att[b].finishedAt \in Int
  BY InputFact DEF StoreInv, Progress
<1>2. /\ LivesUntil(central[KeyOf(b)], att[b].finishedAt + Ttl)
      /\ \/ edge[input[b].loc][KeyOf(b)] = Uncached
         \/ LivesUntil(edge[input[b].loc][KeyOf(b)], att[b].finishedAt + Ttl)
      /\ att[b].finishedAt <= now
  BY DEF StoreInv, AnsweredIsStored
<1>3. att[b].finishedAt + Ttl \in Int /\ att[b].finishedAt + Ttl <= now + Ttl
  BY <1>1, <1>2, TtlAssumption DEF StoreInv, TypeOK
<1> QED
  BY <1>1, <1>2, <1>3 DEF KeepsRecords

LEMMA KeptStep ==
  ASSUME StoreInv, KeepsRecords, NEW a \in Attempts, Moves(a), now' = now,
         central' \in [StorageKeys -> Copies],
         edge' \in [Locations -> [StorageKeys -> Copies]],
         \A k \in StorageKeys : Genuine(central[k], k)',
         \A l \in Locations, k \in StorageKeys : Genuine(edge[l][k], k)',
         att[a].pc # "done",
         att'[a].outcome = "answered" =>
           /\ LivesUntil(central'[KeyOf(a)], now + Ttl)
           /\ LivesUntil(edge'[input[a].loc][KeyOf(a)], now + Ttl)
           /\ att'[a].finishedAt = now
  PROVE  StoreInv'
<1>1. TypeOK'
  BY DEF StoreInv, TypeOK, Moves
<1>2. ASSUME NEW b \in Attempts, att'[b].outcome = "answered",
             RequestOf(b)'.keyed, att'[b].status # "serverError"
      PROVE  /\ LivesUntil(central'[KeyOf(b)], att'[b].finishedAt + Ttl)
             /\ \/ edge'[input[b].loc][KeyOf(b)] = Uncached
                \/ LivesUntil(edge'[input[b].loc][KeyOf(b)], att'[b].finishedAt + Ttl)
             /\ att'[b].finishedAt <= now
  <2>1. CASE b = a
    BY <1>2, <2>1 DEF StoreInv, TypeOK
  <2>2. CASE b # a
    <3>1. att'[b] = att[b] /\ RequestOf(b)' = RequestOf(b)
      BY <2>2, MovesFact DEF Moves
    <3> QED
      BY <1>2, <3>1, KeptFact
  <2> QED
    BY <2>1, <2>2
<1>3. AnsweredIsStored'
  <2>1. \A b \in Attempts : KeyOf(b)' = KeyOf(b) /\ input' = input
    BY MovesFact DEF Moves
  <2> QED
    BY <1>2, <2>1 DEF AnsweredIsStored, LivesUntil
<1> QED
  BY <1>1, <1>3, MovesFact DEF StoreInv

LEMMA ReadStep ==
  ASSUME StoreInv, NEW a \in Attempts, ReadStored(a)
  PROVE  StoreInv' /\ Moves(a)
<1> DEFINE l == input[a].loc
           k == KeyOf(a)
           copy == KvCopy(l, k)
           existing == Visible(copy)
<1>1. /\ TypeOK /\ att[a].pc = "reading" /\ RequestOf(a).keyed
      /\ ProgressOK(a, att[a]) /\ UNCHANGED <<input, now, central>>
      /\ edge' = [edge EXCEPT ![l][k] = copy] /\ Decide(a, existing)
  BY DEF StoreInv, ReadStored, KvGet, ProgressOK
<1>2. l \in Locations /\ k \in StorageKeys
  BY <1>1, InputFact
<1>3. /\ copy \in Copies /\ Genuine(copy, k) /\ Genuine(existing, k)
      /\ existing \in Copies
  BY <1>2, CopyFact
<1> HIDE DEF l, k, copy, existing
<1>4. existing.kind = "stored" => existing.origin \in SUBSET Attempts
  BY <1>3 DEF Genuine
<1>5. Moves(a) /\ att'[a].outcome # "answered"
  <2>1. CASE att' = [att EXCEPT ![a].pc = "executing"]
    BY <1>1, <2>1, ProceedFact DEF Moves, ProgressOK
  <2>2. ASSUME NEW outcome \in {"conflict", "replayed"}, existing.kind = "stored",
               Finish(a, outcome, existing.origin)
        PROVE  Moves(a) /\ att'[a].outcome # "answered"
    <3>1. outcome \in Outcomes /\ outcome # "answered"
      BY DEF Outcomes
    <3> QED
      BY <1>1, <1>4, <2>2, <3>1, FinishFact DEF Moves, ProgressOK
  <2> QED
    BY <1>1, <2>1, <2>2 DEF Decide
<1>6. /\ edge' \in [Locations -> [StorageKeys -> Copies]] /\ edge'[l][k] = copy
      /\ \A m \in Locations, j \in StorageKeys :
           m # l \/ j # k => edge'[m][j] = edge[m][j]
  BY <1>1, <1>2, <1>3 DEF TypeOK
<1>7. KeepsRecords
  <2>1. copy = IF edge[l][k] = Uncached THEN central[k] ELSE edge[l][k]
    BY DEF copy, KvCopy
  <2>2. ASSUME NEW m \in Locations, NEW j \in StorageKeys, NEW time \in Int,
               LivesUntil(central[j], time),
               edge[m][j] = Uncached \/ LivesUntil(edge[m][j], time)
        PROVE  edge'[m][j] = Uncached \/ LivesUntil(edge'[m][j], time)
    BY <1>6, <2>1, <2>2
  <2> QED
    BY <1>1, <2>2 DEF KeepsRecords
<1>8. \A r, j : Genuine(r, j) => Genuine(r, j)'
  BY <1>5, MovesFact
<1>9. \A j \in StorageKeys : Genuine(central[j], j)'
  BY <1>1, <1>5, MovesFact DEF StoreInv
<1>10. ASSUME NEW m \in Locations, NEW j \in StorageKeys
       PROVE  Genuine(edge[m][j], j)'
  <2>1. Genuine(edge'[m][j], j)
    BY <1>2, <1>3, <1>6 DEF StoreInv
  <2> QED
    BY <1>1, <1>5, <2>1, MovesFact DEF Genuine, Moves
<1> QED
  BY <1>1, <1>5, <1>6, <1>7, <1>9, <1>10, KeptStep DEF StoreInv, TypeOK
LEMMA RecordOfFact ==
  ASSUME TypeOK, NEW a \in Attempts, att[a].status \in Replayable
  PROVE  /\ Record(a) \in Copies
         /\ Record(a).kind = "stored" /\ Record(a).expiresAt = now + Ttl
         /\ Record(a).origin = {a} /\ Record(a).fp = {input[a].fp}
<1> DEFINE fps == {{f} : f \in Fingerprints}
           origins == {{o} : o \in Attempts}
           fp == {input[a].fp}
           origin == {a}
<1>1. /\ fp \in fps /\ origin \in origins
      /\ att[a].status \in {"success", "clientError"} /\ now + Ttl \in Int
  BY InputFact, TtlAssumption DEF InputType, TypeOK, Replayable
<1>2. /\ Record(a) = [kind |-> "stored", fp |-> fp, origin |-> origin,
                      status |-> att[a].status, expiresAt |-> now + Ttl]
      /\ StoredRecords = [kind : {"stored"}, fp : fps, origin : origins,
                          status : {"success", "clientError"}, expiresAt : Int]
  BY DEF Record, StoredResponse, StoredRecords
<1> HIDE DEF fps, origins, fp, origin
<1>3. /\ Record(a) \in StoredRecords /\ Record(a).kind = "stored"
      /\ Record(a).expiresAt = now + Ttl
      /\ Record(a).origin = origin /\ Record(a).fp = fp
  BY <1>1, <1>2
<1> QED
  BY <1>3 DEF Copies, fp, origin

\* Store and LostAfterStore: the put took effect.
LEMMA PutStep ==
  ASSUME StoreInv, NEW a \in Attempts, NEW outcome \in {"answered", "failed"},
         NEW origin \in SUBSET Attempts,
         att[a].pc = "storing", KvPut(input[a].loc, KeyOf(a), Record(a)),
         Finish(a, outcome, origin), UNCHANGED <<input, now>>
  PROVE  StoreInv' /\ Moves(a)
<1> DEFINE l == input[a].loc
           k == KeyOf(a)
           record == Record(a)
<1>1. /\ TypeOK /\ RequestOf(a).keyed /\ att[a].status \in Replayable
      /\ ProgressOK(a, att[a])
  BY DEF StoreInv, ProgressOK
<1>2. l \in Locations /\ k \in StorageKeys
  BY <1>1, InputFact
<1>3. /\ record \in Copies /\ record.kind = "stored" /\ record.expiresAt = now + Ttl
      /\ record.origin = {a} /\ record.fp = {input[a].fp}
  BY <1>1, RecordOfFact
<1>4. /\ central' = [central EXCEPT ![k] = record]
      /\ edge' = [edge EXCEPT ![l][k] = record]
  BY DEF KvPut
<1> HIDE DEF l, k, record
<1>5. Moves(a) /\ att'[a].finishedAt = now
  BY <1>1, FinishFact DEF Moves, ProgressOK, Outcomes
<1>6. /\ edge' \in [Locations -> [StorageKeys -> Copies]] /\ edge'[l][k] = record
      /\ \A m \in Locations, j \in StorageKeys :
           m # l \/ j # k => edge'[m][j] = edge[m][j]
      /\ central' \in [StorageKeys -> Copies] /\ central'[k] = record
      /\ \A j \in StorageKeys : j # k => central'[j] = central[j]
  BY <1>1, <1>2, <1>3, <1>4 DEF TypeOK
<1>7. \A time \in Int : time <= now + Ttl => LivesUntil(record, time)
  BY <1>1, <1>3, TtlAssumption DEF LivesUntil, TypeOK
<1>8. KeepsRecords
  BY <1>6, <1>7 DEF KeepsRecords
<1>9. Genuine(record, k)
  BY <1>1, <1>3 DEF Genuine, k
<1>10. ASSUME NEW j \in StorageKeys
       PROVE  Genuine(central[j], j)'
  <2>1. Genuine(central'[j], j)
    BY <1>6, <1>9 DEF StoreInv
  <2> QED
    BY <1>5, <2>1, MovesFact DEF Genuine, Moves
<1>11. ASSUME NEW m \in Locations, NEW j \in StorageKeys
       PROVE  Genuine(edge[m][j], j)'
  <2>1. Genuine(edge'[m][j], j)
    BY <1>6, <1>9 DEF StoreInv
  <2> QED
    BY <1>5, <2>1, MovesFact DEF Genuine, Moves
<1>12. /\ LivesUntil(central'[KeyOf(a)], now + Ttl)
       /\ LivesUntil(edge'[input[a].loc][KeyOf(a)], now + Ttl)
  BY <1>1, <1>6, <1>7, TtlAssumption DEF k, l, TypeOK
<1> QED
  BY <1>5, <1>6, <1>8, <1>10, <1>11, <1>12, KeptStep

-----------------------------------------------------------------------------
(* Steps of the environment. *)

LEMMA TickStep ==
  ASSUME StoreInv, Tick
  PROVE  StoreInv'
<1>1. UNCHANGED <<input, central, edge, att>> /\ now' = now + 1 /\ now \in Nat
  BY DEF Tick, StoreInv, TypeOK
<1>2. TypeOK'
  BY <1>1 DEF StoreInv, TypeOK
<1>3. \A a \in Attempts : RequestOf(a)' = RequestOf(a) /\ KeyOf(a)' = KeyOf(a)
  BY <1>1 DEF RequestOf, KeyOf
<1>4. /\ \A a \in Attempts : ProgressOK(a, att[a])'
      /\ \A k \in StorageKeys : Genuine(central[k], k)'
      /\ \A l \in Locations, k \in StorageKeys : Genuine(edge[l][k], k)'
  BY <1>1, <1>3 DEF StoreInv, ProgressOK, Genuine
<1>5. AnsweredIsStored'
  BY <1>1, <1>3 DEF StoreInv, AnsweredIsStored, LivesUntil, TypeOK, Progress
<1> QED
  BY <1>2, <1>4, <1>5 DEF StoreInv

LEMMA DropStep ==
  ASSUME StoreInv, NEW l \in Locations, NEW k \in StorageKeys, DropCopy(l, k)
  PROVE  StoreInv'
<1>1. UNCHANGED <<input, now, central, att>> /\ edge' = [edge EXCEPT ![l][k] = Uncached]
  BY DEF DropCopy
<1>2. /\ edge' \in [Locations -> [StorageKeys -> Copies]]
      /\ \A m \in Locations, j \in StorageKeys :
           edge'[m][j] = Uncached \/ edge'[m][j] = edge[m][j]
  BY <1>1, RecordFact DEF StoreInv, TypeOK
<1>3. TypeOK'
  BY <1>1, <1>2 DEF StoreInv, TypeOK
<1>4. \A a \in Attempts : RequestOf(a)' = RequestOf(a) /\ KeyOf(a)' = KeyOf(a)
  BY <1>1 DEF RequestOf, KeyOf
<1>5. /\ \A a \in Attempts : ProgressOK(a, att[a])'
      /\ \A j \in StorageKeys : Genuine(central[j], j)'
  BY <1>1, <1>4 DEF StoreInv, ProgressOK, Genuine
<1>6. ASSUME NEW m \in Locations, NEW j \in StorageKeys
      PROVE  Genuine(edge[m][j], j)'
  <2>1. Genuine(edge'[m][j], j)
    BY <1>2, RecordFact DEF StoreInv
  <2> QED
    BY <1>1, <1>4, <2>1 DEF Genuine
<1>7. AnsweredIsStored'
  <2>1. ASSUME NEW a \in Attempts, RequestOf(a).keyed
        PROVE  input[a].loc \in Locations /\ KeyOf(a) \in StorageKeys
    BY <2>1, InputFact DEF StoreInv
  <2> QED
    BY <1>1, <1>2, <1>4, <2>1 DEF StoreInv, AnsweredIsStored, LivesUntil
<1> QED
  BY <1>3, <1>5, <1>6, <1>7 DEF StoreInv

LEMMA StutterStep ==
  ASSUME StoreInv, UNCHANGED vars
  PROVE  StoreInv'
<1>1. UNCHANGED <<input, now, central, edge, att>>
  BY DEF vars
<1>2. \A a \in Attempts : RequestOf(a)' = RequestOf(a) /\ KeyOf(a)' = KeyOf(a)
  BY <1>1 DEF RequestOf, KeyOf
<1> QED
  BY <1>1, <1>2 DEF StoreInv, TypeOK, ProgressOK, Genuine, AnsweredIsStored, LivesUntil

\* The steps of one attempt.
AttemptSteps(a) == Handle(a) \/ LostAfterStore(a) \/ Fail(a)

LEMMA HandlerStep ==
  ASSUME StoreInv, NEW a \in Attempts, AttemptSteps(a)
  PROVE  StoreInv' /\ Moves(a)
<1>1. CASE Store(a) \/ LostAfterStore(a)
  <2>1. {a} \in SUBSET Attempts /\ {} \in SUBSET Attempts
    OBVIOUS
  <2> QED
    BY <1>1, <2>1, PutStep DEF Store, LostAfterStore
<1> QED
  BY <1>1, ArriveStep, ReadStep, ExecuteStep, FailStep DEF AttemptSteps, Handle

LEMMA StoreStep == StoreInv /\ [Next]_vars => StoreInv'
<1> SUFFICES ASSUME StoreInv, [Next]_vars PROVE StoreInv'
  OBVIOUS
<1>1. CASE \E a \in Attempts : AttemptSteps(a)
  BY <1>1, HandlerStep
<1>2. CASE UNCHANGED vars
  BY <1>2, StutterStep
<1> QED
  BY <1>1, <1>2, TickStep, DropStep DEF Next, AttemptSteps

\* In every state, each record that a location may read is the response, never
\* a 5xx, of an execution of a keyed request stored under the key it was sent
\* with, and the record of an answered attempt lives for Ttl where it is read.
THEOREM StoreInvariant == Spec => []StoreInv
BY StoreInit, StoreStep, PTL DEF Spec

\* The state keeps the shapes that the code's types give it.
THEOREM IdempotencyTypes == Spec => []TypeOK
<1>1. StoreInv => TypeOK
  BY DEF StoreInv
<1> QED
  BY <1>1, StoreInvariant, PTL

-----------------------------------------------------------------------------
(* An answered request is not executed again. *)

LEMMA ReadsNothing ==
  ASSUME StoreInv, [Next]_vars, NEW b \in Attempts,
         att[b].pc = "reading", att'[b].pc = "executing"
  PROVE  Visible(KvCopy(input[b].loc, KeyOf(b))).kind = "none"
<1>1. att' # att
  OBVIOUS
<1>2. PICK a \in Attempts : AttemptSteps(a)
  BY <1>1 DEF Next, AttemptSteps, vars, Tick, DropCopy
<1>3. a = b
  <2>1. Moves(a)
    BY <1>2, HandlerStep
  <2> QED
    BY <2>1 DEF Moves
<1>4. \A outcome \in Outcomes, origin \in SUBSET Attempts : ~Finish(b, outcome, origin)
  BY FinishFact DEF StoreInv
<1>5. ReadStored(b)
  <2>1. {} \in SUBSET Attempts /\ "failed" \in Outcomes
    BY DEF Outcomes
  <2>2. ~Fail(b)
    BY <1>4, <2>1 DEF Fail
  <2> QED
    BY <1>2, <1>3, <2>2 DEF AttemptSteps, Handle, Arrive, Execute, Store, LostAfterStore
<1> DEFINE existing == Visible(KvCopy(input[b].loc, KeyOf(b)))
<1>6. existing.kind = "stored" => existing.origin \in SUBSET Attempts
  <2>1. RequestOf(b).keyed
    BY DEF StoreInv, ProgressOK
  <2>2. Genuine(existing, KeyOf(b))
    BY <2>1, InputFact, CopyFact DEF StoreInv
  <2> QED
    BY <2>2 DEF Genuine
<1>7. Decide(b, existing)
  BY <1>5 DEF ReadStored
<1> HIDE DEF existing
<1>8. existing.kind = "none"
  BY <1>4, <1>6, <1>7 DEF Decide, Outcomes
<1> QED
  BY <1>8 DEF existing

LEMMA AnsweredOnceStep ==
  ASSUME StoreInv, [Next]_vars, NEW a \in Attempts, NEW b \in Attempts,
         att[b].pc = "reading", att'[b].pc = "executing",
         att[a].outcome = "answered", RequestOf(a).keyed,
         att[a].status # "serverError", KeyOf(a) = KeyOf(b),
         \/ input[b].loc = input[a].loc
         \/ edge[input[b].loc][KeyOf(b)] = Uncached
  PROVE  now >= att[a].finishedAt + Ttl
<1> DEFINE copy == KvCopy(input[b].loc, KeyOf(b))
           until == att[a].finishedAt + Ttl
<1>1. /\ LivesUntil(central[KeyOf(b)], until)
      /\ \/ edge[input[a].loc][KeyOf(b)] = Uncached
         \/ LivesUntil(edge[input[a].loc][KeyOf(b)], until)
  BY DEF StoreInv, AnsweredIsStored
<1>2. LivesUntil(copy, until)
  BY <1>1 DEF KvCopy
<1>3. copy \in Copies /\ now \in Int /\ until \in Int
  BY InputFact, CopyFact, TtlAssumption DEF StoreInv, TypeOK, Progress
<1>4. Visible(copy).kind = "none"
  BY ReadsNothing
<1> HIDE DEF copy, until
<1>5. copy.kind = "stored" /\ copy.expiresAt >= until /\ copy.expiresAt \in Int
  <2>1. copy.kind = "stored" /\ copy.expiresAt >= until
    BY <1>2 DEF LivesUntil
  <2> QED
    BY <1>3, <2>1, RecordFact DEF Copies, StoredRecords
<1>6. ~(copy.expiresAt > now)
  BY <1>4, <1>5 DEF Visible
<1>7. now >= until
  BY <1>3, <1>5, <1>6
<1> QED
  BY <1>7 DEF until

\* Once a caller was answered with a stored response, no retry under the same
\* key executes while the record lives, if it reads where the answer was given
\* or where no copy of the key is held.
THEOREM AnsweredRequestsExecuteOnce == Spec => AnsweredOnce
<1>1. StoreInv /\ [Next]_vars
        => [\A a, b \in Attempts :
              (/\ att[b].pc = "reading" /\ att'[b].pc = "executing"
               /\ att[a].outcome = "answered" /\ RequestOf(a).keyed
               /\ att[a].status # "serverError"
               /\ KeyOf(a) = KeyOf(b)
               /\ \/ input[b].loc = input[a].loc
                  \/ edge[input[b].loc][KeyOf(b)] = Uncached)
                => now >= att[a].finishedAt + Ttl]_vars
  BY AnsweredOnceStep
<1> QED
  BY <1>1, StoreInvariant, PTL DEF Spec, AnsweredOnce

-----------------------------------------------------------------------------
(* The middleware implements the contract. *)

\* The contract's variables, as Promise reads them off the state.
Answer(a) == [kind |-> AnswerKind(a), origin |-> att[a].origin]

RequestBar   == [a \in Attempts |-> RequestOf(a)]
ExecutionBar == [a \in Attempts |-> att[a].status]
AnswerBar    == [a \in Attempts |-> Answer(a)]

LEMMA AnswerFact ==
  ASSUME NEW a \in Attempts, ProgressOK(a, att[a])
  PROVE  /\ att[a].pc # "done" => Answer(a) = Promise!Pending
         /\ att[a].pc = "done" =>
              /\ att[a].outcome = "answered" => Answer(a).kind = "own"
              /\ att[a].outcome = "replayed" => Answer(a).kind = "replay"
              /\ att[a].outcome = "keyRequired" => Answer(a).kind = "refused"
              /\ att[a].outcome \in {"conflict", "failed"} => Answer(a).kind = att[a].outcome
BY DEF Answer, AnswerKind, Promise!Pending, ProgressOK

\* A move of one attempt, seen through the contract.
LEMMA BarFact ==
  ASSUME StoreInv, NEW a \in Attempts, Moves(a)
  PROVE  /\ RequestBar' = RequestBar
         /\ ExecutionBar' = [ExecutionBar EXCEPT ![a] = att'[a].status]
         /\ AnswerBar' = [AnswerBar EXCEPT ![a] = Answer(a)']
<1>1. \A o \in Attempts : RequestOf(o)' = RequestOf(o)
  BY MovesFact
<1>2. \A o \in Attempts \ {a} : Answer(o)' = Answer(o)
  BY DEF Answer, AnswerKind, Moves
<1>3. \A o \in Attempts \ {a} : att'[o].status = att[o].status
  BY DEF Moves
<1> QED
  BY <1>1, <1>2, <1>3 DEF RequestBar, ExecutionBar, AnswerBar

\* A move that neither executes nor answers is not seen at all.
LEMMA UnseenMove ==
  ASSUME StoreInv, NEW a \in Attempts, Moves(a), att[a].pc # "done",
         att'[a].pc # "done", att'[a].status = att[a].status
  PROVE  UNCHANGED <<RequestBar, ExecutionBar, AnswerBar>>
<1>1. ProgressOK(a, att[a]) /\ ProgressOK(a, att[a])'
  BY MovesFact DEF StoreInv
<1>2. Answer(a) = Promise!Pending
  BY <1>1, AnswerFact
<1>3. Answer(a)' = Promise!Pending
  BY <1>1 DEF Answer, AnswerKind, Promise!Pending, ProgressOK
<1> QED
  BY <1>2, <1>3, BarFact DEF ExecutionBar, AnswerBar

\* A move that answers.
LEMMA AnswerMove ==
  ASSUME StoreInv, NEW a \in Attempts, Moves(a), att[a].pc # "done",
         NEW kind, NEW origin, AnswerKind(a)' = kind, att'[a].origin = origin
  PROVE  Promise!AnswerWith(a, kind, origin)
<1>1. Answer(a) = Promise!Pending
  BY AnswerFact DEF StoreInv
<1>2. AnswerBar' = [AnswerBar EXCEPT ![a] = [kind |-> kind, origin |-> origin]]
  BY BarFact DEF Answer
<1> QED
  BY <1>1, <1>2 DEF Promise!AnswerWith, AnswerBar, Answer

LEMMA UnchangedExecution ==
  ASSUME StoreInv, NEW a \in Attempts, Moves(a), att'[a].status = att[a].status
  PROVE  UNCHANGED [o \in Attempts |-> att[o].status]
BY DEF Moves
LEMMA ExecuteMove ==
  ASSUME StoreInv, NEW a \in Attempts, Moves(a), att[a].pc = "executing",
         NEW status, att'[a].status = status
  PROVE  Promise!Executes(a, status)
<1>1. Answer(a) = Promise!Pending /\ att[a].status = "none"
  BY AnswerFact DEF StoreInv, ProgressOK
<1>2. ExecutionBar' = [ExecutionBar EXCEPT ![a] = status]
  BY BarFact
<1> QED
  BY <1>1, <1>2 DEF Promise!Executes, ExecutionBar, Answer

\* The contract's step, or a stutter.
ContractStep == Promise!ContractNext \/ UNCHANGED Promise!contractVars

LEMMA ContractMove ==
  ASSUME StoreInv, NEW a \in Attempts, Moves(a),
         \/ Promise!ExecuteAndAnswer(a) \/ Promise!ExecuteOnly(a) \/ Promise!AnswerOwn(a)
         \/ Promise!Replay(a) \/ Promise!Conflict(a) \/ Promise!Refuse(a) \/ Promise!Fail(a)
  PROVE  ContractStep
BY BarFact DEF ContractStep, Promise!ContractNext, RequestBar

LEMMA UnseenStep ==
  ASSUME UNCHANGED <<RequestBar, ExecutionBar, AnswerBar>>
  PROVE  ContractStep
BY DEF ContractStep, Promise!contractVars, RequestBar, ExecutionBar, AnswerBar, Answer

LEMMA ArriveContract ==
  ASSUME StoreInv, NEW a \in Attempts, Arrive(a)
  PROVE  ContractStep
<1>1. Moves(a) /\ TypeOK /\ att[a].pc = "idle" /\ ProgressOK(a, att[a])
  BY ArriveStep DEF Arrive, StoreInv
<1>2. CASE Finish(a, "keyRequired", {}) /\ input[a].rawKey = NoKey
  <2>1. /\ att'[a].pc = "done" /\ att'[a].status = att[a].status
        /\ att'[a].outcome = "keyRequired" /\ att'[a].origin = {}
    BY <1>1, <1>2, FinishFact DEF Outcomes
  <2>2. AnswerKind(a)' = "refused"
    BY <2>1 DEF AnswerKind
  <2>3. Promise!AnswerWith(a, "refused", {})
    BY <1>1, <2>1, <2>2, AnswerMove
  <2>4. ~Promise!Keyed(a) /\ [o \in Attempts |-> att[o].status][a] = "none"
    BY <1>1, <1>2 DEF Promise!Keyed, RequestOf, ProgressOK
  <2>5. UNCHANGED [o \in Attempts |-> att[o].status]
    BY <1>1, <2>1, UnchangedExecution
  <2>6. Promise!Refuse(a)
    BY <2>3, <2>4, <2>5 DEF Promise!Refuse
  <2> QED
    BY <1>1, <2>6, ContractMove
<1>3. ASSUME NEW pc \in {"executing", "reading"}, att' = [att EXCEPT ![a].pc = pc]
      PROVE  ContractStep
  <2>1. att'[a].pc # "done" /\ att'[a].status = att[a].status
    BY <1>1, <1>3, ProceedFact
  <2> QED
    BY <1>1, <2>1, UnseenMove, UnseenStep
<1> QED
  BY <1>2, <1>3 DEF Arrive

LEMMA ExecuteContract ==
  ASSUME StoreInv, NEW a \in Attempts, NEW status \in Statuses, Execute(a, status)
  PROVE  ContractStep
<1>1. /\ Moves(a) /\ TypeOK /\ att[a].pc = "executing" /\ ProgressOK(a, att[a])
      /\ att \in [Attempts -> Progress]
  BY ExecuteStep DEF Execute, StoreInv, TypeOK
<1>2. att'[a].status = status => Promise!Executes(a, status)
  BY <1>1, ExecuteMove
<1>3. CASE att' = [att EXCEPT ![a].pc = "storing", ![a].status = status]
  <2>1. att'[a].pc = "storing" /\ att'[a].status = status
    BY <1>1, <1>3 DEF Progress
  <2>2. Answer(a)' = Answer(a)
    <3>1. ProgressOK(a, att[a])'
      BY <1>1, MovesFact
    <3>2. Answer(a) = Promise!Pending
      BY <1>1, AnswerFact
    <3> QED
      BY <2>1, <3>1, <3>2 DEF Answer, AnswerKind, Promise!Pending, ProgressOK
  <2>3. AnswerBar' = AnswerBar
    BY <1>1, <2>2, BarFact DEF AnswerBar
  <2>4. UNCHANGED [o \in Attempts |-> [kind |-> AnswerKind(o), origin |-> att[o].origin]]
    BY <2>3 DEF AnswerBar, Answer
  <2>5. Promise!ExecuteOnly(a)
    BY <1>2, <2>1, <2>4 DEF Promise!ExecuteOnly
  <2> QED
    BY <1>1, <2>5, ContractMove
<1>4. CASE att' = [att EXCEPT ![a].pc = "done", ![a].status = status,
                              ![a].outcome = "answered", ![a].origin = {a},
                              ![a].finishedAt = now]
  <2>1. /\ att'[a] = [att[a] EXCEPT !.pc = "done", !.status = status,
                         !.outcome = "answered", !.origin = {a}, !.finishedAt = now]
        /\ att[a] \in Progress
    BY <1>1, <1>4
  <2>2. /\ att'[a].pc = "done" /\ att'[a].status = status
        /\ att'[a].outcome = "answered" /\ att'[a].origin = {a}
    BY <2>1 DEF Progress
  <2>3. AnswerKind(a)' = "own"
    BY <2>2 DEF AnswerKind
  <2>4. Promise!AnswerWith(a, "own", {a})
    BY <1>1, <2>2, <2>3, AnswerMove
  <2>5. Promise!ExecuteAndAnswer(a)
    BY <1>2, <2>2, <2>4 DEF Promise!ExecuteAndAnswer
  <2> QED
    BY <1>1, <2>5, ContractMove
<1> QED
  BY <1>3, <1>4 DEF Execute

\* A failed attempt: Fail and LostAfterStore.
LEMMA FailContract ==
  ASSUME StoreInv, NEW a \in Attempts, Moves(a), att[a].pc # "done",
         Finish(a, "failed", {})
  PROVE  ContractStep
<1>1. /\ att'[a].pc = "done" /\ att'[a].status = att[a].status
      /\ att'[a].outcome = "failed" /\ att'[a].origin = {}
  BY FinishFact DEF Outcomes, StoreInv
<1>2. AnswerKind(a)' = "failed"
  BY <1>1 DEF AnswerKind
<1>3. Promise!AnswerWith(a, "failed", {})
  BY <1>1, <1>2, AnswerMove
<1>4. Promise!Fail(a)
  BY <1>1, <1>3, UnchangedExecution DEF Promise!Fail
<1> QED
  BY <1>4, ContractMove

LEMMA StoreContract ==
  ASSUME StoreInv, NEW a \in Attempts, Store(a)
  PROVE  ContractStep
<1>1. /\ Moves(a) /\ att[a].pc = "storing" /\ TypeOK
      /\ att[a].status \in Replayable /\ Finish(a, "answered", {a})
  BY HandlerStep DEF AttemptSteps, Handle, Store, StoreInv, ProgressOK
<1>2. "answered" \in Outcomes /\ {a} \in SUBSET Attempts
  BY DEF Outcomes
<1>3. /\ att'[a].pc = "done" /\ att'[a].status = att[a].status
      /\ att'[a].outcome = "answered" /\ att'[a].origin = {a}
  BY <1>1, <1>2, FinishFact
<1>4. AnswerKind(a)' = "own"
  BY <1>3 DEF AnswerKind
<1>5. Promise!AnswerWith(a, "own", {a})
  BY <1>1, <1>3, <1>4, AnswerMove
<1>6. Promise!AnswerOwn(a)
  BY <1>1, <1>3, <1>5, UnchangedExecution DEF Promise!AnswerOwn, Replayable
<1> QED
  BY <1>1, <1>6, ContractMove

LEMMA ReadContract ==
  ASSUME StoreInv, NEW a \in Attempts, ReadStored(a)
  PROVE  ContractStep
<1> DEFINE existing == Visible(KvCopy(input[a].loc, KeyOf(a)))
<1>1. /\ Moves(a) /\ att[a].pc = "reading" /\ TypeOK /\ RequestOf(a).keyed
      /\ att[a].status = "none" /\ Decide(a, existing)
  BY ReadStep DEF ReadStored, StoreInv, ProgressOK
<1>2. Genuine(existing, KeyOf(a))
  BY <1>1, InputFact, CopyFact
<1> HIDE DEF existing
<1>3. CASE att' = [att EXCEPT ![a].pc = "executing"]
  <2>1. att'[a].pc # "done" /\ att'[a].status = att[a].status
    BY <1>1, <1>3, ProceedFact
  <2> QED
    BY <1>1, <2>1, UnseenMove, UnseenStep
<1>4. ASSUME NEW outcome \in {"conflict", "replayed"}, existing.kind = "stored",
             Finish(a, outcome, existing.origin),
             outcome = "replayed" <=> existing.fp = {input[a].fp}
      PROVE  ContractStep
  <2>1. PICK o \in Attempts :
          /\ existing.origin = {o} /\ existing.fp = {input[o].fp}
          /\ RequestOf(o).keyed /\ KeyOf(o) = KeyOf(a) /\ att[o].status \in Replayable
    BY <1>2, <1>4 DEF Genuine
  <2>2. outcome \in Outcomes /\ existing.origin \in SUBSET Attempts
    BY <2>1 DEF Outcomes
  <2>3. /\ att'[a].pc = "done" /\ att'[a].status = att[a].status
        /\ att'[a].outcome = outcome /\ att'[a].origin = {o}
    BY <1>1, <1>4, <2>1, <2>2, FinishFact
  <2>4. Promise!Keyed(a) /\ Promise!Keyed(o)
    BY <1>1, <2>1 DEF Promise!Keyed
  <2>5. Promise!SameKey(a, o)
    BY <1>1, <2>1, SameStorageKey DEF Promise!SameKey, RequestOf
  <2>6. Promise!SameRequest(a, o) <=> outcome = "replayed"
    BY <1>4, <2>1, <2>5 DEF Promise!SameRequest, RequestOf
  <2>7. /\ [b \in Attempts |-> att[b].status][a] = "none"
        /\ [b \in Attempts |-> att[b].status][o] \in {"success", "clientError"}
    BY <1>1, <2>1 DEF Replayable
  <2>8. UNCHANGED [b \in Attempts |-> att[b].status]
    BY <1>1, <2>3, UnchangedExecution
  <2>9. CASE outcome = "replayed"
    <3>1. AnswerKind(a)' = "replay"
      BY <2>3, <2>9 DEF AnswerKind
    <3>2. Promise!AnswerWith(a, "replay", {o})
      BY <1>1, <2>3, <3>1, AnswerMove
    <3>3. Promise!Replay(a)
      BY <2>4, <2>6, <2>7, <2>8, <2>9, <3>2 DEF Promise!Replay
    <3> QED
      BY <1>1, <3>3, ContractMove
  <2>10. CASE outcome = "conflict"
    <3>1. AnswerKind(a)' = "conflict"
      BY <2>3, <2>10 DEF AnswerKind
    <3>2. Promise!AnswerWith(a, "conflict", {o})
      BY <1>1, <2>3, <3>1, AnswerMove
    <3>3. Promise!Conflict(a)
      BY <2>4, <2>5, <2>6, <2>7, <2>8, <2>10, <3>2 DEF Promise!Conflict
    <3> QED
      BY <1>1, <3>3, ContractMove
  <2> QED
    BY <2>9, <2>10
<1> QED
  BY <1>1, <1>3, <1>4 DEF Decide
LEMMA ContractInitially == Init => Promise!ContractInit
<1> SUFFICES ASSUME Init PROVE Promise!ContractInit
  OBVIOUS
<1>1. \A a \in Attempts : att[a] = NewAttempt /\ input[a] \in InputType
  BY InputsAssumption DEF Init
<1>2. \A a \in Attempts :
        RequestOf(a) \in [keyed : BOOLEAN, caller : Callers,
                          key : RawKeys \union {NoKey}, fp : Fingerprints]
  BY <1>1 DEF RequestOf, InputType
<1>3. \A a \in Attempts :
        /\ att[a].status = "none"
        /\ AnswerKind(a) = "pending" /\ att[a].origin = {}
  BY <1>1 DEF NewAttempt, AnswerKind
<1> QED
  BY <1>2, <1>3 DEF Promise!ContractInit, Promise!Pending

LEMMA ContractHolds == StoreInv /\ [Next]_vars => ContractStep
<1> SUFFICES ASSUME StoreInv, [Next]_vars PROVE ContractStep
  OBVIOUS
<1>1. ASSUME NEW a \in Attempts, AttemptSteps(a)
      PROVE  ContractStep
  <2>1. CASE Fail(a) \/ LostAfterStore(a)
    <3>1. Moves(a) /\ att[a].pc # "done" /\ Finish(a, "failed", {})
      BY <1>1, <2>1, HandlerStep DEF Fail, LostAfterStore
    <3> QED
      BY <3>1, FailContract
  <2> QED
    BY <1>1, <2>1, ArriveContract, ReadContract, ExecuteContract, StoreContract
    DEF AttemptSteps, Handle
<1>2. ASSUME UNCHANGED <<input, att>>
      PROVE  ContractStep
  <2>1. UNCHANGED <<RequestBar, ExecutionBar, AnswerBar>>
    BY <1>2 DEF RequestBar, RequestOf, ExecutionBar, AnswerBar, Answer, AnswerKind
  <2> QED
    BY <2>1, UnseenStep
<1> QED
  BY <1>1, <1>2 DEF Next, AttemptSteps, vars, Tick, DropCopy

\* The middleware implements the contract of idempotency keys, whatever stale
\* copies the locations read and wherever an await fails.
THEOREM IdempotencyKeepsContract == Spec => KeepsContract
<1>1. StoreInv /\ [Next]_vars => [Promise!ContractNext]_Promise!contractVars
  BY ContractHolds DEF ContractStep
<1> QED
  BY <1>1, ContractInitially, StoreInvariant, PTL DEF Spec, KeepsContract, Promise!Contract
=============================================================================
