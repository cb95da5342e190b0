-------------------------- MODULE RateLimitProofs ---------------------------
(***************************************************************************)
(* Proofs about the gateway's rate limiters.  DurableRateLimit: under the  *)
(* input gate, the stored count is the number of admissions of the stored  *)
(* window, windows never overlap, and so the limits hold for every limit,  *)
(* period and number of concurrent requests.  MemoryRateLimit: the count   *)
(* of a bucket is the number of passages since it was opened, up to the    *)
(* limit, for every number of keys.                                        *)
(***************************************************************************)
EXTENDS DurableRateLimit, MemoryRateLimit, FiniteSetTheorems, TLAPS

-----------------------------------------------------------------------------
(* The inductive invariant. *)

\* The input gate serializes limit(): while one call awaits storage no other
\* does, so what it read is still what is stored.
ReadIsCurrent ==
  \A r \in Requests : call[r].pc = "reading" =>
    /\ call[r].existing = stored
    /\ stored.windowStart <= call[r].at /\ call[r].at <= now
    /\ \A s \in Requests : call[s].pc = "reading" => s = r
    /\ \A e \in log : e.at <= call[r].at

\* An admission lies in its window, and belongs to a request that was replied
\* to.
LogConsistent ==
  \A e \in log :
    /\ e.window <= e.at /\ e.at < e.window + Period /\ e.at <= now
    /\ call[e.request].pc \notin {"idle", "called", "reading"}

\* Windows are a period apart, and the stored one is the last; none begins
\* before the clock does, except the empty one of an empty storage.
WindowsDisjoint ==
  /\ stored.windowStart \in Nat \union {-Period}
  /\ \A e, f \in log : e.window < f.window => e.window + Period <= f.window
  /\ \A e \in log :
       e.window = stored.windowStart \/ e.window + Period <= stored.windowStart

CountIsCardinality ==
  /\ IsFiniteSet(log)
  /\ Cardinality(InWindow(stored.windowStart)) = stored.count

LimitInv ==
  /\ TypeOK
  /\ stored.windowStart <= now
  /\ ReadIsCurrent
  /\ LogConsistent
  /\ WindowsDisjoint
  /\ CountIsCardinality
  /\ WindowLimit
  /\ RefusedOnlyWhenSpent

\* With no call made, nothing is stored, read or admitted.
LEMMA LimitInit == Init => LimitInv
<1> SUFFICES ASSUME Init PROVE LimitInv
  OBVIOUS
<1> USE DEF Init
<1>1. TypeOK
  BY LimitAssumption, PeriodAssumption DEF TypeOK, NoWindow, NewCall, Windows, Calls
<1>2. CountIsCardinality
  <2>1. InWindow(stored.windowStart) = {} /\ log = {}
    BY DEF InWindow
  <2> QED
    BY <2>1, FS_EmptySet DEF CountIsCardinality, NoWindow
<1>3. \A r \in Requests : call[r].pc = "idle"
  BY DEF NewCall
<1> QED
  BY <1>1, <1>2, <1>3, PeriodAssumption DEF LimitInv, ReadIsCurrent, LogConsistent,
     WindowsDisjoint, WindowLimit, RefusedOnlyWhenSpent, NoWindow

\* The admissions that refuse a request at time "time".
Recent(admissions, time) ==
  {e \in admissions : time - Period < e.at /\ e.at <= time}

\* Steps that only move a call along, and steps of the clock.
LEMMA QuietStep ==
  ASSUME LimitInv, TypeOK', now' \in {now, now + 1}, UNCHANGED <<stored, log>>,
         \A r \in Requests :
           \/ call'[r] = call[r]
           \/ call'[r].pc \in {"called", "failed", "admitted"}
           \/ /\ call[r].pc = "replied" /\ ~call[r].success
              /\ call'[r] = [call[r] EXCEPT !.pc = "limited"],
         \A e \in log : call'[e.request].pc \notin {"idle", "called", "reading"}
  PROVE  LimitInv'
<1>1. TypeOK /\ now \in Nat /\ stored.windowStart \in Int
  BY DEF LimitInv, TypeOK, Windows
<1>2. stored'.windowStart <= now'
  BY <1>1 DEF LimitInv
<1>3. ASSUME NEW r \in Requests, call'[r].pc = "reading" PROVE call'[r] = call[r]
  BY <1>1, <1>3 DEF TypeOK, Calls
<1>4. ReadIsCurrent'
  <2>1. ASSUME NEW r \in Requests, call'[r].pc = "reading"
        PROVE  /\ call'[r].existing = stored
               /\ stored.windowStart <= call'[r].at /\ call'[r].at <= now'
               /\ \A s \in Requests : call'[s].pc = "reading" => s = r
               /\ \A e \in log : e.at <= call'[r].at
    <3>1. call'[r] = call[r] /\ call[r].pc = "reading" /\ call[r].at \in Nat
      BY <1>1, <1>3, <2>1 DEF TypeOK, Calls
    <3> QED
      BY <1>1, <1>3, <2>1, <3>1 DEF LimitInv, ReadIsCurrent
  <2> QED
    BY <2>1 DEF ReadIsCurrent
<1>5. LogConsistent'
  <2>1. \A e \in log : e.at \in Nat
    BY <1>1 DEF TypeOK
  <2> QED
    BY <1>1, <2>1 DEF LimitInv, LogConsistent
<1>6. WindowsDisjoint' /\ CountIsCardinality' /\ WindowLimit'
  BY DEF LimitInv, WindowsDisjoint, CountIsCardinality, WindowLimit, InWindow
<1>7. RefusedOnlyWhenSpent'
  <2>1. ASSUME NEW r \in Requests,
               call'[r].pc \in {"replied", "limited"}, ~call'[r].success
        PROVE  /\ call[r].pc \in {"replied", "limited"} /\ ~call[r].success
               /\ call'[r].at = call[r].at /\ call'[r].retryAfter = call[r].retryAfter
    BY <1>1, <2>1 DEF TypeOK, Calls
  <2> QED
    BY <2>1 DEF LimitInv, RefusedOnlyWhenSpent
<1> QED
  BY <1>2, <1>4, <1>5, <1>6, <1>7 DEF LimitInv

\* The read of the stored window.
LEMMA ReadStep ==
  ASSUME LimitInv, NEW r \in Requests, ReadWindow(r)
  PROVE  LimitInv'
<1>0. TypeOK /\ now \in Nat /\ stored \in Windows
  BY DEF LimitInv, TypeOK
<1>1. /\ call[r].pc = "called" /\ \A s \in Requests : call[s].pc # "reading"
      /\ UNCHANGED <<now, stored, log>>
      /\ call' = [call EXCEPT ![r] = [@ EXCEPT !.pc = "reading", !.at = now,
                                               !.existing = stored]]
  BY DEF ReadWindow, GateOpen
<1>2. [call[r] EXCEPT !.pc = "reading", !.at = now, !.existing = stored] \in Calls
  BY <1>0 DEF TypeOK, Calls
<1>3. /\ call'[r].pc = "reading" /\ call'[r].at = now /\ call'[r].existing = stored
      /\ \A s \in Requests \ {r} : call'[s] = call[s]
  BY <1>0, <1>1 DEF TypeOK, Calls
<1>4. TypeOK'
  BY <1>0, <1>1, <1>2 DEF TypeOK
<1>5. ReadIsCurrent'
  <2>1. ASSUME NEW s \in Requests, call'[s].pc = "reading" PROVE s = r
    BY <1>1, <1>3, <2>1
  <2>2. \A e \in log : e.at <= now
    BY DEF LimitInv, LogConsistent
  <2> QED
    BY <1>0, <1>1, <1>3, <2>1, <2>2 DEF ReadIsCurrent, LimitInv
<1>6. LogConsistent'
  <2>1. \A e \in log : e.request # r /\ e.request \in Requests
    BY <1>0, <1>1 DEF LimitInv, LogConsistent, TypeOK
  <2> QED
    BY <1>1, <1>3, <2>1 DEF LimitInv, LogConsistent
<1>7. WindowsDisjoint' /\ CountIsCardinality' /\ WindowLimit'
  BY <1>1 DEF LimitInv, WindowsDisjoint, CountIsCardinality, WindowLimit, InWindow
<1>8. RefusedOnlyWhenSpent'
  BY <1>1, <1>3 DEF LimitInv, RefusedOnlyWhenSpent
<1> QED
  BY <1>1, <1>4, <1>5, <1>6, <1>7, <1>8 DEF LimitInv

\* The window a call counts in: the stored one while it lasts, and a new one
\* that begins no earlier than the stored one ends (CurrentWindow).
LEMMA CurrentWindowFact ==
  ASSUME NEW existing \in Windows, NEW time \in Nat, existing.windowStart <= time
  PROVE  LET current == CurrentWindow(existing, time)
         IN  /\ current \in Windows
             /\ current.windowStart <= time /\ time < current.windowStart + Period
             /\ \/ current = existing
                \/ /\ current.windowStart = time /\ current.count = 0
                   /\ existing.windowStart + Period <= time
<1>1. CASE time < existing.windowStart + Period
  BY <1>1, PeriodAssumption DEF CurrentWindow, Windows
<1>2. CASE ~(time < existing.windowStart + Period)
  BY <1>2, PeriodAssumption, LimitAssumption DEF CurrentWindow, Windows
<1> QED
  BY <1>1, <1>2

\* Admissions of the window a call counts in are exactly the window's count.
LEMMA CurrentCount ==
  ASSUME LimitInv, NEW time \in Nat, stored.windowStart <= time,
         \A e \in log : e.at <= time
  PROVE  LET current == CurrentWindow(stored, time)
         IN  /\ Cardinality(InWindow(current.windowStart)) = current.count
             /\ \A e \in log : e.window = current.windowStart
                               \/ e.window + Period <= current.windowStart
<1> DEFINE current == CurrentWindow(stored, time)
<1>0. stored \in Windows /\ log \in SUBSET [request : Requests, window : Nat, at : Nat]
  BY DEF LimitInv, TypeOK
<1>1. /\ current.windowStart <= time
      /\ \/ current = stored
         \/ /\ current.windowStart = time /\ current.count = 0
            /\ stored.windowStart + Period <= time
  BY <1>0, CurrentWindowFact
<1> HIDE DEF current
<1>2. CASE current = stored
  BY <1>2 DEF LimitInv, CountIsCardinality, WindowsDisjoint, current
<1>3. CASE /\ current.windowStart = time /\ current.count = 0
           /\ stored.windowStart + Period <= time
  <2>1. \A e \in log : e.window + Period <= time
    <3>1. ASSUME NEW e \in log PROVE e.window + Period <= time
      <4>1. e.window = stored.windowStart \/ e.window + Period <= stored.windowStart
        BY DEF LimitInv, WindowsDisjoint
      <4>2. e.window \in Nat /\ stored.windowStart \in Int
        BY <1>0 DEF Windows
      <4> QED
        BY <1>3, <4>1, <4>2, PeriodAssumption
    <3> QED
      BY <3>1
  <2>2. InWindow(time) = {}
    <3>1. \A e \in log : e.window # time
      BY <1>0, <2>1, PeriodAssumption
    <3> QED
      BY <3>1 DEF InWindow
  <2> QED
    BY <1>3, <2>1, <2>2, FS_EmptySet DEF current
<1> QED
  BY <1>1, <1>2, <1>3 DEF current

\* A superset of the admissions still refuses what a subset refused.
LEMMA RecentMonotone ==
  ASSUME NEW S, NEW T, IsFiniteSet(T), S \subseteq T, NEW time \in Nat
  PROVE  Cardinality(Recent(S, time)) <= Cardinality(Recent(T, time))
<1>1. Recent(T, time) \subseteq T /\ Recent(S, time) \subseteq Recent(T, time)
  BY DEF Recent
<1>2. IsFiniteSet(Recent(T, time))
  BY <1>1, FS_Subset
<1> QED
  BY <1>1, <1>2, FS_Subset

\* The write of the new window, and the reply.
LEMMA WriteStep ==
  ASSUME LimitInv, NEW r \in Requests, WriteWindow(r)
  PROVE  LimitInv'
<1> DEFINE time    == call[r].at
           current == CurrentWindow(stored, time)
           success == Admits(current)
           entry   == [request |-> r, window |-> current.windowStart, at |-> time]
           retry   == Later(0, current.windowStart + Period - time)
<1>0. /\ TypeOK /\ now \in Nat /\ stored \in Windows /\ time \in Nat
      /\ log \in SUBSET [request : Requests, window : Nat, at : Nat]
  BY DEF LimitInv, TypeOK, Calls
<1>1. /\ call[r].pc = "reading" /\ call[r].existing = stored
      /\ stored.windowStart <= time /\ time <= now
      /\ \A s \in Requests : call[s].pc = "reading" => s = r
      /\ \A e \in log : e.at <= time
  BY DEF WriteWindow, LimitInv, ReadIsCurrent
<1>2. /\ stored' = [current EXCEPT !.count = IF success THEN @ + 1 ELSE @]
      /\ call' = [call EXCEPT ![r] = [@ EXCEPT !.pc = "replied", !.success = success,
                                               !.retryAfter = retry]]
      /\ log' = IF success THEN log \union {entry} ELSE log
      /\ now' = now
  BY <1>1 DEF WriteWindow
<1>3. /\ current \in Windows
      /\ current.windowStart <= time /\ time < current.windowStart + Period
      /\ \/ current = stored
         \/ /\ current.windowStart = time /\ current.count = 0
            /\ stored.windowStart + Period <= time
  BY <1>0, <1>1, CurrentWindowFact
<1>4. /\ Cardinality(InWindow(current.windowStart)) = current.count
      /\ \A e \in log : e.window = current.windowStart
                        \/ e.window + Period <= current.windowStart
  BY <1>0, <1>1, CurrentCount
<1>5. success <=> current.count < Limit
  BY DEF Admits
<1>6. retry \in 1 .. Period
  BY <1>0, <1>3, PeriodAssumption DEF Later, Windows
<1>7. current.windowStart \in Nat
  BY <1>0, <1>3, PeriodAssumption DEF LimitInv, WindowsDisjoint
<1> HIDE DEF current, success, entry, retry
<1>8. /\ stored'.windowStart = current.windowStart
      /\ stored'.count = IF success THEN current.count + 1 ELSE current.count
      /\ stored' \in Windows
  BY <1>2, <1>3, <1>5, LimitAssumption DEF Windows
<1>9. /\ call'[r].pc = "replied" /\ call'[r].success = success
      /\ call'[r].at = time /\ call'[r].retryAfter = retry
      /\ \A s \in Requests \ {r} : call'[s] = call[s]
  BY <1>0, <1>2 DEF TypeOK, Calls
<1>10. \A s \in Requests : call'[s].pc # "reading"
  BY <1>1, <1>9
<1>11. entry \in [request : Requests, window : Nat, at : Nat] /\ entry \notin log
  <2>1. entry.request = r /\ entry.window = current.windowStart /\ entry.at = time
    BY DEF entry
  <2>2. entry \in [request : Requests, window : Nat, at : Nat]
    BY <1>0, <1>7 DEF entry
  <2> QED
    BY <1>1, <2>1, <2>2 DEF LimitInv, LogConsistent
<1>12. IsFiniteSet(log) /\ IsFiniteSet(log')
  BY <1>2, FS_AddElement DEF LimitInv, CountIsCardinality
<1>13. TypeOK'
  <2>1. success \in BOOLEAN
    BY DEF success, Admits
  <2>2. [call[r] EXCEPT !.pc = "replied", !.success = success,
                        !.retryAfter = retry] \in Calls
    <3>1. call[r] \in Calls /\ retry \in 0 .. Period
      BY <1>0, <1>6, PeriodAssumption DEF TypeOK
    <3> QED
      BY <2>1, <3>1 DEF Calls
  <2>3. call' \in [Requests -> Calls]
    BY <1>0, <1>2, <2>2 DEF TypeOK
  <2> QED
    BY <1>0, <1>2, <1>8, <1>11, <2>3 DEF TypeOK
<1>14. ReadIsCurrent'
  BY <1>10 DEF ReadIsCurrent
<1>15. LogConsistent'
  <2>1. ASSUME NEW e \in log
        PROVE  /\ e.window <= e.at /\ e.at < e.window + Period /\ e.at <= now
               /\ call'[e.request].pc \notin {"idle", "called", "reading"}
    <3>1. e.request \in Requests \ {r}
      BY <1>0, <1>1 DEF LimitInv, LogConsistent
    <3> QED
      BY <1>9, <3>1 DEF LimitInv, LogConsistent
  <2>2. /\ entry.window <= entry.at /\ entry.at < entry.window + Period
        /\ entry.at <= now /\ call'[entry.request].pc = "replied"
    BY <1>1, <1>3, <1>9 DEF entry
  <2> QED
    BY <1>2, <2>1, <2>2 DEF LogConsistent
<1>16. WindowsDisjoint'
  <2>1. \A e \in log' : e \in log \/ e.window = current.windowStart
    BY <1>2 DEF entry
  <2>2. \A e \in log' : e.window = current.windowStart
                         \/ e.window + Period <= current.windowStart
    BY <1>4, <2>1
  <2>3. ASSUME NEW e \in log', NEW f \in log', e.window < f.window
        PROVE  e.window + Period <= f.window
    <3>1. e.window \in Nat /\ f.window \in Nat
      BY <1>13 DEF TypeOK
    <3>2. CASE e \in log /\ f \in log
      BY <2>3, <3>2 DEF LimitInv, WindowsDisjoint
    <3>3. CASE f.window = current.windowStart
      BY <1>7, <2>2, <2>3, <3>1, <3>3
    <3>4. CASE e.window = current.windowStart
      BY <1>7, <2>2, <2>3, <3>1, <3>4, PeriodAssumption
    <3> QED
      BY <2>1, <3>2, <3>3, <3>4
  <2> QED
    BY <1>7, <1>8, <2>2, <2>3 DEF WindowsDisjoint
<1> DEFINE Of(admissions) == {e \in admissions : e.window = current.windowStart}
<1>17. /\ IsFiniteSet(Of(log)) /\ Cardinality(Of(log)) = current.count
       /\ Cardinality(Of(log')) = stored'.count
  <2>1. Of(log) = InWindow(current.windowStart) /\ Of(log) \subseteq log
    BY DEF InWindow
  <2>2. IsFiniteSet(Of(log)) /\ Cardinality(Of(log)) = current.count
    BY <1>4, <1>12, <2>1, FS_Subset
  <2>3. CASE success
    <3>1. Of(log') = Of(log) \union {entry} /\ entry \notin Of(log)
      BY <1>2, <1>11, <2>3 DEF entry
    <3> HIDE DEF Of
    <3> QED
      BY <1>8, <2>2, <2>3, <3>1, FS_AddElement
  <2>4. CASE ~success
    BY <1>2, <1>8, <2>2, <2>4
  <2> QED
    BY <2>2, <2>3, <2>4
<1>18. CountIsCardinality'
  <2>1. InWindow(stored.windowStart)' = Of(log')
    BY <1>8 DEF InWindow
  <2> QED
    BY <1>12, <1>17, <2>1 DEF CountIsCardinality
<1>19. WindowLimit'
  <2>1. ASSUME NEW e \in log' PROVE Cardinality({f \in log' : f.window = e.window}) <= Limit
    <3>1. CASE e.window = current.windowStart
      <4>1. stored'.count <= Limit
        BY <1>8, LimitAssumption DEF Windows
      <4> QED
        BY <1>17, <3>1, <4>1
    <3>2. CASE e.window # current.windowStart
      <4>1. e \in log /\ {f \in log' : f.window = e.window} = InWindow(e.window)
        BY <1>2, <3>2 DEF InWindow, entry
      <4> QED
        BY <4>1 DEF LimitInv, WindowLimit
    <3> QED
      BY <3>1, <3>2
  <2> QED
    BY <2>1 DEF WindowLimit, InWindow
<1>20. RefusedOnlyWhenSpent'
  <2>1. ASSUME NEW s \in Requests,
               call'[s].pc \in {"replied", "limited"}, ~call'[s].success
        PROVE  Cardinality(Recent(log', call'[s].at)) >= Limit /\ call'[s].retryAfter > 0
    <3>1. log \subseteq log'
      BY <1>2
    <3>2. CASE s = r
      <4>1. ~success /\ log' = log /\ current.count = Limit
        BY <1>2, <1>3, <1>5, <1>9, <2>1, <3>2, LimitAssumption DEF Windows
      <4>2. Of(log) \subseteq Recent(log, time)
        <5>1. ASSUME NEW e \in Of(log) PROVE time - Period < e.at /\ e.at <= time
          <6>1. e.window <= e.at /\ e.window = current.windowStart /\ e \in log
            BY DEF LimitInv, LogConsistent
          <6>2. e.at \in Nat
            BY <1>0, <6>1
          <6> QED
            BY <1>0, <1>1, <1>3, <1>7, <6>1, <6>2, PeriodAssumption
        <5> QED
          BY <5>1 DEF Recent
      <4>3. IsFiniteSet(Recent(log, time))
        BY <1>12, FS_Subset, Recent(log, time) \subseteq log DEF Recent
      <4>4. Cardinality(Of(log)) <= Cardinality(Recent(log, time))
        BY <4>2, <4>3, FS_Subset
      <4> QED
        BY <1>6, <1>9, <1>17, <3>2, <4>1, <4>4
    <3>3. CASE s # r
      <4>1. call'[s] = call[s] /\ call[s].at \in Nat
        BY <1>0, <1>9, <3>3 DEF TypeOK, Calls
      <4>2. Cardinality(Recent(log, call[s].at)) >= Limit /\ call[s].retryAfter > 0
        BY <2>1, <4>1 DEF LimitInv, RefusedOnlyWhenSpent, Recent
      <4>3. Cardinality(Recent(log, call[s].at)) <= Cardinality(Recent(log', call[s].at))
        BY <1>12, <3>1, <4>1, RecentMonotone
      <4>4. /\ Cardinality(Recent(log, call[s].at)) \in Nat
            /\ Cardinality(Recent(log', call[s].at)) \in Nat
        BY <1>12, FS_Subset, FS_CardinalityType,
           \A S, a : Recent(S, a) \subseteq S DEF Recent
      <4> QED
        BY <4>1, <4>2, <4>3, <4>4, LimitAssumption
    <3> QED
      BY <3>2, <3>3
  <2> QED
    BY <2>1 DEF RefusedOnlyWhenSpent, Recent
<1> QED
  BY <1>1, <1>2, <1>3, <1>8, <1>13, <1>14, <1>15, <1>16, <1>18, <1>19, <1>20,
     <1>0, <1>7 DEF LimitInv

\* Every step of a call of limit(), and of the clock, keeps the invariant.
LEMMA LimitStep == LimitInv /\ [Next]_vars => LimitInv'
<1> SUFFICES ASSUME LimitInv, [Next]_vars PROVE LimitInv'
  OBVIOUS
<1>0. TypeOK /\ \A r \in Requests : call[r] \in Calls
  BY DEF LimitInv, TypeOK
<1>1. \A e \in log : e.request \in Requests
                     /\ call[e.request].pc \notin {"idle", "called", "reading"}
  BY <1>0 DEF LimitInv, LogConsistent, TypeOK
<1>2. ASSUME NEW r \in Requests, NEW pc, UNCHANGED <<now, stored, log>>,
             call' = [call EXCEPT ![r].pc = pc],
             \/ call[r].pc = "idle" /\ pc = "called"
             \/ call[r].pc = "reading" /\ pc = "failed"
             \/ call[r].pc = "replied" /\ pc \in {"admitted", "failed"}
             \/ call[r].pc = "replied" /\ pc = "limited" /\ ~call[r].success
      PROVE  LimitInv'
  <2>1. call'[r] = [call[r] EXCEPT !.pc = pc] /\ \A s \in Requests \ {r} : call'[s] = call[s]
    BY <1>0, <1>2 DEF TypeOK
  <2>2. call'[r] \in Calls /\ call'[r].pc = pc
    BY <1>0, <1>2, <2>1 DEF Calls
  <2>3. TypeOK'
    BY <1>0, <1>2, <2>1, <2>2 DEF TypeOK
  <2>4. \A e \in log : call'[e.request].pc \notin {"idle", "called", "reading"}
    BY <1>1, <1>2, <2>1, <2>2
  <2> QED
    BY <1>2, <2>1, <2>2, <2>3, <2>4, QuietStep
<1>3. ASSUME NEW r \in Requests, CallLimit(r) \/ StorageFails(r) \/ ReplyLost(r)
      PROVE  LimitInv'
  BY <1>2, <1>3 DEF CallLimit, StorageFails, ReplyLost
<1>4. ASSUME NEW r \in Requests, Answer(r) PROVE LimitInv'
  BY <1>2, <1>4 DEF Answer
<1>5. CASE Tick
  <2>1. TypeOK'
    BY <1>0, <1>5 DEF Tick, TypeOK
  <2> QED
    BY <1>1, <1>5, <2>1, QuietStep DEF Tick
<1>6. CASE UNCHANGED vars
  <2>1. TypeOK'
    BY <1>0, <1>6 DEF vars, TypeOK
  <2> QED
    BY <1>1, <1>6, <2>1, QuietStep DEF vars
<1> QED
  BY <1>3, <1>4, <1>5, <1>6, ReadStep, WriteStep DEF Next

\* The invariant of the object: what a call has read is still what is stored, and
\* the stored count is the number of admissions of the stored window.
THEOREM LimitInvariant == Spec => []LimitInv
<1> QED
  BY LimitInit, LimitStep, PTL DEF Spec

-----------------------------------------------------------------------------
(* What the limiter guarantees. *)

\* The stored window keeps its type, and no count exceeds the limit.
THEOREM TypeCorrect == Spec => []TypeOK
<1>1. LimitInv => TypeOK
  BY DEF LimitInv
<1> QED
  BY <1>1, LimitInvariant, PTL

\* At most Limit requests are admitted in one window.
THEOREM WindowIsLimited == Spec => []WindowLimit
<1>1. LimitInv => WindowLimit
  BY DEF LimitInv
<1> QED
  BY <1>1, LimitInvariant, PTL

\* A refused request finds the limit spent within its last period.
THEOREM RefusalIsJustified == Spec => []RefusedOnlyWhenSpent
<1>1. LimitInv => RefusedOnlyWhenSpent
  BY DEF LimitInv
<1> QED
  BY <1>1, LimitInvariant, PTL

\* Two windows cover any interval of one period, for windows are a period
\* apart.
LEMMA RollingBound == LimitInv => RollingLimit
<1> SUFFICES ASSUME LimitInv, NEW e \in log
             PROVE  Cardinality({f \in log : e.at <= f.at /\ f.at < e.at + Period})
                      <= 2 * Limit
  BY DEF RollingLimit
<1> DEFINE Rolling == {f \in log : e.at <= f.at /\ f.at < e.at + Period}
           Next2   == {f \in Rolling : f.window # e.window}
<1>0. \A f \in log : /\ f.window \in Nat /\ f.at \in Nat
                     /\ f.window <= f.at /\ f.at < f.window + Period
                     /\ InWindow(f.window) \subseteq log
                     /\ IsFiniteSet(InWindow(f.window))
                     /\ Cardinality(InWindow(f.window)) \in Nat
                     /\ Cardinality(InWindow(f.window)) <= Limit
  <2>1. ASSUME NEW f \in log
        PROVE  /\ InWindow(f.window) \subseteq log
               /\ IsFiniteSet(InWindow(f.window))
               /\ Cardinality(InWindow(f.window)) \in Nat
    <3>1. InWindow(f.window) \subseteq log
      BY DEF InWindow
    <3> QED
      BY <3>1, FS_Subset, FS_CardinalityType DEF LimitInv, CountIsCardinality
  <2> QED
    BY <2>1 DEF LimitInv, TypeOK, LogConsistent, WindowLimit
<1>1. \A f, g \in log : f.window < g.window => f.window + Period <= g.window
  BY DEF LimitInv, WindowsDisjoint
<1>2. \A f \in Next2 : f \in log /\ e.window + Period <= f.window
  <2>1. ASSUME NEW f \in Next2 PROVE e.window + Period <= f.window
    <3>1. f \in log /\ e.at <= f.at /\ f.window # e.window
      OBVIOUS
    <3>2. ~(f.window < e.window)
      BY <1>0, <1>1, <3>1, PeriodAssumption
    <3> QED
      BY <1>0, <1>1, <3>1, <3>2
  <2> QED
    BY <2>1
<1>3. \A f, g \in Next2 : f.window = g.window
  <2>1. ASSUME NEW f \in Next2, NEW g \in Next2, f.window < g.window PROVE FALSE
    <3>1. f \in log /\ g \in log /\ g.at < e.at + Period /\ e.window + Period <= f.window
      BY <1>2
    <3>2. f.window + Period <= g.window
      BY <1>1, <2>1, <3>1
    <3> QED
      BY <1>0, <3>1, <3>2, PeriodAssumption
  <2>2. \A f \in Next2 : f.window \in Nat
    BY <1>0
  <2> QED
    BY <2>1, <2>2
<1>4. CASE Next2 = {}
  <2>1. Rolling \subseteq InWindow(e.window)
    BY <1>4 DEF InWindow
  <2>2. Cardinality(Rolling) <= Cardinality(InWindow(e.window))
    BY <1>0, <2>1, FS_Subset
  <2>3. Cardinality(Rolling) \in Nat
    BY <1>0, <2>1, FS_Subset, FS_CardinalityType
  <2> HIDE DEF Rolling
  <2> QED
    BY <1>0, <2>2, <2>3, LimitAssumption DEF Rolling
<1>5. CASE Next2 # {}
  <2>1. PICK g \in Next2 : TRUE
    BY <1>5
  <2> DEFINE Both == InWindow(e.window) \union InWindow(g.window)
  <2>2. Rolling \subseteq Both
    BY <1>3, <2>1 DEF InWindow
  <2>3. /\ IsFiniteSet(InWindow(e.window)) /\ IsFiniteSet(InWindow(g.window))
        /\ Cardinality(InWindow(e.window)) \in 0 .. Limit
        /\ Cardinality(InWindow(g.window)) \in 0 .. Limit
    BY <1>0, <2>1, LimitAssumption
  <2>4. IsFiniteSet(Both) /\ Cardinality(Both) <= 2 * Limit
    <3>1. /\ IsFiniteSet(Both)
          /\ Cardinality(Both) = Cardinality(InWindow(e.window))
               + Cardinality(InWindow(g.window))
               - Cardinality(InWindow(e.window) \intersect InWindow(g.window))
      BY <2>3, FS_Union
    <3>2. Cardinality(InWindow(e.window) \intersect InWindow(g.window)) \in Nat
      BY <2>3, FS_Intersection, FS_CardinalityType
    <3> HIDE DEF Both
    <3> QED
      BY <2>3, <3>1, <3>2, LimitAssumption
  <2>5. Cardinality(Rolling) <= Cardinality(Both) /\ Cardinality(Rolling) \in Nat
        /\ Cardinality(Both) \in Nat
    BY <2>2, <2>4, FS_Subset, FS_CardinalityType
  <2> HIDE DEF Rolling, Both
  <2> QED
    BY <2>4, <2>5, LimitAssumption DEF Rolling
<1> QED
  BY <1>4, <1>5

\* No interval of one period admits more than twice the limit.
THEOREM RollingIsLimited == Spec => []RollingLimit
<1> QED
  BY RollingBound, LimitInvariant, PTL

-----------------------------------------------------------------------------
(* The in-memory limiter. *)

\* The limiters of an isolate, which share their buckets, have a limit each and
\* one window.
OneWindow ==
  /\ Len(Chain) > 0 /\ Chain[1].window > 0
  /\ \A i \in DOMAIN Chain : Chain[i].limit > 0 /\ Chain[i].window = Chain[1].window

\* A limiter that is alone on its buckets.
OneLimiter == Len(Chain) = 1 /\ Chain[1].limit > 0 /\ Chain[1].window > 0

Width == Chain[1].window

\* The passages of a limiter under a key between two times, and from a time on.
Between(i, k, t, u) ==
  {e \in passed : e.limiter = i /\ key[e.request] = k /\ t <= e.time /\ e.time < u}
Since(i, k, t) == {e \in passed : e.limiter = i /\ key[e.request] = k /\ t <= e.time}

OpenedAt(k) == store[k].expiresAt - Width

Buckets == [count : Nat, expiresAt : Nat]

BucketsTyped ==
  /\ now \in Nat
  /\ store \in [Keys -> Buckets]
  /\ at \in [Requests -> Nat]
  /\ key \in [Requests -> Keys]
  /\ IsFiniteSet(passed)
  /\ passed \subseteq [request : Requests, limiter : DOMAIN Chain, time : Nat]

\* A request passes a limiter once, and the bucket that let it pass outlives that
\* time.
PassedOnce ==
  \A e \in passed : /\ e.limiter < at[e.request]
                    /\ e.time <= now /\ e.time < store[key[e.request]].expiresAt

\* What a bucket that counts to n says of the passages of limiter i: they are no
\* more, and if no other limiter counts they are as many, up to the limit.
Counts(n, i, passages) ==
  /\ Cardinality(passages) <= n /\ Cardinality(passages) <= Chain[i].limit
  /\ Len(Chain) = 1 => Cardinality(passages) = n \/ Cardinality(passages) = Chain[i].limit

\* A bucket counts the passages since it was opened, and the window before it
\* has had no more of them than the limit.
BucketsCount ==
  /\ \A k \in Keys : OpenedAt(k) <= now
  /\ \A k \in Keys, i \in DOMAIN Chain :
       /\ Counts(store[k].count, i, Since(i, k, OpenedAt(k)))
       /\ Cardinality(Between(i, k, OpenedAt(k) - Width, OpenedAt(k))) <= Chain[i].limit

TwiceAtMost ==
  \A k \in Keys, i \in DOMAIN Chain, t \in Int :
    Cardinality(Between(i, k, t, t + Width)) <= 2 * Chain[i].limit

MemoryInv == BucketsTyped /\ PassedOnce /\ BucketsCount /\ TwiceAtMost

LEMMA ChainDomain ==
  /\ DOMAIN Chain = 1 .. Len(Chain) /\ Len(Chain) \in Nat
  /\ \A i \in DOMAIN Chain : Chain[i].limit \in Int /\ Chain[i].window \in Nat
<1> DEFINE limiters == [limit : Int, window : Nat]
<1>1. Chain \in Seq(limiters)
  BY ChainAssumption
<1>2. DOMAIN Chain = 1 .. Len(Chain) /\ Len(Chain) \in Nat /\ \A i \in DOMAIN Chain : Chain[i] \in limiters
  <2> HIDE DEF limiters
  <2> QED
    BY <1>1
<1> QED
  BY <1>2

LEMMA ChainFact ==
  ASSUME OneWindow
  PROVE  /\ Width \in Nat /\ Width > 0 /\ 1 \in DOMAIN Chain /\ DOMAIN Chain \subseteq Nat
         /\ \A i \in DOMAIN Chain : /\ Chain[i].limit \in Int /\ Chain[i].limit > 0
                                    /\ Chain[i].window = Width
BY ChainDomain DEF OneWindow, Width

LEMMA OneLimiterFact ==
  ASSUME OneLimiter
  PROVE  OneWindow /\ DOMAIN Chain = {1}
BY ChainDomain DEF OneWindow, OneLimiter

\* With no request passed, every bucket is empty.
LEMMA MemoryStart ==
  ASSUME OneWindow
  PROVE  MemoryInit => MemoryInv
<1> SUFFICES ASSUME MemoryInit PROVE MemoryInv
  OBVIOUS
<1>1. passed = {} /\ now = 0 /\ \A k \in Keys : store[k] = NoBucket
  BY DEF MemoryInit
<1>2. BucketsTyped
  BY FS_EmptySet DEF MemoryInit, BucketsTyped, Buckets, NoBucket
<1>3. \A i, k, t, u : Between(i, k, t, u) = {} /\ Since(i, k, t) = {}
  BY <1>1 DEF Between, Since
<1>4. Cardinality({}) = 0
  BY FS_EmptySet
<1>5. BucketsCount
  <2>1. ASSUME NEW k \in Keys
        PROVE  store[k].count = 0 /\ store[k].expiresAt = 0 /\ OpenedAt(k) <= now
    <3>1. store[k].count = 0 /\ store[k].expiresAt = 0
      BY <1>1 DEF NoBucket
    <3> QED
      BY <1>1, <3>1, ChainFact DEF OpenedAt
  <2>2. \A i \in DOMAIN Chain : Counts(0, i, {}) /\ Cardinality({}) <= Chain[i].limit
    BY <1>4, ChainFact DEF Counts
  <2> QED
    BY <1>3, <2>1, <2>2 DEF BucketsCount
<1>6. TwiceAtMost
  BY <1>3, <1>4, ChainFact DEF TwiceAtMost
<1> QED
  BY <1>1, <1>2, <1>5, <1>6 DEF MemoryInv, PassedOnce

\* The passages of a limiter are finitely many, over any interval.
LEMMA PassagesFinite ==
  ASSUME IsFiniteSet(passed), NEW i, NEW k, NEW t, NEW u
  PROVE  /\ IsFiniteSet(Between(i, k, t, u)) /\ Cardinality(Between(i, k, t, u)) \in Nat
         /\ IsFiniteSet(Since(i, k, t)) /\ Cardinality(Since(i, k, t)) \in Nat
BY FS_Subset, FS_CardinalityType DEF Between, Since

\* A passage is counted by the bucket that lets it pass.
LEMMA PassStep ==
  ASSUME OneWindow, MemoryInv, NEW r \in Requests, NEW here \in DOMAIN Chain, at[r] = here,
         NEW opened \in Int, NEW count \in Nat \ {0},
         \/ opened = now /\ count = 1 /\ Expired(store[key[r]])
         \/ /\ opened = OpenedAt(key[r]) /\ count = store[key[r]].count + 1
            /\ ~Expired(store[key[r]]) /\ count <= Chain[here].limit,
         store' = [store EXCEPT ![key[r]] = [count |-> count, expiresAt |-> opened + Width]],
         Pass(r), UNCHANGED <<now, key>>
  PROVE  MemoryInv'
<1> DEFINE k     == key[r]
           entry == [request |-> r, limiter |-> here, time |-> now]
<1>1. /\ Width \in Nat /\ Width > 0 /\ here \in DOMAIN Chain /\ here \in Nat
      /\ \A i \in DOMAIN Chain : Chain[i].limit \in Int /\ Chain[i].limit > 0
  BY ChainFact
<1>2. /\ now \in Nat /\ k \in Keys /\ now' = now /\ key' = key
      /\ passed' = passed \union {entry} /\ at' = [at EXCEPT ![r] = here + 1]
      /\ store[k].count \in Nat /\ store[k].expiresAt \in Nat
  BY <1>1 DEF Pass, MemoryInv, BucketsTyped, Buckets
<1>3. /\ store'[k].count = count /\ store'[k].expiresAt = opened + Width
      /\ \A j \in Keys \ {k} : store'[j] = store[j]
      /\ OpenedAt(k)' = opened
  <2>1. /\ store'[k].count = count /\ store'[k].expiresAt = opened + Width
        /\ \A j \in Keys \ {k} : store'[j] = store[j]
    BY <1>2 DEF MemoryInv, BucketsTyped
  <2> QED
    BY <1>1, <2>1 DEF OpenedAt, Width
<1>4. opened <= now /\ now < opened + Width
  BY <1>1, <1>2 DEF Expired, OpenedAt, MemoryInv, BucketsCount
<1>5. BucketsTyped'
  <2>1. [count |-> count, expiresAt |-> opened + Width] \in Buckets
    BY <1>1, <1>2, <1>4 DEF Buckets
  <2>2. IsFiniteSet(passed')
    BY <1>2, FS_AddElement DEF MemoryInv, BucketsTyped
  <2>3. passed' \subseteq [request : Requests, limiter : DOMAIN Chain, time : Nat]
    BY <1>1, <1>2 DEF MemoryInv, BucketsTyped
  <2> HIDE DEF entry
  <2> QED
    BY <1>1, <1>2, <2>1, <2>2, <2>3 DEF MemoryInv, BucketsTyped
<1>6. entry \notin passed
  BY <1>1 DEF MemoryInv, PassedOnce
<1>7. PassedOnce'
  <2> SUFFICES ASSUME NEW e \in passed'
               PROVE  /\ e.limiter < at'[e.request] /\ e.time <= now
                      /\ e.time < store'[key[e.request]].expiresAt
    BY <1>2 DEF PassedOnce
  <2>1. CASE e = entry
    BY <1>1, <1>2, <1>3, <1>4, <2>1 DEF MemoryInv, BucketsTyped
  <2>2. CASE e \in passed
    <3>1. /\ e.limiter < at[e.request] /\ e.time <= now /\ e.time \in Nat /\ e.request \in Requests
          /\ e.limiter \in Nat
          /\ e.time < store[key[e.request]].expiresAt /\ key[e.request] \in Keys
      BY <2>2, ChainFact DEF MemoryInv, PassedOnce, BucketsTyped
    <3>2. e.limiter < at'[e.request]
      BY <1>1, <1>2, <3>1 DEF MemoryInv, BucketsTyped
    <3>3. CASE key[e.request] = k
      BY <1>1, <1>2, <1>3, <1>4, <3>1, <3>2, <3>3
    <3>4. CASE key[e.request] # k
      BY <1>3, <3>1, <3>2, <3>4
    <3> QED
      BY <3>3, <3>4
  <2> QED
    BY <1>2, <2>1, <2>2
<1>8. ASSUME NEW i, NEW j \in Keys, NEW t, NEW u, j # k \/ i # here \/ ~(t <= now)
      PROVE  Since(i, j, t)' = Since(i, j, t) /\ Between(i, j, t, u)' = Between(i, j, t, u)
  BY <1>2, <1>8 DEF Since, Between
<1>9. ASSUME NEW t, t <= now
      PROVE  Since(here, k, t)' = Since(here, k, t) \union {entry}
  BY <1>2, <1>9 DEF Since
<1>10. ASSUME NEW i, NEW t \in Int, NEW u \in Int, u <= now
       PROVE  Between(i, k, t, u)' = Between(i, k, t, u)
  BY <1>2, <1>10 DEF Between
<1>11. ASSUME NEW i \in DOMAIN Chain
       PROVE  Counts(count, i, Since(i, k, opened)')
  <2>0. IsFiniteSet(Since(i, k, opened)) /\ Cardinality(Since(i, k, opened)) \in Nat
    BY PassagesFinite DEF MemoryInv, BucketsTyped
  <2>1. IF i = here
        THEN Cardinality(Since(i, k, opened)') = Cardinality(Since(i, k, opened)) + 1
        ELSE Cardinality(Since(i, k, opened)') = Cardinality(Since(i, k, opened))
    <3>1. CASE i = here
      <4>1. Since(i, k, opened)' = Since(i, k, opened) \union {entry}
        BY <1>4, <1>9, <3>1
      <4>2. entry \notin Since(i, k, opened)
        BY <1>6 DEF Since
      <4> HIDE DEF entry
      <4>3. Cardinality(Since(i, k, opened) \union {entry}) = Cardinality(Since(i, k, opened)) + 1
        BY <2>0, <4>2, FS_AddElement
      <4> QED
        BY <3>1, <4>1, <4>3
    <3>2. CASE i # here
      BY <1>2, <1>8, <3>2
    <3> QED
      BY <3>1, <3>2
  <2>2. Len(Chain) = 1 => i = here
    BY <1>1, ChainDomain
  <2>3. CASE opened = now /\ count = 1 /\ Expired(store[k])
    <3>1. Since(i, k, opened) = {}
      BY <1>2, <2>3 DEF Since, Expired, MemoryInv, PassedOnce, BucketsTyped
    <3>2. Cardinality(Since(i, k, opened)) = 0
      BY <3>1, FS_EmptySet
    <3> QED
      BY <1>1, <2>1, <2>2, <2>3, <3>2 DEF Counts
  <2>4. CASE /\ opened = OpenedAt(k) /\ count = store[k].count + 1
             /\ ~Expired(store[k]) /\ count <= Chain[here].limit
    <3>1. Counts(store[k].count, i, Since(i, k, opened))
      BY <1>2, <2>4 DEF MemoryInv, BucketsCount
    <3> QED
      BY <1>1, <1>2, <2>0, <2>1, <2>2, <2>4, <3>1 DEF Counts
  <2> QED
    BY <2>3, <2>4
<1>12. ASSUME NEW i \in DOMAIN Chain
       PROVE  Cardinality(Between(i, k, opened - Width, opened)') <= Chain[i].limit
  <2>1. Between(i, k, opened - Width, opened)' = Between(i, k, opened - Width, opened)
    BY <1>1, <1>2, <1>4, <1>10
  <2>2. CASE opened = now /\ count = 1 /\ Expired(store[k])
    <3>1. Between(i, k, opened - Width, opened) \subseteq Since(i, k, OpenedAt(k))
      <4>1. store[k].expiresAt <= now /\ OpenedAt(k) = store[k].expiresAt - Width
        BY <2>2 DEF Expired, OpenedAt
      <4>2. ASSUME NEW e \in passed, opened - Width <= e.time PROVE OpenedAt(k) <= e.time
        BY <1>1, <1>2, <2>2, <4>1, <4>2 DEF MemoryInv, BucketsTyped
      <4> QED
        BY <4>2 DEF Between, Since
    <3>2. Cardinality(Since(i, k, OpenedAt(k))) <= Chain[i].limit
      BY <1>2 DEF MemoryInv, BucketsCount, Counts
    <3>3. IsFiniteSet(Since(i, k, OpenedAt(k)))
      BY PassagesFinite DEF MemoryInv, BucketsTyped
    <3>4. /\ Cardinality(Between(i, k, opened - Width, opened)) <= Cardinality(Since(i, k, OpenedAt(k)))
          /\ Cardinality(Between(i, k, opened - Width, opened)) \in Nat
          /\ Cardinality(Since(i, k, OpenedAt(k))) \in Nat
      BY <3>1, <3>3, FS_Subset, FS_CardinalityType
    <3> QED
      BY <1>1, <2>1, <3>2, <3>4
  <2>3. CASE opened = OpenedAt(k)
    BY <1>2, <2>1, <2>3 DEF MemoryInv, BucketsCount
  <2> QED
    BY <2>2, <2>3
<1>13. BucketsCount'
  <2>1. ASSUME NEW j \in Keys \ {k}, NEW i
        PROVE  /\ OpenedAt(j)' = OpenedAt(j) /\ store'[j] = store[j]
               /\ Since(i, j, OpenedAt(j))' = Since(i, j, OpenedAt(j))
               /\ Between(i, j, OpenedAt(j) - Width, OpenedAt(j))'
                    = Between(i, j, OpenedAt(j) - Width, OpenedAt(j))
    <3>1. OpenedAt(j)' = OpenedAt(j) /\ store'[j] = store[j]
      BY <1>3 DEF OpenedAt, Width
    <3>2. \A t, u : Since(i, j, t)' = Since(i, j, t) /\ Between(i, j, t, u)' = Between(i, j, t, u)
      BY <1>8
    <3> QED
      BY <3>1, <3>2 DEF Since, Between, Width
  <2>2. ASSUME NEW j \in Keys PROVE OpenedAt(j)' <= now
    BY <1>3, <1>4, <2>1 DEF MemoryInv, BucketsCount
  <2>3. ASSUME NEW j \in Keys, NEW i \in DOMAIN Chain
        PROVE  /\ Counts(store[j].count, i, Since(i, j, OpenedAt(j)))'
               /\ Cardinality(Between(i, j, OpenedAt(j) - Width, OpenedAt(j)))' <= Chain[i].limit
    <3>1. CASE j = k
      BY <1>3, <1>11, <1>12, <3>1 DEF Since, Between, Counts, Width
    <3>2. CASE j # k
      <4>1. /\ Counts(store[j].count, i, Since(i, j, OpenedAt(j)))
            /\ Cardinality(Between(i, j, OpenedAt(j) - Width, OpenedAt(j))) <= Chain[i].limit
        BY DEF MemoryInv, BucketsCount
      <4> QED
        BY <2>1, <3>2, <4>1 DEF Counts
    <3> QED
      BY <3>1, <3>2
  <2> QED
    BY <1>2, <2>2, <2>3 DEF BucketsCount
<1>14. TwiceAtMost'
  <2> SUFFICES ASSUME NEW j \in Keys, NEW i \in DOMAIN Chain, NEW t \in Int
               PROVE  Cardinality(Between(i, j, t, t + Width)') <= 2 * Chain[i].limit
    BY DEF TwiceAtMost, Width
  <2>1. CASE j # k \/ i # here \/ ~(t <= now) \/ t + Width <= now
    <3>1. Between(i, j, t, t + Width)' = Between(i, j, t, t + Width)
      BY <1>1, <1>8, <1>10, <2>1 DEF Width
    <3> QED
      BY <3>1 DEF MemoryInv, TwiceAtMost
  <2>2. CASE j = k /\ t <= now /\ now < t + Width
    <3> DEFINE before == Between(i, k, opened - Width, opened)'
               after  == Since(i, k, opened)'
               both   == Between(i, k, t, t + Width)'
    <3>1. both \subseteq before \union after
      <4>1. ASSUME NEW e \in passed', t <= e.time
            PROVE  opened - Width <= e.time /\ (opened <= e.time \/ e.time < opened)
        BY <1>1, <1>2, <1>4, <1>5, <2>2, <4>1 DEF BucketsTyped
      <4> QED
        BY <4>1 DEF Between, Since, Width
    <3>2. IsFiniteSet(before) /\ IsFiniteSet(after)
      BY <1>5, FS_Subset DEF BucketsTyped, Between, Since
    <3>3. Cardinality(before) <= Chain[i].limit /\ Cardinality(after) <= Chain[i].limit
      BY <1>11, <1>12 DEF Counts
    <3> HIDE DEF before, after, both
    <3>4. /\ IsFiniteSet(before \union after)
          /\ Cardinality(before \union after)
               = Cardinality(before) + Cardinality(after) - Cardinality(before \intersect after)
      BY <3>2, FS_Union
    <3>5. IsFiniteSet(both) /\ Cardinality(both) <= Cardinality(before \union after)
      BY <3>1, <3>4, FS_Subset
    <3>6. /\ Cardinality(before) \in Nat /\ Cardinality(after) \in Nat
          /\ Cardinality(before \intersect after) \in Nat /\ Cardinality(both) \in Nat
      BY <3>2, <3>5, FS_CardinalityType, FS_Intersection
    <3>7. Cardinality(both) <= 2 * Chain[i].limit
      BY <1>1, <3>3, <3>4, <3>5, <3>6
    <3> QED
      BY <2>2, <3>7 DEF both
  <2> QED
    BY <1>1, <1>2, <2>1, <2>2
<1> QED
  BY <1>5, <1>7, <1>13, <1>14 DEF MemoryInv

\* A refused request leaves the bucket it was counted by, and, if the limiter is
\* alone, finds the limit spent since that was opened.
LEMMA RejectStep ==
  ASSUME OneWindow, MemoryInv, NEW r \in Requests, at[r] \in DOMAIN Chain,
         ~Expired(store[key[r]]), ~(store[key[r]].count + 1 <= Chain[at[r]].limit),
         NEW counted, counted = [store[key[r]] EXCEPT !.count = @ + 1],
         store' = [store EXCEPT ![key[r]] = counted],
         UNCHANGED <<now, key, at, passed>>
  PROVE  /\ MemoryInv'
         /\ Len(Chain) = 1 =>
              Cardinality({e \in passed : /\ e.limiter = at[r] /\ key[e.request] = key[r]
                                          /\ now - Chain[at[r]].window < e.time})
                >= Chain[at[r]].limit
<1> DEFINE k     == key[r]
           here  == at[r]
           spent == {e \in passed : /\ e.limiter = here /\ key[e.request] = k
                                    /\ now - Chain[here].window < e.time}
<1>1. /\ Width \in Nat /\ Width > 0 /\ here \in DOMAIN Chain /\ Chain[here].window = Width
      /\ \A i \in DOMAIN Chain : Chain[i].limit \in Int /\ Chain[i].limit > 0
  BY ChainFact
<1>2. /\ now \in Nat /\ k \in Keys
      /\ store[k] \in Buckets /\ store[k].count \in Nat /\ store[k].expiresAt \in Nat
  BY DEF MemoryInv, BucketsTyped, Buckets
<1>3. /\ store'[k].count = store[k].count + 1 /\ store'[k].expiresAt = store[k].expiresAt
      /\ \A j \in Keys \ {k} : store'[j] = store[j]
      /\ counted \in Buckets
  <2>1. /\ counted.count = store[k].count + 1 /\ counted.expiresAt = store[k].expiresAt
        /\ counted \in Buckets
    BY <1>2 DEF Buckets
  <2> QED
    BY <1>2, <2>1 DEF MemoryInv, BucketsTyped
<1>4. \A j \in Keys : store'[j].expiresAt = store[j].expiresAt /\ OpenedAt(j)' = OpenedAt(j)
  BY <1>3 DEF OpenedAt, Width
<1>5. BucketsTyped'
  BY <1>2, <1>3 DEF MemoryInv, BucketsTyped
<1>6. PassedOnce'
  BY <1>4 DEF MemoryInv, PassedOnce, BucketsTyped
<1>7. \A i, j, t, u : Since(i, j, t)' = Since(i, j, t) /\ Between(i, j, t, u)' = Between(i, j, t, u)
  BY DEF Since, Between
<1>8. TwiceAtMost'
  BY <1>7 DEF MemoryInv, TwiceAtMost, Between, Width
<1>9. ASSUME NEW i \in DOMAIN Chain
      PROVE  /\ Counts(store[k].count + 1, i, Since(i, k, OpenedAt(k)))
             /\ Len(Chain) = 1 => Cardinality(Since(i, k, OpenedAt(k))) = Chain[i].limit
  <2>1. Counts(store[k].count, i, Since(i, k, OpenedAt(k)))
    BY <1>2 DEF MemoryInv, BucketsCount
  <2>2. Len(Chain) = 1 => i = here
    BY <1>1, ChainDomain
  <2>3. Cardinality(Since(i, k, OpenedAt(k))) \in Nat
    BY PassagesFinite DEF MemoryInv, BucketsTyped
  <2> QED
    BY <1>1, <1>2, <2>1, <2>2, <2>3 DEF Counts
<1>10. BucketsCount'
  <2>1. ASSUME NEW j \in Keys, NEW i
        PROVE  /\ Since(i, j, OpenedAt(j))' = Since(i, j, OpenedAt(j))
               /\ Between(i, j, OpenedAt(j) - Width, OpenedAt(j))'
                    = Between(i, j, OpenedAt(j) - Width, OpenedAt(j))
    BY <1>4 DEF Since, Between, Width
  <2>2. ASSUME NEW j \in Keys, NEW i \in DOMAIN Chain
        PROVE  Counts(store'[j].count, i, Since(i, j, OpenedAt(j)))
    BY <1>3, <1>9 DEF MemoryInv, BucketsCount
  <2>3. ASSUME NEW j \in Keys, NEW i \in DOMAIN Chain
        PROVE  /\ Counts(store[j].count, i, Since(i, j, OpenedAt(j)))'
               /\ Cardinality(Between(i, j, OpenedAt(j) - Width, OpenedAt(j)))' <= Chain[i].limit
    <3>1. Cardinality(Between(i, j, OpenedAt(j) - Width, OpenedAt(j))) <= Chain[i].limit
      BY DEF MemoryInv, BucketsCount
    <3> QED
      BY <2>1, <2>2, <3>1 DEF Counts
  <2>4. ASSUME NEW j \in Keys PROVE OpenedAt(j)' <= now'
    BY <1>4 DEF MemoryInv, BucketsCount
  <2> QED
    BY <2>3, <2>4 DEF BucketsCount
<1>11. Since(here, k, OpenedAt(k)) \subseteq spent
  <2>1. ASSUME NEW e \in passed, OpenedAt(k) <= e.time
        PROVE  now - Width < e.time
    BY <1>1, <1>2, <2>1 DEF MemoryInv, BucketsTyped, OpenedAt, Expired
  <2> QED
    BY <1>1, <2>1 DEF Since
<1>12. IsFiniteSet(spent)
  BY FS_Subset DEF MemoryInv, BucketsTyped
<1>13. Len(Chain) = 1 => Cardinality(spent) >= Chain[here].limit
  <2>1. /\ Cardinality(Since(here, k, OpenedAt(k))) <= Cardinality(spent)
        /\ Cardinality(spent) \in Nat
    BY <1>11, <1>12, FS_Subset, FS_CardinalityType
  <2> QED
    BY <1>1, <1>9, <2>1
<1> QED
  BY <1>5, <1>6, <1>8, <1>10, <1>13 DEF MemoryInv

\* One check of a limiter, in each of its three outcomes.
LEMMA CheckStep ==
  ASSUME OneWindow, MemoryInv, NEW r \in Requests, CheckBucket(r)
  PROVE  MemoryInv' /\ (Len(Chain) = 1 => RefusesOnlyWhenSpent)
<1> DEFINE k       == key[r]
           bucket  == store[k]
           limiter == Chain[at[r]]
<1>1. /\ r \notin limited /\ at[r] \in DOMAIN Chain /\ limiter.window = Width
      /\ UNCHANGED <<now, key>>
  BY ChainFact DEF CheckBucket
<1>2. /\ now \in Nat /\ k \in Keys /\ bucket \in Buckets
      /\ bucket.count \in Nat /\ bucket.expiresAt \in Nat
      /\ Width \in Nat /\ OpenedAt(k) = bucket.expiresAt - Width
  BY ChainFact DEF MemoryInv, BucketsTyped, Buckets, OpenedAt
<1>3. PICK counted : counted = [bucket EXCEPT !.count = @ + 1]
  OBVIOUS
<1>4. counted.count = bucket.count + 1
  BY <1>2, <1>3 DEF Buckets
<1>5. CASE /\ Expired(bucket)
           /\ store' = [store EXCEPT ![k] = [count |-> 1, expiresAt |-> now + Width]]
           /\ Pass(r)
  <2>1. MemoryInv'
    <3>1. PICK opened \in Int, count \in Nat \ {0} : opened = now /\ count = 1
      BY <1>2
    <3>2. store' = [store EXCEPT ![k] = [count |-> count, expiresAt |-> opened + Width]]
      BY <1>5, <3>1
    <3> QED
      BY <1>1, <1>5, <3>1, <3>2, PassStep
  <2> QED
    BY <1>5, <2>1 DEF Pass, RefusesOnlyWhenSpent
<1>6. CASE /\ ~Expired(bucket) /\ store' = [store EXCEPT ![k] = counted]
           /\ HasRoom(counted, limiter) /\ Pass(r)
  <2>1. MemoryInv'
    <3>1. PICK opened \in Int, count \in Nat \ {0} :
            opened = OpenedAt(k) /\ count = bucket.count + 1
      BY <1>2
    <3>2. counted = [count |-> count, expiresAt |-> opened + Width]
      BY <1>2, <1>3, <3>1 DEF Buckets
    <3>3. count <= limiter.limit
      BY <1>4, <1>6, <3>1 DEF HasRoom
    <3> QED
      BY <1>1, <1>6, <3>1, <3>2, <3>3, PassStep
  <2> QED
    BY <1>6, <2>1 DEF Pass, RefusesOnlyWhenSpent
<1>7. CASE /\ ~Expired(bucket) /\ store' = [store EXCEPT ![k] = counted]
           /\ ~HasRoom(counted, limiter) /\ Reject(r)
  <2>1. ~(bucket.count + 1 <= limiter.limit) /\ UNCHANGED <<at, passed>>
    BY <1>4, <1>7 DEF HasRoom, Reject
  <2>2. /\ MemoryInv'
        /\ Len(Chain) = 1 =>
             Cardinality({e \in passed : /\ e.limiter = at[r] /\ key[e.request] = key[r]
                                         /\ now - Chain[at[r]].window < e.time})
               >= Chain[at[r]].limit
    BY <1>1, <1>3, <1>7, <2>1, RejectStep
  <2>3. limited' \ limited = {r}
    BY <1>1, <1>7 DEF Reject
  <2> QED
    BY <2>2, <2>3 DEF RefusesOnlyWhenSpent
<1> QED
  BY <1>1, <1>3, <1>5, <1>6, <1>7 DEF CheckBucket

\* Time passes.
LEMMA MemoryTickStep ==
  ASSUME OneWindow, MemoryInv, now' \in {now, now + 1}, UNCHANGED <<store, at, key, passed>>
  PROVE  MemoryInv'
<1>1. now \in Nat /\ now' \in Nat /\ now <= now'
  BY DEF MemoryInv, BucketsTyped
<1>2. BucketsTyped'
  BY <1>1 DEF MemoryInv, BucketsTyped
<1>3. PassedOnce'
  BY <1>1 DEF MemoryInv, PassedOnce, BucketsTyped
<1>4. BucketsCount'
  <2>1. ASSUME NEW k \in Keys PROVE OpenedAt(k)' = OpenedAt(k) /\ OpenedAt(k)' <= now'
    <3>1. OpenedAt(k) \in Int /\ OpenedAt(k) <= now
      BY ChainFact DEF MemoryInv, BucketsTyped, Buckets, BucketsCount, OpenedAt
    <3>2. OpenedAt(k)' = OpenedAt(k)
      BY DEF OpenedAt, Width
    <3> QED
      BY <1>1, <3>1, <3>2
  <2>2. ASSUME NEW k \in Keys, NEW i \in DOMAIN Chain
        PROVE  /\ Counts(store[k].count, i, Since(i, k, OpenedAt(k)))'
               /\ Cardinality(Between(i, k, OpenedAt(k) - Width, OpenedAt(k)))' <= Chain[i].limit
    <3>1. /\ Counts(store[k].count, i, Since(i, k, OpenedAt(k)))
          /\ Cardinality(Between(i, k, OpenedAt(k) - Width, OpenedAt(k))) <= Chain[i].limit
      BY DEF MemoryInv, BucketsCount
    <3>2. /\ Since(i, k, OpenedAt(k))' = Since(i, k, OpenedAt(k))
          /\ Between(i, k, OpenedAt(k) - Width, OpenedAt(k))'
               = Between(i, k, OpenedAt(k) - Width, OpenedAt(k))
      BY DEF Since, Between, OpenedAt, Width
    <3> QED
      BY <3>1, <3>2 DEF Counts
  <2> QED
    BY <2>1, <2>2 DEF BucketsCount
<1>5. TwiceAtMost'
  BY DEF MemoryInv, TwiceAtMost, Between, Width
<1> QED
  BY <1>2, <1>3, <1>4, <1>5 DEF MemoryInv

LEMMA MemoryStep ==
  ASSUME OneWindow, MemoryInv, [MemoryNext]_memoryVars
  PROVE  MemoryInv' /\ (Len(Chain) = 1 => RefusesOnlyWhenSpent)
<1>1. CASE UNCHANGED memoryVars
  BY <1>1, MemoryTickStep DEF memoryVars, RefusesOnlyWhenSpent
<1>2. CASE MemoryTick
  BY <1>2, MemoryTickStep DEF MemoryTick, RefusesOnlyWhenSpent
<1>3. ASSUME NEW r \in Requests, CheckBucket(r)
      PROVE  MemoryInv' /\ (Len(Chain) = 1 => RefusesOnlyWhenSpent)
  BY <1>3, CheckStep
<1> QED
  BY <1>1, <1>2, <1>3 DEF MemoryNext

\* A bucket that limiters share counts at least the passages of each since it
\* was opened, and exactly those of a limiter that is alone, up to its limit.
THEOREM MemoryInvariant ==
  ASSUME OneWindow
  PROVE  MemorySpec => []MemoryInv
<1>1. MemoryInv /\ [MemoryNext]_memoryVars => MemoryInv'
  BY MemoryStep
<1> QED
  BY <1>1, MemoryStart, PTL DEF MemorySpec

LEMMA MemoryBound ==
  ASSUME OneWindow, MemoryInv
  PROVE  LimitPerWindow
<1> SUFFICES ASSUME NEW i \in DOMAIN Chain, NEW k \in Keys, NEW e \in passed
             PROVE  Cardinality(Admitted(i, k, e.time)) <= 2 * Chain[i].limit
  BY DEF LimitPerWindow
<1>1. e.time \in Int /\ Chain[i].window = Width
  BY ChainFact DEF MemoryInv, BucketsTyped
<1>2. Admitted(i, k, e.time) = Between(i, k, e.time, e.time + Width)
  BY <1>1 DEF Admitted, Between
<1> QED
  BY <1>1, <1>2 DEF MemoryInv, TwiceAtMost

\* For any number of limiters that share their buckets and have one window: none
\* admits more than twice its limit under a key within one window, whatever the
\* limits of the others.
THEOREM SharedBucketsAreLimited ==
  ASSUME OneWindow
  PROVE  MemorySpec => []LimitPerWindow
<1> QED
  BY MemoryBound, MemoryInvariant, PTL

\* For every limit, window and number of keys: a limiter that shares its
\* buckets with no other never admits more than twice its limit within one
\* window, and refuses only when it admitted its limit since the bucket was
\* opened.
THEOREM MemoryIsLimited ==
  ASSUME OneLimiter
  PROVE  MemorySpec => MemoryLimits
<1>1. OneWindow /\ Len(Chain) = 1
  BY OneLimiterFact DEF OneLimiter
<1>2. MemoryInv => LimitPerWindow
  BY <1>1, MemoryBound
<1>3. MemoryInv /\ [MemoryNext]_memoryVars => [RefusesOnlyWhenSpent]_memoryVars
  BY <1>1, MemoryStep
<1>4. MemorySpec => []MemoryInv
  BY <1>1, MemoryInvariant
<1> QED
  BY <1>2, <1>3, <1>4, PTL DEF MemorySpec, MemoryLimits

=============================================================================
