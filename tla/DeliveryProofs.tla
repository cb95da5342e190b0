---------------------------- MODULE DeliveryProofs ---------------------------
(***************************************************************************)
(* Proofs about what has to arrive.  Webhooks: for every set of events and *)
(* secrets' names, every tolerance, every skew and every number of posts   *)
(* on their way, the rotation refuses nothing that is on time, copies of a *)
(* post are accepted within twice the tolerance, and the queue forgets     *)
(* only what was accepted.  DevSession: no wrangler session outlives       *)
(* gmode dev.  Dashboard: the list of requests is the recent past.         *)
(***************************************************************************)
EXTENDS Webhooks, DevSession, Dashboard, FiniteSetTheorems, SequenceTheorems, TLAPS

-----------------------------------------------------------------------------
(* The inductive invariant. *)

\* A post is an event signed with one of the secrets at some time, with the
\* new one only when the sender has switched.
Signed(post) ==
  \E e \in Events, t \in Nat, which \in {"old", "new"} :
    /\ post = SignWebhookBody(e, t, Named(which))
    /\ which = "new" => phase \in {2, 3}

TypeOK ==
  /\ answer \in [Events -> {0, 200, 401, 500}]
  /\ DOMAIN attempt = Events
  /\ queue \subseteq Events
  /\ scheme \in Schemes /\ skew \in Skews
  /\ phase \in 0..3 /\ clock \in Nat

\* What was accepted was on time by the receiver's clock.
AcceptedOnTime ==
  \A a \in accepted :
    a.timestamp \in Nat /\ a.at \in Int /\ a.at - a.timestamp \in -Tolerance..Tolerance

\* A success that the consumer has been told of was an acceptance.
SuccessIsAcceptance ==
  \A e \in Events : answer[e] = 200 => \E a \in accepted : a.id = e

DeliveryInv ==
  /\ TypeOK
  /\ \A post \in net : Signed(post)
  /\ AcceptedOnTime
  /\ SuccessIsAcceptance

-----------------------------------------------------------------------------
(* Signing and verifying. *)

\* The receiver finds the secret that a post was signed with under the post's
\* key id, as long as it is configured with both or the sender has not
\* switched (VerifyWebhookBody, SelectSecrets).
LEMMA SignedVerifies ==
  ASSUME TypeOK, phase < 3, NEW post, Signed(post), NEW time \in Int,
         time - post.timestamp \in -Tolerance..Tolerance
  PROVE  VerifyWebhookBody(post, Secrets, time)
<1>1. PICK e \in Events, t \in Nat, which \in {"old", "new"} :
        /\ post = SignWebhookBody(e, t, Named(which))
        /\ which = "new" => phase \in {2, 3}
  BY DEF Signed
<1>2. /\ post.id = e /\ post.timestamp = t /\ post.keyId = Named(which).keyId
      /\ post.signature = [secret |-> which, id |-> e, timestamp |-> t]
  BY <1>1 DEF SignWebhookBody, Named
<1>3. which \in SelectSecrets(Secrets, Named(which).keyId)
  <2>1. scheme \in {"keyed", "unkeyed", "upgrade"}
    BY SchemesAssumption DEF TypeOK
  <2>2. CASE phase = 0
    <3>1. Secrets = <<Named("old")>> /\ which = "old"
      BY <1>1, <2>2 DEF Secrets
    <3> QED
      BY <2>1, <3>1 DEF SelectSecrets, Named, None
  <2>3. CASE phase \in {1, 2}
    <3>1. Secrets = <<Named("new"), Named("old")>>
      BY <2>3 DEF Secrets
    <3> QED
      BY <2>1, <3>1 DEF SelectSecrets, Named, None
  <2> QED
    BY <2>2, <2>3 DEF TypeOK
<1> QED
  BY <1>2, <1>3 DEF VerifyWebhookBody

\* What the sender signs is a signed post.
LEMMA SigningSigns ==
  ASSUME TypeOK, NEW e \in Events
  PROVE  Signed(SignWebhookBody(e, clock, Key)) /\ SignWebhookBody(e, clock, Key).id = e
<1>1. CASE phase < 2
  BY <1>1 DEF Signed, Key, TypeOK, SignWebhookBody
<1>2. CASE phase \in {2, 3}
  BY <1>2 DEF Signed, Key, TypeOK, SignWebhookBody
<1> QED
  BY <1>1, <1>2 DEF TypeOK

LEMMA SignedFacts ==
  ASSUME NEW post, Signed(post)
  PROVE  post.id \in Events /\ post.timestamp \in Nat
BY DEF Signed, SignWebhookBody

-----------------------------------------------------------------------------
(* The invariant is inductive. *)

LEMMA DeliveryInit == Init => DeliveryInv
BY DEF Init, DeliveryInv, TypeOK, AcceptedOnTime, SuccessIsAcceptance

\* Steps that keep what is being rotated keep signed posts signed.
LEMMA SignedStays ==
  ASSUME NEW post, Signed(post), scheme' = scheme, phase' \in {phase, phase + 1},
         phase \in 0..3, phase' \in 0..3
  PROVE  Signed(post)'
<1>1. PICK e \in Events, t \in Nat, which \in {"old", "new"} :
        /\ post = SignWebhookBody(e, t, Named(which))
        /\ which = "new" => phase \in {2, 3}
  BY DEF Signed
<1>2. Named(which)' = Named(which)
  BY DEF Named
<1>3. post = SignWebhookBody(e, t, Named(which)')
  BY <1>1, <1>2
<1>4. which = "new" => phase' \in {2, 3}
  BY <1>1
<1> QED
  BY <1>3, <1>4 DEF Signed

LEMMA AcceptStep ==
  ASSUME DeliveryInv, NEW post \in net, NEW again \in BOOLEAN, Accept(post, again)
  PROVE  DeliveryInv'
<1>1. Signed(post) /\ post.id \in Events /\ post.timestamp \in Nat
  BY SignedFacts DEF DeliveryInv
<1>2. UNCHANGED <<queue, attempt, scheme, phase, skew, clock>>
      /\ accepted' = accepted \union
           {[id |-> post.id, timestamp |-> post.timestamp, at |-> clock + skew]}
      /\ answer' \in {answer, [answer EXCEPT ![post.id] = 200]}
      /\ net' \subseteq net
  BY DEF Accept, Respond
<1>3. TypeOK'
  BY <1>1, <1>2 DEF DeliveryInv, TypeOK
<1>4. \A q \in net' : Signed(q)'
  BY <1>2, SignedStays DEF DeliveryInv, TypeOK
<1>5. AcceptedOnTime'
  <2>1. clock + skew \in Int
    BY SkewsAssumption, ToleranceAssumption DEF DeliveryInv, TypeOK
  <2>2. (clock + skew) - post.timestamp \in -Tolerance..Tolerance
    BY Zenon DEF Accept, VerifyWebhookBody
  <2>3. ASSUME NEW a \in accepted'
        PROVE  /\ a.timestamp \in Nat /\ a.at \in Int
               /\ a.at - a.timestamp \in -Tolerance..Tolerance
    <3>1. CASE a \in accepted
      BY <3>1 DEF DeliveryInv, AcceptedOnTime
    <3>2. CASE a = [id |-> post.id, timestamp |-> post.timestamp, at |-> clock + skew]
      <4>1. a.timestamp = post.timestamp /\ a.at = clock + skew
        BY <3>2
      <4> QED
        BY <1>1, <2>1, <2>2, <4>1
    <3> QED
      BY <1>2, <3>1, <3>2
  <2> QED
    BY <2>3 DEF AcceptedOnTime
<1>6. SuccessIsAcceptance'
  <2>1. [id |-> post.id, timestamp |-> post.timestamp, at |-> clock + skew].id = post.id
    OBVIOUS
  <2>2. \E a \in accepted' : a.id = post.id
    BY <1>2, <2>1
  <2> QED
    BY <1>1, <1>2, <2>2 DEF DeliveryInv, TypeOK, SuccessIsAcceptance
<1> QED
  BY <1>3, <1>4, <1>5, <1>6 DEF DeliveryInv

LEMMA RefuseStep ==
  ASSUME DeliveryInv, NEW post \in net, Refuse(post)
  PROVE  DeliveryInv'
<1>1. Signed(post) /\ post.id \in Events
  BY SignedFacts DEF DeliveryInv
<1>2. /\ UNCHANGED <<queue, attempt, accepted, scheme, phase, skew, clock>>
      /\ \/ answer' = answer
         \/ answer' = [answer EXCEPT ![post.id] = 500]
         \/ answer' = [answer EXCEPT ![post.id] = 401]
      /\ net' \subseteq net
  BY DEF Refuse, Respond
<1>3. TypeOK' /\ SuccessIsAcceptance'
  BY <1>1, <1>2 DEF DeliveryInv, TypeOK, SuccessIsAcceptance
<1>4. \A q \in net' : Signed(q)'
  BY <1>2, SignedStays DEF DeliveryInv, TypeOK
<1> QED
  BY <1>2, <1>3, <1>4 DEF DeliveryInv, AcceptedOnTime

\* A step of the sender, the clock or the rotation.
LEMMA DeliveryStep == DeliveryInv /\ [Next]_vars => DeliveryInv'
<1> SUFFICES ASSUME DeliveryInv, [Next]_vars PROVE DeliveryInv'
  OBVIOUS
<1>1. ASSUME NEW e \in Events,
             \/ EnqueueWebhookDelivery(e) \/ DeliverWebhookMessage(e) \/ FetchFails(e)
             \/ \E acknowledged \in BOOLEAN : Settle(e, acknowledged)
      PROVE  DeliveryInv'
  <2>1. /\ UNCHANGED <<accepted, scheme, phase, skew, clock>>
        /\ net' \subseteq net \union {SignWebhookBody(e, clock, Key)}
        /\ answer' \in {answer, [answer EXCEPT ![e] = 0]}
        /\ queue' \subseteq queue \union {e}
        /\ DOMAIN attempt' = DOMAIN attempt
    BY <1>1 DEF EnqueueWebhookDelivery, DeliverWebhookMessage, FetchFails, Settle
  <2>2. TypeOK' /\ SuccessIsAcceptance'
    BY <2>1 DEF DeliveryInv, TypeOK, SuccessIsAcceptance
  <2>3. \A q \in net' : Signed(q)'
    BY <2>1, SignedStays, SigningSigns DEF DeliveryInv, TypeOK
  <2> QED
    BY <2>1, <2>2, <2>3 DEF DeliveryInv, AcceptedOnTime
<1>2. CASE RotateStep
  <2>1. /\ UNCHANGED <<queue, attempt, answer, net, accepted, scheme, skew, clock>>
        /\ phase' = phase + 1 /\ phase' \in 0..3
    BY <1>2 DEF RotateStep, DeliveryInv, TypeOK
  <2>2. \A q \in net' : Signed(q)'
    BY <2>1, SignedStays DEF DeliveryInv, TypeOK
  <2> QED
    BY <2>1, <2>2 DEF DeliveryInv, TypeOK, AcceptedOnTime, SuccessIsAcceptance
<1>3. CASE Tick
  <2>1. \A q \in net' : Signed(q)'
    BY <1>3, SignedStays DEF Tick, DeliveryInv, TypeOK
  <2> QED
    BY <1>3, <2>1 DEF Tick, DeliveryInv, TypeOK, AcceptedOnTime, SuccessIsAcceptance
<1>4. ASSUME NEW post \in net, Lose(post) PROVE DeliveryInv'
  <2>1. \A q \in net' : Signed(q)'
    BY <1>4, SignedStays DEF Lose, DeliveryInv, TypeOK
  <2> QED
    BY <1>4, <2>1 DEF Lose, DeliveryInv, TypeOK, AcceptedOnTime, SuccessIsAcceptance
<1>5. CASE UNCHANGED vars
  <2>1. \A q \in net' : Signed(q)'
    BY <1>5, SignedStays DEF vars, DeliveryInv, TypeOK
  <2> QED
    BY <1>5, <2>1 DEF vars, DeliveryInv, TypeOK, AcceptedOnTime, SuccessIsAcceptance
<1> QED
  BY <1>1, <1>2, <1>3, <1>4, <1>5, AcceptStep, RefuseStep DEF Next

THEOREM DeliveryInvariant == Spec => []DeliveryInv
BY DeliveryInit, DeliveryStep, PTL DEF Spec

-----------------------------------------------------------------------------
(* The properties. *)

\* For every tolerance and skew: while the rotation lasts a post that is on
\* time verifies, and two acceptances of a post are at most twice the
\* tolerance apart (signWebhookBody(), verifyWebhookBody()).
THEOREM WebhooksVerifyExactly == Spec => []VerifiesExactly
<1>1. DeliveryInv => RotationRefusesNothing
  <2> SUFFICES ASSUME DeliveryInv, phase < 3, NEW post \in net,
                      (clock + skew) - post.timestamp \in -Tolerance..Tolerance
               PROVE  VerifyWebhookBody(post, Secrets, clock + skew)
    BY DEF RotationRefusesNothing
  <2>1. clock + skew \in Int
    BY SkewsAssumption, ToleranceAssumption DEF DeliveryInv, TypeOK
  <2> QED
    BY <2>1, SignedVerifies, Zenon DEF DeliveryInv
<1>2. DeliveryInv => ReplayWindow
  BY ToleranceAssumption DEF DeliveryInv, AcceptedOnTime, ReplayWindow
<1> QED
  BY <1>1, <1>2, DeliveryInvariant, PTL DEF VerifiesExactly

\* An event leaves the queue only if the receiver accepted it, however its
\* posts and their answers were lost, doubled or late (deliverWebhookMessage()).
THEOREM QueueForgetsOnlyAccepted == Spec => ForgottenOnlyIfAccepted
<1>1. ASSUME DeliveryInv, Next, NEW e \in queue \ queue' PROVE \E a \in accepted : a.id = e
  <2>1. e \in Events
    BY <1>1 DEF DeliveryInv, TypeOK
  <2>2. PICK f \in Events, acknowledged \in BOOLEAN : Settle(f, acknowledged)
    BY <1>1 DEF Next, RotateStep, Tick, EnqueueWebhookDelivery, DeliverWebhookMessage,
         FetchFails, Refuse, Lose, Accept
  <2>3. Delivered(e)
    BY <1>1, <2>2 DEF Settle
  <2> QED
    BY <1>1, <2>1, <2>3 DEF DeliveryInv, SuccessIsAcceptance, Delivered
<1>2. DeliveryInv /\ [Next]_vars =>
        [\A e \in queue \ queue' : \E a \in accepted : a.id = e]_vars
  BY <1>1
<1> QED
  BY <1>2, DeliveryInvariant, PTL DEF Spec, ForgottenOnlyIfAccepted

-----------------------------------------------------------------------------
(* The sessions of gmode dev. *)

Contents == Manifests \union {"broken"}
SessionStates == {"starting", "serving", "stopping", "dead", "reaped"}
Sessions == [state : SessionStates, config : Contents]

SessionsTyped ==
  /\ sessions \in Seq(Sessions) /\ Len(sessions) > 0
  /\ manifest \in Contents /\ resolved \in Contents

DevInv == SessionsTyped /\ NoOrphans

\* A list of sessions with one of them in another state.
Put(list, s, state) == [list EXCEPT ![s].state = state]

LEMMA PutFact ==
  ASSUME NEW list \in Seq(Sessions), NEW s \in DOMAIN list, NEW state \in SessionStates
  PROVE  /\ Put(list, s, state) \in Seq(Sessions)
         /\ Len(Put(list, s, state)) = Len(list)
         /\ \A t \in DOMAIN list :
              Put(list, s, state)[t].state = IF t = s THEN state ELSE list[t].state
<1> PICK q : q = [list[s] EXCEPT !.state = state]
  OBVIOUS
<1>1. list[s] \in Sessions
  OBVIOUS
<1>2. q \in Sessions /\ q.state = state
  BY <1>1 DEF Sessions
<1>3. Put(list, s, state) = [list EXCEPT ![s] = q]
  BY DEF Put
<1> HIDE DEF Sessions
<1> QED
  BY <1>2, <1>3

\* SIGINT leaves no child that it reaches running.
LEMMA InterruptFact ==
  ASSUME NEW list \in Seq(Sessions), NEW s \in DOMAIN list
  PROVE  /\ Interrupt(list, s) \in Seq(Sessions)
         /\ Len(Interrupt(list, s)) = Len(list)
         /\ Interrupt(list, s)[s].state \notin {"starting", "serving"}
<1>1. {"stopping", "dead"} \subseteq SessionStates
  BY DEF SessionStates
<1>2. \/ Interrupt(list, s) \in {Put(list, s, state) : state \in {"stopping", "dead"}}
      \/ Interrupt(list, s) = list /\ list[s].state \notin {"starting", "serving"}
  BY DEF Interrupt, Put
<1>3. ASSUME NEW state \in {"stopping", "dead"}, Interrupt(list, s) = Put(list, s, state)
      PROVE  /\ Interrupt(list, s) \in Seq(Sessions)
             /\ Len(Interrupt(list, s)) = Len(list)
             /\ Interrupt(list, s)[s].state \notin {"starting", "serving"}
  <2>1. state \in SessionStates
    BY <1>1
  <2>2. /\ Put(list, s, state) \in Seq(Sessions)
        /\ Len(Put(list, s, state)) = Len(list)
        /\ Put(list, s, state)[s].state = state
    BY <2>1, PutFact
  <2> QED
    BY <1>3, <2>2
<1> QED
  BY <1>2, <1>3

\* shutdown() reaches every child.
LEMMA ShutdownFact ==
  ASSUME NEW list \in Seq(Sessions), Len(list) > 0, Shutdown(list)
  PROVE  /\ sessions' \in Seq(Sessions) /\ Len(sessions') > 0 /\ pc' = "exited"
         /\ \A s \in DOMAIN sessions' : sessions'[s].state \notin {"starting", "serving"}
<1>1. /\ sessions' = [s \in 1..Len(list) |-> Interrupt(list, s)[s]] /\ pc' = "exited"
      /\ Len(list) \in Nat /\ DOMAIN list = 1..Len(list)
  BY DEF Shutdown
<1>2. \A s \in DOMAIN list : /\ Interrupt(list, s)[s] \in Sessions
                             /\ Interrupt(list, s)[s].state \notin {"starting", "serving"}
  BY <1>1, InterruptFact
<1>3. sessions' \in [1..Len(list) -> Sessions]
  BY <1>1, <1>2
<1>4. sessions' \in Seq(Sessions) /\ Len(sessions') = Len(list)
  BY <1>1, <1>3
<1> QED
  BY <1>1, <1>2, <1>4

LEMMA DevStart == DevInit => DevInv
<1> SUFFICES ASSUME DevInit PROVE DevInv
  OBVIOUS
<1>1. [state |-> "starting", config |-> manifest] \in Sessions
  BY DEF DevInit, Sessions, SessionStates, Contents
<1>2. sessions \in Seq(Sessions) /\ Len(sessions) > 0
  BY <1>1 DEF DevInit, StartWrangler
<1> QED
  BY <1>2 DEF DevInit, DevInv, SessionsTyped, NoOrphans, Contents

\* While the command runs, a step has to keep the types only, unless it exits.
LEMMA DevStep == DevInv /\ [DevNext]_devVars => DevInv'
<1> SUFFICES ASSUME DevInv, [DevNext]_devVars PROVE DevInv'
  OBVIOUS
<1>0. SessionsTyped /\ NoOrphans /\ DOMAIN sessions = 1..Len(sessions) /\ Len(sessions) \in Nat
  BY DEF DevInv, SessionsTyped
<1>1. CASE UNCHANGED devVars
  BY <1>0, <1>1 DEF devVars, DevInv, SessionsTyped, NoOrphans
<1>2. CASE ManifestChanged
  <2>1. Len(sessions) \in DOMAIN sessions
    BY <1>0 DEF SessionsTyped
  <2>2. /\ Interrupt(sessions, Len(sessions)) \in Seq(Sessions)
        /\ Len(Interrupt(sessions, Len(sessions))) = Len(sessions)
    BY <1>0, <2>1, InterruptFact DEF SessionsTyped
  <2> QED
    BY <1>0, <1>2, <2>2 DEF ManifestChanged, DevInv, SessionsTyped, NoOrphans
<1>3. CASE TimerFires
  <2>1. [state |-> "starting", config |-> resolved] \in Sessions
    BY <1>0 DEF SessionsTyped, Sessions, SessionStates
  <2>2. sessions' \in Seq(Sessions) /\ Len(sessions') > 0
    BY <1>0, <1>3, <2>1 DEF TimerFires, StartWrangler, SessionsTyped
  <2> QED
    BY <1>0, <1>3, <2>2 DEF TimerFires, DevInv, SessionsTyped, NoOrphans
<1>4. CASE Ready
  BY <1>0, <1>4 DEF Ready, DevInv, SessionsTyped, NoOrphans
<1>5. CASE Interrupted
  BY <1>0, <1>5, ShutdownFact DEF Interrupted, DevInv, SessionsTyped, NoOrphans
<1>6. ASSUME NEW s \in DOMAIN sessions, ExitEvent(s) PROVE DevInv'
  <2> PICK reaped : reaped = [sessions EXCEPT ![s].state = "reaped"]
    OBVIOUS
  <2>1. reaped \in Seq(Sessions) /\ Len(reaped) > 0
    <3>1. reaped = Put(sessions, s, "reaped") /\ "reaped" \in SessionStates
      BY DEF Put, SessionStates
    <3>2. sessions \in Seq(Sessions)
      BY <1>0 DEF SessionsTyped
    <3>3. /\ Put(sessions, s, "reaped") \in Seq(Sessions)
          /\ Len(Put(sessions, s, "reaped")) = Len(sessions)
      BY <3>1, <3>2, PutFact
    <3> QED
      BY <1>0, <3>1, <3>3 DEF SessionsTyped
  <2>2. CASE Shutdown(reaped)
    BY <1>0, <1>6, <2>1, <2>2, ShutdownFact DEF ExitEvent, DevInv, SessionsTyped, NoOrphans
  <2>3. CASE sessions' = reaped /\ UNCHANGED pc
    BY <1>0, <1>6, <2>1, <2>3 DEF ExitEvent, DevInv, SessionsTyped, NoOrphans
  <2> QED
    BY <1>6, <2>2, <2>3 DEF ExitEvent
<1>7. ASSUME NEW s \in DOMAIN sessions, NEW state \in SessionStates, Become(s, state),
             state \in {"starting", "serving"} => sessions[s].state \in {"starting", "serving"},
             UNCHANGED <<manifest, resolved, pc>>
      PROVE  DevInv'
  <2>1. /\ sessions' \in Seq(Sessions) /\ Len(sessions') = Len(sessions)
        /\ \A t \in DOMAIN sessions : sessions'[t].state = IF t = s THEN state ELSE sessions[t].state
    <3>1. sessions' = Put(sessions, s, state)
      BY <1>7 DEF Become, Put
    <3>2. sessions \in Seq(Sessions)
      BY <1>0 DEF SessionsTyped
    <3>3. /\ Put(sessions, s, state) \in Seq(Sessions)
          /\ Len(Put(sessions, s, state)) = Len(sessions)
          /\ \A t \in DOMAIN sessions :
               Put(sessions, s, state)[t].state = IF t = s THEN state ELSE sessions[t].state
      BY <3>2, PutFact
    <3> QED
      BY <3>1, <3>3
  <2> QED
    BY <1>0, <1>7, <2>1 DEF DevInv, SessionsTyped, NoOrphans
<1>8. ASSUME NEW s \in DOMAIN sessions, Listen(s) \/ Stopped(s) \/ Fail(s) PROVE DevInv'
  BY <1>7, <1>8 DEF Listen, Stopped, Fail, SessionStates
<1>9. ASSUME NEW content \in Contents, Save(content) PROVE DevInv'
  BY <1>0, <1>9 DEF Save, DevInv, SessionsTyped, NoOrphans
<1> QED
  BY <1>1, <1>2, <1>3, <1>4, <1>5, <1>6, <1>8, <1>9 DEF DevNext, Contents

\* However saves, timers, exits and signals interleave, every session that
\* gmode dev has spawned is gone or stopping when the command has exited.
THEOREM NoSessionOutlives == DevSpec => []NoOrphans
<1>1. DevInv => NoOrphans
  BY DEF DevInv
<1> QED
  BY <1>1, DevStart, DevStep, PTL DEF DevSpec

-----------------------------------------------------------------------------
(* The page of gmode dev: types. *)

Data == Nat \union {Waiting} \union {HealthReport(w) : w \in Worlds}
Frames == [type : {"request", "health"}, data : Data]
Fetched == [requests : Seq(Nat), state : Data]

Pages ==
  [requests : Seq(Nat), health : Data, fetch : {"asked", "answered", "applied", "failed"},
   answer : Fetched, openedAt : Nat, liveFrom : Nat, live : BOOLEAN]

BoardTyped ==
  /\ subject \in {"requests", "state"} /\ open \in BOOLEAN /\ sent \in Nat
  /\ world \in Worlds /\ health \in Data /\ page \in Pages
  /\ arrived \in Seq(Nat) /\ ring \in Seq(Nat) /\ stream \in Seq(Frames)

-----------------------------------------------------------------------------
(* The inductive invariant of the page. *)

\* How many of the collector's events have reached the page or were lost to it.
Received == Len(arrived) - Len(stream)

\* An event is recorded once, and what is shown or kept of it was recorded.
OnceEach(list) == \A i, j \in DOMAIN list : list[i] = list[j] => i = j
Recorded(list) == \A i \in DOMAIN list : \E n \in DOMAIN arrived : arrived[n] = list[i]

EventsOnce ==
  /\ OnceEach(arrived)
  /\ \A n \in DOMAIN arrived : arrived[n] <= sent /\ arrived[n] \notin posting
  /\ \A e \in posting : e \in Nat /\ e <= sent
  /\ OnceEach(ring) /\ Recorded(ring)
  /\ OnceEach(page.answer.requests) /\ Recorded(page.answer.requests)
  /\ Recorded(page.requests)

\* The stream holds the last events, in order, none from before it was opened.
StreamIsTail ==
  /\ Len(stream) <= Len(arrived)
  /\ \A i \in DOMAIN stream : stream[i].type = "request" /\ stream[i].data = arrived[Received + i]
  /\ open => page.openedAt <= Received
  /\ ~open => stream = <<>>

\* The page shows nothing that the stream has yet to bring, but what was
\* recorded before the page was up to date.
NotAhead(list, from, to) ==
  \A i \in DOMAIN list, n \in DOMAIN arrived :
    arrived[n] = list[i] => n <= to \/ n <= from

\* It ends with the events after "from", up to "to", as far as it has room.
EndsWith(list, from, to) ==
  \A i \in 1..MaxRows :
    i <= to - from => i <= Len(list) /\ list[Len(list) - i + 1] = arrived[to - i + 1]

UpToDate ==
  page.live =>
    /\ open /\ page.fetch \in {"applied", "failed"} /\ page.liveFrom <= Len(arrived)
    /\ NotAhead(page.requests, page.liveFrom, Received)
    /\ EndsWith(page.requests, page.liveFrom, Received)

\* A behaviour about health has no requests.
NoRequests ==
  /\ posting = {} /\ arrived = <<>> /\ ring = <<>>
  /\ page.requests = <<>> /\ page.answer.requests = <<>>
  /\ \A i \in DOMAIN stream : stream[i].type = "health"

BoardInv ==
  /\ BoardTyped /\ Len(page.requests) <= MaxRows /\ DoubledWhileLoading
  /\ subject = "requests" => EventsOnce /\ StreamIsTail /\ UpToDate
  /\ subject = "state" => NoRequests

-----------------------------------------------------------------------------
(* The end of a list. *)

LEMMA LastFact ==
  ASSUME NEW S, NEW list \in Seq(S), NEW n \in Nat
  PROVE  /\ Last(list, n) \in Seq(S)
         /\ Len(Last(list, n)) = IF Len(list) > n THEN n ELSE Len(list)
         /\ \A i \in 1..Len(Last(list, n)) :
              /\ Len(list) - Len(Last(list, n)) + i \in DOMAIN list
              /\ Last(list, n)[i] = list[Len(list) - Len(Last(list, n)) + i]
<1> DEFINE m == (IF Len(list) > n THEN Len(list) - n ELSE 0) + 1
           size == Len(list)
<1>1. size \in Nat /\ DOMAIN list = 1..size
  OBVIOUS
<1>2. m \in Int /\ 1 <= m /\ m <= size + 1
  BY <1>1
<1>3. Last(list, n) = SubSeq(list, m, size)
  BY DEF Last
<1>4. size - m + 1 = IF size > n THEN n ELSE size
  BY <1>1
<1> HIDE DEF m, size
<1>5. \A i \in m..size : list[i] \in S
  BY <1>1, <1>2
<1>6. /\ SubSeq(list, m, size) \in Seq(S)
      /\ Len(SubSeq(list, m, size)) = IF m <= size THEN size - m + 1 ELSE 0
      /\ \A i \in 1..(size - m + 1) : SubSeq(list, m, size)[i] = list[m + i - 1]
  BY <1>1, <1>2, <1>5, SubSeqProperties
<1>7. Last(list, n) \in Seq(S) /\ Len(Last(list, n)) = size - m + 1
  BY <1>1, <1>2, <1>3, <1>6
<1>8. ASSUME NEW i \in 1..(size - m + 1)
      PROVE  /\ size - (size - m + 1) + i \in 1..size
             /\ Last(list, n)[i] = list[size - (size - m + 1) + i]
  <2>1. size - (size - m + 1) + i = m + i - 1 /\ m + i - 1 \in 1..size
    BY <1>1, <1>2
  <2> QED
    BY <1>3, <1>6, <2>1
<1> QED
  BY <1>1, <1>4, <1>7, <1>8 DEF size

LEMMA LastOnce ==
  ASSUME NEW S, NEW list \in Seq(S), NEW n \in Nat, OnceEach(list)
  PROVE  OnceEach(Last(list, n))
<1> DEFINE last == Last(list, n)
           skip == Len(list) - Len(last)
<1>1. /\ last \in Seq(S) /\ Len(last) \in Nat /\ DOMAIN last = 1..Len(last)
      /\ \A i \in 1..Len(last) : skip + i \in DOMAIN list /\ last[i] = list[skip + i]
      /\ skip \in Int
  BY LastFact
<1> HIDE DEF last, skip
<1>2. \A i, j \in 1..Len(last) : last[i] = last[j] => skip + i = skip + j
  BY <1>1 DEF OnceEach
<1>3. \A i, j \in 1..Len(last) : skip + i = skip + j => i = j
  BY <1>1
<1> QED
  BY <1>1, <1>2, <1>3 DEF OnceEach, last

LEMMA LastRecorded ==
  ASSUME NEW S, NEW list \in Seq(S), NEW n \in Nat, Recorded(list)
  PROVE  Recorded(Last(list, n))
BY LastFact DEF Recorded

-----------------------------------------------------------------------------
(* Steps of the page. *)

\* The page receives the next event of the stream: it becomes the last of the
\* list, and what the list showed of the stream before is still in front of it.
LEMMA ReceiveRequest ==
  ASSUME BoardInv, subject = "requests", Receive
  PROVE  BoardInv'
<1> DEFINE shown == page.requests
           kept == Last(shown, MaxRows - 1)
           skip == Len(shown) - Len(kept)
           x    == arrived[Received + 1]
           list == Append(kept, x)
<1>0. /\ BoardTyped /\ Len(shown) <= MaxRows /\ DoubledWhileLoading
      /\ EventsOnce /\ StreamIsTail /\ UpToDate
  BY DEF BoardInv
<1>1. /\ shown \in Seq(Nat) /\ Len(shown) \in Nat /\ DOMAIN shown = 1..Len(shown)
      /\ arrived \in Seq(Nat) /\ Len(arrived) \in Nat /\ DOMAIN arrived = 1..Len(arrived)
      /\ stream \in Seq(Frames) /\ Len(stream) \in Nat /\ DOMAIN stream = 1..Len(stream)
      /\ MaxRows \in Nat /\ MaxRows - 1 \in Nat
      /\ page \in Pages /\ page.liveFrom \in Nat /\ page.openedAt \in Nat
  BY <1>0, SizesAssumption DEF BoardTyped, Pages
<1>2. stream # <<>> /\ stream' = Tail(stream) /\ Len(stream) > 0
  BY <1>1 DEF Receive
<1>3. /\ stream' \in Seq(Frames) /\ Len(stream') = Len(stream) - 1
      /\ \A i \in 1..Len(stream') : stream'[i] = stream[i + 1]
  BY <1>1, <1>2, HeadTailProperties
<1>4. /\ UNCHANGED <<subject, world, sent, posting, arrived, ring, health, open>>
      /\ Received \in Nat /\ Received' = Received + 1 /\ Received + 1 \in DOMAIN arrived
  <2>1. UNCHANGED <<subject, world, sent, posting, arrived, ring, health, open>>
    BY DEF Receive, collector
  <2> QED
    BY <1>0, <1>1, <1>2, <1>3, <2>1 DEF StreamIsTail, Received
<1>5. Head(stream).type = "request" /\ Head(stream).data = x
  <2>1. Head(stream) = stream[1] /\ 1 \in DOMAIN stream
    BY <1>1, <1>2
  <2> QED
    BY <1>0, <2>1 DEF StreamIsTail
<1>6. x \in Nat
  BY <1>1, <1>4
<1>7. /\ kept \in Seq(Nat) /\ Len(kept) \in Nat /\ DOMAIN kept = 1..Len(kept)
      /\ Len(kept) = IF Len(shown) > MaxRows - 1 THEN MaxRows - 1 ELSE Len(shown)
      /\ \A i \in 1..Len(kept) : skip + i \in DOMAIN shown /\ kept[i] = shown[skip + i]
      /\ skip \in Int
  <2> HIDE DEF shown
  <2>1. /\ kept \in Seq(Nat)
        /\ Len(kept) = IF Len(shown) > MaxRows - 1 THEN MaxRows - 1 ELSE Len(shown)
        /\ \A i \in 1..Len(kept) : skip + i \in DOMAIN shown /\ kept[i] = shown[skip + i]
    BY <1>1, LastFact
  <2> HIDE DEF kept
  <2>2. Len(kept) \in Nat /\ DOMAIN kept = 1..Len(kept)
    BY <2>1
  <2>3. skip \in Int
    BY <1>1, <2>2
  <2> HIDE DEF skip
  <2> QED
    BY <2>1, <2>2, <2>3
<1>8. /\ list \in Seq(Nat) /\ Len(list) = Len(kept) + 1 /\ DOMAIN list = 1..(Len(kept) + 1)
      /\ \A i \in 1..Len(kept) : list[i] = kept[i]
      /\ list[Len(kept) + 1] = x
  BY <1>6, <1>7, AppendProperties, LenProperties
<1>9. /\ page' \in Pages /\ page'.requests = list
      /\ page'.answer = page.answer /\ page'.openedAt = page.openedAt
      /\ page'.liveFrom = page.liveFrom /\ page'.live = page.live /\ page'.fetch = page.fetch
  <2>1. page' = [page EXCEPT !.requests = list]
    BY <1>5 DEF Receive
  <2> HIDE DEF list
  <2> QED
    BY <1>1, <1>8, <2>1 DEF Pages
<1> HIDE DEF shown, kept, skip, x, list
<1>10. BoardTyped'
  BY <1>0, <1>3, <1>4, <1>9 DEF BoardTyped
<1>11. Len(page'.requests) <= MaxRows
  BY <1>1, <1>7, <1>8, <1>9
<1>12. x = arrived[Received + 1] /\ shown = page.requests /\ Len(shown) = Len(kept) + skip
  BY <1>1, <1>7 DEF x, shown, skip
<1>13. DoubledWhileLoading'
  <2> SUFFICES ASSUME NEW i \in DOMAIN list, NEW j \in DOMAIN list, i < j, list[i] = list[j]
               PROVE  \E n \in DOMAIN arrived :
                        /\ arrived[n] = list[i]
                        /\ page.openedAt < n /\ (page.live => n <= page.liveFrom)
    BY <1>4, <1>9 DEF DoubledWhileLoading
  <2>1. i \in 1..Len(kept) /\ list[i] = shown[skip + i] /\ skip + i \in DOMAIN shown
    <3>1. Len(kept) \in Nat /\ i \in 1..(Len(kept) + 1) /\ j \in 1..(Len(kept) + 1)
      BY <1>7, <1>8
    <3>2. i \in 1..Len(kept)
      BY <3>1
    <3> QED
      BY <1>7, <1>8, <3>2
  <2>2. CASE j \in 1..Len(kept)
    <3>1. skip + j \in DOMAIN shown /\ shown[skip + i] = shown[skip + j]
      BY <1>7, <1>8, <2>1, <2>2
    <3>2. skip + i < skip + j
      BY <1>7, <2>1, <2>2
    <3> QED
      BY <1>0, <1>12, <2>1, <3>1, <3>2 DEF DoubledWhileLoading
  <2>3. CASE j = Len(kept) + 1
    <3>1. shown[skip + i] = arrived[Received + 1]
      BY <1>8, <1>12, <2>1, <2>3
    <3>2. page.openedAt <= Received
      BY <1>0, <1>2 DEF StreamIsTail
    <3>3. page.live => Received + 1 <= page.liveFrom
      <4>1. page.live => Received + 1 <= Received \/ Received + 1 <= page.liveFrom
        BY <1>0, <1>4, <1>12, <2>1, <3>1 DEF UpToDate, NotAhead
      <4> QED
        BY <1>4, <4>1
    <3>4. page.openedAt < Received + 1
      BY <1>1, <1>4, <3>2
    <3> QED
      BY <1>4, <2>1, <3>1, <3>3, <3>4
  <2> QED
    BY <1>7, <1>8, <2>2, <2>3
<1>14. EventsOnce'
  <2>1. Recorded(list)
    <3> SUFFICES ASSUME NEW i \in DOMAIN list
                 PROVE  \E n \in DOMAIN arrived : arrived[n] = list[i]
      BY DEF Recorded
    <3>1. CASE i \in 1..Len(kept)
      BY <1>0, <1>7, <1>8, <1>12, <3>1 DEF EventsOnce, Recorded
    <3>2. CASE i = Len(kept) + 1
      BY <1>4, <1>8, <1>12, <3>2
    <3> QED
      BY <1>7, <1>8, <3>1, <3>2
  <2> QED
    BY <1>0, <1>4, <1>9, <2>1 DEF EventsOnce, Recorded, OnceEach
<1>15. StreamIsTail'
  <2>1. \A i \in DOMAIN stream' :
          stream'[i].type = "request" /\ stream'[i].data = arrived[Received + 1 + i]
    <3> SUFFICES ASSUME NEW i \in DOMAIN stream'
                 PROVE  stream'[i].type = "request" /\ stream'[i].data = arrived[Received + 1 + i]
      OBVIOUS
    <3>0. DOMAIN stream' = 1..Len(stream')
      BY <1>3
    <3>1. i \in 1..Len(stream') /\ i + 1 \in DOMAIN stream /\ stream'[i] = stream[i + 1]
      BY <1>1, <1>3, <3>0
    <3>2. Received + (i + 1) = Received + 1 + i
      BY <1>4, <3>1
    <3> QED
      BY <1>0, <3>1, <3>2 DEF StreamIsTail
  <2>2. Len(stream') <= Len(arrived) /\ (open => page.openedAt <= Received + 1)
    BY <1>0, <1>1, <1>3, <1>4 DEF StreamIsTail
  <2>3. open
    BY <1>0, <1>2 DEF StreamIsTail
  <2> QED
    BY <1>4, <1>9, <2>1, <2>2, <2>3 DEF StreamIsTail
<1>16. UpToDate'
  <2> SUFFICES ASSUME page.live
               PROVE  /\ NotAhead(list, page.liveFrom, Received + 1)
                      /\ EndsWith(list, page.liveFrom, Received + 1)
    <3>1. page.live => /\ open /\ page.fetch \in {"applied", "failed"}
                       /\ page.liveFrom <= Len(arrived)
      BY <1>0 DEF UpToDate
    <3>2. /\ page.live' = page.live /\ page.liveFrom' = page.liveFrom
          /\ page.requests' = list /\ Received' = Received + 1 /\ arrived' = arrived
          /\ open' = open /\ page.fetch' = page.fetch
      BY <1>4, <1>9
    <3>3. ASSUME NotAhead(list, page.liveFrom, Received + 1)
          PROVE  NotAhead(page.requests, page.liveFrom, Received)'
      BY <3>2, <3>3 DEF NotAhead
    <3>4. ASSUME EndsWith(list, page.liveFrom, Received + 1)
          PROVE  EndsWith(page.requests, page.liveFrom, Received)'
      BY <3>2, <3>4 DEF EndsWith
    <3> QED
      BY <3>1, <3>2, <3>3, <3>4 DEF UpToDate
  <2>1. ASSUME NEW i \in DOMAIN list, NEW n \in DOMAIN arrived, arrived[n] = list[i]
        PROVE  n <= Received + 1 \/ n <= page.liveFrom
    <3>1. CASE i \in 1..Len(kept)
      <4>1. skip + i \in DOMAIN shown /\ arrived[n] = shown[skip + i]
        BY <1>7, <1>8, <2>1, <3>1
      <4>2. n <= Received \/ n <= page.liveFrom
        BY <1>0, <1>12, <4>1 DEF UpToDate, NotAhead
      <4> QED
        BY <1>1, <1>4, <4>2
    <3>2. CASE i = Len(kept) + 1
      <4>1. n = Received + 1
        BY <1>0, <1>4, <1>8, <1>12, <2>1, <3>2 DEF EventsOnce, OnceEach
      <4> QED
        BY <1>4, <4>1
    <3> QED
      BY <1>7, <1>8, <3>1, <3>2
  <2>2. ASSUME NEW i \in 1..MaxRows, i <= (Received + 1) - page.liveFrom
        PROVE  i <= Len(list) /\ list[Len(list) - i + 1] = arrived[(Received + 1) - i + 1]
    <3>1. CASE i = 1
      <4>1. Len(list) - i + 1 = Len(kept) + 1 /\ (Received + 1) - i + 1 = Received + 1
        BY <1>4, <1>7, <1>8, <3>1
      <4> QED
        BY <1>7, <1>8, <1>12, <3>1, <4>1
    <3>2. CASE i > 1
      <4>1. i - 1 \in 1..MaxRows /\ i - 1 <= Received - page.liveFrom
        BY <1>1, <1>4, <2>2, <3>2
      <4>2. /\ i - 1 <= Len(shown)
            /\ shown[Len(shown) - (i - 1) + 1] = arrived[Received - (i - 1) + 1]
        BY <1>0, <1>12, <4>1 DEF UpToDate, EndsWith
      <4>3. i - 1 <= Len(kept) /\ i - 1 \in Nat
        BY <1>1, <1>7, <4>1, <4>2
      <4>4. /\ Len(kept) - (i - 1) + 1 \in 1..Len(kept)
            /\ (Received + 1) - i + 1 = Received - (i - 1) + 1
        BY <1>4, <1>7, <3>2, <4>3
      <4>7. i <= Len(list) /\ Len(list) - i + 1 = Len(kept) - (i - 1) + 1
        BY <1>7, <1>8, <4>3
      <4>6. skip + (Len(kept) - (i - 1) + 1) = Len(shown) - (i - 1) + 1
        BY <1>7, <1>12, <4>3
      <4>5. list[Len(list) - i + 1] = shown[skip + (Len(kept) - (i - 1) + 1)]
        BY <1>7, <1>8, <4>4, <4>7
      <4> QED
        BY <4>2, <4>4, <4>5, <4>6, <4>7
    <3> QED
      BY <3>1, <3>2
  <2> QED
    <3>1. NotAhead(list, page.liveFrom, Received + 1)
      BY <2>1 DEF NotAhead
    <3>2. EndsWith(list, page.liveFrom, Received + 1)
      BY <2>2 DEF EndsWith
    <3> QED
      BY <3>1, <3>2
<1> QED
  BY <1>4, <1>10, <1>11, <1>13, <1>14, <1>15, <1>16 DEF BoardInv

\* A page is marked when it has its lists and its stream, and only then changed.
LEMMA MarkFact ==
  ASSUME NEW p \in Pages, NEW isOpen \in BOOLEAN, arrived \in Seq(Nat)
  PROVE  LET q == Mark(p, isOpen) IN
         /\ q \in Pages
         /\ q.requests = p.requests /\ q.health = p.health /\ q.fetch = p.fetch
         /\ q.answer = p.answer /\ q.openedAt = p.openedAt
         /\ q.live => p.live \/ (isOpen /\ p.fetch \in {"applied", "failed"})
         /\ p.live => q = p
         /\ q.live /\ ~p.live => q.liveFrom = Len(arrived)
<1>1. Len(arrived) \in Nat
  OBVIOUS
<1> QED
  BY <1>1 DEF Mark, Pages

LEMMA BoardFacts ==
  ASSUME BoardInv
  PROVE  /\ BoardTyped /\ Len(page.requests) <= MaxRows /\ DoubledWhileLoading
         /\ subject = "requests" => EventsOnce /\ StreamIsTail /\ UpToDate
         /\ subject = "state" => NoRequests
         /\ page \in Pages /\ page.requests \in Seq(Nat) /\ page.answer \in Fetched
         /\ page.answer.requests \in Seq(Nat) /\ page.answer.state \in Data
         /\ page.liveFrom \in Nat /\ page.openedAt \in Nat
         /\ Len(arrived) \in Nat /\ DOMAIN arrived = 1..Len(arrived)
         /\ Len(stream) \in Nat /\ DOMAIN stream = 1..Len(stream)
         /\ MaxRows \in Nat /\ MaxRows > 0 /\ RingSize \in Nat /\ RingSize > 0
<1>1. BoardTyped /\ page \in Pages
  BY DEF BoardInv, BoardTyped
<1>2. page.requests \in Seq(Nat) /\ page.answer \in Fetched
  BY <1>1 DEF Pages
<1>3. page.answer.requests \in Seq(Nat) /\ page.answer.state \in Data
  BY <1>2 DEF Fetched
<1>4. page.liveFrom \in Nat /\ page.openedAt \in Nat
  BY <1>1 DEF Pages
<1>5. /\ Len(arrived) \in Nat /\ DOMAIN arrived = 1..Len(arrived)
      /\ Len(stream) \in Nat /\ DOMAIN stream = 1..Len(stream)
  BY <1>1 DEF BoardTyped
<1> QED
  BY <1>1, <1>2, <1>3, <1>4, <1>5, SizesAssumption DEF BoardInv

\* The stream opens: what it brings is what is recorded from now on.
LEMMA OpenStep ==
  ASSUME BoardInv, OpenStream
  PROVE  BoardInv'
<1> DEFINE at == IF page.openedAt < Len(arrived) THEN page.openedAt ELSE Len(arrived)
           opened == [page EXCEPT !.openedAt = at]
<1>1. /\ ~open /\ open' /\ open' \in BOOLEAN
      /\ UNCHANGED <<subject, world, sent, posting, arrived, ring, health, stream>>
      /\ page' = Mark(opened, TRUE)
  BY DEF OpenStream, collector
<1>2. at \in Nat /\ at <= page.openedAt /\ at <= Len(arrived)
  BY BoardFacts
<1> HIDE DEF at
<1>3. /\ opened \in Pages /\ opened.requests = page.requests /\ opened.openedAt = at
      /\ opened.answer = page.answer /\ opened.live = page.live
      /\ opened.liveFrom = page.liveFrom /\ opened.fetch = page.fetch
  BY <1>2, BoardFacts DEF Pages
<1> HIDE DEF opened
<1>4. /\ page' \in Pages /\ page'.requests = page.requests /\ page'.answer = page.answer
      /\ page'.openedAt = at
      /\ page'.live => page.live \/ page'.fetch \in {"applied", "failed"}
      /\ page.live => page' = opened
      /\ page'.live /\ ~page.live => page'.liveFrom = Len(arrived)
  BY <1>1, <1>3, MarkFact, BoardFacts DEF BoardTyped
<1>5. BoardTyped' /\ Len(page'.requests) <= MaxRows
  BY <1>1, <1>4, BoardFacts DEF BoardTyped
<1>6. CASE subject = "requests"
  <2>1. ~page.live /\ stream = <<>> /\ Received = Len(arrived)
    BY <1>1, <1>6, BoardFacts DEF UpToDate, StreamIsTail, Received
  <2>2. DoubledWhileLoading'
    <3> SUFFICES ASSUME NEW i \in DOMAIN page.requests, NEW j \in DOMAIN page.requests,
                        i < j, page.requests[i] = page.requests[j]
                 PROVE  \E n \in DOMAIN arrived :
                          /\ arrived[n] = page.requests[i]
                          /\ at < n /\ (page'.live => n <= page'.liveFrom)
      <4>1. arrived' = arrived /\ page'.requests = page.requests /\ page'.openedAt = at
        BY <1>1, <1>4
      <4> QED
        BY <4>1 DEF DoubledWhileLoading
    <3>1. PICK n \in DOMAIN arrived : arrived[n] = page.requests[i] /\ page.openedAt < n
      BY BoardFacts DEF DoubledWhileLoading
    <3>2. n \in 1..Len(arrived) /\ at < n
      BY <1>2, <3>1, BoardFacts
    <3> QED
      BY <1>4, <2>1, <3>1, <3>2, BoardFacts
  <2>3. EventsOnce'
    <3>1. EventsOnce /\ page'.answer = page.answer /\ page'.requests = page.requests
      BY <1>4, <1>6, BoardFacts
    <3>2. /\ arrived' = arrived /\ ring' = ring /\ sent' = sent /\ posting' = posting
          /\ page.requests' = page.requests /\ page.answer' = page.answer
      BY <1>1, <3>1
    <3>3. OnceEach(arrived)' /\ OnceEach(ring)' /\ OnceEach(page.answer.requests)'
      BY <3>1, <3>2 DEF EventsOnce, OnceEach
    <3>4. Recorded(ring)' /\ Recorded(page.requests)' /\ Recorded(page.answer.requests)'
      BY <3>1, <3>2 DEF EventsOnce, Recorded
    <3> QED
      BY <3>1, <3>2, <3>3, <3>4 DEF EventsOnce
  <2>4. StreamIsTail'
    BY <1>1, <1>2, <1>4, <1>6, <2>1, BoardFacts DEF StreamIsTail, Received
  <2>5. UpToDate'
    <3> SUFFICES ASSUME page'.live
                 PROVE  /\ page'.liveFrom <= Len(arrived)
                        /\ NotAhead(page.requests, page.liveFrom, Received)'
                        /\ EndsWith(page.requests, page.liveFrom, Received)'
      BY <1>1, <1>4, <2>1 DEF UpToDate
    <3>1. page'.liveFrom = Len(arrived) /\ Received' = Len(arrived) /\ arrived' = arrived
      BY <1>1, <1>4, <2>1 DEF Received
    <3>2. NotAhead(page.requests, page.liveFrom, Received)'
      BY <3>1, BoardFacts DEF NotAhead
    <3>3. EndsWith(page.requests, page.liveFrom, Received)'
      BY <3>1, BoardFacts DEF EndsWith
    <3> QED
      BY <3>1, <3>2, <3>3, BoardFacts
  <2> QED
    BY <1>1, <1>5, <1>6, <2>2, <2>3, <2>4, <2>5 DEF BoardInv
<1>7. CASE subject = "state"
  <2>1. NoRequests /\ page'.answer = page.answer /\ page'.requests = page.requests
    BY <1>4, <1>7, BoardFacts
  <2>2. NoRequests'
    BY <1>1, <2>1 DEF NoRequests
  <2>3. DoubledWhileLoading'
    BY <2>2 DEF NoRequests, DoubledWhileLoading
  <2> QED
    BY <1>1, <1>5, <1>7, <2>2, <2>3 DEF BoardInv
<1> QED
  BY <1>6, <1>7, BoardFacts DEF BoardTyped

\* The collector answers with what it has.
LEMMA AnswerStep ==
  ASSUME BoardInv, AnswerFetch
  PROVE  BoardInv'
<1> DEFINE given == [requests |-> ring, state |-> health]
<1>1. /\ UNCHANGED <<subject, world, sent, posting, arrived, ring, health, stream, open>>
      /\ page.fetch = "asked"
      /\ page' = [page EXCEPT !.fetch = "answered", !.answer = given]
  BY DEF AnswerFetch, collector
<1>2. given \in Fetched /\ given.requests = ring
  BY BoardFacts DEF BoardTyped, Fetched
<1> HIDE DEF given
<1>3. /\ page' \in Pages /\ page'.requests = page.requests /\ page'.answer = given
      /\ page'.openedAt = page.openedAt /\ page'.live = page.live
      /\ page'.liveFrom = page.liveFrom
  BY <1>1, <1>2, BoardFacts DEF Pages
<1>4. BoardTyped' /\ Len(page'.requests) <= MaxRows /\ DoubledWhileLoading'
  BY <1>1, <1>3, BoardFacts DEF BoardTyped, DoubledWhileLoading
<1>5. ASSUME subject = "requests"
      PROVE  EventsOnce' /\ StreamIsTail' /\ UpToDate'
  <2>1. EventsOnce'
    BY <1>1, <1>2, <1>3, <1>5, BoardFacts DEF EventsOnce, OnceEach, Recorded
  <2>2. StreamIsTail'
    BY <1>1, <1>3, <1>5, BoardFacts DEF StreamIsTail, Received
  <2>3. ~page'.live
    BY <1>1, <1>3, <1>5, BoardFacts DEF UpToDate
  <2> QED
    BY <2>1, <2>2, <2>3 DEF UpToDate
<1>6. ASSUME subject = "state"
      PROVE  NoRequests'
  BY <1>1, <1>2, <1>3, <1>6, BoardFacts DEF NoRequests
<1> QED
  BY <1>1, <1>4, <1>5, <1>6 DEF BoardInv

\* The answer replaces the list: each request once, all of them recorded.
LEMMA ApplyStep ==
  ASSUME BoardInv, ApplyFetch
  PROVE  BoardInv'
<1> DEFINE list == Last(page.answer.requests, MaxRows)
           none == NewPage.answer
           applied == [page EXCEPT !.requests = list, !.health = page.answer.state,
                                   !.fetch = "applied", !.answer = none]
<1>1. /\ UNCHANGED <<subject, world, sent, posting, arrived, ring, health, stream, open>>
      /\ page.fetch = "answered" /\ page' = Mark(applied, open)
  BY DEF ApplyFetch, collector
<1>2. none \in Fetched /\ none.requests = <<>>
  BY DEF NewPage, Fetched, Data
<1>3. list \in Seq(Nat) /\ Len(list) \in Nat /\ Len(list) <= MaxRows
  <2>1. Len(page.answer.requests) \in Nat
    BY BoardFacts
  <2> QED
    BY <2>1, LastFact, BoardFacts
<1> HIDE DEF list, none
<1>4. /\ applied \in Pages /\ applied.requests = list /\ applied.openedAt = page.openedAt
      /\ applied.answer = none /\ applied.live = page.live
      /\ applied.liveFrom = page.liveFrom /\ applied.fetch = "applied"
  BY <1>2, <1>3, BoardFacts DEF Pages
<1> HIDE DEF applied
<1>5. arrived \in Seq(Nat) /\ open \in BOOLEAN
  BY BoardFacts DEF BoardTyped
<1>6. /\ page' \in Pages /\ page'.requests = list /\ page'.answer = none
      /\ page'.openedAt = page.openedAt /\ page'.fetch = "applied"
      /\ page'.live => page.live \/ open
      /\ page'.live /\ ~page.live => page'.liveFrom = Len(arrived)
  BY <1>1, <1>4, <1>5, MarkFact
<1>7. BoardTyped' /\ Len(page'.requests) <= MaxRows
  BY <1>1, <1>3, <1>6, BoardFacts DEF BoardTyped
<1>8. CASE subject = "requests"
  <2>1. EventsOnce /\ StreamIsTail /\ ~page.live
    BY <1>1, <1>8, BoardFacts DEF UpToDate
  <2>2. OnceEach(list) /\ Recorded(list)
    BY <2>1, LastOnce, LastRecorded, BoardFacts DEF EventsOnce, list
  <2>3. DoubledWhileLoading'
    <3>1. page.requests' = list
      BY <1>6
    <3>2. ASSUME NEW i \in DOMAIN list, NEW j \in DOMAIN list, i < j
          PROVE  list[i] # list[j]
      <4>1. i \in Nat /\ j \in Nat /\ i # j
        BY <1>3, <3>2
      <4> QED
        BY <2>2, <4>1 DEF OnceEach
    <3> QED
      BY <3>1, <3>2 DEF DoubledWhileLoading
  <2>4. EventsOnce'
    <3>1. /\ arrived' = arrived /\ ring' = ring /\ sent' = sent /\ posting' = posting
          /\ page.requests' = list /\ page.answer.requests' = <<>>
      BY <1>1, <1>2, <1>6
    <3>2. OnceEach(arrived)' /\ OnceEach(ring)' /\ OnceEach(page.answer.requests)'
      BY <2>1, <3>1 DEF EventsOnce, OnceEach
    <3>3. Recorded(ring)' /\ Recorded(page.requests)' /\ Recorded(page.answer.requests)'
      BY <2>1, <2>2, <3>1 DEF EventsOnce, Recorded
    <3> QED
      BY <2>1, <3>1, <3>2, <3>3 DEF EventsOnce
  <2>5. StreamIsTail'
    BY <1>1, <1>6, <2>1 DEF StreamIsTail, Received
  <2>6. UpToDate'
    <3> SUFFICES ASSUME page'.live
                 PROVE  /\ page'.liveFrom <= Len(arrived)
                        /\ NotAhead(page.requests, page.liveFrom, Received)'
                        /\ EndsWith(page.requests, page.liveFrom, Received)'
      BY <1>1, <1>6, <2>1 DEF UpToDate
    <3>1. /\ page'.liveFrom = Len(arrived) /\ arrived' = arrived
          /\ Received' \in Int /\ Received' <= Len(arrived)
      BY <1>1, <1>6, <2>1, BoardFacts DEF Received
    <3>2. NotAhead(page.requests, page.liveFrom, Received)'
      BY <3>1, BoardFacts DEF NotAhead
    <3>3. EndsWith(page.requests, page.liveFrom, Received)'
      BY <3>1, BoardFacts DEF EndsWith
    <3> QED
      BY <3>1, <3>2, <3>3, BoardFacts
  <2> QED
    BY <1>1, <1>7, <1>8, <2>3, <2>4, <2>5, <2>6 DEF BoardInv
<1>9. CASE subject = "state"
  <2>1. NoRequests /\ list = <<>>
    <3>1. NoRequests /\ page.answer.requests = <<>>
      BY <1>9, BoardFacts DEF NoRequests
    <3>2. Len(list) = 0
      <4>1. Len(page.answer.requests) = 0 /\ page.answer.requests \in Seq(Nat) /\ MaxRows \in Nat
        BY <3>1, BoardFacts
      <4>2. Len(list) = IF Len(page.answer.requests) > MaxRows THEN MaxRows
                        ELSE Len(page.answer.requests)
        BY <4>1, LastFact DEF list
      <4> QED
        BY <4>1, <4>2
    <3> QED
      BY <1>3, <3>1, <3>2
  <2>2. NoRequests'
    BY <1>1, <1>2, <1>6, <2>1 DEF NoRequests
  <2>3. DoubledWhileLoading'
    BY <2>2 DEF NoRequests, DoubledWhileLoading
  <2> QED
    BY <1>1, <1>7, <1>9, <2>2, <2>3 DEF BoardInv
<1> QED
  BY <1>8, <1>9, BoardFacts DEF BoardTyped

\* An event that is recorded is new: no list shows it, and an open stream
\* brings it last.
LEMMA RecordStep ==
  ASSUME BoardInv, NEW e \in posting, RecordEvent(e)
  PROVE  BoardInv'
<1> DEFINE size == Len(arrived)
           grown == Append(arrived, e)
           frame == [type |-> "request", data |-> e]
           long == Append(ring, e)
<1>1. /\ UNCHANGED <<subject, world, sent, health, open, page>>
      /\ posting' = posting \ {e} /\ ring' = Last(long, RingSize) /\ arrived' = grown
      /\ stream' = IF open THEN Append(stream, frame) ELSE stream
  BY DEF RecordEvent, Broadcast
<1>2. subject = "requests"
  BY BoardFacts DEF NoRequests, BoardTyped
<1>3. EventsOnce /\ StreamIsTail /\ UpToDate /\ BoardTyped
  BY <1>2, BoardFacts
<1>4. /\ e \in Nat /\ frame \in Frames /\ frame.type = "request" /\ frame.data = e
      /\ \A n \in DOMAIN arrived : arrived[n] # e
  BY <1>3 DEF EventsOnce, Frames, Data
<1>5. /\ size \in Nat /\ DOMAIN arrived = 1..size /\ arrived \in Seq(Nat)
      /\ grown \in Seq(Nat) /\ Len(grown) = size + 1 /\ DOMAIN grown = 1..(size + 1)
      /\ grown[size + 1] = e /\ \A n \in 1..size : grown[n] = arrived[n]
  <2>1. arrived \in Seq(Nat)
    BY <1>3 DEF BoardTyped
  <2> QED
    BY <1>4, <2>1, AppendProperties, LenProperties
<1>6. /\ ring \in Seq(Nat) /\ long \in Seq(Nat) /\ Len(ring) \in Nat
      /\ DOMAIN ring = 1..Len(ring) /\ DOMAIN long = 1..(Len(ring) + 1)
      /\ long[Len(ring) + 1] = e /\ \A n \in 1..Len(ring) : long[n] = ring[n]
  <2>1. ring \in Seq(Nat)
    BY <1>3 DEF BoardTyped
  <2> QED
    BY <1>4, <2>1, AppendProperties, LenProperties
<1>7. /\ stream \in Seq(Frames) /\ Len(stream) \in Nat /\ DOMAIN stream = 1..Len(stream)
      /\ Append(stream, frame) \in Seq(Frames)
      /\ Len(Append(stream, frame)) = Len(stream) + 1
      /\ DOMAIN Append(stream, frame) = 1..(Len(stream) + 1)
      /\ Append(stream, frame)[Len(stream) + 1] = frame
      /\ \A i \in 1..Len(stream) : Append(stream, frame)[i] = stream[i]
  <2>1. stream \in Seq(Frames)
    BY <1>3 DEF BoardTyped
  <2> HIDE DEF frame
  <2> QED
    BY <1>4, <2>1, AppendProperties, LenProperties
<1> HIDE DEF grown, long, frame
<1>8. ASSUME NEW list, Recorded(list)
      PROVE  /\ \A i \in DOMAIN list : list[i] # e
             /\ \A i \in DOMAIN list : \E n \in DOMAIN grown : grown[n] = list[i]
  BY <1>4, <1>5, <1>8 DEF Recorded
<1>9. RingSize \in Nat /\ Last(long, RingSize) \in Seq(Nat)
  BY <1>6, LastFact, BoardFacts
<1>10. stream' \in Seq(Frames)
  BY <1>1, <1>7
<1>11. BoardTyped'
  BY <1>1, <1>3, <1>5, <1>9, <1>10 DEF BoardTyped
<1>12. DoubledWhileLoading'
  <2> SUFFICES ASSUME NEW i \in DOMAIN page.requests, NEW j \in DOMAIN page.requests,
                      i < j, page.requests[i] = page.requests[j]
               PROVE  \E n \in DOMAIN grown :
                        /\ grown[n] = page.requests[i]
                        /\ page.openedAt < n /\ (page.live => n <= page.liveFrom)
    <3>1. arrived' = grown /\ page' = page
      BY <1>1
    <3> QED
      BY <3>1 DEF DoubledWhileLoading
  <2>1. PICK n \in DOMAIN arrived :
               /\ arrived[n] = page.requests[i]
               /\ page.openedAt < n /\ (page.live => n <= page.liveFrom)
    BY BoardFacts DEF DoubledWhileLoading
  <2>2. n \in DOMAIN grown /\ grown[n] = arrived[n]
    BY <1>5, <2>1
  <2> QED
    BY <2>1, <2>2
<1>13. EventsOnce'
  <2>1. OnceEach(grown)
    BY <1>3, <1>4, <1>5 DEF EventsOnce, OnceEach
  <2>2. OnceEach(long)
    <3>1. \A i \in 1..Len(ring) : ring[i] # e
      BY <1>3, <1>6, <1>8 DEF EventsOnce
    <3> QED
      BY <1>3, <1>6, <3>1 DEF EventsOnce, OnceEach
  <2>3. OnceEach(Last(long, RingSize))
    BY <1>6, <1>9, <2>2, LastOnce
  <2>4. \A i \in DOMAIN long : \E n \in DOMAIN grown : grown[n] = long[i]
    <3>1. \A i \in DOMAIN ring : \E n \in DOMAIN grown : grown[n] = ring[i]
      BY <1>3, <1>8 DEF EventsOnce
    <3>2. \E n \in DOMAIN grown : grown[n] = long[Len(ring) + 1]
      <4>1. size + 1 \in DOMAIN grown
        BY <1>5
      <4> QED
        BY <1>5, <1>6, <4>1
    <3>3. \A i \in DOMAIN long : i \in 1..Len(ring) \/ i = Len(ring) + 1
      BY <1>6
    <3>4. \A i \in 1..Len(ring) : i \in DOMAIN ring /\ long[i] = ring[i]
      BY <1>6
    <3> QED
      BY <3>1, <3>2, <3>3, <3>4
  <2>5. \A i \in DOMAIN Last(long, RingSize) :
          \E n \in DOMAIN grown : grown[n] = Last(long, RingSize)[i]
    <3>1. \A i \in DOMAIN Last(long, RingSize) :
            \E j \in DOMAIN long : Last(long, RingSize)[i] = long[j]
      <4>1. DOMAIN Last(long, RingSize) = 1..Len(Last(long, RingSize))
        BY <1>9
      <4>2. \A i \in 1..Len(Last(long, RingSize)) :
              /\ Len(long) - Len(Last(long, RingSize)) + i \in DOMAIN long
              /\ Last(long, RingSize)[i] = long[Len(long) - Len(Last(long, RingSize)) + i]
        BY <1>6, <1>9, LastFact
      <4> QED
        BY <4>1, <4>2
    <3> QED
      BY <2>4, <3>1
  <2>6. /\ \A i \in DOMAIN page.requests : \E n \in DOMAIN grown : grown[n] = page.requests[i]
        /\ \A i \in DOMAIN page.answer.requests :
             \E n \in DOMAIN grown : grown[n] = page.answer.requests[i]
    BY <1>3, <1>8 DEF EventsOnce
  <2>7. \A n \in DOMAIN grown : grown[n] <= sent /\ grown[n] \notin posting \ {e}
    BY <1>3, <1>5 DEF EventsOnce
  <2>8. /\ arrived' = grown /\ ring' = Last(long, RingSize) /\ posting' = posting \ {e}
        /\ sent' = sent /\ page' = page
    BY <1>1
  <2>9. OnceEach(arrived)' /\ OnceEach(ring)' /\ OnceEach(page.answer.requests)'
    BY <1>3, <2>1, <2>3, <2>8 DEF EventsOnce, OnceEach
  <2>10. Recorded(ring)' /\ Recorded(page.requests)' /\ Recorded(page.answer.requests)'
    BY <2>5, <2>6, <2>8 DEF Recorded
  <2>11. \A n \in posting' : n \in Nat /\ n <= sent'
    BY <1>3, <2>8 DEF EventsOnce
  <2> QED
    BY <2>7, <2>8, <2>9, <2>10, <2>11 DEF EventsOnce
<1>14. Received \in Nat /\ Received <= size /\ Received + Len(stream) = size
  BY <1>3, <1>5, <1>7 DEF StreamIsTail, Received
<1>15. CASE open
  <2>1. /\ stream' = Append(stream, frame) /\ Len(stream') = Len(stream) + 1
        /\ arrived' = grown /\ open' /\ page' = page
        /\ Received' = Received
    BY <1>1, <1>5, <1>7, <1>15 DEF Received
  <2>2. StreamIsTail'
    <3>1. ASSUME NEW i \in 1..(Len(stream) + 1)
          PROVE  stream'[i].type = "request" /\ stream'[i].data = grown[Received + i]
      <4>1. CASE i \in 1..Len(stream)
        <5>1. Received + i \in 1..size /\ stream'[i] = stream[i]
          BY <1>7, <1>14, <2>1, <4>1
        <5> QED
          BY <1>3, <1>5, <1>7, <4>1, <5>1 DEF StreamIsTail
      <4>2. CASE i = Len(stream) + 1
        <5>1. Received + i = size + 1 /\ stream'[i] = frame
          BY <1>7, <1>14, <2>1, <4>2
        <5> QED
          BY <1>4, <1>5, <5>1
      <4> QED
        BY <1>7, <4>1, <4>2
    <3>2. Len(stream') <= Len(arrived') /\ DOMAIN stream' = 1..(Len(stream) + 1)
      BY <1>5, <1>7, <1>14, <2>1
    <3> QED
      BY <1>3, <1>15, <2>1, <3>1, <3>2 DEF StreamIsTail
  <2>3. UpToDate'
    <3> SUFFICES ASSUME page.live
                 PROVE  /\ NotAhead(page.requests, page.liveFrom, Received)'
                        /\ EndsWith(page.requests, page.liveFrom, Received)'
      <4>1. page.live => /\ page.fetch \in {"applied", "failed"}
                         /\ page.liveFrom <= size + 1
        BY <1>3, <1>5, BoardFacts DEF UpToDate
      <4> QED
        BY <1>5, <2>1, <4>1 DEF UpToDate
    <3>1. NotAhead(page.requests, page.liveFrom, Received)'
      <4>1. NotAhead(page.requests, page.liveFrom, Received)
        BY <1>3 DEF UpToDate
      <4>2. \A i \in DOMAIN page.requests : page.requests[i] # e
        BY <1>3, <1>8 DEF EventsOnce
      <4>3. \A n \in DOMAIN grown : grown[n] = e \/ (n \in DOMAIN arrived /\ grown[n] = arrived[n])
        BY <1>5
      <4> QED
        BY <2>1, <4>1, <4>2, <4>3 DEF NotAhead
    <3>2. EndsWith(page.requests, page.liveFrom, Received)'
      <4>1. EndsWith(page.requests, page.liveFrom, Received) /\ page.liveFrom \in Nat
        BY <1>3, BoardFacts DEF UpToDate
      <4>2. ASSUME NEW i \in 1..MaxRows, i <= Received - page.liveFrom
            PROVE  grown[Received - i + 1] = arrived[Received - i + 1]
        <5>1. Received - i + 1 \in 1..size
          BY <1>5, <1>14, <4>1, <4>2
        <5> QED
          BY <1>5, <5>1
      <4> QED
        BY <2>1, <4>1, <4>2 DEF EndsWith
    <3> QED
      BY <3>1, <3>2
  <2> QED
    BY <1>1, <1>2, <1>11, <1>12, <1>13, <2>2, <2>3, BoardFacts DEF BoardInv
<1>16. CASE ~open
  <2>1. ~page.live /\ stream = <<>> /\ stream' = <<>> /\ ~open' /\ page' = page
    BY <1>1, <1>3, <1>16 DEF UpToDate, StreamIsTail
  <2>2. StreamIsTail' /\ UpToDate'
    BY <1>1, <1>5, <2>1 DEF StreamIsTail, UpToDate
  <2> QED
    BY <1>1, <1>2, <1>11, <1>12, <1>13, <2>2, BoardFacts DEF BoardInv
<1> QED
  BY <1>15, <1>16

\* A report of the application's health leaves the list as it is.
LEMMA ReceiveHealth ==
  ASSUME BoardInv, subject = "state", Receive
  PROVE  BoardInv'
<1> DEFINE data == Head(stream).data
<1>1. /\ stream \in Seq(Frames) /\ stream # <<>> /\ stream' = Tail(stream)
      /\ UNCHANGED <<subject, world, sent, posting, arrived, ring, health, open>>
  BY BoardFacts DEF Receive, collector, BoardTyped
<1>2. /\ stream' \in Seq(Frames) /\ 1 \in DOMAIN stream /\ Head(stream) = stream[1]
      /\ \A i \in DOMAIN stream' : i + 1 \in DOMAIN stream /\ stream'[i] = stream[i + 1]
  BY <1>1, HeadTailProperties
<1>3. NoRequests /\ Head(stream).type = "health" /\ data \in Data
  <2>1. NoRequests
    BY BoardFacts
  <2>2. stream[1] \in Frames /\ stream[1].type = "health"
    BY <1>1, <1>2, <2>1 DEF NoRequests
  <2> QED
    BY <1>2, <2>1, <2>2 DEF Frames
<1>4. page' = [page EXCEPT !.health = data]
  BY <1>3 DEF Receive
<1> HIDE DEF data
<1>5. /\ page' \in Pages /\ page'.requests = page.requests /\ page'.answer = page.answer
  BY <1>3, <1>4, BoardFacts DEF Pages
<1>6. NoRequests'
  BY <1>1, <1>2, <1>3, <1>5 DEF NoRequests
<1>7. BoardTyped' /\ Len(page'.requests) <= MaxRows
  BY <1>1, <1>2, <1>5, BoardFacts DEF BoardTyped
<1>8. DoubledWhileLoading'
  BY <1>6 DEF NoRequests, DoubledWhileLoading
<1> QED
  BY <1>1, <1>6, <1>7, <1>8 DEF BoardInv

\* The page is opened again.
LEMMA ReloadStep ==
  ASSUME BoardInv, Reload
  PROVE  BoardInv'
<1>1. /\ UNCHANGED <<subject, world, sent, posting, arrived, ring, health>>
      /\ page' = NewPage /\ open' = FALSE /\ stream' = <<>>
  BY DEF Reload, collector
<1>2. /\ NewPage \in Pages /\ NewPage.requests = <<>> /\ NewPage.answer.requests = <<>>
      /\ ~NewPage.live
  BY MaxRequestsAssumption DEF NewPage, Pages, Fetched, Data
<1>3. BoardTyped' /\ Len(page'.requests) <= MaxRows
  <2>1. page' \in Pages /\ page'.requests = <<>>
    BY <1>1, <1>2
  <2>2. <<>> \in Seq(Frames)
    OBVIOUS
  <2>3. BoardTyped'
    BY <1>1, <2>1, <2>2, BoardFacts DEF BoardTyped
  <2> QED
    BY <2>1, <2>3, SizesAssumption
<1>4. DoubledWhileLoading'
  BY <1>1, <1>2 DEF DoubledWhileLoading
<1>5. ASSUME subject = "requests"
      PROVE  EventsOnce' /\ StreamIsTail' /\ UpToDate'
  <2>1. EventsOnce
    BY <1>5, BoardFacts
  <2>2. OnceEach(arrived)' /\ OnceEach(ring)' /\ OnceEach(page.answer.requests)'
    BY <1>1, <1>2, <2>1 DEF EventsOnce, OnceEach
  <2>3. Recorded(ring)' /\ Recorded(page.requests)' /\ Recorded(page.answer.requests)'
    BY <1>1, <1>2, <2>1 DEF EventsOnce, Recorded
  <2>4. EventsOnce'
    BY <1>1, <2>1, <2>2, <2>3 DEF EventsOnce
  <2> QED
    BY <1>1, <1>2, <2>4, BoardFacts DEF StreamIsTail, UpToDate
<1>6. ASSUME subject = "state"
      PROVE  NoRequests'
  BY <1>1, <1>2, <1>6, BoardFacts DEF NoRequests
<1> QED
  BY <1>1, <1>3, <1>4, <1>5, <1>6 DEF BoardInv

\* gmode dev is started again: the page keeps its list and has lost its stream.
LEMMA RestartStep ==
  ASSUME BoardInv, Restart
  PROVE  BoardInv'
<1> DEFINE none == NewPage.answer
           ended == IF page.fetch = "applied" THEN "applied" ELSE "failed"
<1>1. /\ UNCHANGED <<subject, world, sent, arrived>>
      /\ ring' = <<>> /\ health' = Waiting
      /\ posting' = {} /\ stream' = <<>> /\ open' = FALSE
      /\ page' = [page EXCEPT !.live = FALSE, !.answer = none, !.fetch = ended]
  BY DEF Restart
<1>2. none \in Fetched /\ none.requests = <<>> /\ ended \in {"applied", "failed"}
  BY DEF NewPage, Fetched, Data
<1> HIDE DEF none, ended
<1>3. /\ page' \in Pages /\ page'.requests = page.requests /\ page'.answer = none
      /\ page'.openedAt = page.openedAt /\ ~page'.live
  BY <1>1, <1>2, BoardFacts DEF Pages
<1>4. BoardTyped' /\ Len(page'.requests) <= MaxRows
  <2>1. Waiting \in Data /\ <<>> \in Seq(Nat) /\ <<>> \in Seq(Frames)
    BY DEF Data
  <2> QED
    BY <1>1, <1>3, <2>1, BoardFacts DEF BoardTyped
<1>5. DoubledWhileLoading'
  <2>1. arrived' = arrived /\ page.requests' = page.requests /\ page.openedAt' = page.openedAt
        /\ ~page.live'
    BY <1>1, <1>3
  <2> QED
    BY <2>1, BoardFacts DEF DoubledWhileLoading
<1>6. ASSUME subject = "requests"
      PROVE  EventsOnce' /\ StreamIsTail' /\ UpToDate'
  <2>1. /\ EventsOnce /\ arrived' = arrived /\ ring' = <<>> /\ posting' = {} /\ sent' = sent
        /\ page.requests' = page.requests /\ page.answer.requests' = <<>>
    BY <1>1, <1>2, <1>3, <1>6, BoardFacts
  <2>2. OnceEach(arrived)' /\ OnceEach(ring)' /\ OnceEach(page.answer.requests)'
    BY <2>1 DEF EventsOnce, OnceEach
  <2>3. Recorded(ring)' /\ Recorded(page.requests)' /\ Recorded(page.answer.requests)'
    BY <2>1 DEF EventsOnce, Recorded
  <2>4. EventsOnce'
    BY <2>1, <2>2, <2>3 DEF EventsOnce
  <2> QED
    BY <1>1, <1>3, <2>4, BoardFacts DEF StreamIsTail, UpToDate
<1>7. ASSUME subject = "state"
      PROVE  NoRequests'
  BY <1>1, <1>2, <1>3, <1>7, BoardFacts DEF NoRequests
<1> QED
  BY <1>1, <1>4, <1>5, <1>6, <1>7 DEF BoardInv

LEMMA BoardStart == BoardInit => BoardInv
<1> SUFFICES ASSUME BoardInit
             PROVE  BoardInv
  OBVIOUS
<1>1. /\ NewPage \in Pages /\ NewPage.requests = <<>> /\ NewPage.answer.requests = <<>>
      /\ ~NewPage.live
  BY MaxRequestsAssumption DEF NewPage, Pages, Fetched, Data
<1>2. /\ subject \in {"requests", "state"} /\ world \in Worlds /\ sent = 0 /\ posting = {}
      /\ arrived = <<>> /\ ring = <<>> /\ health = Waiting /\ stream = <<>> /\ open = FALSE
      /\ page = NewPage
  BY DEF BoardInit
<1>3. /\ Waiting \in Data /\ <<>> \in Seq(Nat) /\ <<>> \in Seq(Frames)
  BY DEF Data
<1>4. BoardTyped
  BY <1>1, <1>2, <1>3 DEF BoardTyped
<1>5. Len(page.requests) <= MaxRows /\ DoubledWhileLoading
  BY <1>1, <1>2, SizesAssumption DEF DoubledWhileLoading
<1>6. EventsOnce /\ NoRequests
  BY <1>1, <1>2 DEF EventsOnce, NoRequests, OnceEach, Recorded
<1>7. StreamIsTail /\ UpToDate
  BY <1>1, <1>2 DEF StreamIsTail, UpToDate
<1> QED
  BY <1>4, <1>5, <1>6, <1>7 DEF BoardInv

LEMMA BoardStep == BoardInv /\ [BoardNext]_boardVars => BoardInv'
<1> SUFFICES ASSUME BoardInv, [BoardNext]_boardVars
             PROVE  BoardInv'
  OBVIOUS
\* Steps that leave the page, the stream and the lists as they are.
<1>1. ASSUME UNCHANGED <<subject, arrived, ring, stream, open, page>>,
             sent' \in Nat, sent <= sent', world' \in Worlds, health' \in Data,
             subject = "state" => posting' = {},
             subject = "requests" =>
               /\ \A n \in DOMAIN arrived : arrived[n] \notin posting'
               /\ \A e \in posting' : e \in Nat /\ e <= sent'
      PROVE  BoardInv'
  <2>1. BoardTyped' /\ Len(page'.requests) <= MaxRows
    BY <1>1, BoardFacts DEF BoardTyped
  <2>2. DoubledWhileLoading'
    BY <1>1, BoardFacts DEF DoubledWhileLoading
  <2>3. ASSUME subject = "requests"
        PROVE  EventsOnce' /\ StreamIsTail' /\ UpToDate'
    <3>1. EventsOnce /\ sent \in Nat /\ arrived \in Seq(Nat)
      BY <2>3, BoardFacts DEF BoardTyped
    <3>2. OnceEach(arrived)' /\ OnceEach(ring)' /\ OnceEach(page.answer.requests)'
      BY <1>1, <3>1 DEF EventsOnce, OnceEach
    <3>3. Recorded(ring)' /\ Recorded(page.requests)' /\ Recorded(page.answer.requests)'
      BY <1>1, <3>1 DEF EventsOnce, Recorded
    <3>4. \A n \in DOMAIN arrived : arrived[n] <= sent'
      <4>1. \A n \in DOMAIN arrived : arrived[n] \in Nat /\ arrived[n] <= sent
        BY <3>1 DEF EventsOnce
      <4> QED
        BY <1>1, <3>1, <4>1
    <3>5. EventsOnce'
      BY <1>1, <2>3, <3>2, <3>3, <3>4 DEF EventsOnce
    <3>6. StreamIsTail'
      BY <1>1, <2>3, BoardFacts DEF StreamIsTail, Received
    <3>7. UpToDate'
      BY <1>1, <2>3, BoardFacts DEF UpToDate, NotAhead, EndsWith, Received
    <3> QED
      BY <3>5, <3>6, <3>7
  <2>4. ASSUME subject = "state"
        PROVE  NoRequests'
    BY <1>1, <2>4, BoardFacts DEF NoRequests
  <2> QED
    BY <1>1, <2>1, <2>2, <2>3, <2>4 DEF BoardInv
<1>2. /\ subject \in {"requests", "state"} /\ sent \in Nat /\ world \in Worlds
      /\ health \in Data /\ stream \in Seq(Frames)
  BY BoardFacts DEF BoardTyped
<1>3. CASE OpenStream
  BY <1>3, OpenStep
<1>4. CASE Receive
  BY <1>2, <1>4, ReceiveRequest, ReceiveHealth
<1>5. CASE AnswerFetch
  BY <1>5, AnswerStep
<1>6. CASE ApplyFetch
  BY <1>6, ApplyStep
<1>7. CASE EmitInspectorEvent
  <2>1. /\ UNCHANGED <<subject, arrived, ring, stream, open, page, world, health>>
        /\ subject = "requests" /\ sent' = sent + 1 /\ posting' = posting \union {sent + 1}
    BY <1>7 DEF EmitInspectorEvent, collector
  <2>2. EventsOnce
    BY <2>1, BoardFacts
  <2>3. \A n \in DOMAIN arrived : arrived[n] \notin posting'
    <3>1. \A n \in DOMAIN arrived : arrived[n] # sent + 1
      BY <1>2, <2>2 DEF EventsOnce
    <3> QED
      BY <2>1, <2>2, <3>1 DEF EventsOnce
  <2>4. \A e \in posting' : e \in Nat /\ e <= sent'
    BY <1>2, <2>1, <2>2 DEF EventsOnce
  <2> QED
    BY <1>1, <1>2, <2>1, <2>3, <2>4
<1>8. CASE SetHealth
  <2>1. /\ UNCHANGED <<subject, world, sent, posting, arrived, ring, open, page>>
        /\ subject = "state" /\ health' = HealthReport(world)
        /\ stream' = IF open THEN Append(stream, [type |-> "health", data |-> health'])
                     ELSE stream
    BY <1>8 DEF SetHealth, Broadcast
  <2>2. health' \in Data /\ [type |-> "health", data |-> health'] \in Frames
    BY <1>2, <2>1 DEF Data, Frames
  <2>3. NoRequests
    BY <2>1, BoardFacts
  <2>4. stream' \in Seq(Frames) /\ \A i \in DOMAIN stream' : stream'[i].type = "health"
    <3> DEFINE frame == [type |-> "health", data |-> health']
    <3>1. frame \in Frames /\ frame.type = "health" /\ stream' = IF open THEN Append(stream, frame) ELSE stream
      BY <2>1, <2>2
    <3> HIDE DEF frame
    <3> QED
      BY <1>2, <2>3, <3>1 DEF NoRequests
  <2>5. BoardTyped' /\ Len(page'.requests) <= MaxRows
    BY <2>1, <2>2, <2>4, BoardFacts DEF BoardTyped
  <2>6. NoRequests'
    BY <2>1, <2>3, <2>4 DEF NoRequests
  <2>7. DoubledWhileLoading'
    BY <2>6 DEF NoRequests, DoubledWhileLoading
  <2> QED
    BY <2>1, <2>5, <2>6, <2>7 DEF BoardInv
<1>9. CASE Reload
  BY <1>9, ReloadStep
<1>10. CASE Restart
  BY <1>10, RestartStep
<1>11. ASSUME NEW e \in posting, RecordEvent(e)
       PROVE  BoardInv'
  BY <1>11, RecordStep
<1>12. ASSUME NEW e \in posting, LoseEvent(e)
       PROVE  BoardInv'
  <2>1. /\ UNCHANGED <<subject, arrived, ring, stream, open, page, world, sent, health>>
        /\ posting' = posting \ {e}
    BY <1>12 DEF LoseEvent, collector
  <2>2. subject = "requests" => /\ \A n \in DOMAIN arrived : arrived[n] \notin posting'
                                /\ \A a \in posting' : a \in Nat /\ a <= sent'
    BY <2>1, BoardFacts DEF EventsOnce
  <2>3. subject = "state" => posting' = {}
    BY <2>1, BoardFacts DEF NoRequests
  <2> QED
    BY <1>1, <1>2, <2>1, <2>2, <2>3
<1>13. ASSUME NEW w \in Worlds, WorldChanges(w)
       PROVE  BoardInv'
  <2>1. /\ UNCHANGED <<subject, arrived, ring, stream, open, page, sent, health, posting>>
        /\ world' = w /\ subject = "state"
    BY <1>13 DEF WorldChanges, collector
  <2>2. posting' = {}
    BY <2>1, BoardFacts DEF NoRequests
  <2> QED
    BY <1>1, <1>2, <2>1, <2>2
<1>14. CASE UNCHANGED boardVars
  <2>1. UNCHANGED <<subject, arrived, ring, stream, open, page, world, sent, health, posting>>
    BY <1>14 DEF boardVars
  <2>2. subject = "requests" => /\ \A n \in DOMAIN arrived : arrived[n] \notin posting'
                                /\ \A a \in posting' : a \in Nat /\ a <= sent'
    BY <2>1, BoardFacts DEF EventsOnce
  <2>3. subject = "state" => posting' = {}
    BY <2>1, BoardFacts DEF NoRequests
  <2> QED
    BY <1>1, <1>2, <2>1, <2>2, <2>3
<1> QED
  BY <1>3, <1>4, <1>5, <1>6, <1>7, <1>8, <1>9, <1>10, <1>11, <1>12, <1>13, <1>14 DEF BoardNext

LEMMA BoardInvariant == BoardSpec => []BoardInv
BY BoardStart, BoardStep, PTL DEF BoardSpec

\* The page of gmode dev lists the recent past: however its fetches, its stream
\* and new events overtook one another while it loaded, and whatever was
\* reloaded or restarted since, from then on its list ends with the events
\* delivered, each once and in the collector's order, and a request is doubled
\* only by an event recorded while the page was loading.
THEOREM PageListIsRecent == BoardSpec => []ListIsRecent
<1>1. ASSUME BoardInv
      PROVE  ListIsRecent
  <2> DEFINE list == page.requests
             from == page.liveFrom
             recent == Last(Shown, MaxRows)
  <2>1. SUFFICES ASSUME page.live, subject = "requests"
                 PROVE  /\ Last(list, Len(recent)) = recent
                        /\ \A n \in DOMAIN Shown :
                             Cardinality({i \in DOMAIN list : list[i] = Shown[n]}) <= 1
    BY <1>1, BoardFacts DEF ListIsRecent, LiveView
  <2>2. /\ EventsOnce /\ StreamIsTail /\ EndsWith(list, from, Received)
        /\ NotAhead(list, from, Received) /\ from <= Len(arrived)
    BY <1>1, <2>1, BoardFacts DEF UpToDate
  <2>3. /\ list \in Seq(Nat) /\ Len(list) \in Nat /\ DOMAIN list = 1..Len(list)
        /\ Len(list) <= MaxRows /\ MaxRows \in Nat
        /\ arrived \in Seq(Nat) /\ Len(arrived) \in Nat /\ DOMAIN arrived = 1..Len(arrived)
        /\ from \in Nat /\ Received \in Nat /\ Received <= Len(arrived)
    <3>1. /\ list \in Seq(Nat) /\ Len(list) <= MaxRows /\ MaxRows \in Nat
          /\ arrived \in Seq(Nat) /\ from \in Nat
      BY <1>1, BoardFacts DEF BoardTyped
    <3>2. Received \in Nat /\ Received <= Len(arrived)
      BY <1>1, <2>2, BoardFacts DEF StreamIsTail, Received
    <3> HIDE DEF list, from
    <3> QED
      BY <3>1, <3>2
  <2> DEFINE size == IF from < Received THEN Received - from ELSE 0
  <2>4. /\ Shown \in Seq(Nat) /\ Len(Shown) = size /\ DOMAIN Shown = 1..size /\ size \in Nat
        /\ \A n \in 1..size : Shown[n] = arrived[from + n] /\ from + n \in 1..Received
    <3> HIDE DEF list, from
    <3>1. Shown = SubSeq(arrived, from + 1, Received)
      BY DEF Shown, Received, from
    <3>2. \A i \in (from + 1)..Received : arrived[i] \in Nat
      BY <2>3
    <3>3. /\ SubSeq(arrived, from + 1, Received) \in Seq(Nat)
          /\ Len(SubSeq(arrived, from + 1, Received)) =
               IF from + 1 <= Received THEN Received - (from + 1) + 1 ELSE 0
          /\ \A i \in 1..(Received - (from + 1) + 1) :
               SubSeq(arrived, from + 1, Received)[i] = arrived[from + 1 + i - 1]
      BY <2>3, <3>2, SubSeqProperties
    <3>4. size \in Nat /\ Len(Shown) = size
      BY <2>3, <3>1, <3>3
    <3>5. ASSUME NEW n \in 1..size
          PROVE  Shown[n] = arrived[from + n] /\ from + n \in 1..Received
      BY <2>3, <3>1, <3>3, <3>5
    <3> HIDE DEF size
    <3> QED
      BY <3>1, <3>3, <3>4, <3>5
  <2> HIDE DEF size
  <2>5. ASSUME NEW n \in DOMAIN Shown
        PROVE  Cardinality({i \in DOMAIN list : list[i] = Shown[n]}) <= 1
    <3> DEFINE rows == {i \in DOMAIN list : list[i] = Shown[n]}
    <3>1. ASSUME NEW i \in rows, NEW j \in rows, i < j
          PROVE  FALSE
      <4>1. list[i] = list[j] /\ list[i] = arrived[from + n]
        BY <2>4, <2>5, <3>1
      <4>2. PICK m \in DOMAIN arrived : arrived[m] = list[i] /\ m <= from
        BY <1>1, <2>1, <3>1, <4>1, BoardFacts DEF DoubledWhileLoading
      <4>3. from + n \in DOMAIN arrived /\ from + n > from
        <5>1. n \in 1..size /\ from + n \in 1..Received
          BY <2>4, <2>5
        <5>2. n \in Nat /\ n > 0
          <6>1. size \in Nat /\ n \in 1..size
            BY <2>4, <5>1
          <6> QED
            BY <6>1
        <5> HIDE DEF list, from
        <5>3. from + n \in 1..Len(arrived)
          BY <2>3, <5>1
        <5> QED
          BY <2>3, <5>2, <5>3
      <4>4. m = from + n
        BY <2>2, <4>1, <4>2, <4>3 DEF EventsOnce, OnceEach
      <4> QED
        BY <2>3, <4>2, <4>3, <4>4
    <3>2. \A i, j \in rows : i = j
      <4>1. rows \subseteq 1..Len(list)
        BY <2>3
      <4> HIDE DEF rows
      <4> QED
        BY <2>3, <3>1, <4>1
    <3> HIDE DEF rows
    <3>3. CASE rows = {}
      BY <3>3, FS_EmptySet DEF rows
    <3>4. ASSUME NEW i \in rows
          PROVE  Cardinality(rows) <= 1
      <4>1. rows = {i}
        BY <3>2, <3>4
      <4>2. Cardinality({i}) = 1
        BY FS_Singleton
      <4> QED
        BY <4>1, <4>2
    <3> QED
      BY <3>3, <3>4 DEF rows
  <2>6. Last(list, Len(recent)) = recent
    <3> DEFINE last == Last(list, Len(recent))
    <3>1. /\ recent \in Seq(Nat) /\ Len(recent) = IF size > MaxRows THEN MaxRows ELSE size
          /\ \A i \in 1..Len(recent) : recent[i] = Shown[size - Len(recent) + i]
      <4> DEFINE shown == Shown
      <4>1. /\ shown \in Seq(Nat) /\ Len(shown) = size /\ MaxRows \in Nat
            /\ recent = Last(shown, MaxRows)
        BY <2>3, <2>4
      <4> HIDE DEF shown, recent
      <4>2. /\ recent \in Seq(Nat)
            /\ Len(recent) = IF Len(shown) > MaxRows THEN MaxRows ELSE Len(shown)
            /\ \A i \in 1..Len(recent) : recent[i] = shown[Len(shown) - Len(recent) + i]
        BY <4>1, LastFact
      <4> QED
        BY <4>1, <4>2 DEF shown
    <3> HIDE DEF recent
    <3>2. Len(recent) \in Nat /\ Len(recent) <= size /\ Len(recent) <= MaxRows
      BY <2>3, <2>4, <3>1
    <3>3. Len(recent) <= Len(list)
      <4>1. CASE Len(recent) = 0
        BY <2>3, <4>1
      <4>2. CASE Len(recent) > 0
        <5>1. Len(recent) \in 1..MaxRows /\ Len(recent) <= Received - from
          BY <2>3, <3>2, <4>2 DEF size
        <5> QED
          BY <2>2, <5>1 DEF EndsWith
      <4> QED
        BY <3>2, <4>1, <4>2
    <3>4. /\ last \in Seq(Nat) /\ Len(last) = Len(recent)
          /\ \A i \in 1..Len(last) : last[i] = list[Len(list) - Len(last) + i]
      <4> HIDE DEF list
      <4>1. /\ last \in Seq(Nat)
            /\ Len(last) = IF Len(list) > Len(recent) THEN Len(recent) ELSE Len(list)
            /\ \A i \in 1..Len(last) : last[i] = list[Len(list) - Len(last) + i]
        BY <2>3, <3>2, LastFact
      <4> HIDE DEF last
      <4>2. Len(list) \in Nat
        BY <2>3
      <4>3. Len(last) = Len(recent)
        BY <3>2, <3>3, <4>1, <4>2
      <4> QED
        BY <4>1, <4>3
    <3> HIDE DEF last
    <3>5. ASSUME NEW i \in 1..Len(recent)
          PROVE  last[i] = recent[i]
      <4> DEFINE k == Len(recent) - i + 1
      <4> HIDE DEF list, from
      <4>1. /\ k \in 1..MaxRows /\ k <= size /\ size - Len(recent) + i \in 1..size
            /\ Len(list) - Len(recent) + i = Len(list) - k + 1
        BY <2>3, <2>4, <3>2, <3>5
      <4>6. size = Received - from
        BY <2>3, <3>2, <3>5 DEF size
      <4>7. from + (size - Len(recent) + i) = Received - k + 1
        BY <2>3, <3>2, <3>5, <4>6
      <4> HIDE DEF k
      <4>2. last[i] = list[Len(list) - k + 1]
        BY <3>4, <3>5, <4>1
      <4>3. list[Len(list) - k + 1] = arrived[Received - k + 1]
        BY <2>2, <4>1, <4>6 DEF EndsWith, list, from
      <4>4. recent[i] = Shown[size - Len(recent) + i]
        BY <3>1, <3>5
      <4>5. Shown[size - Len(recent) + i] = arrived[from + (size - Len(recent) + i)]
        BY <2>4, <4>1
      <4> QED
        BY <4>2, <4>3, <4>4, <4>5, <4>7
    <3> QED
      BY <3>1, <3>4, <3>5, SeqEqual DEF last, recent
  <2> QED
    BY <2>5, <2>6
<1> QED
  BY <1>1, BoardInvariant, PTL

=============================================================================
