------------------------------ MODULE Webhooks ------------------------------
(***************************************************************************)
(* Webhooks (packages/core/src/webhooks.ts): events are put on a queue, a  *)
(* consumer signs and posts them, a receiver verifies them against the     *)
(* secrets it is configured with, while the secret is being rotated.       *)
(*                                                                         *)
(* The queue delivers at least once; posts are lost, delayed and           *)
(* duplicated; the receiver's clock is off by a skew and its own work may  *)
(* fail.  An attempt is signed anew each time, with the time of the        *)
(* attempt.                                                                *)
(***************************************************************************)
EXTENDS Integers, Sequences, FiniteSets

CONSTANTS
  Events,    \* ids of events
  Schemes,   \* ways of naming the secrets, see Named
  Tolerance, \* toleranceSeconds
  Skews,     \* of the receiver's clock
  MaxClock,  \* bound on the time
  MaxNet     \* bound on the posts on their way

ASSUME SchemesAssumption == Schemes \subseteq {"keyed", "unkeyed", "upgrade"}
ASSUME ToleranceAssumption == Tolerance \in Nat
ASSUME SkewsAssumption == \A s \in Skews : s \in -Tolerance..Tolerance

VARIABLES
  queue,    \* messages that are not acknowledged
  attempt,  \* the post the consumer waits for, by event
  answer,   \* the status it was answered with, 0 while it was not
  net,      \* posts on their way
  accepted, \* history: the id and timestamp of each post the receiver accepted,
            \* and when
  scheme,   \* how this sender and receiver name secrets
  phase,    \* of the rotation from the secret "old" to "new"
  skew, clock

vars == <<queue, attempt, answer, net, accepted, scheme, phase, skew, clock>>

None   == "none"
NoPost == [id |-> None]

-----------------------------------------------------------------------------
(* Signing and verifying. *)

\* The HMAC is the secret and what it covers.
SignWebhookBody(id, timestamp, key) ==
  [id |-> id, timestamp |-> timestamp, keyId |-> key.keyId,
   signature |-> [secret |-> key.secret, id |-> id, timestamp |-> timestamp]]

NewestSecret(secrets, keyId) == {secrets[1].secret}

\* A post without a key id is tried against the secrets without one; a key id
\* picks the first secret that has it.
SelectSecrets(secrets, keyId) ==
  LET of == {i \in DOMAIN secrets : secrets[i].keyId = keyId}
  IN  {secrets[i].secret : i \in IF keyId = None THEN of ELSE {i \in of : \A j \in of : i <= j}}

VerifyWebhookBody(post, secrets, now) ==
  /\ now - post.timestamp \in -Tolerance..Tolerance
  /\ \E s \in SelectSecrets(secrets, post.keyId) :
       post.signature = [secret |-> s, id |-> post.id, timestamp |-> post.timestamp]

-----------------------------------------------------------------------------
(* Rotation: the receiver accepts both secrets, the sender switches, the     *)
(* receiver drops the old one.                                               *)

\* "keyed": each secret has a key id of its own.  "unkeyed": no key ids.
\* "upgrade": the new secret comes with the first key id.
Named(which) ==
  [secret |-> which,
   keyId  |-> CASE scheme = "keyed"   -> which
                [] scheme = "unkeyed" -> None
                [] scheme = "upgrade" -> IF which = "new" THEN "new" ELSE None]

Key == Named(IF phase < 2 THEN "old" ELSE "new")

Secrets ==
  CASE phase = 0        -> <<Named("old")>>
    [] phase \in {1, 2} -> <<Named("new"), Named("old")>>
    [] phase = 3        -> <<Named("new")>>

Init ==
  /\ queue = {} /\ net = {} /\ accepted = {}
  /\ attempt = [e \in Events |-> NoPost] /\ answer = [e \in Events |-> 0]
  /\ scheme \in Schemes /\ phase = 0
  /\ skew \in Skews /\ clock = 0

RotateStep ==
  /\ phase < 3
  /\ phase' = phase + 1
  /\ UNCHANGED <<queue, attempt, answer, net, accepted, scheme, skew, clock>>

Tick ==
  /\ clock < MaxClock
  /\ clock' = clock + 1
  /\ UNCHANGED <<queue, attempt, answer, net, accepted, scheme, phase, skew>>

-----------------------------------------------------------------------------
(* The sender. *)

EnqueueWebhookDelivery(e) ==
  /\ e \notin queue /\ \A a \in accepted : a.id # e
  /\ queue' = queue \union {e}
  /\ UNCHANGED <<attempt, answer, net, accepted, scheme, phase, skew, clock>>

\* deliverWebhookMessage() up to its fetch.
DeliverWebhookMessage(e) ==
  /\ e \in queue /\ attempt[e] = NoPost /\ Cardinality(net) < MaxNet
  /\ LET post == SignWebhookBody(e, clock, Key) IN
     /\ attempt' = [attempt EXCEPT ![e] = post]
     /\ net' = net \union {post}
  /\ UNCHANGED <<queue, answer, accepted, scheme, phase, skew, clock>>

\* deliverWebhookMessage() after its fetch: it throws unless the answer is a
\* success, and the consumer acknowledges only what did not throw.
Delivered(e) == answer[e] = 200

AcknowledgeAlways(e, acknowledged) ==
  /\ answer[e] # 0
  /\ queue' = IF acknowledged THEN queue \ {e} ELSE queue
  /\ attempt' = [attempt EXCEPT ![e] = NoPost]
  /\ answer' = [answer EXCEPT ![e] = 0]
  /\ UNCHANGED <<net, accepted, scheme, phase, skew, clock>>

Settle(e, acknowledged) ==
  /\ answer[e] # 0
  /\ queue' = IF Delivered(e) /\ acknowledged THEN queue \ {e} ELSE queue
  /\ attempt' = [attempt EXCEPT ![e] = NoPost]
  /\ answer' = [answer EXCEPT ![e] = 0]
  /\ UNCHANGED <<net, accepted, scheme, phase, skew, clock>>

\* fetch() throws: the post or its answer is lost, or late.
FetchFails(e) ==
  /\ attempt[e] # NoPost
  /\ attempt' = [attempt EXCEPT ![e] = NoPost]
  /\ answer' = [answer EXCEPT ![e] = 0]
  /\ UNCHANGED <<queue, net, accepted, scheme, phase, skew, clock>>

-----------------------------------------------------------------------------
(* The network and the receiver. *)

\* The first answer to an attempt is the one the sender gets.
Respond(post, status) ==
  answer' = IF attempt[post.id] = post /\ answer[post.id] = 0
            THEN [answer EXCEPT ![post.id] = status] ELSE answer

Accept(post, again) ==
  /\ post \in net
  /\ VerifyWebhookBody(post, Secrets, clock + skew)
  /\ accepted' = accepted \union {[id |-> post.id, timestamp |-> post.timestamp, at |-> clock + skew]}
  /\ Respond(post, 200)
  /\ net' = IF again THEN net ELSE net \ {post}
  /\ UNCHANGED <<queue, attempt, scheme, phase, skew, clock>>

\* The signature does not verify, or the receiver fails before it has
\* taken the event.
Refuse(post) ==
  /\ post \in net
  /\ Respond(post, IF VerifyWebhookBody(post, Secrets, clock + skew) THEN 500 ELSE 401)
  /\ net' = net \ {post}
  /\ UNCHANGED <<queue, attempt, accepted, scheme, phase, skew, clock>>

Lose(post) ==
  /\ post \in net
  /\ net' = net \ {post}
  /\ UNCHANGED <<queue, attempt, answer, accepted, scheme, phase, skew, clock>>

Next ==
  \/ RotateStep \/ Tick
  \/ \E e \in Events :
       \/ EnqueueWebhookDelivery(e) \/ DeliverWebhookMessage(e) \/ FetchFails(e)
       \/ \E acknowledged \in BOOLEAN : Settle(e, acknowledged)
  \/ \E post \in net : Refuse(post) \/ Lose(post) \/ \E again \in BOOLEAN : Accept(post, again)

\* The queue redelivers what is not acknowledged, an attempt ends, no post
\* stays on its way for ever, and of attempts without end not all are lost or
\* refused by a failing receiver.
Fairness ==
  /\ WF_vars(\E post \in net : Lose(post))
  /\ \A e \in Events :
      /\ WF_vars(DeliverWebhookMessage(e)) /\ WF_vars(FetchFails(e) \/ Settle(e, TRUE))
      /\ SF_vars(attempt[e] # NoPost /\ Accept(attempt[e], FALSE))

Spec == Init /\ [][Next]_vars /\ Fairness

-----------------------------------------------------------------------------
(* Properties. *)

\* Rotation refuses nothing: whatever secret was current when a post was
\* signed and wherever the rotation stands when it arrives, a post that is on
\* time verifies, until the receiver drops the old secret.
RotationRefusesNothing ==
  phase < 3 =>
    \A post \in net :
      (clock + skew) - post.timestamp \in -Tolerance..Tolerance =>
        VerifyWebhookBody(post, Secrets, clock + skew)

\* The queue forgets no event that the receiver has not accepted, whatever
\* was lost, answered late or answered to another attempt.
ForgottenOnlyIfAccepted ==
  [][\A e \in queue \ queue' : \E a \in accepted : a.id = e]_vars

\* A post that arrives twice is accepted at times at most twice the tolerance
\* apart, by the receiver's clock: how long it has to remember what it saw.
ReplayWindow ==
  \A a, b \in accepted : (a.id = b.id /\ a.timestamp = b.timestamp) => a.at - b.at <= 2 * Tolerance

\* Every event is accepted in the end: attempts that fail, are late or meet a
\* rotation half done are followed by one that does not.
EveryEventArrives ==
  \A e \in Events : (e \in queue) ~> (\E a \in accepted : a.id = e)

\* Rotating the secret refuses nothing that is on time, and what verifies can
\* be recognised as a replay by who remembers long enough.
VerifiesExactly == RotationRefusesNothing /\ ReplayWindow

=============================================================================
