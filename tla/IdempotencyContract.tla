------------------------ MODULE IdempotencyContract ------------------------
(***************************************************************************)
(* What idempotency keys promise a caller, without the store that keeps    *)
(* the promise: an attempt is refused, or it executes once and gets its    *)
(* own response, or it replays the response of an execution that came      *)
(* before it, of the same request by the same caller under the same key.   *)
(***************************************************************************)
CONSTANTS
  Attempts,   \* the requests a gateway receives
  Requests,   \* [keyed, caller, key, fp] of a request
  Statuses,   \* classes of response status
  Replayable  \* the classes that may be replayed

VARIABLES
  request,   \* what each attempt asks for
  execution, \* "none", or the status class of the attempt's own execution
  answer     \* [kind, origin]: what the attempt was answered with

contractVars == <<request, execution, answer>>

Pending == [kind |-> "pending", origin |-> {}]

ContractInit ==
  /\ request \in [Attempts -> Requests]
  /\ execution = [a \in Attempts |-> "none"]
  /\ answer = [a \in Attempts |-> Pending]

Keyed(a) == request[a].keyed

SameKey(a, b) ==
  request[a].caller = request[b].caller /\ request[a].key = request[b].key

SameRequest(a, b) == SameKey(a, b) /\ request[a].fp = request[b].fp

Executes(a, status) ==
  /\ execution[a] = "none" /\ answer[a] = Pending
  /\ execution' = [execution EXCEPT ![a] = status]

AnswerWith(a, kind, origin) ==
  /\ answer[a] = Pending
  /\ answer' = [answer EXCEPT ![a] = [kind |-> kind, origin |-> origin]]

\* An execution whose response reaches the caller at once, or only later.
ExecuteAndAnswer(a) ==
  \E status \in Statuses : Executes(a, status) /\ AnswerWith(a, "own", {a})

ExecuteOnly(a) ==
  \E status \in Statuses : Executes(a, status) /\ UNCHANGED answer

AnswerOwn(a) ==
  /\ execution[a] # "none"
  /\ AnswerWith(a, "own", {a})
  /\ UNCHANGED execution

\* A replay executes nothing.
Replay(a) ==
  /\ Keyed(a) /\ execution[a] = "none"
  /\ \E o \in Attempts :
       /\ Keyed(o) /\ SameRequest(a, o) /\ execution[o] \in Replayable
       /\ AnswerWith(a, "replay", {o})
  /\ UNCHANGED execution

\* The key was used for another request: answered 409, nothing executed.
Conflict(a) ==
  /\ Keyed(a) /\ execution[a] = "none"
  /\ \E o \in Attempts :
       /\ Keyed(o) /\ SameKey(a, o) /\ ~SameRequest(a, o) /\ execution[o] \in Replayable
       /\ AnswerWith(a, "conflict", {o})
  /\ UNCHANGED execution

\* A protected request without a key: refused before anything is executed.
Refuse(a) ==
  /\ ~Keyed(a) /\ execution[a] = "none"
  /\ AnswerWith(a, "refused", {})
  /\ UNCHANGED execution

\* An error, or no answer at all; the attempt may have executed.
Fail(a) ==
  AnswerWith(a, "failed", {}) /\ UNCHANGED execution

ContractNext ==
  /\ UNCHANGED request
  /\ \E a \in Attempts :
       \/ ExecuteAndAnswer(a) \/ ExecuteOnly(a) \/ AnswerOwn(a)
       \/ Replay(a) \/ Conflict(a) \/ Refuse(a) \/ Fail(a)

Contract == ContractInit /\ [][ContractNext]_contractVars

=============================================================================
