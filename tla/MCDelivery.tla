----------------------------- MODULE MCDelivery -----------------------------
(***************************************************************************)
(* What has to arrive in the end, in three parts that share nothing: a     *)
(* behaviour is one of the part that `part` names, and the other parts     *)
(* have ended before it began.                                             *)
(*   "webhooks"  an event on its way to a receiver                         *)
(*   "dev"       saves of gmode.jsonc on their way to a dev session        *)
(*   "dashboard" requests and health on their way to the page              *)
(***************************************************************************)
EXTENDS Webhooks, DevSession, Dashboard

VARIABLE part

\* Each scheme runs with one of the skews: how secrets are named and how far the
\* clocks are apart are checked apart.
MCSkews == -1..1

\* A session that was interrupted.
DevEnded ==
  /\ manifest = "m1" /\ wrangler = "m1" /\ resolved = "m1"
  /\ sessions = <<[state |-> "reaped", config |-> "m1"]>>
  /\ saved = FALSE /\ restarting = FALSE /\ timers = 0
  /\ pc = "exited" /\ edits = 0 /\ calm = TRUE

\* A page to which nothing has happened.
BoardEnded ==
  /\ subject = "requests" /\ world = [s \in {"users", "gateway"} |-> "ok"]
  /\ sent = 0 /\ posting = {} /\ arrived = <<>> /\ ring = <<>>
  /\ health = Waiting /\ stream = <<>> /\ open = TRUE /\ restarts = 0
  /\ page = [NewPage EXCEPT !.fetch = "failed", !.openedAt = 0]

MCInit ==
  /\ part \in {"webhooks", "dev", "dashboard"}
  /\ Init
  /\ <<scheme, skew>> \in {<<"keyed", -1>>, <<"unkeyed", 0>>, <<"upgrade", 1>>}
  /\ part = "webhooks" \/ scheme = "keyed"
  /\ IF part = "dev" THEN DevInit ELSE DevEnded
  /\ IF part = "dashboard" THEN BoardInit ELSE BoardEnded

MCNext ==
  \/ part = "webhooks" /\ Next /\ UNCHANGED <<part, devVars, boardVars>>
  \/ part = "dev" /\ DevNext /\ UNCHANGED <<part, vars, boardVars>>
  \/ part = "dashboard" /\ BoardNext /\ UNCHANGED <<part, vars, devVars>>

MCSpec ==
  /\ MCInit /\ [][MCNext]_<<part, vars, devVars, boardVars>>
  /\ Fairness /\ DevFairness /\ BoardFairness

=============================================================================
