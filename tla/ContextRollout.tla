--------------------------- MODULE ContextRollout ---------------------------
(***************************************************************************)
(* Turning HMAC signing on while requests are in flight.                   *)
(*                                                                         *)
(* RequestFlow lets every Worker be deployed with any secret at any time.  *)
(* Here the deployments follow the order that `allowUnsigned` exists for   *)
(* (packages/core/src/crypto.ts, docs/auth-and-security.md): first every   *)
(* Worker accepts both kinds of token, then the gateway signs, then every  *)
(* Worker becomes strict.  A request keeps the env it started with, so an  *)
(* unsigned token can still be minted after the gateway signs: the Workers *)
(* become strict only when those requests have drained.                    *)
(***************************************************************************)
EXTENDS RequestFlow

CONSTANT NewSecret

ASSUME NewSecretAssumption == NewSecret \in Secrets

Unsecured  == [secret |-> NoSecret,  allowUnsigned |-> FALSE]
Permissive == [secret |-> NewSecret, allowUnsigned |-> TRUE]
Strict     == [secret |-> NewSecret, allowUnsigned |-> FALSE]

\* The rollout concerns the conventional secret; clocks agree within the skew.
ASSUME RolloutAssumption ==
  /\ {NoSecret, NewSecret} \subseteq GatewaySecrets
  /\ {Unsecured, Permissive, Strict} \subseteq Deployments
  /\ \A c \in Configs : c.signing = "env"
  /\ MaxDrift <= Skew

RolloutInit ==
  /\ Init
  /\ gwSecret = NoSecret
  /\ trust = [w \in Workers |-> Unsecured]

Deploy(w, deployment) ==
  /\ trust' = [trust EXCEPT ![w] = deployment]
  /\ UNCHANGED <<config, now, gwSecret, flag, req, runs>>

AcceptBoth(w) == trust[w] = Unsecured /\ Deploy(w, Permissive)

Sign ==
  /\ gwSecret = NoSecret
  /\ \A w \in Workers : trust[w] = Permissive
  /\ gwSecret' = NewSecret
  /\ UNCHANGED <<config, now, trust, flag, req, runs>>

\* Requests that the unsigned gateway deployment started, or is still serving.
OldRequestsDrained ==
  \A r \in Requests : req[r].pc \in {"idle", "done"} \/ req[r].env = NewSecret

BecomeStrict(w) ==
  /\ gwSecret = NewSecret /\ trust[w] = Permissive
  /\ OldRequestsDrained
  /\ Deploy(w, Strict)

RolloutNext ==
  \/ \E r \in Requests : Process(r)
  \/ Tick
  \/ \E w \in Workers : AcceptBoth(w)
  \/ Sign
  \/ \E w \in Workers : BecomeStrict(w)

RolloutSpec == RolloutInit /\ [][RolloutNext]_vars

-----------------------------------------------------------------------------
(* Properties. *)

SignatureRejections ==
  {"UNSIGNED_GATEWAY_CONTEXT", "INVALID_GATEWAY_CONTEXT_SIGNATURE",
   "INVALID_GATEWAY_CONTEXT"}

\* The rollout costs no request: whatever is in flight at each deployment, no
\* service and no RPC peer ever rejects a token because of its signature.
RolloutKeepsServing ==
  \A r \in Requests :
    {req[r].result, req[r].rpcResult} \intersect SignatureRejections = {}

=============================================================================
