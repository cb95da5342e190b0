-------------------------- MODULE MCContextRollout --------------------------
(***************************************************************************)
(* The rollout over two requests whose handlers call an RPC peer.          *)
(***************************************************************************)
EXTENDS ContextRollout, TLC

CONSTANTS r1, r2, k1

MCRequests == {r1, r2}
MCSymmetry == Permutations(MCRequests)

NoDemands == [auth |-> "unset", scopes |-> {}, permissions |-> {}]
Open == [scopes |-> {}, permissions |-> {}, gated |-> FALSE, gateDefault |-> FALSE]

MCConfigs ==
  {[defaults   |-> [auth |-> FALSE, scopes |-> {}, permissions |-> {}],
    mount      |-> NoDemands,
    operation  |-> Open, rpcMethod |-> Open,
    gated      |-> FALSE, flags |-> "absent", forward |-> FALSE,
    ownFlags   |-> [service |-> FALSE, peer |-> FALSE],
    signing    |-> "env", customSecret |-> NoSecret,
    trusts     |-> [service |-> TRUE, peer |-> TRUE],
    required   |-> [service |-> TRUE, peer |-> TRUE],
    audience   |-> [service |-> "users", peer |-> "users"],
    rpcForwards |-> TRUE]}

MCDeployments == {Unsecured, Permissive, Strict}
MCFlagStates  == {[mount |-> TRUE, operation |-> TRUE]}
MCIdentities  == {Anonymous}

=============================================================================
