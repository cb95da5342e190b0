--------------------------- MODULE MCRequestFlow ---------------------------
(***************************************************************************)
(* Instances of RequestFlow: identities with every relation to what a      *)
(* mount and an operation demand, and the configurations of each run.      *)
(***************************************************************************)
EXTENDS RequestFlow, TLC

CONSTANTS r1, r2, k1, k2

MCRequests    == {r1}
MCTwoRequests == {r1, r2}
MCSymmetry    == Permutations(MCTwoRequests)

UsersRead  == <<"users", "read">>
UsersAny   == <<"users", "*">>
UsersWrite == <<"users", "write">>
Operator   == <<"operator">>

Caller(scopes, permissions) ==
  [authenticated |-> TRUE, scopes |-> scopes, permissions |-> permissions]

Reader   == Caller({UsersRead}, {})
Owner    == Caller({UsersAny}, {Operator})
MCIdentities == {Anonymous, Reader, Owner}

Demands(auth, scopes, permissions) ==
  [auth |-> auth, scopes |-> scopes, permissions |-> permissions]

Operation(scopes, gated, default) ==
  [scopes |-> scopes, permissions |-> {}, gated |-> gated, gateDefault |-> default]

\* One gateway over the service "users" whose handler forwards its context to
\* a peer of the same audience; HMAC with the conventional secret.
BaseConfig ==
  [defaults   |-> Demands(FALSE, {}, {}),
   mount      |-> Demands("on", {UsersRead}, {}),
   operation  |-> Operation({}, FALSE, FALSE),
   rpcMethod  |-> Operation({}, FALSE, FALSE),
   gated      |-> FALSE, flags |-> "absent", forward |-> FALSE,
   ownFlags   |-> [service |-> FALSE, peer |-> FALSE],
   signing    |-> "env", customSecret |-> NoSecret,
   trusts     |-> [service |-> TRUE, peer |-> TRUE],
   required   |-> [service |-> TRUE, peer |-> TRUE],
   audience   |-> [service |-> "users", peer |-> "users"],
   rpcForwards |-> TRUE]

\* Who is trusted, whose audience a peer expects, and what it is sent.
TrustConfigs ==
  {[BaseConfig EXCEPT !.trusts = [service |-> s, peer |-> p],
                      !.required.peer = q,
                      !.audience.peer = a,
                      !.rpcForwards = f] :
     s \in BOOLEAN, p \in BOOLEAN, q \in BOOLEAN,
     a \in {"users", "billing"}, f \in BOOLEAN}

\* What the defaults, the mount, the operation and the RPC method demand.
DemandConfigs ==
  {[BaseConfig EXCEPT !.defaults = Demands(d, {}, ps),
                      !.mount = Demands(m, ss, {}),
                      !.operation = Operation(os, FALSE, FALSE),
                      !.rpcMethod = Operation(rs, FALSE, FALSE),
                      !.gated = TRUE, !.flags = "bound"] :
     d \in BOOLEAN, ps \in {{}, {Operator}}, m \in {"unset", "on", "off"},
     ss \in {{}, {UsersRead}}, os \in {{}, {UsersWrite}}, rs \in {{}, {UsersWrite}}}

MCDeployments == {[secret |-> NoSecret, allowUnsigned |-> FALSE],
                  [secret |-> k1, allowUnsigned |-> TRUE],
                  [secret |-> k1, allowUnsigned |-> FALSE],
                  [secret |-> k2, allowUnsigned |-> FALSE]}
MCMaybeSecrets == {k1, k2, NoSecret}

OneDeployment == {[secret |-> k1, allowUnsigned |-> FALSE]}
CustomDeployment == {[secret |-> k2, allowUnsigned |-> FALSE]}
AllFlagStates == [mount : BOOLEAN, operation : BOOLEAN]
FlagsOn       == {[mount |-> TRUE, operation |-> TRUE]}

\* Gates on the mount and on the operation, whose flags switch on the way.
ClockConfigs ==
  {[BaseConfig EXCEPT !.operation = Operation({}, TRUE, FALSE),
                      !.gated = TRUE, !.flags = "bound", !.forward = TRUE]}

FlowConfigs == TrustConfigs \union ClockConfigs

\* Time passes and flags switch where the configuration is about clocks, and
\* Workers are deployed anew where it is about trust.
TrustOrClocks ==
  IF cfg \in ClockConfigs
  THEN gwSecret = k1 /\ trust \in [Workers -> OneDeployment]
  ELSE now = 0 /\ drift = [w \in Workers |-> 0] /\ flag \in FlagsOn

\* Every way flags and gates reach the two entry paths, and every signing
\* option, over demands that separate the identities.
GateConfigs ==
  {[BaseConfig EXCEPT !.defaults = Demands(d, {}, {}),
                      !.mount = Demands(m, {UsersRead}, {}),
                      !.operation = Operation(os, g, gd),
                      !.gated = mg, !.flags = fl, !.forward = fw,
                      !.ownFlags.service = own, !.signing = sg] :
     d \in BOOLEAN, m \in {"unset", "off"}, os \in {{}, {UsersWrite}},
     g \in BOOLEAN, gd \in BOOLEAN, mg \in BOOLEAN,
     fl \in {"absent", "bound", "failOpen"}, fw \in BOOLEAN,
     own \in BOOLEAN, sg \in {"env", "off"}}

PolicyConfigs == DemandConfigs \union GateConfigs

\* A gated operation whose flag the gateway evaluates and forwards.
ForwardedFlagConfigs ==
  {[BaseConfig EXCEPT !.operation = Operation({}, TRUE, FALSE),
                      !.flags = "bound", !.forward = TRUE]}

\* internal.signing.secret and trustGateway.secret read another variable than
\* GMODE_CONTEXT_SECRET.
CustomSigningConfigs ==
  {[BaseConfig EXCEPT !.signing = "custom", !.customSecret = k2]}

=============================================================================
