---------------------------- MODULE RequestFlow -----------------------------
(***************************************************************************)
(* One gateway, the private service Worker that a request is dispatched to *)
(* and the peer Worker that the service's handler calls over RPC.          *)
(*                                                                         *)
(* A request reaches the service by one of two entry paths that share the  *)
(* gateway's middleware: the HTTP router (route() in gateway.ts) or an MCP *)
(* tools/call (invokeOperation() in mcp/src/dispatch.ts).  Both authorize  *)
(* the identity that the auth middleware established, mint a private       *)
(* context for the service's audience and forward it.  The service         *)
(* verifies the context, authorizes its own operation, evaluates the       *)
(* operation's feature gate and runs the handler.  The handler may forward *)
(* the context token it received to the peer's RPC method, which does the  *)
(* same.                                                                   *)
(*                                                                         *)
(* Time passes, clocks differ, secrets are deployed and flags change       *)
(* between any two of these steps.                                         *)
(***************************************************************************)
EXTENDS GatewayContext, FiniteSets

CONSTANTS
  Requests,       \* the requests of one behaviour
  Identities,     \* what the auth middleware may leave in context.auth
  Configs,        \* the gateway, mount, operation and RPC configurations
  Secrets,        \* what context secrets exist
  GatewaySecrets, \* what GMODE_CONTEXT_SECRET the gateway is deployed with
  Deployments,    \* what secret and allowUnsigned a worker is deployed with
  FlagStates,     \* the values of the mount gate's and the operation's flag
  MaxDrift,       \* bound on a worker's clock error against the gateway's
  Horizon         \* bound on time

MaybeSecret == Secrets \union {NoSecret}

ASSUME MaxDriftAssumption == MaxDrift \in Nat
ASSUME HorizonAssumption  == Horizon \in Nat
ASSUME SecretsAssumption ==
  /\ NoSecret \notin Secrets
  /\ GatewaySecrets \subseteq MaybeSecret
  /\ Deployments \subseteq [secret : MaybeSecret, allowUnsigned : BOOLEAN]
ASSUME FlagStatesAssumption ==
  FlagStates \subseteq [mount : BOOLEAN, operation : BOOLEAN]

Workers == {"service", "peer"}

ASSUME ConfigsAssumption ==
  \A c \in Configs :
    /\ c.signing \in {"off", "env", "custom"} /\ c.customSecret \in MaybeSecret
    /\ c.trusts \in [Workers -> BOOLEAN]

VARIABLES
  cfg,       \* the configuration, fixed by Init
  drift,     \* clock of each worker minus clock of the gateway, fixed by Init
  now,       \* the gateway's clock, in seconds
  gwSecret,  \* GMODE_CONTEXT_SECRET of the gateway's current deployment
  trust,     \* secret and allowUnsigned of each worker's current deployment
  flag,      \* Flagship: the mount gate's flag and the operation's flag
  req,       \* each request's progress through the gateway and the service
  runs       \* every handler execution, with the context the handler saw

vars == <<cfg, drift, now, gwSecret, trust, flag, req, runs>>
config == <<cfg, drift>>

-----------------------------------------------------------------------------
(* Types. *)

Results == {"none", "OK", "UNAUTHORIZED", "INSUFFICIENT_SCOPE",
  "INSUFFICIENT_PERMISSION", "NOT_FOUND", "FEATURE_NOT_AVAILABLE",
  "UNSIGNED_GATEWAY_CONTEXT", "INVALID_GATEWAY_CONTEXT",
  "INVALID_GATEWAY_CONTEXT_SIGNATURE", "INVALID_GATEWAY_CONTEXT_AUDIENCE",
  "EXPIRED_GATEWAY_CONTEXT", "MISSING_GATEWAY_CONTEXT"}

FlagValues == {"absent", "on", "off"}

NoToken == [ctx |-> AnonymousGatewayContext("none"), signedBy |-> NoSecret]

\* pc: "idle", then "arrived" (authenticated, before the flags middleware),
\* "dispatching" (before route() or invokeOperation()), "sent" (at the service
\* binding), "handling" (in the service's handler), "calling" (RPC envelope
\* sent to the peer), "done".
NewRequest == [pc |-> "idle", via |-> "http", auth |-> Anonymous,
               env |-> NoSecret, forwarded |-> "absent", token |-> NoToken,
               result |-> "none", rpcResult |-> "none"]

Init ==
  /\ cfg \in Configs
  /\ drift \in [Workers -> -MaxDrift .. MaxDrift]
  /\ now = 0
  /\ gwSecret \in GatewaySecrets
  /\ trust \in [Workers -> Deployments]
  /\ flag \in FlagStates
  /\ req = [r \in Requests |-> NewRequest]
  /\ runs = {}

Answer(r, code) ==
  req' = [req EXCEPT ![r].pc = "done", ![r].result = code]

-----------------------------------------------------------------------------
(* The gateway. *)

\* fetch() starts a request with the env of the current deployment, and the
\* auth middleware leaves its identity in context.auth.
Arrive(r, via, auth) ==
  /\ req[r].pc = "idle"
  /\ req' = [req EXCEPT ![r].pc = "arrived", ![r].via = via,
                        ![r].auth = auth, ![r].env = gwSecret]
  /\ UNCHANGED <<config, now, gwSecret, trust, flag, runs>>

\* featureFlags(): "bound" with a Flagship binding, "failOpen" with a missing
\* one, "absent" when the middleware is not mounted.  A tools/call is posted
\* to the MCP path, which lies under no gated mount.
MountGateClosed == cfg.gated /\ cfg.flags = "bound" /\ ~flag.mount

FlagsMiddleware(r) ==
  /\ req[r].pc = "arrived"
  /\ \/ /\ req[r].via = "http" /\ MountGateClosed
        /\ Answer(r, "NOT_FOUND")
     \/ /\ ~(req[r].via = "http" /\ MountGateClosed)
        /\ req' = [req EXCEPT
             ![r].pc = "dispatching",
             ![r].forwarded = IF cfg.flags # "bound" \/ ~cfg.forward THEN "absent"
                              ELSE IF flag.operation THEN "on" ELSE "off"]
  /\ UNCHANGED <<config, now, gwSecret, trust, flag, runs>>

\* resolveContextSecret(): internal.signing wins over the conventional secret.
ResolveContextSecret(env) ==
  CASE cfg.signing = "off"    -> NoSecret
    [] cfg.signing = "custom" -> cfg.customSecret
    [] cfg.signing = "env"    -> env

\* forwardToService() with the context minted for the mount's audience.
Forward(r, flags, secret) ==
  req' = [req EXCEPT
    ![r].pc = "sent",
    ![r].token = EncodeContext(
      BuildGatewayContext(req[r].auth, cfg.audience["service"], now, flags),
      secret)]

\* The HTTP path, from authorizeForService() on.
Route(r) ==
  /\ req[r].pc = "dispatching" /\ req[r].via = "http"
  /\ LET code == AuthorizeForService(req[r].auth, cfg.mount, cfg.defaults)
     IN  IF code = "OK"
         THEN Forward(r, req[r].forwarded, ResolveContextSecret(req[r].env))
         ELSE Answer(r, code)
  /\ UNCHANGED <<config, now, gwSecret, trust, flag, runs>>

\* The per-operation gates of invokeOperation(): the catalog entry's scopes,
\* then its permissions, each as a service that leaves `auth` unset, then the
\* operation's flag, closed without a flags client, then the mount gate.
OperationOnly(scopes, permissions) ==
  [auth |-> "unset", scopes |-> scopes, permissions |-> permissions]

ToolCallCodeWithoutMountGate(auth) ==
  FirstFailure(<<
    AuthorizeForService(auth, cfg.mount, cfg.defaults),
    IF cfg.operation.scopes = {} THEN "OK"
    ELSE AuthorizeForService(auth, OperationOnly(cfg.operation.scopes, {}),
                             cfg.defaults),
    Check(cfg.operation.gated => cfg.flags = "bound" /\ flag.operation,
          "FEATURE_NOT_AVAILABLE")>>)

ToolCallCode(auth) ==
  FirstFailure(<<
    AuthorizeForService(auth, cfg.mount, cfg.defaults),
    IF cfg.operation.scopes = {} THEN "OK"
    ELSE AuthorizeForService(auth, OperationOnly(cfg.operation.scopes, {}),
                             cfg.defaults),
    IF cfg.operation.permissions = {} THEN "OK"
    ELSE AuthorizeForService(auth, OperationOnly({}, cfg.operation.permissions),
                             cfg.defaults),
    Check(cfg.operation.gated => cfg.flags = "bound" /\ flag.operation,
          "FEATURE_NOT_AVAILABLE"),
    Check(~MountGateClosed, "NOT_FOUND")>>)

\* The MCP path: the context carries no flags, and the secret is read from
\* the env whatever internal.signing says.
InvokeOperation(r) ==
  /\ req[r].pc = "dispatching" /\ req[r].via = "mcp"
  /\ IF ToolCallCode(req[r].auth) = "OK"
     THEN Forward(r, "absent", req[r].env)
     ELSE Answer(r, ToolCallCode(req[r].auth))
  /\ UNCHANGED <<config, now, gwSecret, trust, flag, runs>>

-----------------------------------------------------------------------------
(* The service and its RPC peer. *)

Clock(w) == now + drift[w]

\* verifyServiceGatewayContext() and resolveGatewayContext(): a worker without
\* trustGateway runs every request as anonymous, and one with `required: false`
\* does so for a request that carries no token.
Verifies(w, token) == cfg.trusts[w] /\ token # NoToken

VerifyAt(w, token) ==
  IF Verifies(w, token)
  THEN VerifyGatewayContext(token, cfg.audience[w], trust[w], Clock(w))
  ELSE Check(~(cfg.trusts[w] /\ cfg.required[w]), "MISSING_GATEWAY_CONTEXT")

ContextAt(w, token) ==
  IF Verifies(w, token) THEN token.ctx
  ELSE AnonymousGatewayContext(cfg.audience[w])

\* Verification, authorization and feature gate of an operation of worker w.
GateCode == [service |-> "NOT_FOUND", peer |-> "FEATURE_NOT_AVAILABLE"]

AcceptCode(w, operation, token) ==
  LET ctx == ContextAt(w, token)
  IN  FirstFailure(<<
        VerifyAt(w, token),
        AuthorizeForRoute(ctx.auth, operation),
        Check(operation.gated =>
                FeatureEnabled(operation, cfg.ownFlags[w], flag.operation, ctx.flags),
              GateCode[w])>>)

\* The context is what the handler sees; the other fields record, for the
\* properties, whether and how it was verified, and when.
Execution(r, w, token) ==
  [request |-> r, worker |-> w, verified |-> Verifies(w, token),
   ctx |-> ContextAt(w, token), signedBy |-> token.signedBy,
   trust |-> trust[w], at |-> now]

\* The route handler of service.ts up to the call of config.handler().
ServeHttp(r) ==
  /\ req[r].pc = "sent"
  /\ LET code == AcceptCode("service", cfg.operation, req[r].token)
     IN  \/ /\ code = "OK"
            /\ req' = [req EXCEPT ![r].pc = "handling", ![r].result = "OK"]
            /\ runs' = runs \union {Execution(r, "service", req[r].token)}
         \/ /\ code # "OK"
            /\ Answer(r, code)
            /\ UNCHANGED runs
  /\ UNCHANGED <<config, now, gwSecret, trust, flag>>

\* The handler returns without calling its peer, or calls it through
\* createRpcClient() with the context token of its own request.
HandlerReturns(r) ==
  /\ req[r].pc = "handling"
  /\ req' = [req EXCEPT ![r].pc = "done"]
  /\ UNCHANGED <<config, now, gwSecret, trust, flag, runs>>

CallPeer(r) ==
  /\ req[r].pc = "handling"
  /\ req' = [req EXCEPT ![r].pc = "calling"]
  /\ UNCHANGED <<config, now, gwSecret, trust, flag, runs>>

\* RpcServiceImpl.invoke() on the envelope of createRpcClient(): a client
\* without `context` sends no token.
EnvelopeContext(r) == IF cfg.rpcForwards THEN req[r].token ELSE NoToken

InvokeRpc(r) ==
  /\ req[r].pc = "calling"
  /\ LET token == EnvelopeContext(r)
         code  == AcceptCode("peer", cfg.rpcMethod, token)
     IN  /\ req' = [req EXCEPT ![r].pc = "done", ![r].rpcResult = code]
         /\ runs' = IF code = "OK"
                    THEN runs \union {Execution(r, "peer", token)}
                    ELSE runs
  /\ UNCHANGED <<config, now, gwSecret, trust, flag>>

-----------------------------------------------------------------------------
(* The environment: time, deployments, flag changes. *)

Tick ==
  /\ now < Horizon
  /\ now' = now + 1
  /\ UNCHANGED <<config, gwSecret, trust, flag, req, runs>>

DeployGateway ==
  /\ gwSecret' \in GatewaySecrets
  /\ UNCHANGED <<config, now, trust, flag, req, runs>>

DeployWorker(w) ==
  /\ \E deployed \in Deployments : trust' = [trust EXCEPT ![w] = deployed]
  /\ UNCHANGED <<config, now, gwSecret, flag, req, runs>>

ChangeFlags ==
  /\ flag' \in FlagStates
  /\ UNCHANGED <<config, now, gwSecret, trust, req, runs>>

Process(r) ==
  \/ \E via \in {"http", "mcp"}, auth \in Identities : Arrive(r, via, auth)
  \/ FlagsMiddleware(r)
  \/ Route(r)
  \/ InvokeOperation(r)
  \/ ServeHttp(r)
  \/ HandlerReturns(r)
  \/ CallPeer(r)
  \/ InvokeRpc(r)

Next ==
  \/ \E r \in Requests : Process(r)
  \/ Tick
  \/ DeployGateway
  \/ \E w \in Workers : DeployWorker(w)
  \/ ChangeFlags

Spec == Init /\ [][Next]_vars

\* A period in which nothing is deployed, no flag is switched and no clock
\* second ends: requests are then comparable with each other.
SteadySpec == Init /\ [][\E r \in Requests : Process(r)]_vars

-----------------------------------------------------------------------------
(* Properties. *)

AuthContexts == Identities \union {Anonymous}
Audiences == {"none"} \union {c.audience[w] : c \in Configs, w \in Workers}

Contexts == [auth : AuthContexts, aud : Audiences, flags : FlagValues,
             issuedAt : Nat, expiresAt : Nat]

Tokens == [ctx : Contexts, signedBy : MaybeSecret]

RequestStates ==
  [pc : {"idle", "arrived", "dispatching", "sent", "handling", "calling", "done"},
   via : {"http", "mcp"}, auth : AuthContexts, env : MaybeSecret,
   forwarded : FlagValues, token : Tokens,
   result : Results, rpcResult : Results]

Executions ==
  [request : Requests, worker : Workers, verified : BOOLEAN, ctx : Contexts,
   signedBy : MaybeSecret, trust : Deployments, at : Nat]

\* The state variables keep the shapes that the code's types give them.
TypeOK ==
  /\ cfg \in Configs
  /\ drift \in [Workers -> -MaxDrift .. MaxDrift]
  /\ now \in Nat
  /\ gwSecret \in GatewaySecrets
  /\ trust \in [Workers -> Deployments]
  /\ flag \in FlagStates
  /\ req \in [Requests -> RequestStates]
  /\ runs \subseteq Executions

\* Across both entry paths and the forwarding of a token to a peer, a handler
\* behind trustGateway runs as exactly the identity that the gateway's auth
\* middleware established for that request, on a context that was minted for
\* this worker's audience and no other's.
IdentityPreserved ==
  \A e \in runs :
    e.verified => /\ e.ctx.auth = req[e.request].auth
                  /\ e.ctx.aud = cfg.audience[e.worker]

\* What the mount and the gateway's defaults demand of an identity, as
\* authorizeForService() documents it.
SatisfiesMount(auth) ==
  AuthRequired(cfg.mount, cfg.defaults) =>
    /\ auth.authenticated
    /\ MatchesAllScopes(cfg.defaults.scopes \union cfg.mount.scopes, auth.scopes)
    /\ MatchesAllScopes(cfg.defaults.permissions \union cfg.mount.permissions,
                        auth.permissions)

OperationOf(w) == IF w = "service" THEN cfg.operation ELSE cfg.rpcMethod

\* No handler runs, whether reached over HTTP, over MCP or by the RPC call of
\* another handler, for an identity that the mount's authorization refuses;
\* and a handler that verified its context runs only for an identity that
\* holds its own operation's scopes and permissions.
AuthorizedExecution ==
  \A e \in runs :
    /\ SatisfiesMount(req[e.request].auth)
    /\ e.verified =>
         /\ MatchesAllScopes(OperationOf(e.worker).scopes,
                             req[e.request].auth.scopes)
         /\ MatchesAllScopes(OperationOf(e.worker).permissions,
                             req[e.request].auth.permissions)

\* However late a token is delivered or forwarded, and however the two clocks
\* differ, the identity a handler acts on is at most the token's lifetime old,
\* plus the tolerated skew, plus the real clock error.
FreshContext ==
  \A e \in runs :
    e.verified => e.at - e.ctx.issuedAt <= Ttl + Skew + MaxDrift

\* A worker that, at the moment it verified, was deployed with a secret and
\* without allowUnsigned ran its handler only on a context signed with that
\* very secret, whatever was deployed while the request was in flight.
SignatureEnforced ==
  \A e \in runs :
    (e.verified /\ e.trust.secret # NoSecret /\ ~e.trust.allowUnsigned)
      => e.signedBy = e.trust.secret

AnsweredAsExpired(r) ==
  "EXPIRED_GATEWAY_CONTEXT" \in
    {req'[r].result, req'[r].rpcResult} \ {req[r].result, req[r].rpcResult}

ReallyExpired(r) == now - req[r].token.ctx.issuedAt > Ttl + Skew - MaxDrift

\* A worker rejects a context as expired only when it really is older than its
\* lifetime, counting the skew in the caller's favour: a clock that is off by
\* no more than the tolerance never costs a live request.
NoEarlyExpiry ==
  [][\A r \in Requests : AnsweredAsExpired(r) => ReallyExpired(r)]_vars

PolicyRefusals == {"UNAUTHORIZED", "INSUFFICIENT_SCOPE",
  "INSUFFICIENT_PERMISSION", "NOT_FOUND", "FEATURE_NOT_AVAILABLE"}

\* A tool call never obtains what the policy refuses over HTTP: while nothing
\* is deployed and no flag is switched, an operation that is served to an
\* identity by invokeOperation() is not refused to it by route(), by the mount
\* gates of featureFlags() or by the service's own gates.
ToolCallsWithinHttpPolicy ==
  \A r, s \in Requests :
    (/\ req[r].via = "mcp" /\ req[r].result = "OK"
     /\ req[s].via = "http" /\ req[s].auth = req[r].auth)
      => req[s].result \notin PolicyRefusals

\* docs/mcp.md: tool calls inherit the same feature flags as HTTP requests, so
\* no feature gate refuses to a tool call what it serves over HTTP.
ToolCallInheritsFlags ==
  \A r, s \in Requests :
    (/\ req[s].via = "http" /\ req[s].result = "OK"
     /\ req[r].via = "mcp" /\ req[r].auth = req[s].auth)
      => req[r].result \notin {"NOT_FOUND", "FEATURE_NOT_AVAILABLE"}

\* authorize.ts: the MCP dispatcher forwards with the same private context as
\* the route dispatcher, so a service that trusts the one trusts the other.
ToolCallTrustedAsHttp ==
  \A r, s \in Requests :
    (/\ req[s].via = "http" /\ req[s].result = "OK"
     /\ req[r].via = "mcp" /\ req[r].auth = req[s].auth)
      => req[r].result \notin {"UNSIGNED_GATEWAY_CONTEXT",
           "INVALID_GATEWAY_CONTEXT", "INVALID_GATEWAY_CONTEXT_SIGNATURE"}

=============================================================================
