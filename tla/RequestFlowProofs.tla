------------------------- MODULE RequestFlowProofs -------------------------
(***************************************************************************)
(* Proofs about RequestFlow: for any number of requests, any identities,   *)
(* configurations, secrets, deployments and clocks, a handler runs only    *)
(* as the identity that the gateway authorized, on a fresh context signed  *)
(* as its worker demands.  And about ContextRollout: for any number of     *)
(* requests in flight, the documented order of deployments is a behaviour  *)
(* of RequestFlow that rejects no token because of its signature.          *)
(***************************************************************************)
EXTENDS ContextRollout, TLAPS

-----------------------------------------------------------------------------
(* A sequence of checks. *)

\* A sequence of checks answers "OK" only if each of its checks does, and
\* otherwise with the code of one of them (FirstFailure, the order of the
\* throw statements in the code).
LEMMA FirstFailureCode ==
  ASSUME NEW n \in 1 .. 5, NEW codes, DOMAIN codes = 1 .. n
  PROVE  \/ /\ FirstFailure(codes) = "OK"
            /\ \A i \in DOMAIN codes : codes[i] = "OK"
         \/ \E i \in DOMAIN codes :
              codes[i] # "OK" /\ FirstFailure(codes) = codes[i]
<1> DEFINE failed == {i \in DOMAIN codes : codes[i] # "OK"}
<1>1. CASE failed = {}
  BY <1>1 DEF FirstFailure
<1>2. CASE failed # {}
  <2>1. \E i \in failed : \A j \in failed : i <= j
    <3>1. failed \subseteq {1, 2, 3, 4, 5}
      OBVIOUS
    <3> HIDE DEF failed
    <3>2. CASE 1 \in failed
      BY <3>1, <3>2
    <3>3. CASE 1 \notin failed /\ 2 \in failed
      BY <3>1, <3>3
    <3>4. CASE failed \subseteq {3, 4, 5} /\ 3 \in failed
      BY <3>4
    <3>5. CASE failed \subseteq {4, 5} /\ 4 \in failed
      BY <3>5
    <3>6. CASE failed = {5}
      BY <3>6
    <3> QED
      BY <1>2, <3>1, <3>2, <3>3, <3>4, <3>5, <3>6
  <2>2. (CHOOSE k \in failed : \A j \in failed : k <= j) \in failed
    BY <2>1
  <2> QED
    BY <1>2, <2>2 DEF FirstFailure
<1> QED
  BY <1>1, <1>2

-----------------------------------------------------------------------------
(* What the decisions answer. *)

\* A signature is accepted if the token is signed with the verifier's secret,
\* or unsigned where the verifier has no secret or allows unsigned tokens
\* (verifyGatewayContext).
LEMMA SignatureOk ==
  ASSUME NEW signedBy, NEW t, VerifySignature(signedBy, t) = "OK"
  PROVE  \/ signedBy = NoSecret /\ (t.secret = NoSecret \/ t.allowUnsigned)
         \/ signedBy = t.secret
<1> DEFINE codes == <<
      Check(signedBy = NoSecret => t.secret = NoSecret \/ t.allowUnsigned,
            "UNSIGNED_GATEWAY_CONTEXT"),
      Check(signedBy # NoSecret => t.secret # NoSecret,
            "INVALID_GATEWAY_CONTEXT"),
      Check(signedBy \in {NoSecret, t.secret},
            "INVALID_GATEWAY_CONTEXT_SIGNATURE")>>
<1>1. \A i \in 1 .. 3 : codes[i] = "OK"
  BY FirstFailureCode, DOMAIN codes = 1 .. 3 DEF VerifySignature
<1> QED
  BY <1>1, codes[1] = "OK", codes[3] = "OK" DEF Check

\* The claims are accepted exactly for the audience and within the skewed
\* lifetime; only the lifetime check answers "EXPIRED_GATEWAY_CONTEXT"
\* (validateGatewayContextClaims).
LEMMA ClaimsCode ==
  ASSUME NEW ctx, NEW aud, NEW at
  PROVE  /\ ValidateClaims(ctx, aud, at) = "OK"
              => ctx.aud = aud /\ ctx.expiresAt >= at - Skew
         /\ ValidateClaims(ctx, aud, at) = "EXPIRED_GATEWAY_CONTEXT"
              => ~(ctx.expiresAt >= at - Skew)
         /\ ValidateClaims(ctx, aud, at) \in
              {"OK", "INVALID_GATEWAY_CONTEXT_AUDIENCE",
               "EXPIRED_GATEWAY_CONTEXT", "INVALID_GATEWAY_CONTEXT"}
<1> DEFINE codes == <<
      Check(ctx.aud = aud, "INVALID_GATEWAY_CONTEXT_AUDIENCE"),
      Check(ctx.expiresAt >= at - Skew, "EXPIRED_GATEWAY_CONTEXT"),
      Check(ctx.issuedAt <= at + Skew, "INVALID_GATEWAY_CONTEXT")>>
<1>1. ValidateClaims(ctx, aud, at) = FirstFailure(codes)
  BY DEF ValidateClaims
<1>2. DOMAIN codes = 1 .. 3
  OBVIOUS
<1>3. /\ codes[1] = Check(ctx.aud = aud, "INVALID_GATEWAY_CONTEXT_AUDIENCE")
      /\ codes[2] = Check(ctx.expiresAt >= at - Skew, "EXPIRED_GATEWAY_CONTEXT")
      /\ codes[3] = Check(ctx.issuedAt <= at + Skew, "INVALID_GATEWAY_CONTEXT")
  OBVIOUS
<1> HIDE DEF codes
<1>4. CASE FirstFailure(codes) = "OK" /\ \A i \in 1 .. 3 : codes[i] = "OK"
  BY <1>1, <1>3, <1>4 DEF Check
<1>5. CASE \E i \in 1 .. 3 : codes[i] # "OK" /\ FirstFailure(codes) = codes[i]
  BY <1>1, <1>3, <1>5 DEF Check
<1> QED
  BY <1>2, <1>4, <1>5, FirstFailureCode

\* The signature check alone answers with a code of its own.
LEMMA SignatureCode ==
  ASSUME NEW signedBy, NEW t
  PROVE  VerifySignature(signedBy, t) \in
           {"OK", "UNSIGNED_GATEWAY_CONTEXT", "INVALID_GATEWAY_CONTEXT",
            "INVALID_GATEWAY_CONTEXT_SIGNATURE"}
<1> DEFINE codes == <<
      Check(signedBy = NoSecret => t.secret = NoSecret \/ t.allowUnsigned,
            "UNSIGNED_GATEWAY_CONTEXT"),
      Check(signedBy # NoSecret => t.secret # NoSecret,
            "INVALID_GATEWAY_CONTEXT"),
      Check(signedBy \in {NoSecret, t.secret},
            "INVALID_GATEWAY_CONTEXT_SIGNATURE")>>
<1>1. VerifySignature(signedBy, t) = FirstFailure(codes)
  BY DEF VerifySignature
<1>2. /\ DOMAIN codes = 1 .. 3
      /\ codes[1] \in {"OK", "UNSIGNED_GATEWAY_CONTEXT"}
      /\ codes[2] \in {"OK", "INVALID_GATEWAY_CONTEXT"}
      /\ codes[3] \in {"OK", "INVALID_GATEWAY_CONTEXT_SIGNATURE"}
  BY DEF Check
<1> HIDE DEF codes
<1> QED
  BY <1>1, <1>2, FirstFailureCode

\* A token is accepted when its signature and its claims are
\* (verifyGatewayContext).
LEMMA VerifyCode ==
  ASSUME NEW token, NEW aud, NEW t, NEW at
  PROVE  LET code == VerifyGatewayContext(token, aud, t, at)
         IN  /\ code = "OK" => /\ VerifySignature(token.signedBy, t) = "OK"
                               /\ ValidateClaims(token.ctx, aud, at) = "OK"
             /\ code = "EXPIRED_GATEWAY_CONTEXT"
                  => ValidateClaims(token.ctx, aud, at) = "EXPIRED_GATEWAY_CONTEXT"
             /\ code \in Results \ PolicyRefusals
<1> DEFINE codes == <<VerifySignature(token.signedBy, t),
                      ValidateClaims(token.ctx, aud, at)>>
<1>1. VerifyGatewayContext(token, aud, t, at) = FirstFailure(codes)
  BY DEF VerifyGatewayContext
<1>2. /\ DOMAIN codes = 1 .. 2
      /\ codes[1] = VerifySignature(token.signedBy, t)
      /\ codes[2] = ValidateClaims(token.ctx, aud, at)
  OBVIOUS
<1> HIDE DEF codes
<1>3. CASE FirstFailure(codes) = "OK" /\ \A i \in 1 .. 2 : codes[i] = "OK"
  BY <1>1, <1>2, <1>3 DEF Results, PolicyRefusals
<1>4. CASE \E i \in 1 .. 2 : codes[i] # "OK" /\ FirstFailure(codes) = codes[i]
  BY <1>1, <1>2, <1>4, SignatureCode, ClaimsCode DEF Results, PolicyRefusals
<1> QED
  BY <1>2, <1>3, <1>4, FirstFailureCode

\* A worker's own authorization accepts only the holder of the operation's
\* scopes and permissions (authorizeForRoute, assertScopes).
LEMMA RouteCode ==
  ASSUME NEW auth, NEW operation
  PROVE  LET code == AuthorizeForRoute(auth, operation)
         IN  /\ code = "OK" =>
                  /\ MatchesAllScopes(operation.scopes, auth.scopes)
                  /\ MatchesAllScopes(operation.permissions, auth.permissions)
             /\ code \in {"OK", "INSUFFICIENT_SCOPE", "INSUFFICIENT_PERMISSION"}
<1> DEFINE codes == <<
      Check(MatchesAllScopes(operation.scopes, auth.scopes), "INSUFFICIENT_SCOPE"),
      Check(MatchesAllScopes(operation.permissions, auth.permissions),
            "INSUFFICIENT_PERMISSION")>>
<1>1. AuthorizeForRoute(auth, operation) = FirstFailure(codes)
  BY DEF AuthorizeForRoute
<1>2. /\ DOMAIN codes = 1 .. 2
      /\ codes[1] = Check(MatchesAllScopes(operation.scopes, auth.scopes),
                          "INSUFFICIENT_SCOPE")
      /\ codes[2] = Check(MatchesAllScopes(operation.permissions, auth.permissions),
                          "INSUFFICIENT_PERMISSION")
  OBVIOUS
<1> HIDE DEF codes
<1>3. CASE FirstFailure(codes) = "OK" /\ \A i \in 1 .. 2 : codes[i] = "OK"
  BY <1>1, <1>2, <1>3 DEF Check
<1>4. CASE \E i \in 1 .. 2 : codes[i] # "OK" /\ FirstFailure(codes) = codes[i]
  BY <1>1, <1>2, <1>4 DEF Check
<1> QED
  BY <1>2, <1>3, <1>4, FirstFailureCode

\* The gateway accepts an identity for a service only if it meets the demands
\* of the service and of the defaults (authorizeForService).
LEMMA ServiceCode ==
  ASSUME NEW auth, NEW service, NEW defaults
  PROVE  LET code == AuthorizeForService(auth, service, defaults)
         IN  /\ (code = "OK" /\ AuthRequired(service, defaults)) =>
                  /\ auth.authenticated
                  /\ MatchesAllScopes(defaults.scopes \union service.scopes,
                                      auth.scopes)
                  /\ MatchesAllScopes(defaults.permissions \union service.permissions,
                                      auth.permissions)
             /\ code \in PolicyRefusals \union {"OK"}
<1> DEFINE codes == <<
      Check(auth.authenticated, "UNAUTHORIZED"),
      Check(MatchesAllScopes(defaults.scopes \union service.scopes, auth.scopes),
            "INSUFFICIENT_SCOPE"),
      Check(MatchesAllScopes(defaults.permissions \union service.permissions,
                             auth.permissions),
            "INSUFFICIENT_PERMISSION")>>
<1>1. AuthorizeForService(auth, service, defaults) =
        IF ~AuthRequired(service, defaults) THEN "OK" ELSE FirstFailure(codes)
  BY DEF AuthorizeForService
<1>2. /\ DOMAIN codes = 1 .. 3
      /\ codes[1] = Check(auth.authenticated, "UNAUTHORIZED")
      /\ codes[2] = Check(MatchesAllScopes(defaults.scopes \union service.scopes,
                                           auth.scopes), "INSUFFICIENT_SCOPE")
      /\ codes[3] = Check(MatchesAllScopes(
                            defaults.permissions \union service.permissions,
                            auth.permissions), "INSUFFICIENT_PERMISSION")
  OBVIOUS
<1> HIDE DEF codes
<1>3. CASE FirstFailure(codes) = "OK" /\ \A i \in 1 .. 3 : codes[i] = "OK"
  BY <1>1, <1>2, <1>3 DEF Check, PolicyRefusals
<1>4. CASE \E i \in 1 .. 3 : codes[i] # "OK" /\ FirstFailure(codes) = codes[i]
  BY <1>1, <1>2, <1>4 DEF Check, PolicyRefusals
<1> QED
  BY <1>2, <1>3, <1>4, FirstFailureCode

\* invokeOperation() dispatches only for an identity that the mount accepts,
\* and through open gates.
LEMMA ToolCode ==
  ASSUME NEW auth
  PROVE  /\ ToolCallCode(auth) = "OK" =>
              /\ AuthorizeForService(auth, cfg.mount, cfg.defaults) = "OK"
              /\ cfg.operation.gated => cfg.flags = "bound" /\ flag.operation
              /\ ~MountGateClosed
         /\ ToolCallCode(auth) \in PolicyRefusals \union {"OK"}
<1> DEFINE Authorize(service) == AuthorizeForService(auth, service, cfg.defaults)
           codes == <<
             Authorize(cfg.mount),
             IF cfg.operation.scopes = {} THEN "OK"
             ELSE Authorize(OperationOnly(cfg.operation.scopes, {})),
             IF cfg.operation.permissions = {} THEN "OK"
             ELSE Authorize(OperationOnly({}, cfg.operation.permissions)),
             Check(cfg.operation.gated => cfg.flags = "bound" /\ flag.operation,
                   "FEATURE_NOT_AVAILABLE"),
             Check(~MountGateClosed, "NOT_FOUND")>>
           Codes == PolicyRefusals \union {"OK"}
<1>1. ToolCallCode(auth) = FirstFailure(codes)
  BY DEF ToolCallCode
<1>2. \A service : Authorize(service) \in Codes
  BY ServiceCode
<1>3. /\ DOMAIN codes = 1 .. 5 /\ codes[1] = Authorize(cfg.mount)
      /\ codes[4] = Check(cfg.operation.gated => cfg.flags = "bound" /\ flag.operation,
                          "FEATURE_NOT_AVAILABLE")
      /\ codes[5] = Check(~MountGateClosed, "NOT_FOUND")
  OBVIOUS
<1>4. codes[1] \in Codes /\ codes[2] \in Codes /\ codes[3] \in Codes
  BY <1>2 DEF PolicyRefusals
<1>5. codes[4] \in Codes /\ codes[5] \in Codes
  BY DEF Check, PolicyRefusals
<1> HIDE DEF codes
<1>6. CASE FirstFailure(codes) = "OK" /\ \A i \in 1 .. 5 : codes[i] = "OK"
  BY <1>1, <1>3, <1>6 DEF Check, PolicyRefusals
<1>7. CASE \E i \in 1 .. 5 : codes[i] # "OK" /\ FirstFailure(codes) = codes[i]
  BY <1>1, <1>4, <1>5, <1>7
<1> QED
  BY <1>3, <1>6, <1>7, FirstFailureCode

\* What a worker accepts: a verified token is signed as its deployment demands,
\* minted for its audience and within the skewed lifetime of its own clock, and
\* the identity it carries holds what the operation demands.
LEMMA AcceptedToken ==
  ASSUME NEW w \in Workers, NEW operation, NEW token,
         AcceptCode(w, operation, token) = "OK", Verifies(w, token)
  PROVE  /\ \/ token.signedBy = NoSecret
               /\ (trust[w].secret = NoSecret \/ trust[w].allowUnsigned)
            \/ token.signedBy = trust[w].secret
         /\ token.ctx.aud = cfg.audience[w]
         /\ token.ctx.expiresAt >= Clock(w) - Skew
         /\ MatchesAllScopes(operation.scopes, token.ctx.auth.scopes)
         /\ MatchesAllScopes(operation.permissions, token.ctx.auth.permissions)
<1> DEFINE codes == <<
      VerifyAt(w, token),
      AuthorizeForRoute(ContextAt(w, token).auth, operation),
      Check(operation.gated =>
              FeatureEnabled(operation, cfg.ownFlags[w], flag.operation,
                             ContextAt(w, token).flags),
            GateCode[w])>>
<1>1. FirstFailure(codes) = "OK"
  BY DEF AcceptCode
<1>2. DOMAIN codes = 1 .. 3
  OBVIOUS
<1>3. /\ codes[1] = VerifyAt(w, token)
      /\ codes[2] = AuthorizeForRoute(ContextAt(w, token).auth, operation)
  OBVIOUS
<1> HIDE DEF codes
<1>4. codes[1] = "OK" /\ codes[2] = "OK"
  BY <1>1, <1>2, FirstFailureCode
<1>5. VerifyGatewayContext(token, cfg.audience[w], trust[w], Clock(w)) = "OK"
  BY <1>3, <1>4 DEF VerifyAt
<1>6. AuthorizeForRoute(token.ctx.auth, operation) = "OK"
  BY <1>3, <1>4 DEF ContextAt
<1>7. /\ VerifySignature(token.signedBy, trust[w]) = "OK"
      /\ ValidateClaims(token.ctx, cfg.audience[w], Clock(w)) = "OK"
  BY <1>5, VerifyCode
<1> QED
  BY <1>6, <1>7, SignatureOk, ClaimsCode, RouteCode

\* A worker answers a request with one of the known codes, and with
\* "EXPIRED_GATEWAY_CONTEXT" only when the token's lifetime, skewed in the
\* caller's favour, has ended on the worker's clock.
LEMMA AcceptCodes ==
  ASSUME NEW w \in Workers, NEW operation, NEW token
  PROVE  /\ AcceptCode(w, operation, token) \in Results
         /\ AcceptCode(w, operation, token) = "EXPIRED_GATEWAY_CONTEXT"
              => token # NoToken /\ ~(token.ctx.expiresAt >= Clock(w) - Skew)
<1> DEFINE codes == <<
      VerifyAt(w, token),
      AuthorizeForRoute(ContextAt(w, token).auth, operation),
      Check(operation.gated =>
              FeatureEnabled(operation, cfg.ownFlags[w], flag.operation,
                             ContextAt(w, token).flags),
            GateCode[w])>>
<1>1. AcceptCode(w, operation, token) = FirstFailure(codes)
  BY DEF AcceptCode
<1>2. DOMAIN codes = 1 .. 3 /\ codes[1] = VerifyAt(w, token)
  OBVIOUS
<1>3. codes[1] \in Results
  BY VerifyCode DEF VerifyAt, Check, Results
<1>4. codes[2] \in Results /\ codes[2] # "EXPIRED_GATEWAY_CONTEXT"
  BY RouteCode DEF Results
<1>5. codes[3] \in Results /\ codes[3] # "EXPIRED_GATEWAY_CONTEXT"
  BY DEF Check, GateCode, Results, Workers
<1>6. codes[1] = "EXPIRED_GATEWAY_CONTEXT"
        => token # NoToken /\ ~(token.ctx.expiresAt >= Clock(w) - Skew)
  BY <1>2, VerifyCode, ClaimsCode DEF VerifyAt, Verifies, Check
<1> HIDE DEF codes
<1>7. CASE FirstFailure(codes) = "OK" /\ \A i \in 1 .. 3 : codes[i] = "OK"
  BY <1>1, <1>7 DEF Results
<1>8. CASE \E i \in 1 .. 3 : codes[i] # "OK" /\ FirstFailure(codes) = codes[i]
  BY <1>1, <1>3, <1>4, <1>5, <1>6, <1>8
<1> QED
  BY <1>2, <1>7, <1>8, FirstFailureCode

-----------------------------------------------------------------------------
(* Types. *)

\* The absent token has the type of a token.
LEMMA NoTokenType == NoToken \in Tokens
  BY DEF NoToken, Tokens, Contexts, AnonymousGatewayContext, AuthContexts,
         Audiences, FlagValues, MaybeSecret

\* What forwardToService() sends is a token of the mount's audience.
LEMMA MintedType ==
  ASSUME TypeOK, NEW auth \in AuthContexts, NEW flags \in FlagValues,
         NEW secret \in MaybeSecret
  PROVE  EncodeContext(BuildGatewayContext(auth, cfg.audience["service"], now, flags),
                       secret) \in Tokens
<1>1. cfg.audience["service"] \in Audiences
  BY DEF TypeOK, Audiences, Workers
<1>2. now \in Nat /\ now + Ttl \in Nat
  BY TtlAssumption DEF TypeOK
<1> QED
  BY <1>1, <1>2 DEF EncodeContext, BuildGatewayContext, Tokens, Contexts

\* What a worker records of an execution (the context of ServeHttp and
\* InvokeRpc) has the type of one.
LEMMA ExecutionType ==
  ASSUME TypeOK, NEW r \in Requests, NEW w \in Workers, NEW token \in Tokens
  PROVE  Execution(r, w, token) \in Executions
<1>1. cfg.audience[w] \in Audiences
  BY DEF TypeOK, Audiences
<1>2. ContextAt(w, token) \in Contexts
  BY <1>1 DEF ContextAt, AnonymousGatewayContext, Contexts, Tokens, AuthContexts,
              FlagValues
<1>3. Verifies(w, token) \in BOOLEAN
  BY ConfigsAssumption DEF TypeOK, Verifies
<1> QED
  BY <1>2, <1>3 DEF Execution, Executions, TypeOK, Tokens

\* The initial state has the types of TypeOK.
LEMMA TypeInit == Init => TypeOK
<1> SUFFICES ASSUME Init PROVE TypeOK
  OBVIOUS
<1>1. NewRequest \in RequestStates
  BY NoTokenType DEF NewRequest, RequestStates, AuthContexts, FlagValues,
                     MaybeSecret, Results
<1> QED
  BY <1>1 DEF Init, TypeOK

\* Every step of a request, a clock, a deployment or a flag keeps the types.
LEMMA TypeStep == TypeOK /\ [Next]_vars => TypeOK'
<1> SUFFICES ASSUME TypeOK, [Next]_vars PROVE TypeOK'
  OBVIOUS
<1> USE DEF TypeOK, config
<1>1. ASSUME NEW r \in Requests, NEW via \in {"http", "mcp"},
             NEW auth \in Identities, Arrive(r, via, auth)
      PROVE  TypeOK'
  <2>1. gwSecret \in MaybeSecret
    BY SecretsAssumption
  <2>2. [req[r] EXCEPT !.pc = "arrived", !.via = via, !.auth = auth,
                       !.env = gwSecret] \in RequestStates
    BY <2>1 DEF RequestStates, AuthContexts
  <2> QED
    BY <1>1, <2>2 DEF Arrive
<1>2. ASSUME NEW r \in Requests, FlagsMiddleware(r) PROVE TypeOK'
  BY <1>2 DEF FlagsMiddleware, Answer, RequestStates, FlagValues, Results
<1>3. ASSUME NEW r \in Requests, Route(r) PROVE TypeOK'
  <2>1. ResolveContextSecret(req[r].env) \in MaybeSecret
    <3>1. cfg.signing \in {"off", "env", "custom"} /\ cfg.customSecret \in MaybeSecret
      BY ConfigsAssumption
    <3>2. req[r].env \in MaybeSecret
      BY DEF RequestStates
    <3> QED
      BY <3>1, <3>2 DEF ResolveContextSecret, MaybeSecret
  <2>2. CASE AuthorizeForService(req[r].auth, cfg.mount, cfg.defaults) = "OK"
    <3>1. req'[r].token \in Tokens
      BY <1>3, <2>1, <2>2, MintedType DEF Route, Forward, RequestStates
    <3> QED
      BY <1>3, <2>2, <3>1 DEF Route, Forward, RequestStates
  <2>3. CASE AuthorizeForService(req[r].auth, cfg.mount, cfg.defaults) # "OK"
    BY <1>3, <2>3, ServiceCode DEF Route, Answer, RequestStates, PolicyRefusals, Results
  <2> QED
    BY <2>2, <2>3
<1>4. ASSUME NEW r \in Requests, InvokeOperation(r) PROVE TypeOK'
  <2>1. CASE ToolCallCode(req[r].auth) = "OK"
    <3>1. req'[r].token \in Tokens
      BY <1>4, <2>1, MintedType DEF InvokeOperation, Forward, RequestStates, FlagValues
    <3> QED
      BY <1>4, <2>1, <3>1 DEF InvokeOperation, Forward, RequestStates
  <2>2. CASE ToolCallCode(req[r].auth) # "OK"
    BY <1>4, <2>2, ToolCode DEF InvokeOperation, Answer, RequestStates, PolicyRefusals, Results
  <2> QED
    BY <2>1, <2>2
<1>5. ASSUME NEW r \in Requests, ServeHttp(r) PROVE TypeOK'
  <2> DEFINE token == req[r].token
             code  == AcceptCode("service", cfg.operation, token)
  <2>1. code \in Results
    BY AcceptCodes DEF Workers
  <2>2. Execution(r, "service", token) \in Executions
    BY ExecutionType DEF RequestStates, Workers
  <2>3. runs' \subseteq Executions
    BY <1>5, <2>2 DEF ServeHttp
  <2>4. req' \in [Requests -> RequestStates]
    BY <1>5, <2>1 DEF ServeHttp, Answer, RequestStates, Results
  <2> QED
    BY <1>5, <2>3, <2>4 DEF ServeHttp
<1>6. ASSUME NEW r \in Requests, HandlerReturns(r) PROVE TypeOK'
  BY <1>6 DEF HandlerReturns, RequestStates
<1>7. ASSUME NEW r \in Requests, CallPeer(r) PROVE TypeOK'
  BY <1>7 DEF CallPeer, RequestStates
<1>8. ASSUME NEW r \in Requests, InvokeRpc(r) PROVE TypeOK'
  <2> DEFINE token == EnvelopeContext(r)
             code  == AcceptCode("peer", cfg.rpcMethod, token)
  <2>1. token \in Tokens
    BY NoTokenType DEF EnvelopeContext, RequestStates
  <2>2. code \in Results
    BY AcceptCodes DEF Workers
  <2>3. Execution(r, "peer", token) \in Executions
    BY <2>1, ExecutionType DEF Workers
  <2>4. runs' \subseteq Executions
    BY <1>8, <2>3 DEF InvokeRpc
  <2>5. req' \in [Requests -> RequestStates]
    <3>1. req' = [req EXCEPT ![r] = [@ EXCEPT !.pc = "done", !.rpcResult = code]]
      BY <1>8 DEF InvokeRpc
    <3> HIDE DEF code
    <3>2. [req[r] EXCEPT !.pc = "done", !.rpcResult = code] \in RequestStates
      BY <2>2 DEF RequestStates
    <3> QED
      BY <3>1, <3>2
  <2> QED
    BY <1>8, <2>4, <2>5 DEF InvokeRpc
<1>9. CASE Tick
  BY <1>9 DEF Tick
<1>10. CASE DeployGateway
  BY <1>10 DEF DeployGateway
<1>11. ASSUME NEW w \in Workers, DeployWorker(w) PROVE TypeOK'
  BY <1>11 DEF DeployWorker
<1>12. CASE ChangeFlags
  BY <1>12 DEF ChangeFlags
<1>13. CASE UNCHANGED vars
  BY <1>13 DEF vars
<1> QED
  BY <1>1, <1>2, <1>3, <1>4, <1>5, <1>6, <1>7, <1>8, <1>9, <1>10, <1>11,
     <1>12, <1>13 DEF Next, Process

\* The variables of a gateway, its services and their requests keep their
\* types, whatever is deployed and however requests interleave.
THEOREM TypeCorrect == Spec => []TypeOK
<1> QED
  BY TypeInit, TypeStep, PTL DEF Spec

-----------------------------------------------------------------------------
(* Safety of handler executions. *)

Started == {"handling", "calling", "done"}

\* A token is minted only when its request is dispatched, for the request's own
\* identity and with the full lifetime.
TokensMinted ==
  \A r \in Requests :
    /\ req[r].pc \in {"idle", "arrived", "dispatching"} => req[r].token = NoToken
    /\ req[r].token # NoToken =>
         /\ req[r].token.ctx.auth = req[r].auth
         /\ req[r].token.ctx.expiresAt = req[r].token.ctx.issuedAt + Ttl

\* A request reaches the service only if the mount accepts its identity.
DispatchAuthorized ==
  \A r \in Requests :
    req[r].pc \in {"sent", "handling", "calling"} => SatisfiesMount(req[r].auth)

\* The identity of a request whose handler ran is settled.
RunsStarted == \A e \in runs : req[e.request].pc \in Started

SafeRun(e) ==
  /\ SatisfiesMount(req[e.request].auth)
  /\ e.verified =>
       /\ e.ctx.auth = req[e.request].auth
       /\ e.ctx.aud = cfg.audience[e.worker]
       /\ MatchesAllScopes(OperationOf(e.worker).scopes, req[e.request].auth.scopes)
       /\ MatchesAllScopes(OperationOf(e.worker).permissions,
                           req[e.request].auth.permissions)
       /\ e.at - e.ctx.issuedAt <= Ttl + Skew + MaxDrift
       /\ (e.trust.secret # NoSecret /\ ~e.trust.allowUnsigned)
            => e.signedBy = e.trust.secret

\* The inductive invariant.  The properties of the executions alone are not
\* inductive: a new execution is safe because of what was decided and minted
\* for its request several steps earlier.
FlowInv ==
  /\ TypeOK
  /\ TokensMinted
  /\ DispatchAuthorized
  /\ RunsStarted
  /\ \A e \in runs : SafeRun(e)

\* Before any request there is no token, no dispatch and no execution.
LEMMA FlowInit == Init => FlowInv
  BY TypeInit DEF Init, FlowInv, TokensMinted, DispatchAuthorized, RunsStarted,
                  NewRequest

\* A request that passes authorizeForService() satisfies the mount.
LEMMA MountSatisfied ==
  ASSUME NEW auth, AuthorizeForService(auth, cfg.mount, cfg.defaults) = "OK"
  PROVE  SatisfiesMount(auth)
  BY ServiceCode DEF SatisfiesMount

\* What a worker accepts of a dispatched request is a safe execution.
LEMMA AcceptedRunSafe ==
  ASSUME FlowInv, NEW r \in Requests, NEW w \in Workers,
         req[r].pc \in {"sent", "calling"},
         NEW token \in {req[r].token, NoToken},
         AcceptCode(w, OperationOf(w), token) = "OK"
  PROVE  SafeRun(Execution(r, w, token))
<1> DEFINE e == Execution(r, w, token)
<1>1. /\ e.request = r /\ e.worker = w /\ e.at = now /\ e.trust = trust[w]
      /\ e.signedBy = token.signedBy
      /\ e.verified = Verifies(w, token) /\ e.ctx = ContextAt(w, token)
  BY DEF Execution
<1>2. SatisfiesMount(req[r].auth)
  BY DEF FlowInv, DispatchAuthorized
<1>3. CASE ~Verifies(w, token)
  BY <1>1, <1>2, <1>3 DEF SafeRun
<1>4. CASE Verifies(w, token)
  <2>1. token = req[r].token /\ e.ctx = token.ctx
    BY <1>1, <1>4 DEF Verifies, ContextAt
  <2>2. /\ token.ctx.auth = req[r].auth
        /\ token.ctx.expiresAt = token.ctx.issuedAt + Ttl
    BY <1>4, <2>1 DEF FlowInv, TokensMinted, Verifies
  <2>3. /\ \/ token.signedBy = NoSecret
              /\ (trust[w].secret = NoSecret \/ trust[w].allowUnsigned)
           \/ token.signedBy = trust[w].secret
        /\ token.ctx.aud = cfg.audience[w]
        /\ token.ctx.expiresAt >= Clock(w) - Skew
        /\ MatchesAllScopes(OperationOf(w).scopes, token.ctx.auth.scopes)
        /\ MatchesAllScopes(OperationOf(w).permissions, token.ctx.auth.permissions)
    BY <1>4, AcceptedToken
  <2>4. now - token.ctx.issuedAt <= Ttl + Skew + MaxDrift
    <3>1. token.ctx.issuedAt \in Nat
      BY <2>1 DEF FlowInv, TypeOK, RequestStates, Tokens, Contexts
    <3>2. drift[w] \in -MaxDrift .. MaxDrift /\ now \in Nat
      BY DEF FlowInv, TypeOK
    <3> QED
      BY <2>2, <2>3, <3>1, <3>2, TtlAssumption, SkewAssumption,
         MaxDriftAssumption DEF Clock
  <2>5. MatchesAllScopes(OperationOf(w).scopes, req[r].auth.scopes)
        /\ MatchesAllScopes(OperationOf(w).permissions, req[r].auth.permissions)
    BY <2>2, <2>3
  <2>6. (trust[w].secret # NoSecret /\ ~trust[w].allowUnsigned)
          => token.signedBy = trust[w].secret
    BY <2>3
  <2> HIDE DEF e
  <2>7. SafeRun(e)
    BY <1>1, <1>2, <2>1, <2>2, <2>3, <2>4, <2>5, <2>6 DEF SafeRun
  <2> QED
    BY <2>7 DEF e
<1> QED
  BY <1>3, <1>4

\* Steps that start no handler and leave started requests their identity keep
\* past executions safe.
LEMMA QuietStep ==
  ASSUME FlowInv, TypeOK', cfg' = cfg, runs' = runs,
         \A r \in Requests : req[r].pc \in Started =>
           req'[r].auth = req[r].auth /\ req'[r].pc \in Started
  PROVE  RunsStarted' /\ \A e \in runs' : SafeRun(e)'
<1>1. ASSUME NEW e \in runs PROVE req'[e.request].pc \in Started /\ SafeRun(e)'
  <2>1. e.request \in Requests /\ req[e.request].pc \in Started /\ SafeRun(e)
    BY DEF FlowInv, TypeOK, Executions, RunsStarted
  <2>2. req'[e.request].auth = req[e.request].auth
    BY <2>1
  <2> QED
    BY <2>1, <2>2 DEF SafeRun, SatisfiesMount, OperationOf
<1> QED
  BY <1>1 DEF RunsStarted

\* Steps that start a handler keep every execution safe if the new one is, for
\* they change no request's identity.
LEMMA StartingStep ==
  ASSUME FlowInv, cfg' = cfg, NEW r \in Requests, NEW w \in Workers,
         req[r].pc \in {"sent", "calling"},
         req'[r].pc \in Started, req'[r].auth = req[r].auth,
         \A s \in Requests \ {r} : req'[s] = req[s],
         NEW token \in {req[r].token, NoToken},
         AcceptCode(w, OperationOf(w), token) = "OK",
         runs' = runs \union {Execution(r, w, token)}
  PROVE  RunsStarted' /\ \A e \in runs' : SafeRun(e)'
<1>1. ASSUME NEW e \in runs' PROVE req'[e.request].pc \in Started /\ SafeRun(e)'
  <2>1. SafeRun(e) /\ e.request \in Requests
    <3>1. CASE e \in runs
      BY <3>1 DEF FlowInv, TypeOK, Executions
    <3>2. CASE e = Execution(r, w, token)
      BY <3>2, AcceptedRunSafe DEF Execution
    <3> QED
      BY <3>1, <3>2
  <2>2. req'[e.request].auth = req[e.request].auth
    BY <2>1
  <2>3. req'[e.request].pc \in Started
    <3>1. CASE e \in runs
      BY <2>1, <3>1 DEF FlowInv, RunsStarted
    <3>2. CASE e = Execution(r, w, token)
      BY <3>2 DEF Execution
    <3> QED
      BY <3>1, <3>2
  <2> QED
    BY <2>1, <2>2, <2>3 DEF SafeRun, SatisfiesMount, OperationOf
<1> QED
  BY <1>1 DEF RunsStarted

\* Every action of RequestFlow keeps the inductive invariant: tokens stay those
\* that were minted for their request, and executions stay safe.
LEMMA FlowStep == FlowInv /\ [Next]_vars => FlowInv'
<1> SUFFICES ASSUME FlowInv, [Next]_vars PROVE FlowInv'
  OBVIOUS
<1>0. TypeOK /\ TypeOK'
  BY TypeStep DEF FlowInv
<1>q. \A r \in Requests : req[r] \in RequestStates
  BY <1>0 DEF TypeOK
<1>1. ASSUME NEW r \in Requests, NEW via \in {"http", "mcp"},
             NEW auth \in Identities, Arrive(r, via, auth)
      PROVE  FlowInv'
  <2>1. req[r].pc = "idle" /\ cfg' = cfg /\ runs' = runs
    BY <1>1 DEF Arrive, config
  <2>2. req' = [req EXCEPT ![r] = [@ EXCEPT !.pc = "arrived", !.via = via,
                                            !.auth = auth, !.env = gwSecret]]
    BY <1>1 DEF Arrive
  <2>3. /\ req'[r].pc = "arrived" /\ req'[r].token = req[r].token
        /\ \A s \in Requests \ {r} : req'[s] = req[s]
    BY <1>0, <1>q, <2>2 DEF TypeOK, RequestStates
  <2>4. RunsStarted' /\ \A e \in runs' : SafeRun(e)'
    BY <1>0, <2>1, <2>3, QuietStep DEF Started
  <2>5. TokensMinted'
    BY <2>1, <2>3 DEF FlowInv, TokensMinted
  <2>6. DispatchAuthorized'
    BY <2>1, <2>3 DEF FlowInv, DispatchAuthorized, SatisfiesMount
  <2> QED
    BY <1>0, <2>4, <2>5, <2>6 DEF FlowInv
<1>2. ASSUME NEW r \in Requests, FlagsMiddleware(r) PROVE FlowInv'
  <2>1. req[r].pc = "arrived" /\ cfg' = cfg /\ runs' = runs
    BY <1>2 DEF FlagsMiddleware, config
  <2>2. /\ req'[r].pc \in {"dispatching", "done"} /\ req'[r].token = NoToken
        /\ \A s \in Requests \ {r} : req'[s] = req[s]
    BY <1>0, <1>q, <1>2, <2>1 DEF FlagsMiddleware, Answer, TypeOK, RequestStates,
       FlowInv, TokensMinted
  <2>3. RunsStarted' /\ \A e \in runs' : SafeRun(e)'
    BY <1>0, <2>1, <2>2, QuietStep DEF Started
  <2>4. TokensMinted'
    BY <2>2 DEF FlowInv, TokensMinted
  <2>5. DispatchAuthorized'
    BY <2>1, <2>2 DEF FlowInv, DispatchAuthorized, SatisfiesMount
  <2> QED
    BY <1>0, <2>3, <2>4, <2>5 DEF FlowInv
<1>3. ASSUME NEW r \in Requests, NEW flags, NEW secret, NEW code,
             req[r].pc = "dispatching", cfg' = cfg, runs' = runs,
             \/ SatisfiesMount(req[r].auth) /\ Forward(r, flags, secret)
             \/ Answer(r, code)
      PROVE  FlowInv'
  <2>1. CASE SatisfiesMount(req[r].auth) /\ Forward(r, flags, secret)
    <3>1. /\ req'[r].pc = "sent" /\ req'[r].auth = req[r].auth
          /\ req'[r].token = EncodeContext(
               BuildGatewayContext(req[r].auth, cfg.audience["service"], now, flags),
               secret)
          /\ \A s \in Requests \ {r} : req'[s] = req[s]
      BY <1>0, <1>q, <2>1 DEF Forward, TypeOK, RequestStates
    <3>2. RunsStarted' /\ \A e \in runs' : SafeRun(e)'
      BY <1>0, <1>3, <3>1, QuietStep DEF Started
    <3>3. TokensMinted'
      BY <3>1 DEF FlowInv, TokensMinted, EncodeContext, BuildGatewayContext
    <3>4. DispatchAuthorized'
      BY <1>3, <2>1, <3>1 DEF FlowInv, DispatchAuthorized, SatisfiesMount
    <3> QED
      BY <1>0, <3>2, <3>3, <3>4 DEF FlowInv
  <2>2. CASE Answer(r, code)
    <3>1. /\ req'[r].pc = "done" /\ req'[r].token = NoToken
          /\ \A s \in Requests \ {r} : req'[s] = req[s]
      BY <1>0, <1>q, <1>3, <2>2 DEF Answer, TypeOK, RequestStates, FlowInv, TokensMinted
    <3>2. RunsStarted' /\ \A e \in runs' : SafeRun(e)'
      BY <1>0, <1>3, <3>1, QuietStep DEF Started
    <3>3. TokensMinted'
      BY <3>1 DEF FlowInv, TokensMinted
    <3>4. DispatchAuthorized'
      BY <1>3, <3>1 DEF FlowInv, DispatchAuthorized, SatisfiesMount
    <3> QED
      BY <1>0, <3>2, <3>3, <3>4 DEF FlowInv
  <2> QED
    BY <1>3, <2>1, <2>2
<1>4. ASSUME NEW r \in Requests, Route(r) PROVE FlowInv'
  BY <1>3, <1>4, MountSatisfied DEF Route, config
<1>5. ASSUME NEW r \in Requests, InvokeOperation(r) PROVE FlowInv'
  BY <1>3, <1>5, ToolCode, MountSatisfied DEF InvokeOperation, config

<1>6. ASSUME NEW r \in Requests, ServeHttp(r) PROVE FlowInv'
  <2> DEFINE token == req[r].token
             code  == AcceptCode("service", cfg.operation, token)
  <2>1. req[r].pc = "sent" /\ cfg' = cfg
    BY <1>6 DEF ServeHttp, config
  <2>2. /\ req'[r].pc \in {"handling", "done"} /\ req'[r].token = token
        /\ req'[r].auth = req[r].auth
        /\ \A s \in Requests \ {r} : req'[s] = req[s]
    BY <1>0, <1>q, <1>6 DEF ServeHttp, Answer, TypeOK, RequestStates
  <2>3. RunsStarted' /\ \A e \in runs' : SafeRun(e)'
    <3>1. CASE code = "OK"
      <4>1. runs' = runs \union {Execution(r, "service", token)}
        BY <1>6, <3>1 DEF ServeHttp
      <4>2. AcceptCode("service", OperationOf("service"), token) = "OK"
        BY <3>1 DEF OperationOf
      <4> QED
        BY <2>1, <2>2, <4>1, <4>2, StartingStep DEF Started, Workers
    <3>2. CASE code # "OK"
      <4>1. runs' = runs
        BY <1>6, <3>2 DEF ServeHttp
      <4> QED
        BY <1>0, <2>1, <2>2, <4>1, QuietStep DEF Started
    <3> QED
      BY <3>1, <3>2
  <2>4. TokensMinted'
    BY <2>1, <2>2 DEF FlowInv, TokensMinted
  <2>5. DispatchAuthorized'
    BY <2>1, <2>2 DEF FlowInv, DispatchAuthorized, SatisfiesMount
  <2> QED
    BY <1>0, <2>3, <2>4, <2>5 DEF FlowInv
<1>7. ASSUME NEW r \in Requests, HandlerReturns(r) \/ CallPeer(r) PROVE FlowInv'
  <2>1. /\ req[r].pc = "handling" /\ cfg' = cfg /\ runs' = runs
        /\ req'[r].pc \in {"calling", "done"} /\ req'[r].token = req[r].token
        /\ req'[r].auth = req[r].auth
        /\ \A s \in Requests \ {r} : req'[s] = req[s]
    BY <1>0, <1>q, <1>7 DEF HandlerReturns, CallPeer, TypeOK, RequestStates, config
  <2>2. RunsStarted' /\ \A e \in runs' : SafeRun(e)'
    BY <1>0, <2>1, QuietStep DEF Started
  <2>3. TokensMinted'
    BY <2>1 DEF FlowInv, TokensMinted
  <2>4. DispatchAuthorized'
    BY <2>1 DEF FlowInv, DispatchAuthorized, SatisfiesMount
  <2> QED
    BY <1>0, <2>2, <2>3, <2>4 DEF FlowInv
<1>8. ASSUME NEW r \in Requests, InvokeRpc(r) PROVE FlowInv'
  <2> DEFINE token == EnvelopeContext(r)
             code  == AcceptCode("peer", cfg.rpcMethod, token)
  <2>1. req[r].pc = "calling" /\ cfg' = cfg
    BY <1>8 DEF InvokeRpc, config
  <2>2. /\ req'[r].pc = "done" /\ req'[r].token = req[r].token
        /\ req'[r].auth = req[r].auth
        /\ \A s \in Requests \ {r} : req'[s] = req[s]
    BY <1>0, <1>q, <1>8 DEF InvokeRpc, TypeOK, RequestStates
  <2>3. RunsStarted' /\ \A e \in runs' : SafeRun(e)'
    <3>1. CASE code = "OK"
      <4>1. runs' = runs \union {Execution(r, "peer", token)}
        BY <1>8, <3>1 DEF InvokeRpc
      <4>2. AcceptCode("peer", OperationOf("peer"), token) = "OK"
        BY <3>1 DEF OperationOf
      <4>3. token \in {req[r].token, NoToken}
        BY DEF EnvelopeContext
      <4> HIDE DEF token
      <4> QED
        BY <2>1, <2>2, <4>1, <4>2, <4>3, StartingStep DEF Started, Workers
    <3>2. CASE code # "OK"
      <4>1. runs' = runs
        BY <1>8, <3>2 DEF InvokeRpc
      <4> QED
        BY <1>0, <2>1, <2>2, <4>1, QuietStep DEF Started
    <3> QED
      BY <3>1, <3>2
  <2>4. TokensMinted'
    BY <2>1, <2>2 DEF FlowInv, TokensMinted
  <2>5. DispatchAuthorized'
    BY <2>1, <2>2 DEF FlowInv, DispatchAuthorized, SatisfiesMount
  <2> QED
    BY <1>0, <2>3, <2>4, <2>5 DEF FlowInv
<1>9. CASE UNCHANGED <<cfg, req, runs>>
  <2>1. RunsStarted' /\ \A e \in runs' : SafeRun(e)'
    BY <1>0, <1>9, QuietStep
  <2> QED
    BY <1>0, <1>9, <2>1 DEF FlowInv, TokensMinted, DispatchAuthorized, SatisfiesMount
<1>10. CASE Tick \/ DeployGateway \/ ChangeFlags \/ UNCHANGED vars
  BY <1>9, <1>10 DEF Tick, DeployGateway, ChangeFlags, vars, config
<1>11. ASSUME NEW w \in Workers, DeployWorker(w) PROVE FlowInv'
  BY <1>9, <1>11 DEF DeployWorker, config
<1> QED
  BY <1>1, <1>2, <1>4, <1>5, <1>6, <1>7, <1>8, <1>10, <1>11 DEF Next, Process

\* The invariant from which the properties of executions follow: each holds only
\* because of what was true of the token when the gateway minted it.
THEOREM FlowInvariant == Spec => []FlowInv
<1> QED
  BY FlowInit, FlowStep, PTL DEF Spec

\* A handler behind trustGateway runs as the identity of its own request.
THEOREM IdentityPreservation == Spec => []IdentityPreserved
<1>1. FlowInv => IdentityPreserved
  BY DEF FlowInv, SafeRun, IdentityPreserved
<1> QED
  BY <1>1, FlowInvariant, PTL

\* No handler runs for an identity that the mount or its operation refuses.
THEOREM AuthorizationOfExecutions == Spec => []AuthorizedExecution
<1>1. FlowInv => AuthorizedExecution
  BY DEF FlowInv, SafeRun, AuthorizedExecution
<1> QED
  BY <1>1, FlowInvariant, PTL

\* The identity a handler acts on has a bounded age, for every clock error up
\* to MaxDrift.
THEOREM ContextFreshness == Spec => []FreshContext
<1>1. FlowInv => FreshContext
  BY DEF FlowInv, SafeRun, FreshContext
<1> QED
  BY <1>1, FlowInvariant, PTL

\* A strict worker acts only on contexts signed with its own secret.
THEOREM SignatureEnforcement == Spec => []SignatureEnforced
<1>1. FlowInv => SignatureEnforced
  BY DEF FlowInv, SafeRun, SignatureEnforced
<1> QED
  BY <1>1, FlowInvariant, PTL

-----------------------------------------------------------------------------
(* Expiry. *)

\* An expired answer is given only by a worker that verifies a token, on a
\* clock that is at most MaxDrift ahead of the gateway's.
LEMMA ExpiredToken ==
  ASSUME FlowInv, NEW r \in Requests, NEW w \in Workers, NEW operation,
         NEW token \in {req[r].token, NoToken},
         AcceptCode(w, operation, token) = "EXPIRED_GATEWAY_CONTEXT"
  PROVE  ReallyExpired(r)
<1>1. token = req[r].token /\ ~(token.ctx.expiresAt >= Clock(w) - Skew)
  BY AcceptCodes
<1>2. token.ctx.expiresAt = token.ctx.issuedAt + Ttl
  BY <1>1, AcceptCodes DEF FlowInv, TokensMinted
<1>3. token.ctx.issuedAt \in Nat
  BY <1>1 DEF FlowInv, TypeOK, RequestStates, Tokens, Contexts
<1>4. drift[w] \in -MaxDrift .. MaxDrift /\ now \in Nat
  BY DEF FlowInv, TypeOK
<1> QED
  BY <1>1, <1>2, <1>3, <1>4, TtlAssumption, SkewAssumption, MaxDriftAssumption
  DEF Clock, ReallyExpired

\* A step that answers "EXPIRED_GATEWAY_CONTEXT" (ServeHttp or InvokeRpc) answers
\* it for a token that is older than its lifetime.
LEMMA ExpiryStep ==
  ASSUME FlowInv, [Next]_vars, NEW r \in Requests, AnsweredAsExpired(r)
  PROVE  ReallyExpired(r)
<1>0. req \in [Requests -> RequestStates]
  BY DEF FlowInv, TypeOK
<1>1. ASSUME NEW s \in Requests, NEW code, Answer(s, code),
             code # "EXPIRED_GATEWAY_CONTEXT"
      PROVE  FALSE
  BY <1>0, <1>1 DEF Answer, AnsweredAsExpired, RequestStates
<1>2. ASSUME NEW s \in Requests, NEW via, NEW auth, Arrive(s, via, auth)
      PROVE  FALSE
  <2>1. req' = [req EXCEPT ![s] = [@ EXCEPT !.pc = "arrived", !.via = via,
                                            !.auth = auth, !.env = gwSecret]]
    BY <1>2 DEF Arrive
  <2>2. req'[r].result = req[r].result /\ req'[r].rpcResult = req[r].rpcResult
    BY <1>0, <2>1 DEF RequestStates
  <2> QED
    BY <2>2 DEF AnsweredAsExpired
<1>2a. ASSUME NEW s \in Requests, HandlerReturns(s) \/ CallPeer(s)
       PROVE  FALSE
  BY <1>0, <1>2a DEF HandlerReturns, CallPeer, AnsweredAsExpired, RequestStates
<1>3. ASSUME NEW s \in Requests, NEW flags, NEW secret, Forward(s, flags, secret)
      PROVE  FALSE
  BY <1>0, <1>3 DEF Forward, AnsweredAsExpired, RequestStates
<1>4. ASSUME NEW s \in Requests, FlagsMiddleware(s) PROVE FALSE
  <2>1. CASE Answer(s, "NOT_FOUND")
    BY <1>1, <2>1
  <2>2. CASE ~Answer(s, "NOT_FOUND")
    BY <1>0, <1>4, <2>2 DEF FlagsMiddleware, AnsweredAsExpired, RequestStates
  <2> QED
    BY <2>1, <2>2
<1>5. ASSUME NEW s \in Requests, Route(s) PROVE FALSE
  BY <1>1, <1>3, <1>5, ServiceCode DEF Route, PolicyRefusals
<1>6. ASSUME NEW s \in Requests, InvokeOperation(s) PROVE FALSE
  BY <1>1, <1>3, <1>6, ToolCode DEF InvokeOperation, PolicyRefusals
<1>7. ASSUME NEW s \in Requests, ServeHttp(s) PROVE ReallyExpired(r)
  <2> DEFINE code == AcceptCode("service", cfg.operation, req[s].token)
  <2>1. CASE code = "EXPIRED_GATEWAY_CONTEXT"
    <3>1. s = r
      BY <1>0, <1>7, <2>1 DEF ServeHttp, Answer, AnsweredAsExpired, RequestStates
    <3> QED
      BY <2>1, <3>1, ExpiredToken DEF Workers
  <2>2. CASE code # "EXPIRED_GATEWAY_CONTEXT"
    BY <1>0, <1>7, <2>2 DEF ServeHttp, Answer, AnsweredAsExpired, RequestStates
  <2> QED
    BY <2>1, <2>2
<1>8. ASSUME NEW s \in Requests, InvokeRpc(s) PROVE ReallyExpired(r)
  <2> DEFINE token == EnvelopeContext(s)
             code  == AcceptCode("peer", cfg.rpcMethod, token)
  <2>1. req' = [req EXCEPT ![s] = [@ EXCEPT !.pc = "done", !.rpcResult = code]]
    BY <1>8 DEF InvokeRpc
  <2>2. token \in {req[s].token, NoToken}
    BY DEF EnvelopeContext
  <2>3. CASE code = "EXPIRED_GATEWAY_CONTEXT"
    <3>1. s = r
      BY <1>0, <2>1 DEF AnsweredAsExpired
    <3> QED
      BY <2>2, <2>3, <3>1, ExpiredToken DEF Workers
  <2>4. CASE code # "EXPIRED_GATEWAY_CONTEXT"
    <3> HIDE DEF code
    <3> QED
      BY <1>0, <2>1, <2>4 DEF AnsweredAsExpired, RequestStates
  <2> QED
    BY <2>3, <2>4
<1>9. req' # req
  BY DEF AnsweredAsExpired
<1> QED
  BY <1>2, <1>2a, <1>4, <1>5, <1>6, <1>7, <1>8, <1>9
  DEF Next, Process, Tick, DeployGateway, DeployWorker, ChangeFlags, vars

\* A context is answered as expired only when it is older than its lifetime and
\* the skew, less the clock error: a live request is never lost to a clock that
\* is off by no more than the tolerance.
THEOREM ExpiryNeverEarly == Spec => NoEarlyExpiry
<1>1. FlowInv /\ [Next]_vars
        => [\A r \in Requests : AnsweredAsExpired(r) => ReallyExpired(r)]_vars
  BY ExpiryStep
<1> QED
  BY <1>1, FlowInvariant, PTL DEF Spec, NoEarlyExpiry

-----------------------------------------------------------------------------
(* Tool calls and HTTP requests in a steady period. *)

\* What featureFlags() and the two dispatchers leave in the context of a
\* request: a tools/call carries no flags.
FlagsCarried(via) ==
  IF via = "mcp" \/ cfg.flags # "bound" \/ ~cfg.forward THEN "absent"
  ELSE IF flag.operation THEN "on" ELSE "off"

\* Whether the service's own gates let through a request of an identity whose
\* context holds these flags.
ServiceAccepts(auth, flags) ==
  /\ AuthorizeForRoute(IF cfg.trusts["service"] THEN auth ELSE Anonymous,
                       cfg.operation) = "OK"
  /\ cfg.operation.gated =>
       FeatureEnabled(cfg.operation, cfg.ownFlags["service"], flag.operation, flags)

PolicyRefuses(auth) ==
  \/ MountGateClosed
  \/ AuthorizeForService(auth, cfg.mount, cfg.defaults) # "OK"
  \/ ~ServiceAccepts(auth, "absent")
  \/ ~ServiceAccepts(auth, FlagsCarried("http"))

ToolCallServed(auth) == ToolCallCode(auth) = "OK" /\ ServiceAccepts(auth, "absent")

\* What a request tells of the policy at each point of its way: a refusal over
\* HTTP is one of the policy's, and a tool call is served only by all the gates.
TellsPolicy(q) ==
  /\ q.pc \in {"idle", "arrived", "dispatching", "sent"} => q.result = "none"
  /\ q.pc = "dispatching" => q.forwarded = FlagsCarried("http")
  /\ q.pc = "sent" => /\ q.token.ctx.auth = q.auth
                      /\ q.token.ctx.flags = FlagsCarried(q.via)
                      /\ q.via = "mcp" => ToolCallCode(q.auth) = "OK"
  /\ q.via = "http" /\ q.result \in PolicyRefusals => PolicyRefuses(q.auth)
  /\ q.via = "mcp" /\ q.result = "OK" => ToolCallServed(q.auth)

\* The inductive invariant of a steady period.  ToolCallsWithinHttpPolicy
\* compares the ends of two requests; that they agree lies in what each was
\* checked against on its way, which is the same policy.
SteadyInv == TypeOK /\ \A r \in Requests : TellsPolicy(req[r])

\* What invokeOperation() and the service let through, no gate of the HTTP path
\* refuses: the flag that an HTTP request may carry is on, and a gate that is
\* open without it is open with it.
LEMMA ServedIsNotRefused ==
  ASSUME NEW auth, ToolCallServed(auth)
  PROVE  ~PolicyRefuses(auth)
<1>1. /\ AuthorizeForService(auth, cfg.mount, cfg.defaults) = "OK"
      /\ cfg.operation.gated => cfg.flags = "bound" /\ flag.operation
      /\ ~MountGateClosed
  BY ToolCode DEF ToolCallServed
<1>2. ServiceAccepts(auth, "absent")
  BY DEF ToolCallServed
<1>3. cfg.operation.gated => FlagsCarried("http") \in {"absent", "on"}
  BY <1>1 DEF FlagsCarried
<1>4. ServiceAccepts(auth, FlagsCarried("http"))
  <2>1. CASE ~cfg.operation.gated
    BY <1>2, <2>1 DEF ServiceAccepts
  <2>2. CASE FlagsCarried("http") = "absent"
    BY <1>2, <2>2
  <2>3. CASE FlagsCarried("http") = "on"
    BY <1>2, <2>3 DEF ServiceAccepts, FeatureEnabled
  <2> QED
    BY <1>3, <2>1, <2>2, <2>3
<1> QED
  BY <1>1, <1>2, <1>4 DEF PolicyRefuses

\* The service answers with a code of the policy only if one of its own gates
\* is closed to the request, and serves only what all of them let through.
LEMMA AcceptTellsPolicy ==
  ASSUME NEW token, NEW auth, NEW flags,
         token.ctx.auth = auth, token.ctx.flags = flags
  PROVE  LET code == AcceptCode("service", cfg.operation, token)
         IN  /\ code \in PolicyRefusals =>
                  ~ServiceAccepts(auth, flags) \/ ~ServiceAccepts(auth, "absent")
             /\ code = "OK" =>
                  ServiceAccepts(auth, flags) \/ ServiceAccepts(auth, "absent")
<1> DEFINE ctx == ContextAt("service", token)
           gate == cfg.operation.gated =>
                     FeatureEnabled(cfg.operation, cfg.ownFlags["service"],
                                    flag.operation, ctx.flags)
           codes == <<VerifyAt("service", token),
                      AuthorizeForRoute(ctx.auth, cfg.operation),
                      Check(gate, GateCode["service"])>>
<1>1. AcceptCode("service", cfg.operation, token) = FirstFailure(codes)
  BY DEF AcceptCode
<1>2. /\ DOMAIN codes = 1 .. 3
      /\ codes[1] = VerifyAt("service", token)
      /\ codes[2] = AuthorizeForRoute(ctx.auth, cfg.operation)
      /\ codes[3] = Check(gate, GateCode["service"])
  OBVIOUS
<1>3. codes[1] \notin PolicyRefusals
  <2>1. "OK" \notin PolicyRefusals /\ "MISSING_GATEWAY_CONTEXT" \notin PolicyRefusals
    BY DEF PolicyRefusals
  <2> QED
    BY <1>2, <2>1, VerifyCode DEF VerifyAt, Check
<1>4. ctx.flags \in {flags, "absent"}
  BY DEF ContextAt, AnonymousGatewayContext
<1>5. ctx.auth = IF cfg.trusts["service"] THEN auth ELSE Anonymous
  <2>1. CASE Verifies("service", token)
    BY <2>1 DEF Verifies, ContextAt
  <2>2. CASE cfg.trusts["service"] /\ token = NoToken
    BY <2>2 DEF Verifies, ContextAt, NoToken, AnonymousGatewayContext
  <2>3. CASE ~cfg.trusts["service"]
    BY <2>3 DEF Verifies, ContextAt, AnonymousGatewayContext
  <2> QED
    BY <2>1, <2>2, <2>3 DEF Verifies
<1>6. ServiceAccepts(auth, ctx.flags)
        <=> AuthorizeForRoute(ctx.auth, cfg.operation) = "OK" /\ gate
  BY <1>5 DEF ServiceAccepts
<1>7. GateCode["service"] # "OK"
  BY DEF GateCode
<1> HIDE DEF ctx, gate, codes
<1>8. CASE FirstFailure(codes) = "OK" /\ \A i \in 1 .. 3 : codes[i] = "OK"
  <2>1. AuthorizeForRoute(ctx.auth, cfg.operation) = "OK" /\ gate
    BY <1>2, <1>7, <1>8 DEF Check
  <2> QED
    BY <1>1, <1>4, <1>6, <1>8, <2>1 DEF PolicyRefusals
<1>9. CASE \E i \in 1 .. 3 : codes[i] # "OK" /\ FirstFailure(codes) = codes[i]
  <2> SUFFICES ASSUME FirstFailure(codes) \in PolicyRefusals
               PROVE  ~ServiceAccepts(auth, ctx.flags)
    BY <1>1, <1>4, <1>9
  <2>1. codes[2] # "OK" \/ codes[3] # "OK"
    BY <1>3, <1>9
  <2> QED
    BY <1>2, <1>6, <2>1 DEF Check
<1> QED
  BY <1>2, <1>8, <1>9, FirstFailureCode

\* The policy is a matter of the configuration and the flags alone, which no
\* step of a steady period changes.
LEMMA PolicySteady ==
  ASSUME UNCHANGED <<cfg, flag>>
  PROVE  \A q : TellsPolicy(q)' <=> TellsPolicy(q)
BY DEF TellsPolicy, PolicyRefuses, ToolCallServed, ServiceAccepts, FlagsCarried,
       ToolCallCode, OperationOnly, MountGateClosed, AuthorizeForService,
       AuthorizeForRoute, AuthRequired, FeatureEnabled, Check

\* Before any request nothing is told.
LEMMA SteadyInit == Init => SteadyInv
  BY TypeInit DEF Init, SteadyInv, TellsPolicy, NewRequest, PolicyRefusals

\* Every step of a request in a steady period keeps what the requests tell of
\* the policy.
LEMMA SteadyStep ==
  SteadyInv /\ [\E r \in Requests : Process(r)]_vars => SteadyInv'
<1> SUFFICES ASSUME SteadyInv, [\E r \in Requests : Process(r)]_vars
             PROVE  SteadyInv'
  OBVIOUS
<1>0. TypeOK /\ TypeOK' /\ req \in [Requests -> RequestStates]
  BY TypeStep DEF SteadyInv, Next, TypeOK
<1>f. ASSUME UNCHANGED <<cfg, flag>>, NEW r \in Requests, NEW q,
             req' = [req EXCEPT ![r] = q], TellsPolicy(q)
      PROVE  SteadyInv'
  <2>1. \A s \in Requests : TellsPolicy(req'[s])
    BY <1>0, <1>f DEF SteadyInv
  <2>2. \A p : TellsPolicy(p)' <=> TellsPolicy(p)
    BY <1>f, PolicySteady
  <2>3. \A s \in Requests : TellsPolicy(req[s])'
    BY <2>1, <2>2
  <2> QED
    BY <1>0, <2>3 DEF SteadyInv
<1>a. ASSUME UNCHANGED <<cfg, flag>>, NEW r \in Requests, NEW code,
             Answer(r, code),
             req[r].via = "http" /\ code \in PolicyRefusals => PolicyRefuses(req[r].auth),
             req[r].via = "mcp" => code # "OK"
      PROVE  SteadyInv'
  <2> DEFINE q == [req[r] EXCEPT !.pc = "done", !.result = code]
  <2>1. req' = [req EXCEPT ![r] = q]
    BY <1>a DEF Answer
  <2>2. /\ q.pc = "done" /\ q.result = code
        /\ q.via = req[r].via /\ q.auth = req[r].auth
    BY <1>0 DEF RequestStates
  <2> HIDE DEF q
  <2>3. TellsPolicy(q)
    BY <1>a, <2>2 DEF TellsPolicy
  <2> QED
    BY <1>a, <1>f, <2>1, <2>3
<1>t. ASSUME UNCHANGED <<cfg, flag>>, NEW r \in Requests, NEW flags, NEW secret,
             req[r].pc = "dispatching", Forward(r, flags, secret),
             flags = FlagsCarried(req[r].via),
             req[r].via = "mcp" => ToolCallCode(req[r].auth) = "OK"
      PROVE  SteadyInv'
  <2> DEFINE token == EncodeContext(
               BuildGatewayContext(req[r].auth, cfg.audience["service"], now, flags),
               secret)
             q == [req[r] EXCEPT !.pc = "sent", !.token = token]
  <2>1. req' = [req EXCEPT ![r] = q]
    BY <1>t DEF Forward
  <2>2. token.ctx.auth = req[r].auth /\ token.ctx.flags = flags
    BY DEF EncodeContext, BuildGatewayContext
  <2> HIDE DEF token
  <2>3. /\ q.pc = "sent" /\ q.token = token /\ q.result = req[r].result
        /\ q.via = req[r].via /\ q.auth = req[r].auth
    BY <1>0 DEF RequestStates
  <2>4. req[r].result = "none"
    BY <1>t DEF SteadyInv, TellsPolicy
  <2> HIDE DEF q
  <2>5. TellsPolicy(q)
    BY <1>t, <2>2, <2>3, <2>4 DEF TellsPolicy, PolicyRefusals
  <2> QED
    BY <1>t, <1>f, <2>1, <2>5
<1>1. ASSUME NEW r \in Requests, NEW via \in {"http", "mcp"},
             NEW auth \in Identities, Arrive(r, via, auth)
      PROVE  SteadyInv'
  <2> DEFINE q == [req[r] EXCEPT !.pc = "arrived", !.via = via, !.auth = auth,
                                 !.env = gwSecret]
  <2>1. req' = [req EXCEPT ![r] = q] /\ UNCHANGED <<cfg, flag>>
    BY <1>1 DEF Arrive, config
  <2>2. q.pc = "arrived" /\ q.result = "none"
    BY <1>0, <1>1 DEF Arrive, RequestStates, SteadyInv, TellsPolicy
  <2> HIDE DEF q
  <2>3. TellsPolicy(q)
    BY <2>2 DEF TellsPolicy, PolicyRefusals
  <2> QED
    BY <1>f, <2>1, <2>3
<1>2. ASSUME NEW r \in Requests, FlagsMiddleware(r) PROVE SteadyInv'
  <2>0. UNCHANGED <<cfg, flag>>
    BY <1>2 DEF FlagsMiddleware, config
  <2>1. CASE req[r].via = "http" /\ MountGateClosed /\ Answer(r, "NOT_FOUND")
    BY <1>a, <2>0, <2>1 DEF PolicyRefuses
  <2>2. CASE ~(req[r].via = "http" /\ MountGateClosed)
    <3> DEFINE forwarded == IF cfg.flags # "bound" \/ ~cfg.forward THEN "absent"
                            ELSE IF flag.operation THEN "on" ELSE "off"
               q == [req[r] EXCEPT !.pc = "dispatching", !.forwarded = forwarded]
    <3>1. req' = [req EXCEPT ![r] = q]
      BY <1>2, <2>2 DEF FlagsMiddleware
    <3>2. forwarded = FlagsCarried("http")
      BY DEF FlagsCarried
    <3> HIDE DEF forwarded
    <3>3. q.pc = "dispatching" /\ q.forwarded = forwarded /\ q.result = "none"
      BY <1>0, <1>2 DEF FlagsMiddleware, RequestStates, SteadyInv, TellsPolicy
    <3> HIDE DEF q
    <3>4. TellsPolicy(q)
      BY <3>2, <3>3 DEF TellsPolicy, PolicyRefusals
    <3> QED
      BY <1>f, <2>0, <3>1, <3>4
  <2> QED
    BY <1>2, <2>1, <2>2 DEF FlagsMiddleware
<1>3. ASSUME NEW r \in Requests, Route(r) PROVE SteadyInv'
  <2>1. /\ req[r].pc = "dispatching" /\ req[r].via = "http"
        /\ UNCHANGED <<cfg, flag>>
    BY <1>3 DEF Route, config
  <2>2. req[r].forwarded = FlagsCarried("http")
    BY <2>1 DEF SteadyInv, TellsPolicy
  <2> DEFINE code == AuthorizeForService(req[r].auth, cfg.mount, cfg.defaults)
  <2>3. CASE code = "OK"
    <3>1. Forward(r, req[r].forwarded, ResolveContextSecret(req[r].env))
      BY <1>3, <2>3 DEF Route
    <3> QED
      BY <1>t, <2>1, <2>2, <3>1
  <2>4. CASE code # "OK"
    <3>1. Answer(r, code)
      BY <1>3, <2>4 DEF Route
    <3>2. PolicyRefuses(req[r].auth)
      BY <2>4 DEF PolicyRefuses
    <3> HIDE DEF code
    <3> QED
      BY <1>a, <2>1, <3>1, <3>2
  <2> QED
    BY <2>3, <2>4
<1>4. ASSUME NEW r \in Requests, InvokeOperation(r) PROVE SteadyInv'
  <2>1. /\ req[r].pc = "dispatching" /\ req[r].via = "mcp"
        /\ UNCHANGED <<cfg, flag>>
    BY <1>4 DEF InvokeOperation, config
  <2>2. CASE ToolCallCode(req[r].auth) = "OK"
    <3>1. Forward(r, "absent", req[r].env)
      BY <1>4, <2>2 DEF InvokeOperation
    <3>2. FlagsCarried("mcp") = "absent"
      BY DEF FlagsCarried
    <3> QED
      BY <1>t, <2>1, <2>2, <3>1, <3>2
  <2>3. CASE ToolCallCode(req[r].auth) # "OK"
    <3>1. Answer(r, ToolCallCode(req[r].auth))
      BY <1>4, <2>3 DEF InvokeOperation
    <3> QED
      BY <1>a, <2>1, <2>3, <3>1
  <2> QED
    BY <2>2, <2>3
<1>5. ASSUME NEW r \in Requests, ServeHttp(r) PROVE SteadyInv'
  <2> DEFINE code == AcceptCode("service", cfg.operation, req[r].token)
             auth == req[r].auth
             flags == FlagsCarried(req[r].via)
  <2>1. req[r].pc = "sent" /\ UNCHANGED <<cfg, flag>>
    BY <1>5 DEF ServeHttp, config
  <2>2. /\ req[r].token.ctx.auth = auth /\ req[r].token.ctx.flags = flags
        /\ req[r].via = "mcp" => ToolCallCode(auth) = "OK"
    BY <2>1 DEF SteadyInv, TellsPolicy
  <2>3. /\ code \in PolicyRefusals =>
             ~ServiceAccepts(auth, flags) \/ ~ServiceAccepts(auth, "absent")
        /\ code = "OK" =>
             ServiceAccepts(auth, flags) \/ ServiceAccepts(auth, "absent")
    BY <2>2, AcceptTellsPolicy
  <2>4. flags = IF req[r].via = "mcp" THEN "absent" ELSE FlagsCarried("http")
    BY DEF FlagsCarried
  <2>5. CASE code = "OK"
    <3> DEFINE q == [req[r] EXCEPT !.pc = "handling", !.result = "OK"]
    <3>1. req' = [req EXCEPT ![r] = q]
      BY <1>5, <2>5 DEF ServeHttp
    <3>2. /\ q.pc = "handling" /\ q.result = "OK"
          /\ q.via = req[r].via /\ q.auth = auth
      BY <1>0 DEF RequestStates
    <3> HIDE DEF q
    <3>3. req[r].via = "mcp" => ToolCallServed(auth)
      BY <2>2, <2>3, <2>4, <2>5 DEF ToolCallServed
    <3>4. TellsPolicy(q)
      BY <3>2, <3>3 DEF TellsPolicy, PolicyRefusals
    <3> QED
      BY <1>f, <2>1, <3>1, <3>4
  <2>6. CASE code # "OK"
    <3>1. Answer(r, code)
      BY <1>5, <2>6 DEF ServeHttp
    <3>2. req[r].via = "http" /\ code \in PolicyRefusals => PolicyRefuses(auth)
      BY <2>3, <2>4 DEF PolicyRefuses
    <3> HIDE DEF code
    <3> QED
      BY <1>a, <2>1, <2>6, <3>1, <3>2
  <2> QED
    BY <2>5, <2>6
<1>6. ASSUME NEW r \in Requests, NEW q, UNCHANGED <<cfg, flag>>,
             req' = [req EXCEPT ![r] = q], req[r].pc \in {"handling", "calling"},
             q.pc \in {"calling", "done"}, q.result = req[r].result,
             q.via = req[r].via, q.auth = req[r].auth
      PROVE  SteadyInv'
  <2>1. TellsPolicy(q)
    BY <1>6 DEF SteadyInv, TellsPolicy
  <2> QED
    BY <1>6, <1>f, <2>1
<1>7. ASSUME NEW r \in Requests, HandlerReturns(r) \/ CallPeer(r) \/ InvokeRpc(r)
      PROVE  SteadyInv'
  <2> DEFINE code == AcceptCode("peer", cfg.rpcMethod, EnvelopeContext(r))
  <2>1. /\ UNCHANGED <<cfg, flag>>
        /\ \/ req' = [req EXCEPT ![r] = [req[r] EXCEPT !.pc = "done"]]
           \/ req' = [req EXCEPT ![r] = [req[r] EXCEPT !.pc = "calling"]]
           \/ req' = [req EXCEPT ![r] = [req[r] EXCEPT !.pc = "done",
                                                      !.rpcResult = code]]
    BY <1>7 DEF HandlerReturns, CallPeer, InvokeRpc, config
  <2>2. req[r].pc \in {"handling", "calling"}
    BY <1>7 DEF HandlerReturns, CallPeer, InvokeRpc
  <2> HIDE DEF code
  <2>3. PICK q : /\ req' = [req EXCEPT ![r] = q]
                 /\ q \in {[req[r] EXCEPT !.pc = "done"],
                           [req[r] EXCEPT !.pc = "calling"],
                           [req[r] EXCEPT !.pc = "done", !.rpcResult = code]}
    BY <2>1
  <2>4. /\ q.pc \in {"calling", "done"} /\ q.result = req[r].result
        /\ q.via = req[r].via /\ q.auth = req[r].auth
    BY <1>0, <2>3 DEF RequestStates
  <2> QED
    BY <1>6, <2>1, <2>2, <2>3, <2>4
<1>8. CASE UNCHANGED vars
  <2>1. \A p : TellsPolicy(p)' <=> TellsPolicy(p)
    BY <1>8, PolicySteady DEF vars
  <2>2. \A s \in Requests : TellsPolicy(req'[s])
    BY <1>8 DEF vars, SteadyInv
  <2>3. \A s \in Requests : TellsPolicy(req[s])'
    BY <2>1, <2>2
  <2> QED
    BY <1>0, <2>3 DEF SteadyInv
<1> QED
  BY <1>1, <1>2, <1>3, <1>4, <1>5, <1>7, <1>8 DEF Process

\* While nothing is deployed and no flag is switched, an operation that is
\* served to an identity as a tool call is refused to it over HTTP by no gate
\* of the gateway or the service, for every configuration of the two.
THEOREM ToolCallPolicy == SteadySpec => []ToolCallsWithinHttpPolicy
<1>1. SteadyInv => ToolCallsWithinHttpPolicy
  BY ServedIsNotRefused DEF SteadyInv, TellsPolicy, ToolCallsWithinHttpPolicy
<1> QED
  BY <1>1, SteadyInit, SteadyStep, PTL DEF SteadySpec

-----------------------------------------------------------------------------
(* When a signature and its claims are not refused. *)

\* An unsigned token passes where it is allowed, and a signed one under the
\* secret that signed it (verifyGatewayContext).
LEMMA SignatureAccepted ==
  ASSUME NEW signedBy, NEW t,
         signedBy = NoSecret => t.secret = NoSecret \/ t.allowUnsigned,
         signedBy # NoSecret => t.secret = signedBy
  PROVE  VerifySignature(signedBy, t) = "OK"
<1> DEFINE codes == <<
      Check(signedBy = NoSecret => t.secret = NoSecret \/ t.allowUnsigned,
            "UNSIGNED_GATEWAY_CONTEXT"),
      Check(signedBy # NoSecret => t.secret # NoSecret,
            "INVALID_GATEWAY_CONTEXT"),
      Check(signedBy \in {NoSecret, t.secret},
            "INVALID_GATEWAY_CONTEXT_SIGNATURE")>>
<1>1. VerifySignature(signedBy, t) = FirstFailure(codes)
  BY DEF VerifySignature
<1>2. DOMAIN codes = 1 .. 3 /\ codes[1] = "OK" /\ codes[2] = "OK" /\ codes[3] = "OK"
  BY DEF Check
<1> HIDE DEF codes
<1> QED
  BY <1>1, <1>2, FirstFailureCode

\* Claims issued in the skewed past are refused for audience or expiry only.
LEMMA ClaimsNotInvalid ==
  ASSUME NEW ctx, NEW aud, NEW at, ctx.issuedAt <= at + Skew
  PROVE  ValidateClaims(ctx, aud, at) # "INVALID_GATEWAY_CONTEXT"
<1> DEFINE codes == <<
      Check(ctx.aud = aud, "INVALID_GATEWAY_CONTEXT_AUDIENCE"),
      Check(ctx.expiresAt >= at - Skew, "EXPIRED_GATEWAY_CONTEXT"),
      Check(ctx.issuedAt <= at + Skew, "INVALID_GATEWAY_CONTEXT")>>
<1>1. ValidateClaims(ctx, aud, at) = FirstFailure(codes)
  BY DEF ValidateClaims
<1>2. /\ DOMAIN codes = 1 .. 3
      /\ codes[1] # "INVALID_GATEWAY_CONTEXT"
      /\ codes[2] # "INVALID_GATEWAY_CONTEXT"
      /\ codes[3] = "OK"
  BY DEF Check
<1> HIDE DEF codes
<1> QED
  BY <1>1, <1>2, FirstFailureCode

\* A token with an accepted signature and past claims meets no rejection of its
\* signature (verifyGatewayContext).
LEMMA TokenNotRejected ==
  ASSUME NEW token, NEW aud, NEW t, NEW at,
         VerifySignature(token.signedBy, t) = "OK",
         token.ctx.issuedAt <= at + Skew
  PROVE  VerifyGatewayContext(token, aud, t, at) \notin SignatureRejections
<1> DEFINE codes == <<VerifySignature(token.signedBy, t),
                      ValidateClaims(token.ctx, aud, at)>>
<1>1. VerifyGatewayContext(token, aud, t, at) = FirstFailure(codes)
  BY DEF VerifyGatewayContext
<1>2. /\ DOMAIN codes = 1 .. 2 /\ codes[1] = "OK"
      /\ codes[2] = ValidateClaims(token.ctx, aud, at)
  OBVIOUS
<1>3. codes[2] \notin SignatureRejections
  BY <1>2, ClaimsCode, ClaimsNotInvalid DEF SignatureRejections
<1> HIDE DEF codes
<1> QED
  BY <1>1, <1>2, <1>3, FirstFailureCode DEF SignatureRejections

\* Only the verification of a token rejects its signature.
LEMMA AcceptNotRejected ==
  ASSUME NEW w \in Workers, NEW operation, NEW token,
         Verifies(w, token) =>
           VerifyGatewayContext(token, cfg.audience[w], trust[w], Clock(w))
             \notin SignatureRejections
  PROVE  AcceptCode(w, operation, token) \notin SignatureRejections
<1> DEFINE codes == <<
      VerifyAt(w, token),
      AuthorizeForRoute(ContextAt(w, token).auth, operation),
      Check(operation.gated =>
              FeatureEnabled(operation, cfg.ownFlags[w], flag.operation,
                             ContextAt(w, token).flags),
            GateCode[w])>>
<1>1. AcceptCode(w, operation, token) = FirstFailure(codes)
  BY DEF AcceptCode
<1>2. DOMAIN codes = 1 .. 3
  OBVIOUS
<1>3. codes[1] \notin SignatureRejections
  BY DEF VerifyAt, Check, SignatureRejections
<1>4. codes[2] \notin SignatureRejections
  BY RouteCode DEF SignatureRejections
<1>5. codes[3] \notin SignatureRejections
  BY DEF Check, GateCode, Workers, SignatureRejections
<1> HIDE DEF codes
<1> QED
  BY <1>1, <1>2, <1>3, <1>4, <1>5, FirstFailureCode DEF SignatureRejections

-----------------------------------------------------------------------------
(* The rollout is a behaviour of RequestFlow. *)

\* Each deployment of the rollout is one that RequestFlow allows.
LEMMA RolloutStep == [RolloutNext]_vars => [Next]_vars
<1> SUFFICES ASSUME RolloutNext PROVE Next
  OBVIOUS
<1>1. ASSUME NEW w \in Workers, NEW d \in {Permissive, Strict}, Deploy(w, d)
      PROVE  Next
  <2>1. d \in Deployments
    BY RolloutAssumption
  <2> QED
    BY <1>1, <2>1 DEF Deploy, DeployWorker, Next
<1>2. CASE Sign
  BY <1>2, RolloutAssumption DEF Sign, DeployGateway, Next
<1> QED
  BY <1>1, <1>2 DEF RolloutNext, AcceptBoth, BecomeStrict, Next

\* Every behaviour of the rollout is one of RequestFlow, so what is proved of
\* every request there holds during the rollout.
THEOREM RolloutImplementsFlow == RolloutSpec => Spec
<1>1. RolloutInit => Init
  BY DEF RolloutInit
<1> QED
  BY <1>1, RolloutStep, PTL DEF RolloutSpec, Spec

-----------------------------------------------------------------------------
(* The rollout keeps serving. *)

\* The order of the deployments: the gateway signs only while every Worker has
\* the secret, and a Worker is strict only once the gateway signs.
DeploymentOrder ==
  /\ gwSecret \in {NoSecret, NewSecret}
  /\ \A w \in Workers : trust[w] \in {Unsecured, Permissive, Strict}
  /\ gwSecret = NewSecret => \A w \in Workers : trust[w] # Unsecured
  /\ (\E w \in Workers : trust[w] = Strict)
       => gwSecret = NewSecret /\ OldRequestsDrained

\* A request in flight holds the secret of the deployment that started it.
EnvKnown ==
  \A r \in Requests : req[r].pc \notin {"idle", "done"} =>
    req[r].env = NoSecret \/ (req[r].env = NewSecret /\ gwSecret = NewSecret)

\* Its token is signed with that secret, and was not minted in the future.
TokenSigned ==
  \A r \in Requests : req[r].pc \in {"sent", "handling", "calling"} =>
    req[r].token.signedBy = req[r].env /\ req[r].token.ctx.issuedAt <= now

RolloutInv ==
  /\ FlowInv
  /\ DeploymentOrder
  /\ EnvKnown
  /\ TokenSigned
  /\ RolloutKeepsServing

\* Before the rollout nothing is signed and no worker is strict.
LEMMA RolloutInitInv == RolloutInit => RolloutInv
<1> SUFFICES ASSUME RolloutInit PROVE RolloutInv
  OBVIOUS
<1>1. FlowInv
  BY FlowInit DEF RolloutInit
<1>2. \A r \in Requests : req[r] = NewRequest
  BY DEF RolloutInit, Init
<1>3. Unsecured # Strict
  BY NewSecretAssumption, SecretsAssumption DEF Unsecured, Strict
<1>4. DeploymentOrder
  BY <1>3, NewSecretAssumption, SecretsAssumption DEF RolloutInit, DeploymentOrder
<1>5. EnvKnown /\ TokenSigned /\ RolloutKeepsServing
  BY <1>2 DEF EnvKnown, TokenSigned, RolloutKeepsServing, NewRequest,
              SignatureRejections
<1> QED
  BY <1>1, <1>4, <1>5 DEF RolloutInv

\* No worker rejects the signature of a token that is in flight.
LEMMA InFlightAccepted ==
  ASSUME RolloutInv, NEW r \in Requests, NEW w \in Workers, NEW operation,
         req[r].pc \in {"sent", "calling"}, NEW token \in {req[r].token, NoToken}
  PROVE  AcceptCode(w, operation, token) \notin SignatureRejections
<1>1. SUFFICES ASSUME Verifies(w, token)
               PROVE  VerifyGatewayContext(token, cfg.audience[w], trust[w], Clock(w))
                        \notin SignatureRejections
  BY AcceptNotRejected
<1>2. token = req[r].token
  BY <1>1 DEF Verifies
<1>3. token.signedBy = req[r].env /\ token.ctx.issuedAt <= now
  BY <1>2 DEF RolloutInv, TokenSigned
<1>4. req[r].env = NoSecret \/ (req[r].env = NewSecret /\ gwSecret = NewSecret)
  BY DEF RolloutInv, EnvKnown
<1>5. trust[w] \in {Unsecured, Permissive, Strict} /\ NewSecret # NoSecret
  BY NewSecretAssumption, SecretsAssumption DEF RolloutInv, DeploymentOrder
<1>6. trust[w] = Strict => req[r].env = NewSecret
  BY DEF RolloutInv, DeploymentOrder, OldRequestsDrained
<1>7. gwSecret = NewSecret => trust[w] # Unsecured
  BY DEF RolloutInv, DeploymentOrder
<1>8. VerifySignature(token.signedBy, trust[w]) = "OK"
  <2>1. CASE token.signedBy = NoSecret
    <3>1. trust[w] \in {Unsecured, Permissive}
      BY <1>3, <1>5, <1>6, <2>1
    <3> QED
      BY <2>1, <3>1, SignatureAccepted DEF Unsecured, Permissive
  <2>2. CASE token.signedBy = NewSecret
    <3>1. trust[w] \in {Permissive, Strict}
      BY <1>3, <1>4, <1>5, <1>7, <2>2
    <3> QED
      BY <1>5, <2>2, <3>1, SignatureAccepted DEF Permissive, Strict
  <2> QED
    BY <1>3, <1>4, <2>1, <2>2
<1>9. token.ctx.issuedAt <= Clock(w) + Skew
  <2>1. drift[w] \in -MaxDrift .. MaxDrift /\ now \in Nat
    BY DEF RolloutInv, FlowInv, TypeOK
  <2>2. token.ctx.issuedAt \in Nat
    BY <1>2 DEF RolloutInv, FlowInv, TypeOK, RequestStates, Tokens, Contexts
  <2> QED
    BY <1>3, <2>1, <2>2, RolloutAssumption, SkewAssumption, MaxDriftAssumption
    DEF Clock
<1> QED
  BY <1>8, <1>9, TokenNotRejected

\* A step of one request keeps the order of deployments; what remains to be
\* shown of it concerns that request alone.
LEMMA RequestStep ==
  ASSUME RolloutInv, FlowInv', NEW r \in Requests,
         UNCHANGED <<cfg, now, gwSecret, trust>>,
         \A s \in Requests \ {r} : req'[s] = req[s],
         req'[r].pc \notin {"idle", "done"} =>
           \/ req[r].pc \notin {"idle", "done"} /\ req'[r].env = req[r].env
           \/ req'[r].env = gwSecret,
         req'[r].pc \in {"sent", "handling", "calling"} =>
           req'[r].token.signedBy = req'[r].env /\ req'[r].token.ctx.issuedAt <= now,
         req'[r].result \notin SignatureRejections,
         req'[r].rpcResult \notin SignatureRejections
  PROVE  RolloutInv'
<1>1. EnvKnown'
  <2>1. gwSecret \in {NoSecret, NewSecret}
    BY DEF RolloutInv, DeploymentOrder
  <2> QED
    BY <2>1 DEF RolloutInv, EnvKnown
<1>2. DeploymentOrder'
  <2>1. (\E w \in Workers : trust[w] = Strict) => OldRequestsDrained'
    BY DEF RolloutInv, DeploymentOrder, OldRequestsDrained
  <2> QED
    BY <2>1 DEF RolloutInv, DeploymentOrder
<1>3. TokenSigned'
  BY DEF RolloutInv, TokenSigned
<1>4. RolloutKeepsServing'
  BY DEF RolloutInv, RolloutKeepsServing
<1> QED
  BY <1>1, <1>2, <1>3, <1>4 DEF RolloutInv

\* Requests, clocks and deployments keep the order of the rollout and keep every
\* token in flight acceptable.
LEMMA RolloutStepInv == RolloutInv /\ [RolloutNext]_vars => RolloutInv'
<1> SUFFICES ASSUME RolloutInv, [RolloutNext]_vars PROVE RolloutInv'
  OBVIOUS
<1>0. FlowInv' /\ TypeOK
  BY RolloutStep, FlowStep DEF RolloutInv, FlowInv
<1>q. \A r \in Requests : /\ req[r] \in RequestStates
                          /\ req[r].result \notin SignatureRejections
                          /\ req[r].rpcResult \notin SignatureRejections
  BY <1>0 DEF TypeOK, RolloutInv, RolloutKeepsServing
<1>1. ASSUME NEW r \in Requests, NEW via, NEW auth, Arrive(r, via, auth)
      PROVE  RolloutInv'
  <2>1. req' = [req EXCEPT ![r] = [@ EXCEPT !.pc = "arrived", !.via = via,
                                            !.auth = auth, !.env = gwSecret]]
    BY <1>1 DEF Arrive
  <2>2. /\ req'[r].pc = "arrived" /\ req'[r].env = gwSecret
        /\ req'[r].result = req[r].result /\ req'[r].rpcResult = req[r].rpcResult
        /\ \A s \in Requests \ {r} : req'[s] = req[s]
    BY <1>0, <1>q, <2>1 DEF TypeOK, RequestStates
  <2>3. UNCHANGED <<cfg, now, gwSecret, trust>>
    BY <1>1 DEF Arrive, config
  <2> QED
    BY <1>0, <1>q, <2>2, <2>3, RequestStep
<1>2. ASSUME NEW r \in Requests, FlagsMiddleware(r) PROVE RolloutInv'
  <2>1. /\ req[r].pc = "arrived" /\ req'[r].pc \in {"dispatching", "done"}
        /\ req'[r].env = req[r].env /\ req'[r].rpcResult = req[r].rpcResult
        /\ req'[r].result \in {req[r].result, "NOT_FOUND"}
        /\ \A s \in Requests \ {r} : req'[s] = req[s]
    BY <1>0, <1>q, <1>2 DEF FlagsMiddleware, Answer, TypeOK, RequestStates
  <2>2. UNCHANGED <<cfg, now, gwSecret, trust>>
    BY <1>2 DEF FlagsMiddleware, config
  <2> QED
    BY <1>0, <1>q, <2>1, <2>2, RequestStep DEF SignatureRejections
<1>3. ASSUME NEW r \in Requests, NEW flags, NEW code,
             req[r].pc = "dispatching", UNCHANGED <<cfg, now, gwSecret, trust>>,
             code \notin SignatureRejections,
             Forward(r, flags, req[r].env) \/ Answer(r, code)
      PROVE  RolloutInv'
  <2>1. CASE Forward(r, flags, req[r].env)
    <3>1. /\ req'[r].pc = "sent" /\ req'[r].env = req[r].env
          /\ req'[r].result = req[r].result /\ req'[r].rpcResult = req[r].rpcResult
          /\ req'[r].token = EncodeContext(
               BuildGatewayContext(req[r].auth, cfg.audience["service"], now, flags),
               req[r].env)
          /\ \A s \in Requests \ {r} : req'[s] = req[s]
      BY <1>0, <1>q, <2>1 DEF Forward, TypeOK, RequestStates
    <3>2. req'[r].token.signedBy = req[r].env /\ req'[r].token.ctx.issuedAt <= now
      BY <1>0, <3>1 DEF EncodeContext, BuildGatewayContext, TypeOK
    <3> QED
      BY <1>0, <1>q, <1>3, <3>1, <3>2, RequestStep
  <2>2. CASE Answer(r, code)
    <3>1. /\ req'[r].pc = "done"
          /\ req'[r].result = code /\ req'[r].rpcResult = req[r].rpcResult
          /\ \A s \in Requests \ {r} : req'[s] = req[s]
      BY <1>0, <1>q, <2>2 DEF Answer, TypeOK, RequestStates
    <3> QED
      BY <1>0, <1>q, <1>3, <3>1, RequestStep
  <2> QED
    BY <1>3, <2>1, <2>2

<1>4. ASSUME NEW r \in Requests, Route(r) PROVE RolloutInv'
  <2>1. ResolveContextSecret(req[r].env) = req[r].env
    BY <1>0, RolloutAssumption DEF ResolveContextSecret, TypeOK
  <2>2. AuthorizeForService(req[r].auth, cfg.mount, cfg.defaults)
          \notin SignatureRejections
    BY ServiceCode DEF PolicyRefusals, SignatureRejections
  <2> QED
    BY <1>3, <1>4, <2>1, <2>2 DEF Route, config
<1>5. ASSUME NEW r \in Requests, InvokeOperation(r) PROVE RolloutInv'
  <2>1. ToolCallCode(req[r].auth) \notin SignatureRejections
    BY ToolCode DEF PolicyRefusals, SignatureRejections
  <2> QED
    BY <1>3, <1>5, <2>1 DEF InvokeOperation, config
<1>6. ASSUME NEW r \in Requests, ServeHttp(r) PROVE RolloutInv'
  <2> DEFINE code == AcceptCode("service", cfg.operation, req[r].token)
  <2>1. req[r].pc = "sent" /\ UNCHANGED <<cfg, now, gwSecret, trust>>
    BY <1>6 DEF ServeHttp, config
  <2>2. /\ req'[r].pc \in {"handling", "done"} /\ req'[r].env = req[r].env
        /\ req'[r].token = req[r].token
        /\ req'[r].result = code /\ req'[r].rpcResult = req[r].rpcResult
        /\ \A s \in Requests \ {r} : req'[s] = req[s]
    BY <1>0, <1>q, <1>6 DEF ServeHttp, Answer, TypeOK, RequestStates
  <2>3. code \notin SignatureRejections
    BY <2>1, InFlightAccepted DEF Workers
  <2>4. req[r].token.signedBy = req[r].env /\ req[r].token.ctx.issuedAt <= now
    BY <2>1 DEF RolloutInv, TokenSigned
  <2> HIDE DEF code
  <2> QED
    BY <1>0, <1>q, <2>1, <2>2, <2>3, <2>4, RequestStep
<1>7. ASSUME NEW r \in Requests, HandlerReturns(r) \/ CallPeer(r) PROVE RolloutInv'
  <2>1. /\ req[r].pc = "handling" /\ UNCHANGED <<cfg, now, gwSecret, trust>>
        /\ req'[r].pc \in {"calling", "done"} /\ req'[r].env = req[r].env
        /\ req'[r].token = req[r].token
        /\ req'[r].result = req[r].result /\ req'[r].rpcResult = req[r].rpcResult
        /\ \A s \in Requests \ {r} : req'[s] = req[s]
    BY <1>0, <1>q, <1>7 DEF HandlerReturns, CallPeer, TypeOK, RequestStates, config
  <2>2. req[r].token.signedBy = req[r].env /\ req[r].token.ctx.issuedAt <= now
    BY <2>1 DEF RolloutInv, TokenSigned
  <2> QED
    BY <1>0, <1>q, <2>1, <2>2, RequestStep
<1>8. ASSUME NEW r \in Requests, InvokeRpc(r) PROVE RolloutInv'
  <2> DEFINE token == EnvelopeContext(r)
             code  == AcceptCode("peer", cfg.rpcMethod, token)
  <2>1. req[r].pc = "calling" /\ UNCHANGED <<cfg, now, gwSecret, trust>>
    BY <1>8 DEF InvokeRpc, config
  <2>2. req' = [req EXCEPT ![r] = [@ EXCEPT !.pc = "done", !.rpcResult = code]]
    BY <1>8 DEF InvokeRpc
  <2>3. code \notin SignatureRejections
    <3>1. token \in {req[r].token, NoToken}
      BY DEF EnvelopeContext
    <3> QED
      BY <2>1, <3>1, InFlightAccepted DEF Workers
  <2> HIDE DEF code
  <2>4. /\ req'[r].pc = "done" /\ req'[r].result = req[r].result
        /\ req'[r].rpcResult = code
        /\ \A s \in Requests \ {r} : req'[s] = req[s]
    BY <1>0, <1>q, <2>2 DEF TypeOK, RequestStates
  <2> QED
    BY <1>0, <1>q, <2>1, <2>3, <2>4, RequestStep
<1>9. CASE Tick
  <2>1. TokenSigned'
    BY <1>0, <1>9 DEF Tick, config, RolloutInv, TokenSigned, TypeOK, RequestStates,
                      Tokens, Contexts
  <2> QED
    BY <1>0, <1>9, <2>1 DEF Tick, config, RolloutInv, DeploymentOrder, EnvKnown,
                            RolloutKeepsServing, OldRequestsDrained
<1>10. ASSUME NEW w \in Workers, AcceptBoth(w) PROVE RolloutInv'
  <2>1. /\ UNCHANGED <<cfg, now, gwSecret, req>> /\ trust[w] = Unsecured
        /\ trust' = [trust EXCEPT ![w] = Permissive]
    BY <1>10 DEF AcceptBoth, Deploy, config
  <2>2. Permissive # Unsecured /\ Permissive # Strict
    BY NewSecretAssumption, SecretsAssumption DEF Permissive, Unsecured, Strict
  <2>3. DeploymentOrder'
    BY <1>0, <2>1, <2>2 DEF RolloutInv, DeploymentOrder, OldRequestsDrained, TypeOK
  <2> QED
    BY <1>0, <2>1, <2>3 DEF RolloutInv, EnvKnown, TokenSigned, RolloutKeepsServing
<1>11. CASE Sign
  <2>1. /\ UNCHANGED <<cfg, now, trust, req>> /\ gwSecret = NoSecret
        /\ gwSecret' = NewSecret /\ \A w \in Workers : trust[w] = Permissive
    BY <1>11 DEF Sign, config
  <2>2. Permissive # Unsecured /\ Permissive # Strict /\ NoSecret # NewSecret
    BY NewSecretAssumption, SecretsAssumption DEF Permissive, Unsecured, Strict
  <2>3. DeploymentOrder'
    BY <2>1, <2>2 DEF RolloutInv, DeploymentOrder
  <2>4. EnvKnown'
    BY <2>1, <2>2 DEF RolloutInv, EnvKnown
  <2> QED
    BY <1>0, <2>1, <2>3, <2>4 DEF RolloutInv, TokenSigned, RolloutKeepsServing
<1>12. ASSUME NEW w \in Workers, BecomeStrict(w) PROVE RolloutInv'
  <2>1. /\ UNCHANGED <<cfg, now, gwSecret, req>> /\ gwSecret = NewSecret
        /\ trust' = [trust EXCEPT ![w] = Strict] /\ OldRequestsDrained
    BY <1>12 DEF BecomeStrict, Deploy, config
  <2>2. Strict # Unsecured
    BY NewSecretAssumption, SecretsAssumption DEF Unsecured, Strict
  <2>3. DeploymentOrder'
    BY <1>0, <2>1, <2>2 DEF RolloutInv, DeploymentOrder, OldRequestsDrained, TypeOK
  <2> QED
    BY <1>0, <2>1, <2>3 DEF RolloutInv, EnvKnown, TokenSigned, RolloutKeepsServing
<1>13. CASE UNCHANGED vars
  BY <1>0, <1>13 DEF vars, RolloutInv, DeploymentOrder, EnvKnown, TokenSigned,
                     RolloutKeepsServing, OldRequestsDrained
<1> QED
  BY <1>1, <1>2, <1>4, <1>5, <1>6, <1>7, <1>8, <1>9, <1>10, <1>11, <1>12, <1>13
  DEF RolloutNext, Process

\* Turning signing on in the documented order, with any number of requests in
\* flight at each deployment, rejects no token because of its signature.
THEOREM RolloutServes == RolloutSpec => []RolloutKeepsServing
<1>1. RolloutInv => RolloutKeepsServing
  BY DEF RolloutInv
<1> QED
  BY <1>1, RolloutInitInv, RolloutStepInv, PTL DEF RolloutSpec

=============================================================================
