--------------------------- MODULE GatewayContext ---------------------------
(***************************************************************************)
(* The private gateway context: what the gateway puts in `x-gmode-context` *)
(* and how a service or an RPC service accepts it                          *)
(* (packages/core/src/crypto.ts, packages/gateway/src/authorize.ts,        *)
(* packages/service/src/service.ts).  Every decision is an operator that   *)
(* returns "OK" or the ApiError code of the first check that fails.        *)
(*                                                                         *)
(* An HMAC signature is modelled by the secret it was made with: signedBy  *)
(* is NoSecret for an unsigned token, and a signature verifies exactly     *)
(* under the secret that made it.                                          *)
(***************************************************************************)
EXTENDS Integers, Sequences, Scopes

CONSTANTS
  NoSecret,  \* no secret configured, or no signature
  Ttl,       \* internal.tokenTtlSeconds, 60 by default
  Skew       \* clockSkewSeconds, 30 by default

ASSUME TtlAssumption  == Ttl \in Nat
ASSUME SkewAssumption == Skew \in Nat

Check(passes, code) == IF passes THEN "OK" ELSE code

\* A sequence of checks throws the error of the first one that fails.
FirstFailure(codes) ==
  LET failed == {i \in DOMAIN codes : codes[i] # "OK"}
  IN  IF failed = {} THEN "OK"
      ELSE codes[CHOOSE i \in failed : \A j \in failed : i <= j]

-----------------------------------------------------------------------------
(* Authorization by the gateway and by the service. *)

\* `service.auth ?? defaults.auth`
AuthRequired(service, defaults) ==
  \/ service.auth = "on"
  \/ service.auth = "unset" /\ defaults.auth

\* (Variants named for what they get wrong, such as this one, are the mutants
\* that the properties are tested against.)
AuthorizeWithoutDefaults(auth, service, defaults) ==
  IF ~AuthRequired(service, defaults) THEN "OK"
  ELSE FirstFailure(<<
    Check(auth.authenticated, "UNAUTHORIZED"),
    Check(MatchesAllScopes(service.scopes, auth.scopes), "INSUFFICIENT_SCOPE"),
    Check(MatchesAllScopes(service.permissions, auth.permissions),
          "INSUFFICIENT_PERMISSION")>>)

\* authorizeForService(): without required authentication it returns early,
\* before scopes and permissions are looked at.
AuthorizeForService(auth, service, defaults) ==
  IF ~AuthRequired(service, defaults) THEN "OK"
  ELSE FirstFailure(<<
    Check(auth.authenticated, "UNAUTHORIZED"),
    Check(MatchesAllScopes(defaults.scopes \union service.scopes, auth.scopes),
          "INSUFFICIENT_SCOPE"),
    Check(MatchesAllScopes(defaults.permissions \union service.permissions,
                           auth.permissions),
          "INSUFFICIENT_PERMISSION")>>)

\* authorizeForRoute() of a service and assertScopes() of an RPC service.
AuthorizeForRoute(auth, operation) ==
  FirstFailure(<<
    Check(MatchesAllScopes(operation.scopes, auth.scopes), "INSUFFICIENT_SCOPE"),
    Check(MatchesAllScopes(operation.permissions, auth.permissions),
          "INSUFFICIENT_PERMISSION")>>)

-----------------------------------------------------------------------------
(* The token. *)

Anonymous == [authenticated |-> FALSE, scopes |-> {}, permissions |-> {}]

\* `flags` is the forwarded value of the operation's flag: "on", "off" or,
\* when the context carries no such key, "absent".
BackdatedContext(auth, aud, now, flags) ==
  [auth |-> auth, aud |-> aud, flags |-> flags,
   issuedAt |-> now - Skew, expiresAt |-> now + Ttl]

BuildGatewayContext(auth, aud, now, flags) ==
  [auth |-> auth, aud |-> aud, flags |-> flags,
   issuedAt |-> now, expiresAt |-> now + Ttl]

\* anonymousGatewayContext(): issued and expired at the epoch, never verified.
AnonymousGatewayContext(aud) ==
  [auth |-> Anonymous, aud |-> aud, flags |-> "absent",
   issuedAt |-> 0, expiresAt |-> 0]

\* encodeSignedGatewayContext() with a secret, encodeGatewayContext() without.
EncodeContext(ctx, secret) == [ctx |-> ctx, signedBy |-> secret]

\* validateGatewayContextClaims(); the issuer is always "gmode-gateway".
ClaimsWithoutAudience(ctx, aud, now) ==
  FirstFailure(<<
    Check(ctx.expiresAt >= now - Skew, "EXPIRED_GATEWAY_CONTEXT"),
    Check(ctx.issuedAt <= now + Skew, "INVALID_GATEWAY_CONTEXT")>>)

ClaimsWithoutExpiry(ctx, aud, now) ==
  FirstFailure(<<
    Check(ctx.aud = aud, "INVALID_GATEWAY_CONTEXT_AUDIENCE"),
    Check(ctx.issuedAt <= now + Skew, "INVALID_GATEWAY_CONTEXT")>>)

ClaimsSkewedAgainstCaller(ctx, aud, now) ==
  FirstFailure(<<
    Check(ctx.aud = aud, "INVALID_GATEWAY_CONTEXT_AUDIENCE"),
    Check(ctx.expiresAt >= now + Skew, "EXPIRED_GATEWAY_CONTEXT"),
    Check(ctx.issuedAt <= now + Skew, "INVALID_GATEWAY_CONTEXT")>>)

ValidateClaims(ctx, aud, now) ==
  FirstFailure(<<
    Check(ctx.aud = aud, "INVALID_GATEWAY_CONTEXT_AUDIENCE"),
    Check(ctx.expiresAt >= now - Skew, "EXPIRED_GATEWAY_CONTEXT"),
    Check(ctx.issuedAt <= now + Skew, "INVALID_GATEWAY_CONTEXT")>>)

\* The signature part of verifyGatewayContext(); `trust` is the verifier's
\* resolved secret and its allowUnsigned option.
SignatureOfSignedOnly(signedBy, trust) ==
  FirstFailure(<<
    Check(signedBy # NoSecret => trust.secret # NoSecret,
          "INVALID_GATEWAY_CONTEXT"),
    Check(signedBy \in {NoSecret, trust.secret},
          "INVALID_GATEWAY_CONTEXT_SIGNATURE")>>)

SignatureAlwaysRequired(signedBy, trust) ==
  FirstFailure(<<
    Check(signedBy = NoSecret => trust.secret = NoSecret,
          "UNSIGNED_GATEWAY_CONTEXT"),
    Check(signedBy # NoSecret => trust.secret # NoSecret,
          "INVALID_GATEWAY_CONTEXT"),
    Check(signedBy \in {NoSecret, trust.secret},
          "INVALID_GATEWAY_CONTEXT_SIGNATURE")>>)

VerifySignature(signedBy, trust) ==
  FirstFailure(<<
    Check(signedBy = NoSecret => trust.secret = NoSecret \/ trust.allowUnsigned,
          "UNSIGNED_GATEWAY_CONTEXT"),
    Check(signedBy # NoSecret => trust.secret # NoSecret,
          "INVALID_GATEWAY_CONTEXT"),
    Check(signedBy \in {NoSecret, trust.secret},
          "INVALID_GATEWAY_CONTEXT_SIGNATURE")>>)

\* verifyGatewayContext() on a decodable token.
VerifyGatewayContext(token, aud, trust, now) ==
  FirstFailure(<<VerifySignature(token.signedBy, trust),
                 ValidateClaims(token.ctx, aud, now)>>)

\* evaluateGate() of a service and assertFeatureFlag() of an RPC service: the
\* worker's own Flagship client decides if it has one, then the forwarded
\* value, then the gate's default.
FeatureEnabled(operation, ownClient, flagValue, forwarded) ==
  IF ownClient THEN flagValue
  ELSE IF forwarded = "absent" THEN operation.gateDefault
  ELSE forwarded = "on"

=============================================================================
