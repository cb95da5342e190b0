--------------------------- MODULE GatewayPipeline --------------------------
(***************************************************************************)
(* One request through a gateway's chain of middlewares and its router     *)
(* (packages/gateway/src/gateway.ts and middleware/*.ts).                  *)
(*                                                                         *)
(* A middleware runs code before next(), and code on the answer that       *)
(* next() returns or on the error that it throws.  Each of these is an     *)
(* action: `pos` is the middleware's place in the chain and `phase` tells  *)
(* which of the three it is.  Past the last middleware is route(), before  *)
(* the first one handleRequest().                                          *)
(*                                                                         *)
(* Limits, flags' forwarding and idempotency have modules of their own;    *)
(* here they matter for what they do to the answer.                        *)
(***************************************************************************)
EXTENDS GatewayContext, RouteMatcher

CONSTANTS
  Sites,     \* the chain, options, registrations and bindings of each gateway
  Incoming,  \* requests
  Now        \* the time, in seconds

\* Middlewares and paths are lists of strings.  A time that is no number counts
\* for jwtAuth() as not claimed.
ASSUME SitesAssumption ==
  \A g \in DOMAIN Sites :
    Sites[g].chain \in Seq(STRING) /\ Sites[g].closedGates \subseteq Seq(STRING)
ASSUME IncomingAssumption ==
  /\ Now \in Int
  /\ \A q \in Incoming :
       /\ q.path \in Seq(STRING)
       /\ "bearer" \in DOMAIN q =>
            \A name \in {"exp", "nbf", "iat"} \intersect DOMAIN q.bearer.claims :
              q.bearer.claims[name] \in Int

\* registerService() throws on a mount that validateMount() refuses.  A service
\* is known by its name here, so that no two have one name.
ASSUME RegistrationsAssumption ==
  \A g \in DOMAIN Sites :
    LET services == Register(Sites[g].registrations)
    IN  /\ DOMAIN services \subseteq Nat
        /\ \A i \in DOMAIN services :
             services[i].mount \in Seq(STRING) /\ ValidMount(services[i].mount)
        /\ \A i, j \in DOMAIN services : services[i].name = services[j].name => i = j

VARIABLES
  gateway,  \* the gateway, fixed by ChainInit
  request,  \* the request, fixed by ChainInit
  ctx,      \* what the middlewares share: the GatewayRequestContext
  pos,      \* place in the chain
  phase,    \* "down" before next(), "up" with an answer, "thrown", "done"
  answer,   \* the answer on its way out
  error,    \* the code of the error on its way out
  records,  \* what logger, telemetry and dev inspector have reported
  sent      \* what was forwarded to a service

chainVars == <<gateway, request, ctx, pos, phase, answer, error, records, sent>>

site == Sites[gateway]

NoAuth == [authenticated |-> FALSE, scopes |-> {}, permissions |-> {},
           user |-> "none", keyId |-> "none"]

Respond(status, from) ==
  [status |-> status, from |-> from, id |-> "none", errorId |-> "none",
   cors |-> FALSE, session |-> "none", policy |-> FALSE, deprecated |-> FALSE,
   rebuilt |-> FALSE]

ChainInit ==
  /\ gateway \in DOMAIN Sites
  /\ request \in Incoming
  /\ ctx = [requestId |-> "gateway's", auth |-> NoAuth, matched |-> "none",
            kind |-> "none", session |-> "none", counted |-> FALSE]
  /\ pos = 1 /\ phase = "down"
  /\ answer = Respond(0, "none") /\ error = "none"
  /\ records = {} /\ sent = {}

-----------------------------------------------------------------------------
(* Moving through the chain. *)

At(i, middleware) == i \in DOMAIN site.chain /\ site.chain[i] = middleware
Entering(middleware)  == phase = "down" /\ At(pos, middleware)
Returning(middleware) == phase = "up" /\ At(pos, middleware)
Failing(middleware)   == phase = "thrown" /\ At(pos, middleware)

CallNext  == pos' = pos + 1 /\ UNCHANGED <<phase, answer, error>>
Return(a) == pos' = pos - 1 /\ phase' = "up" /\ answer' = a /\ UNCHANGED error
Throw(code) == pos' = pos - 1 /\ phase' = "thrown" /\ error' = code /\ UNCHANGED answer

\* `throw` of the first check that fails, next() when none does.
CallNextIf(code) ==
  IF code = "OK" THEN CallNext ELSE Throw(code)

Fixed == UNCHANGED <<gateway, request>>
OnlyMoves == Fixed /\ UNCHANGED <<ctx, records, sent>>

\* isPassthroughResponse()
Passthrough(a) == a.status = 101 \/ ctx.kind = "web"

\* new Response(body, ...)
Rebuilt(a) == [a EXCEPT !.rebuilt = TRUE]

\* serializeError() and json()
StatusOf(code) ==
  CASE code \in {"NOT_FOUND", "FEATURE_NOT_AVAILABLE"} -> 404
    [] code = "INVALID_PARAMS" -> 400
    [] code \in {"TOO_MANY_REQUESTS", "RATE_LIMITED"} -> 429
    [] code \in {"INSUFFICIENT_SCOPE", "INSUFFICIENT_PERMISSION", "MTLS_INVALID"} -> 403
    [] code = "INTERNAL_ERROR" -> 500
    [] OTHER -> 401

ErrorAnswer(code) == [Respond(StatusOf(code), "gateway") EXCEPT !.errorId = ctx.requestId]

\* The span or line that a recorder writes.
Report(by, status) ==
  [by |-> by, id |-> ctx.requestId, status |-> status, user |-> ctx.auth.user,
   service |-> ctx.matched]

-----------------------------------------------------------------------------
(* Request id, errors and records. *)

RequestId ==
  \/ /\ Entering("requestId") /\ CallNext
     /\ ctx' = [ctx EXCEPT !.requestId =
                  IF request.id = "valid" THEN "client's" ELSE "middleware's"]
     /\ Fixed /\ UNCHANGED <<records, sent>>
  \/ /\ Returning("requestId") /\ OnlyMoves
     /\ Return(IF Passthrough(answer) \/ answer.id # "none" THEN answer
               ELSE [Rebuilt(answer) EXCEPT !.id = ctx.requestId])

JsonErrors ==
  \/ Entering("jsonErrors") /\ CallNext /\ OnlyMoves
  \/ Failing("jsonErrors") /\ Return(ErrorAnswer(error)) /\ OnlyMoves

Logger ==
  \/ Entering("logger") /\ CallNext /\ OnlyMoves
  \/ /\ \/ Returning("logger") /\ Return(answer)
           /\ records' = records \union {Report("logger", answer.status)}
        \/ Failing("logger") /\ Throw(error)
           /\ records' = records \union {Report("error log", 0)}
     /\ Fixed /\ UNCHANGED <<ctx, sent>>

\* writeTelemetry(): a missing binding or a failing exporter is an error, which
\* replaces the answer or the error on its way out.
WriteTelemetry(status, Proceed) ==
  IF site.exports THEN Proceed /\ records' = records \union {Report("telemetry", status)}
  ELSE Throw("INTERNAL_ERROR") /\ UNCHANGED records

\* A span of a failed request says 500 whatever the error.
Telemetry ==
  \/ Entering("telemetry") /\ CallNext /\ OnlyMoves
  \/ /\ \/ Returning("telemetry") /\ WriteTelemetry(answer.status, Return(answer))
        \/ Failing("telemetry") /\ WriteTelemetry(500, Throw(error))
     /\ Fixed /\ UNCHANGED <<ctx, sent>>

\* resolveOrigin()
AllowsOrigin == site.origins = "*" \/ request.origin = "listed"

Cors ==
  \/ Entering("cors") /\ request.method # "OPTIONS" /\ CallNext /\ OnlyMoves
  \/ /\ Entering("cors") /\ request.method = "OPTIONS"
     /\ Return([Respond(204, "preflight") EXCEPT !.cors = AllowsOrigin]) /\ OnlyMoves
  \/ /\ Returning("cors") /\ OnlyMoves
     /\ Return(IF Passthrough(answer) \/ ~AllowsOrigin THEN answer
               ELSE [Rebuilt(answer) EXCEPT !.cors = TRUE])

-----------------------------------------------------------------------------
(* Identity.  A request has a field "bearer", "key", "queryKey" or "cert"   *)
(* only when it presents one, and a token's claims are those it has.        *)

\* A time that is not claimed is no constraint.
Claim(token, name) == IF name \in DOMAIN token.claims THEN token.claims[name] ELSE Now

StartsWhenever(token) == token.form # "malformed"

\* nbf, with the tolerance Skew of 30 seconds.
HasStarted(token) == site.shield \/ Claim(token, "nbf") <= Now + Skew

\* verifyHs256() or, behind API Shield, decodeJwtPayloadUnverified(), the checks
\* of the claims, and defaultMapUser().
JwtFailure(token) ==
  FirstFailure(<<
    Check(token.form # "malformed", "INVALID_AUTH_TOKEN"),
    Check(site.shield \/ (token.form = "HS256" /\ token.signedBy = site.secret),
          "INVALID_AUTH_TOKEN"),
    Check(site.shield \/ Claim(token, "exp") >= Now, "AUTH_TOKEN_EXPIRED"),
    Check(HasStarted(token), "INVALID_AUTH_TOKEN"),
    Check(Claim(token, "iat") <= Now + Skew, "INVALID_AUTH_TOKEN"),
    Check(site.issuer = "any" \/ ("iss" \in DOMAIN token.claims
                                   /\ token.claims.iss = site.issuer), "INVALID_AUTH_TOKEN"),
    Check(site.audience = "any" \/ ("aud" \in DOMAIN token.claims
                                     /\ site.audience \in token.claims.aud),
          "INVALID_AUTH_TOKEN"),
    Check("sub" \in DOMAIN token.claims, "INVALID_AUTH_TOKEN")>>)

\* defaultMapUser(), defaultMapScopes() and defaultMapPermissions()
Identity(claims) ==
  LET Claimed(name) == IF name \in DOMAIN claims THEN claims[name] ELSE {}
  IN  [authenticated |-> TRUE, user |-> claims.sub, keyId |-> "none",
       permissions |-> Claimed("permissions"),
       scopes |-> Claimed(IF "scope" \in DOMAIN claims THEN "scope" ELSE "scopes")]

JwtAuth ==
  /\ Entering("jwt")
  /\ IF "bearer" \notin DOMAIN request
     THEN /\ CallNextIf(Check(~site.jwtRequired, "MISSING_AUTH_TOKEN"))
          /\ UNCHANGED ctx
     ELSE /\ CallNextIf(JwtFailure(request.bearer))
          /\ ctx' = IF JwtFailure(request.bearer) # "OK" THEN ctx
                    ELSE [ctx EXCEPT !.auth = Identity(request.bearer.claims)]
  /\ Fixed /\ UNCHANGED <<records, sent>>

\* The key of the header, else of the query; the verifier is the site's table
\* of the identities that its keys stand for.
PresentedKey ==
  IF "key" \in DOMAIN request THEN request.key
  ELSE IF site.queryKeys /\ "queryKey" \in DOMAIN request THEN request.queryKey ELSE "none"

ApiKeyAuth ==
  /\ Entering("apiKey")
  /\ IF PresentedKey = "none"
     THEN CallNextIf(Check(~site.keyRequired, "MISSING_API_KEY")) /\ UNCHANGED ctx
     ELSE IF PresentedKey \in DOMAIN site.keys
          THEN CallNext /\ ctx' = [ctx EXCEPT !.auth = site.keys[PresentedKey]]
          ELSE Throw("INVALID_API_KEY") /\ UNCHANGED ctx
  /\ Fixed /\ UNCHANGED <<records, sent>>

Mtls ==
  /\ Entering("mtls") /\ OnlyMoves
  /\ CallNextIf(FirstFailure(<<
       Check("cert" \in DOMAIN request \/ ~site.certRequired, "MTLS_REQUIRED"),
       Check("cert" \in DOMAIN request => request.cert = "SUCCESS", "MTLS_INVALID")>>))

SessionKey(auth) == IF auth.user # "none" THEN auth.user ELSE auth.keyId

\* The session key is computed from the identity known before next().
SessionHeader ==
  \/ /\ Entering("session") /\ CallNext
     /\ ctx' = [ctx EXCEPT !.session = SessionKey(ctx.auth)]
     /\ Fixed /\ UNCHANGED <<records, sent>>
  \/ /\ Returning("session") /\ OnlyMoves
     /\ Return(IF ctx.session = "none" \/ answer.session # "none" \/ Passthrough(answer)
               THEN answer ELSE [Rebuilt(answer) EXCEPT !.session = ctx.session])

-----------------------------------------------------------------------------
(* Limits and gates. *)

\* cloudflareRateLimit(): the binding may be missing, fail, or refuse.  Failing
\* open leaves the answer alone.
CloudflareLimit ==
  \/ /\ Entering("cfLimit")
     /\ \E limiter \in {"missing", "fails", "refuses", "admits"} :
          /\ CallNextIf(FirstFailure(<<
               Check(limiter \in {"missing", "fails"} => site.failOpen, "INTERNAL_ERROR"),
               Check(limiter # "refuses", "TOO_MANY_REQUESTS")>>))
          /\ ctx' = [ctx EXCEPT !.counted = limiter = "admits"]
     /\ Fixed /\ UNCHANGED <<records, sent>>
  \/ /\ Returning("cfLimit") /\ OnlyMoves
     /\ Return(IF Passthrough(answer) \/ ~ctx.counted THEN answer
               ELSE [Rebuilt(answer) EXCEPT !.policy = TRUE])

\* durableObjectRateLimit() rebuilds every answer; the constructor refuses a 101.
DurableLimit ==
  \/ /\ Entering("doLimit") /\ OnlyMoves
     /\ \E code \in {"OK", "RATE_LIMITED", "INTERNAL_ERROR"} : CallNextIf(code)
  \/ /\ Returning("doLimit") /\ OnlyMoves
     /\ IF answer.status = 101 THEN Throw("INTERNAL_ERROR")
        ELSE Return([Rebuilt(answer) EXCEPT !.policy = TRUE])

\* pathMatchesMount(), on the path with basePath.
Gated(mount, path) == Under(path, NormalizeMount(mount))

\* featureFlags(): without the Flagship binding no flag is evaluated, and the
\* request is refused or, failing open, goes on as if no gate were closed.
FlagsGate ==
  /\ Entering("flags") /\ OnlyMoves
  /\ CallNextIf(FirstFailure(<<
       Check(site.flagship \/ site.flagsFailOpen, "INTERNAL_ERROR"),
       Check(site.flagship => \A mount \in site.closedGates : ~Gated(mount, request.path),
             "NOT_FOUND")>>))

\* The middlewares that leave the answer, or the error, alone.
PassUp ==
  /\ OnlyMoves /\ pos \in DOMAIN site.chain
  /\ \/ phase = "up" /\ Return(answer)
        /\ site.chain[pos] \in {"jsonErrors", "jwt", "apiKey", "mtls", "flags", "mcp"}
     \/ phase = "thrown" /\ Throw(error)
        /\ site.chain[pos] \notin {"jsonErrors", "logger", "telemetry"}

-----------------------------------------------------------------------------
(* route(). *)

Routing  == phase = "down" /\ pos = Len(site.chain) + 1
Defaults == BuildDefaults(site.options)
Services == Register(site.registrations)
Path     == StripBase(request.path, Defaults.basePath)

BuiltIn ==
  {Defaults.openapi, Defaults.swagger, Defaults.scalar, <<"/", "favicon.ico">>,
   <<"/", "__gmode", "/", "health">>}

ServeBuiltIn ==
  /\ Routing /\ Path \in BuiltIn /\ OnlyMoves
  /\ Return(Respond(IF Path = <<"/", "favicon.ico">> THEN 204 ELSE 200, "gateway"))

\* The landing page is served only where no service is mounted.
ServeIndex ==
  /\ Routing /\ Path \notin BuiltIn /\ MatchService(Path, Services) = {} /\ OnlyMoves
  /\ IF Path = Defaults.index THEN Return(Respond(200, "gateway")) ELSE Throw("NOT_FOUND")

BareWebMount(service) ==
  service.kind = "web" /\ service.mount # Slash /\ Path = service.mount

RedirectToApp ==
  /\ Routing /\ Path \notin BuiltIn /\ OnlyMoves
  /\ \E i \in MatchService(Path, Services) : BareWebMount(Services[i])
  /\ Return(Respond(308, "gateway"))

OverrideOnly(base, override) == override

\* mergeCachePolicy(): a spread, with methods falling back to the base's.
MergePolicy(base, override) ==
  [field \in DOMAIN base \union DOMAIN override |->
     IF field \in DOMAIN override THEN override[field] ELSE base[field]]

\* The policy of a service, with no field at all when nothing is cached.
ServicePolicy(cache) ==
  CASE cache.use = "own"   -> MergePolicy(site.cache, cache.policy)
    [] cache.use = "never" -> <<>>
    [] OTHER               -> site.cache

CachesMethod(policy) ==
  /\ request.method \in {"GET", "HEAD"}
  /\ DOMAIN policy # {}
  /\ "methods" \in DOMAIN policy => request.method \in policy.methods

CacheFailure(service) ==
  LET policy == ServicePolicy(service.cache)
      eager  == site.caching /\ request.method \in {"GET", "HEAD"}
  IN  FirstFailure(<<
        Check(eager /\ service.cache.use = "required" => DOMAIN site.cache # {},
              "INTERNAL_ERROR"),
        Check(eager /\ CachesMethod(policy) => policy.control # "", "INTERNAL_ERROR")>>)

\* The resolvers of cacheKey: one that keys by user gives no key without one.
ResolveGatewayCacheValue(resolver) ==
  IF resolver = "by user" THEN ctx.auth.user ELSE resolver

ResolveCachePolicy(service) ==
  LET policy == ServicePolicy(service.cache)
  IN  [cached |-> site.caching /\ CachesMethod(policy),
       key    |-> IF site.caching /\ CachesMethod(policy) /\ "key" \in DOMAIN policy
                  THEN ResolveGatewayCacheValue(policy.key) ELSE "none"]

\* authorizeForService(), the cache policy and the binding decide whether the
\* request is forwarded; matchedService is set in any case.
Dispatch ==
  /\ Routing /\ Path \notin BuiltIn
  /\ \E i \in MatchService(Path, Services) :
       LET service == Services[i]
           failure == FirstFailure(<<AuthorizeForService(ctx.auth, service, Defaults),
                                     CacheFailure(service),
                                     Check(service.name \notin site.unbound,
                                           "INTERNAL_ERROR")>>)
       IN  /\ ~BareWebMount(service)
           /\ ctx' = [ctx EXCEPT !.matched = service.name, !.kind = service.kind]
           /\ IF failure # "OK" THEN Throw(failure) /\ UNCHANGED sent
              ELSE /\ phase' = "sent"
                   /\ sent' = {[service |-> service.name, id |-> ctx.requestId,
                                auth |-> ctx.auth, path |-> RewrittenPath(Path, service),
                                cache |-> ResolveCachePolicy(service)]}
                   /\ UNCHANGED <<pos, answer, error>>
  /\ Fixed /\ UNCHANGED records

\* The Deprecation, Sunset and Link headers of a deprecated version's services.
DeprecationHeaders(a, service) == [a EXCEPT !.deprecated = service.deprecated]

\* The service answers, upgrades the connection or fails; a service may set a
\* request id of its own.  Only a plain service's answer gets mutable headers.
Reply ==
  /\ phase = "sent" /\ OnlyMoves
  /\ \/ Throw("INTERNAL_ERROR")
     \/ \E status \in {200, 101}, id \in {"none", "service's"} :
          LET reply   == [Respond(status, "service") EXCEPT !.id = id]
              service == CHOOSE s \in ToSet(Services) : s.name = ctx.matched
          IN  Return(IF Passthrough(reply) THEN reply
                     ELSE DeprecationHeaders(Rebuilt(reply), service))

-----------------------------------------------------------------------------
(* handleRequest(). *)

InspectedStatus(code) == StatusOf(code)

AnonymousAnswer(code) == ErrorAnswer(code)

UncaughtAnswer(code) == [ErrorAnswer(code) EXCEPT !.id = ctx.requestId]

Finish ==
  /\ pos = 0 /\ phase' = "done"
  /\ \/ /\ phase = "up" /\ UNCHANGED answer
        /\ records' = records \union {Report("inspector", answer.status)}
     \/ /\ phase = "thrown" /\ answer' = UncaughtAnswer(error)
        /\ records' = records \union {Report("inspector", InspectedStatus(error))}
  /\ Fixed /\ UNCHANGED <<ctx, pos, error, sent>>

ChainNext ==
  \/ RequestId \/ JsonErrors \/ Logger \/ Telemetry \/ Cors
  \/ JwtAuth \/ ApiKeyAuth \/ Mtls \/ SessionHeader
  \/ CloudflareLimit \/ DurableLimit \/ FlagsGate \/ PassUp
  \/ ServeBuiltIn \/ ServeIndex \/ RedirectToApp \/ Dispatch \/ Reply \/ Finish

ChainSpec == ChainInit /\ [][ChainNext]_chainVars

-----------------------------------------------------------------------------
(* Properties. *)

Done == phase = "done"
Uses(middleware) == middleware \in ToSet(site.chain)

NeverThrows(middleware) ==
  \/ middleware \in {"requestId", "logger", "cors", "session"}
  \/ middleware = "telemetry" /\ site.exports

\* The places of the jsonErrors() that no error gets past.
Catchers ==
  {j \in DOMAIN site.chain :
     site.chain[j] = "jsonErrors" /\ \A k \in 1 .. j - 1 : NeverThrows(site.chain[k])}

\* Where a middleware is mounted outside of one.
MountedOutside(middleware) ==
  {i \in DOMAIN site.chain : site.chain[i] = middleware /\ \E j \in Catchers : i < j}

\* One id follows a request: every line and span, the forwarded context, an
\* error's body and the answer's header name the same one, and with requestId()
\* mounted first every answer but an upgrade or a web app's has the header.
\* (requestId(), jsonErrors() and the catch of handleRequest() each take part.)
Traceable ==
  Done => /\ \A r \in records \union sent : r.id = ctx.requestId
          /\ answer.errorId \in {"none", ctx.requestId}
          /\ answer.id \in {"none", "service's", ctx.requestId}
          /\ At(1, "requestId") /\ ~Passthrough(answer) => answer.id # "none"

\* "Web apps and WebSocket upgrades must not be re-wrapped by middleware": in a
\* chain without the Durable Object limiter, which does so, the service's own
\* answer leaves the gateway.
PassthroughUntouched ==
  Done /\ ~Uses("doLimit") =>
    (answer.status = 101 \/ (ctx.kind = "web" /\ answer.from = "service")
       => ~answer.rebuilt)

\* When a token is good, stated from its claims.
Genuine(token) ==
  LET claims == token.claims
  IN  /\ token.form # "malformed" /\ "sub" \in DOMAIN claims
      /\ site.shield \/ (/\ token.signedBy = site.secret
                         /\ "nbf" \in DOMAIN claims => claims.nbf - Skew <= Now
                         /\ "exp" \in DOMAIN claims => Now <= claims.exp)
      /\ "iat" \in DOMAIN claims => claims.iat - Skew <= Now

\* A service that requires it is only sent requests with an identity; whatever
\* identity is forwarded is entirely that of one credential of the request; and
\* a credential that some middleware reads and that is not good is never
\* ignored, even where credentials are optional.
AuthenticatedOrRefused ==
  \A f \in sent :
    /\ \A s \in ToSet(Services) :
         s.name = f.service /\ AuthRequired(s, Defaults) => f.auth.authenticated
    /\ f.auth.authenticated =>
         \/ Uses("jwt") /\ "bearer" \in DOMAIN request
              /\ f.auth = Identity(request.bearer.claims)
         \/ Uses("apiKey") /\ PresentedKey # "none" /\ f.auth = site.keys[PresentedKey]
    /\ Uses("jwt") /\ "bearer" \in DOMAIN request => Genuine(request.bearer)
    /\ Uses("apiKey") /\ PresentedKey # "none" => PresentedKey \in DOMAIN site.keys

\* The dev inspector, and telemetry that is mounted outside of jsonErrors(),
\* report the status that the client gets; every line and span names the user
\* that the service was sent.
ReportsAgree ==
  Done => \A r \in records :
    /\ \A f \in sent : r.user = f.auth.user
    /\ \/ r.by = "inspector"
       \/ r.by = "telemetry" /\ \A i \in DOMAIN site.chain :
            site.chain[i] = "telemetry" => i \in MountedOutside("telemetry")
       => r.status = answer.status

\* With cors() outside of jsonErrors() a page of an allowed origin can read every
\* answer, refusals included.
CrossOriginReadable ==
  Done /\ MountedOutside("cors") # {} /\ AllowsOrigin /\ ~Passthrough(answer) => answer.cors

\* A default cache policy that keys answers by user does so for every service
\* that does not choose a key itself, whatever else of the policy it overrides;
\* only GET and HEAD are cached.
CachedPerUser ==
  \A f \in sent : f.cache.cached =>
    /\ request.method \in {"GET", "HEAD"}
    /\ \A s \in ToSet(Services) :
         /\ s.name = f.service
         /\ s.cache.use = "own" => "key" \notin DOMAIN s.cache.policy
         /\ "key" \in DOMAIN site.cache /\ site.cache.key = "by user"
         => f.cache.key = f.auth.user

\* "`gates` can disable whole service mounts": on a gateway without basePath no
\* request reaches a service mounted at, or below, a closed gate.  The flag of a
\* gate cannot be read without the binding: unless `failOpen` says otherwise no
\* request gets through then.
GateClosesMount ==
  /\ Uses("flags") /\ site.options.basePath = Unset /\ site.flagship =>
       \A f \in sent, s \in ToSet(Services), gate \in site.closedGates :
         s.name = f.service => ~Under(s.mount, gate)
  /\ Uses("flags") /\ ~site.flagship /\ ~site.flagsFailOpen => sent = {}

\* The order of a chain decides who gets through to a service, and whom it is
\* told of: neither authentication nor a gate fails open.
RefusedUnlessEntitled == AuthenticatedOrRefused /\ GateClosesMount

\* On the way back each middleware keeps what those inside and outside of it
\* promise of the answer: the request's id, the status that is reported, CORS
\* headers, and an upgrade or a web app's response untouched.
AnswersSurviveTheChain ==
  Traceable /\ ReportsAgree /\ CrossOriginReadable /\ PassthroughUntouched

=============================================================================
