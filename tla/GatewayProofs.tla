---------------------------- MODULE GatewayProofs ----------------------------
(***************************************************************************)
(* Proofs about McpEndpoint and the chain it is part of: for every chain   *)
(* of middlewares, every configuration, credential and message, a service  *)
(* is sent only what the gateway's own checks let through, as the caller   *)
(* that they established.                                                  *)
(***************************************************************************)
EXTENDS McpEndpoint, TLAPS

-----------------------------------------------------------------------------
(* The inductive invariant. *)

\* What it means that a middleware has called next() for this request.
LetsThrough(middleware) ==
  /\ middleware = "jwt" /\ "bearer" \in DOMAIN request =>
       JwtFailure(request.bearer) = "OK"
  /\ middleware = "apiKey" /\ PresentedKey # "none" => PresentedKey \in DOMAIN site.keys
  /\ middleware = "flags" =>
       /\ site.flagship \/ site.flagsFailOpen
       /\ site.flagship => \A mount \in site.closedGates : ~Gated(mount, request.path)

\* Whom the middlewares of the chain can have made of the caller.
CallerKnown(auth) ==
  \/ auth = NoAuth
  \/ /\ Uses("jwt") /\ "bearer" \in DOMAIN request
     /\ "sub" \in DOMAIN request.bearer.claims
     /\ auth = Identity(request.bearer.claims)
  \/ /\ Uses("apiKey") /\ PresentedKey # "none" /\ PresentedKey \in DOMAIN site.keys
     /\ auth = site.keys[PresentedKey]

Shapes ==
  /\ gateway \in DOMAIN Sites /\ request \in Incoming
  /\ DOMAIN ctx = {"requestId", "auth", "matched", "kind", "session", "counted"}
  /\ DOMAIN mcp = {"step", "invoked", "reply"}

\* On its way down a request has passed every middleware above it, and nothing
\* has been sent.
OnTheWayDown ==
  phase = "down" =>
    /\ pos \in 1 .. Len(site.chain) + 1
    /\ \A k \in 1 .. pos - 1 : LetsThrough(site.chain[k])
    /\ CallerKnown(ctx.auth)
    /\ sent = {} /\ mcp.step = "none"

\* A JSON-RPC request is in hand where the endpoint took it from the chain.
RpcUnderWay ==
  /\ mcp.step \in (IF phase = "rpc" THEN {"parsing", "dispatching", "calling"}
                                    ELSE {"none", "replied"})
  /\ mcp.step # "none" =>
       /\ "mcp" \in ToSet(site.chain)
       /\ request.method = "POST" /\ request.path \in site.mcp.paths
  /\ mcp.step \in {"dispatching", "calling"} => Rpc.body = "message"
  /\ mcp.step \in {"none", "parsing", "dispatching"} => mcp.invoked = {}
  /\ mcp.step = "calling" => mcp.invoked # {}

\* The identity that a tool call runs with.
ActsFor(auth) ==
  /\ ~Guarded => auth \in Established
  /\ Guarded =>
       LET session == site.mcp.oauth.sessions[request.bearer]
       IN  /\ auth.user = session.subject
           /\ MatchesAllScopes(site.mcp.oauth.required, session.scopes)
           /\ \E e \in Established : auth.scopes = session.scopes \union e.scopes

GatewayInv ==
  /\ Shapes /\ OnTheWayDown /\ RpcUnderWay
  /\ phase = "rpc" => ActsFor(ctx.auth)
  /\ RefusedUnlessEntitled /\ CachedPerUser
  /\ ActsForItsCaller /\ RunsWhatItNames /\ RepliesTellTheOutcome

-----------------------------------------------------------------------------
(* What the checks establish. *)

\* A sequence of checks answers "OK" only if each of its checks does.
LEMMA AllChecksPass ==
  ASSUME NEW n \in 1 .. 8, NEW codes, DOMAIN codes = 1 .. n,
         FirstFailure(codes) = "OK"
  PROVE  \A i \in DOMAIN codes : codes[i] = "OK"
<1> DEFINE failed == {i \in DOMAIN codes : codes[i] # "OK"}
<1> SUFFICES ASSUME failed # {} PROVE FALSE
  OBVIOUS
<1>1. \E i \in failed : \A j \in failed : i <= j
  <2>1. failed \subseteq 1 .. 8
    OBVIOUS
  <2> HIDE DEF failed
  <2>2. CASE \E i \in 1 .. 4 : i \in failed
    <3>1. CASE 1 \in failed
      BY <2>1, <3>1
    <3>2. CASE 1 \notin failed /\ 2 \in failed
      BY <2>1, <3>2
    <3>3. CASE 1 \notin failed /\ 2 \notin failed /\ 3 \in failed
      BY <2>1, <3>3
    <3>4. CASE 1 \notin failed /\ 2 \notin failed /\ 3 \notin failed /\ 4 \in failed
      BY <2>1, <3>4
    <3> QED
      BY <2>2, <3>1, <3>2, <3>3, <3>4
  <2>3. CASE failed \subseteq 5 .. 8
    <3>1. CASE 5 \in failed
      BY <2>3, <3>1
    <3>2. CASE 5 \notin failed /\ 6 \in failed
      BY <2>3, <3>2
    <3>3. CASE 5 \notin failed /\ 6 \notin failed /\ 7 \in failed
      BY <2>3, <3>3
    <3>4. CASE 5 \notin failed /\ 6 \notin failed /\ 7 \notin failed
      <4>1. PICK i \in failed : TRUE
        OBVIOUS
      <4>2. \A j \in failed : j = 8
        BY <2>3, <3>4
      <4> QED
        BY <4>1, <4>2
    <3> QED
      BY <2>3, <3>1, <3>2, <3>3, <3>4
  <2> QED
    BY <2>1, <2>2, <2>3
<1>2. (CHOOSE i \in failed : \A j \in failed : i <= j) \in failed
  BY <1>1
<1> QED
  BY <1>2 DEF FirstFailure

\* jwtAuth() lets a bearer token through only if it is good.
LEMMA JwtGenuine ==
  ASSUME request \in Incoming, "bearer" \in DOMAIN request,
         JwtFailure(request.bearer) = "OK"
  PROVE  Genuine(request.bearer) /\ "sub" \in DOMAIN request.bearer.claims
<1> DEFINE token == request.bearer
           codes == <<
    Check(token.form # "malformed", "INVALID_AUTH_TOKEN"),
    Check(site.shield \/ (token.form = "HS256" /\ token.signedBy = site.secret),
          "INVALID_AUTH_TOKEN"),
    Check(site.shield \/ Claim(token, "exp") >= Now, "AUTH_TOKEN_EXPIRED"),
    Check(HasStarted(token), "INVALID_AUTH_TOKEN"),
    Check(Claim(token, "iat") <= Now + Skew, "INVALID_AUTH_TOKEN"),
    Check(site.issuer = "any" \/ ("iss" \in DOMAIN token.claims
                                   /\ token.claims.iss = site.issuer), "INVALID_AUTH_TOKEN"),
    Check(site.audience = "any" \/ ("aud" \in DOMAIN token.claims
                                     /\ site.audience \in token.claims.aud),
          "INVALID_AUTH_TOKEN"),
    Check("sub" \in DOMAIN token.claims, "INVALID_AUTH_TOKEN")>>
<1>1. FirstFailure(codes) = "OK"
  BY DEF JwtFailure
<1>2. DOMAIN codes = 1 .. 8
  OBVIOUS
<1>3. \A i \in 1 .. 8 : codes[i] = "OK"
  BY <1>1, <1>2, AllChecksPass
<1>4. /\ token.form # "malformed"
      /\ site.shield \/ token.signedBy = site.secret
      /\ site.shield \/ Claim(token, "exp") >= Now
      /\ HasStarted(token)
      /\ Claim(token, "iat") <= Now + Skew
      /\ "sub" \in DOMAIN token.claims
  BY <1>3, codes[1] = "OK", codes[2] = "OK", codes[3] = "OK", codes[4] = "OK",
     codes[5] = "OK", codes[8] = "OK" DEF Check
<1>5. /\ Now \in Int /\ Skew \in Nat
      /\ "exp" \in DOMAIN token.claims => token.claims.exp \in Int
      /\ "nbf" \in DOMAIN token.claims => token.claims.nbf \in Int
      /\ "iat" \in DOMAIN token.claims => token.claims.iat \in Int
  BY IncomingAssumption, SkewAssumption
<1> HIDE DEF codes
<1> QED
  BY <1>4, <1>5 DEF Genuine, HasStarted, Claim

-----------------------------------------------------------------------------
(* The gateway and its request stay as they are, and so does all that is     *)
(* derived from them alone.                                                  *)

LEMMA SameSite ==
  ASSUME UNCHANGED <<gateway, request>>
  PROVE  /\ UNCHANGED <<site, Services, Defaults, Path, PresentedKey, Rpc, Guarded,
                        Established, Notification, NamedOperation>>
         /\ \A m : LetsThrough(m)' <=> LetsThrough(m)
         /\ \A m : Uses(m)' <=> Uses(m)
         /\ \A auth : CallerKnown(auth)' <=> CallerKnown(auth)
         /\ \A auth : ActsFor(auth)' <=> ActsFor(auth)
<1>1. UNCHANGED <<site, Services, Defaults, Path, PresentedKey, Rpc, Guarded>>
  BY DEF site, Services, Defaults, Path, PresentedKey, Rpc, Guarded
<1>2. \A m : Uses(m)' <=> Uses(m)
  BY <1>1 DEF Uses
<1>3. UNCHANGED <<Established, Notification, NamedOperation>>
  BY <1>1 DEF Established, BearerTokens, Notification, NamedOperation, Rpc
<1>4. \A m : LetsThrough(m)' <=> LetsThrough(m)
  BY <1>1 DEF LetsThrough, JwtFailure, HasStarted, Gated
<1>5. \A auth : CallerKnown(auth)' <=> CallerKnown(auth)
  BY <1>1, <1>2 DEF CallerKnown
<1>6. \A auth : ActsFor(auth)' <=> ActsFor(auth)
  BY <1>1, <1>3 DEF ActsFor
<1> QED
  BY <1>1, <1>2, <1>3, <1>4, <1>5, <1>6

LEMMA SameSent ==
  ASSUME UNCHANGED <<gateway, request, sent>>, RefusedUnlessEntitled, CachedPerUser
  PROVE  RefusedUnlessEntitled' /\ CachedPerUser'
<1>1. /\ UNCHANGED <<site, Services, Defaults, PresentedKey>>
      /\ \A m : Uses(m)' <=> Uses(m)
  BY SameSite
<1>2. Genuine(request.bearer)' <=> Genuine(request.bearer)
  BY <1>1 DEF Genuine
<1>3. AuthenticatedOrRefused'
  BY <1>1, <1>2 DEF RefusedUnlessEntitled, AuthenticatedOrRefused
<1>4. GateClosesMount'
  BY <1>1 DEF RefusedUnlessEntitled, GateClosesMount
<1>5. CachedPerUser'
  BY <1>1 DEF CachedPerUser
<1> QED
  BY <1>3, <1>4, <1>5 DEF RefusedUnlessEntitled

LEMMA SameCall ==
  ASSUME UNCHANGED <<gateway, request, mcp>>, ctx'.requestId = ctx.requestId,
         ActsForItsCaller, RunsWhatItNames, RepliesTellTheOutcome
  PROVE  ActsForItsCaller' /\ RunsWhatItNames' /\ RepliesTellTheOutcome'
<1>1. UNCHANGED <<site, Services, Rpc, Guarded, Established, Notification, NamedOperation>>
  BY SameSite
<1>2. ActsForItsCaller'
  BY <1>1 DEF ActsForItsCaller
<1>3. RunsWhatItNames'
  BY <1>1 DEF RunsWhatItNames
<1>4. RepliesTellTheOutcome'
  BY <1>1 DEF RepliesTellTheOutcome, Replied
<1> QED
  BY <1>2, <1>3, <1>4

-----------------------------------------------------------------------------
(* The two ways in which a middleware moves a request.                       *)

\* A request that goes on down the chain was let through by the middleware.
LEMMA EntersKeeps ==
  ASSUME GatewayInv, UNCHANGED <<gateway, request, sent, mcp>>,
         phase = "down", phase' = "down", pos \in DOMAIN site.chain, pos' = pos + 1,
         LetsThrough(site.chain[pos]), DOMAIN ctx' = DOMAIN ctx, CallerKnown(ctx'.auth)
  PROVE  GatewayInv'
<1>1. /\ mcp.step = "none" /\ mcp.invoked = {}
      /\ mcp'.step = "none" /\ mcp'.invoked = {}
      /\ Shapes /\ OnTheWayDown /\ RpcUnderWay
      /\ RefusedUnlessEntitled /\ CachedPerUser /\ RepliesTellTheOutcome
  BY DEF GatewayInv, OnTheWayDown, RpcUnderWay
<1>2. /\ site' = site /\ \A m : LetsThrough(m)' <=> LetsThrough(m)
      /\ \A auth : CallerKnown(auth)' <=> CallerKnown(auth)
  BY SameSite
<1>3. Shapes'
  BY <1>1 DEF Shapes
<1>4. OnTheWayDown'
  <2>1. site.chain \in Seq(STRING) /\ pos \in 1 .. Len(site.chain)
    BY <1>1, SitesAssumption DEF Shapes, site, OnTheWayDown
  <2>2. \A k \in 1 .. pos : LetsThrough(site.chain[k])
    BY <1>1, <2>1 DEF OnTheWayDown
  <2>3. CallerKnown(ctx.auth)'
    BY <1>2 DEF CallerKnown
  <2> QED
    BY <1>1, <1>2, <2>1, <2>2, <2>3 DEF OnTheWayDown
<1>5. RpcUnderWay'
  BY <1>1 DEF RpcUnderWay
<1>6. ActsForItsCaller' /\ RunsWhatItNames' /\ RepliesTellTheOutcome'
  BY <1>1 DEF ActsForItsCaller, RunsWhatItNames, RepliesTellTheOutcome, Replied
<1> QED
  BY <1>1, <1>3, <1>4, <1>5, <1>6, SameSent DEF GatewayInv

\* A request that is answered or fails disturbs nothing of what was sent.
LEMMA LeavesKeeps ==
  ASSUME GatewayInv, UNCHANGED <<gateway, request, sent, mcp>>,
         phase # "rpc", phase' \notin {"down", "rpc"},
         DOMAIN ctx' = DOMAIN ctx, ctx'.requestId = ctx.requestId
  PROVE  GatewayInv'
<1>1. Shapes' /\ OnTheWayDown'
  BY DEF GatewayInv, Shapes, OnTheWayDown
<1>2. RpcUnderWay'
  BY SameSite DEF GatewayInv, RpcUnderWay
<1> QED
  BY <1>1, <1>2, SameSent, SameCall DEF GatewayInv

-----------------------------------------------------------------------------
(* The middlewares. *)

\* A middleware that neither authenticates nor gates only moves the request.
LEMMA QuietKeeps ==
  ASSUME GatewayInv, UNCHANGED <<gateway, request, sent, mcp>>,
         DOMAIN ctx' = DOMAIN ctx, ctx'.auth = ctx.auth, phase # "rpc",
         \/ /\ phase = "down" /\ phase' = "down" /\ pos' = pos + 1
            /\ pos \in DOMAIN site.chain
            /\ site.chain[pos] \notin {"jwt", "apiKey", "flags"}
         \/ phase' \notin {"down", "rpc"} /\ ctx'.requestId = ctx.requestId
  PROVE  GatewayInv'
<1>1. CASE phase' = "down"
  <2>1. LetsThrough(site.chain[pos])
    BY <1>1 DEF LetsThrough
  <2> QED
    BY <1>1, <2>1, EntersKeeps DEF GatewayInv, OnTheWayDown
<1>2. CASE phase' # "down"
  BY <1>2, LeavesKeeps
<1> QED
  BY <1>1, <1>2

LEMMA QuietStep ==
  ASSUME GatewayInv, UNCHANGED mcp,
         \/ RequestId \/ JsonErrors \/ Logger \/ Telemetry \/ Cors \/ Mtls
         \/ SessionHeader \/ CloudflareLimit \/ DurableLimit \/ PassUp
  PROVE  GatewayInv'
<1>0. DOMAIN ctx = {"requestId", "auth", "matched", "kind", "session", "counted"}
  BY DEF GatewayInv, Shapes
<1>1. CASE RequestId
  <2>1. CASE Entering("requestId")
    <3>1. PICK id : ctx' = [ctx EXCEPT !.requestId = id]
      BY <1>1, <2>1 DEF RequestId, Entering, Returning
    <3>2. DOMAIN ctx' = DOMAIN ctx /\ ctx'.auth = ctx.auth
      BY <1>0, <3>1
    <3> QED
      BY <1>1, <2>1, <3>2, QuietKeeps
         DEF RequestId, CallNext, Entering, Returning, At, Fixed
  <2>2. CASE Returning("requestId")
    BY <1>1, <2>2, QuietKeeps DEF RequestId, Return, Entering, Returning, OnlyMoves, Fixed
  <2> QED
    BY <1>1, <2>1, <2>2 DEF RequestId
<1>2. CASE JsonErrors
  BY <1>0, <1>2, QuietKeeps DEF JsonErrors, CallNext, Return, OnlyMoves, Entering, Returning, Failing, At, Fixed
<1>3. CASE Logger
  BY <1>0, <1>3, QuietKeeps DEF Logger, CallNext, Return, Throw, OnlyMoves, Entering, Returning, Failing, At, Fixed
<1>4. CASE Telemetry
  BY <1>0, <1>4, QuietKeeps DEF Telemetry, WriteTelemetry, CallNext, Return, Throw, OnlyMoves, Entering, Returning, Failing, At, Fixed
<1>5. CASE Cors
  BY <1>0, <1>5, QuietKeeps DEF Cors, CallNext, Return, OnlyMoves, Entering, Returning, Failing, At, Fixed
<1>6. CASE Mtls
  BY <1>0, <1>6, QuietKeeps DEF Mtls, CallNextIf, CallNext, Throw, OnlyMoves, Entering, Returning, Failing, At, Fixed
<1>7. CASE SessionHeader
  BY <1>0, <1>7, QuietKeeps DEF SessionHeader, CallNext, Return, OnlyMoves, Entering, Returning, Failing, At, Fixed
<1>8. CASE CloudflareLimit
  BY <1>0, <1>8, QuietKeeps DEF CloudflareLimit, CallNextIf, CallNext, Throw, Return, OnlyMoves, Entering, Returning, Failing, At, Fixed
<1>9. CASE DurableLimit
  BY <1>0, <1>9, QuietKeeps DEF DurableLimit, CallNextIf, CallNext, Throw, Return, OnlyMoves, Entering, Returning, Failing, At, Fixed
<1>10. CASE PassUp
  BY <1>0, <1>10, QuietKeeps DEF PassUp, Throw, Return, OnlyMoves, Entering, Returning, Failing, At, Fixed
<1> QED
  BY <1>1, <1>2, <1>3, <1>4, <1>5, <1>6, <1>7, <1>8, <1>9, <1>10

LEMMA JwtAuthStep ==
  ASSUME GatewayInv, UNCHANGED mcp, JwtAuth
  PROVE  GatewayInv'
<1>1. /\ phase = "down" /\ pos \in DOMAIN site.chain /\ site.chain[pos] = "jwt"
      /\ UNCHANGED <<gateway, request, sent, mcp>> /\ request \in Incoming
      /\ DOMAIN ctx = {"requestId", "auth", "matched", "kind", "session", "counted"}
      /\ CallerKnown(ctx.auth) /\ Uses("jwt")
  BY DEF JwtAuth, Entering, At, Fixed, GatewayInv, Shapes, OnTheWayDown, Uses, ToSet
<1>2. CASE ctx' = ctx /\ phase' # "down"
  BY <1>1, <1>2, LeavesKeeps DEF JwtAuth, CallNextIf, CallNext, Throw
<1>3. CASE "bearer" \notin DOMAIN request /\ phase' = "down"
  <2>1. ctx' = ctx /\ pos' = pos + 1
    BY <1>1, <1>3 DEF JwtAuth, CallNextIf, CallNext, Throw
  <2>2. LetsThrough(site.chain[pos])
    BY <1>1, <1>3 DEF LetsThrough
  <2> QED
    BY <1>1, <1>3, <2>1, <2>2, EntersKeeps
<1>4. CASE "bearer" \in DOMAIN request /\ phase' = "down"
  <2>1. /\ JwtFailure(request.bearer) = "OK" /\ pos' = pos + 1
        /\ ctx' = [ctx EXCEPT !.auth = Identity(request.bearer.claims)]
    BY <1>1, <1>4 DEF JwtAuth, CallNextIf, CallNext, Throw
  <2>2. LetsThrough(site.chain[pos])
    BY <1>1, <2>1 DEF LetsThrough
  <2>3. DOMAIN ctx' = DOMAIN ctx /\ ctx'.auth = Identity(request.bearer.claims)
    BY <1>1, <2>1
  <2>4. CallerKnown(ctx'.auth)
    BY <1>1, <1>4, <2>1, <2>3, JwtGenuine DEF CallerKnown
  <2> QED
    BY <1>1, <1>4, <2>1, <2>2, <2>3, <2>4, EntersKeeps
<1> QED
  BY <1>1, <1>2, <1>3, <1>4 DEF JwtAuth, CallNextIf, CallNext, Throw

LEMMA ApiKeyAuthStep ==
  ASSUME GatewayInv, UNCHANGED mcp, ApiKeyAuth
  PROVE  GatewayInv'
<1>1. /\ phase = "down" /\ pos \in DOMAIN site.chain /\ site.chain[pos] = "apiKey"
      /\ UNCHANGED <<gateway, request, sent, mcp>>
      /\ DOMAIN ctx = {"requestId", "auth", "matched", "kind", "session", "counted"}
      /\ CallerKnown(ctx.auth) /\ Uses("apiKey")
  BY DEF ApiKeyAuth, Entering, At, Fixed, GatewayInv, Shapes, OnTheWayDown, Uses, ToSet
<1>2. CASE ctx' = ctx /\ phase' # "down"
  BY <1>1, <1>2, LeavesKeeps DEF ApiKeyAuth, CallNextIf, CallNext, Throw
<1>3. CASE PresentedKey = "none" /\ phase' = "down"
  <2>1. ctx' = ctx /\ pos' = pos + 1
    BY <1>1, <1>3 DEF ApiKeyAuth, CallNextIf, CallNext, Throw
  <2>2. LetsThrough(site.chain[pos])
    BY <1>1, <1>3 DEF LetsThrough
  <2> QED
    BY <1>1, <1>3, <2>1, <2>2, EntersKeeps
<1>4. CASE PresentedKey # "none" /\ phase' = "down"
  <2>1. /\ PresentedKey \in DOMAIN site.keys /\ pos' = pos + 1
        /\ ctx' = [ctx EXCEPT !.auth = site.keys[PresentedKey]]
    BY <1>1, <1>4 DEF ApiKeyAuth, CallNext, Throw
  <2>2. LetsThrough(site.chain[pos])
    BY <1>1, <2>1 DEF LetsThrough
  <2>3. DOMAIN ctx' = DOMAIN ctx /\ ctx'.auth = site.keys[PresentedKey]
    BY <1>1, <2>1
  <2>4. CallerKnown(ctx'.auth)
    BY <1>1, <1>4, <2>1, <2>3 DEF CallerKnown
  <2> QED
    BY <1>1, <1>4, <2>1, <2>2, <2>3, <2>4, EntersKeeps
<1> QED
  BY <1>1, <1>2, <1>3, <1>4 DEF ApiKeyAuth, CallNextIf, CallNext, Throw

LEMMA FlagsGateStep ==
  ASSUME GatewayInv, UNCHANGED mcp, FlagsGate
  PROVE  GatewayInv'
<1> DEFINE bound == Check(site.flagship \/ site.flagsFailOpen, "INTERNAL_ERROR")
           open  == Check(site.flagship => \A mount \in site.closedGates :
                                            ~Gated(mount, request.path), "NOT_FOUND")
           codes == <<bound, open>>
<1>1. /\ phase = "down" /\ pos \in DOMAIN site.chain /\ site.chain[pos] = "flags"
      /\ UNCHANGED <<gateway, request, sent, mcp, ctx>>
      /\ CallerKnown(ctx.auth)
  BY DEF FlagsGate, Entering, At, Fixed, OnlyMoves, GatewayInv, OnTheWayDown
<1>2. CallNextIf(FirstFailure(codes))
  BY DEF FlagsGate
<1>3. CASE FirstFailure(codes) = "OK"
  <2>1. phase' = "down" /\ pos' = pos + 1
    BY <1>1, <1>2, <1>3 DEF CallNextIf, CallNext
  <2>2. DOMAIN codes = 1 .. 2 /\ codes[1] = bound /\ codes[2] = open
    OBVIOUS
  <2> HIDE DEF codes
  <2>3. bound = "OK" /\ open = "OK"
    BY <1>3, <2>2, AllChecksPass
  <2>4. LetsThrough(site.chain[pos])
    BY <1>1, <2>3 DEF LetsThrough, Check
  <2> QED
    BY <1>1, <2>1, <2>4, EntersKeeps
<1> HIDE DEF codes
<1>4. CASE FirstFailure(codes) # "OK"
  BY <1>1, <1>2, <1>4, LeavesKeeps DEF CallNextIf, Throw
<1> QED
  BY <1>3, <1>4

-----------------------------------------------------------------------------
(* route(). *)

\* A service that is mounted at or below a gate is reached only by paths below
\* the gate (pathMatchesMount, matchService).
LEMMA GateAboveMount ==
  ASSUME NEW path \in Seq(STRING), NEW mount \in Seq(STRING), NEW gate \in Seq(STRING),
         ValidMount(mount), Under(path, NormalizeMount(mount)), Under(mount, gate)
  PROVE  Under(path, NormalizeMount(gate))
<1>1. CASE gate \in {Slash, <<>>}
  BY <1>1 DEF Under, NormalizeMount
<1>2. CASE gate \notin {Slash, <<>>} /\ mount = gate
  BY <1>2
<1>3. CASE gate \notin {Slash, <<>>} /\ IsPrefix(Append(gate, "/"), mount)
  <2> DEFINE below == Append(gate, "/")
  <2>1. /\ Len(gate) >= 1 /\ Len(below) = Len(gate) + 1 /\ below \in Seq(STRING)
        /\ Len(below) <= Len(mount) /\ below[Len(below)] = "/"
        /\ \A k \in 1 .. Len(gate) : below[k] = gate[k]
    BY <1>3 DEF IsPrefix
  <2>2. NormalizeMount(mount) = mount /\ mount # Slash
    BY <2>1 DEF NormalizeMount, WithoutTrailingSlash, ValidMount, Last, Slash
  <2>3. IsPrefix(below, path)
    BY <1>3, <2>1, <2>2 DEF Under, IsPrefix
  <2>4. CASE Last(gate) # "/"
    BY <1>3, <2>3, <2>4 DEF Under, NormalizeMount, WithoutTrailingSlash
  <2>5. CASE Last(gate) = "/"
    <3>1. Append(Front(gate), "/") = gate
      BY <2>1, <2>5 DEF Front, Last
    <3>2. IsPrefix(gate, path)
      BY <2>1, <2>3 DEF IsPrefix
    <3> QED
      BY <1>3, <2>5, <3>1, <3>2 DEF Under, NormalizeMount, WithoutTrailingSlash
  <2> QED
    BY <2>4, <2>5
<1> QED
  BY <1>1, <1>2, <1>3 DEF Under

\* A service that requires it is authorized only for an authenticated caller.
LEMMA AuthorizedIsAuthenticated ==
  ASSUME NEW auth, NEW service, NEW defaults,
         AuthorizeForService(auth, service, defaults) = "OK",
         AuthRequired(service, defaults)
  PROVE  auth.authenticated
<1> DEFINE codes == <<
    Check(auth.authenticated, "UNAUTHORIZED"),
    Check(MatchesAllScopes(defaults.scopes \union service.scopes, auth.scopes),
          "INSUFFICIENT_SCOPE"),
    Check(MatchesAllScopes(defaults.permissions \union service.permissions,
                           auth.permissions),
          "INSUFFICIENT_PERMISSION")>>
<1>1. FirstFailure(codes) = "OK" /\ DOMAIN codes = 1 .. 3
  BY DEF AuthorizeForService
<1>2. codes[1] = "OK"
  BY <1>1, AllChecksPass
<1>3. codes[1] = Check(auth.authenticated, "UNAUTHORIZED")
  OBVIOUS
<1> HIDE DEF codes
<1> QED
  BY <1>2, <1>3 DEF Check

\* What a service's answers are cached under, when they are.
LEMMA KeyedByUser ==
  ASSUME NEW service, ResolveCachePolicy(service).cached
  PROVE  /\ request.method \in {"GET", "HEAD"}
         /\ /\ service.cache.use = "own" => "key" \notin DOMAIN service.cache.policy
            /\ "key" \in DOMAIN site.cache /\ site.cache.key = "by user"
            => ResolveCachePolicy(service).key = ctx.auth.user
<1> DEFINE policy == ServicePolicy(service.cache)
<1>1. site.caching /\ CachesMethod(policy)
  BY DEF ResolveCachePolicy
<1>2. request.method \in {"GET", "HEAD"} /\ DOMAIN policy # {}
  BY <1>1 DEF CachesMethod
<1>3. ASSUME service.cache.use = "own" => "key" \notin DOMAIN service.cache.policy,
             "key" \in DOMAIN site.cache, site.cache.key = "by user"
      PROVE  "key" \in DOMAIN policy /\ policy.key = "by user"
  <2>1. CASE service.cache.use = "own"
    BY <1>3, <2>1 DEF ServicePolicy, MergePolicy
  <2>2. CASE service.cache.use = "never"
    <3>1. policy = <<>>
      BY <2>2 DEF ServicePolicy
    <3>2. DOMAIN <<>> = {}
      OBVIOUS
    <3> QED
      BY <1>2, <3>1, <3>2
  <2>3. CASE service.cache.use \notin {"own", "never"}
    BY <1>3, <2>3 DEF ServicePolicy
  <2> QED
    BY <2>1, <2>2, <2>3
<1> QED
  BY <1>1, <1>2, <1>3 DEF ResolveCachePolicy, ResolveGatewayCacheValue

\* What route() forwards has passed the whole chain and the service's demands.
LEMMA ForwardsKeep ==
  ASSUME GatewayInv, UNCHANGED mcp, Dispatch, phase' = "sent"
  PROVE  GatewayInv'
<1> DEFINE Sent(service) ==
      [service |-> service.name, id |-> ctx.requestId, auth |-> ctx.auth,
       path |-> RewrittenPath(Path, service), cache |-> ResolveCachePolicy(service)]
<1>1. PICK i \in MatchService(Path, Services) :
        /\ sent' = {Sent(Services[i])}
        /\ ctx' = [ctx EXCEPT !.matched = Services[i].name, !.kind = Services[i].kind]
        /\ FirstFailure(<<AuthorizeForService(ctx.auth, Services[i], Defaults),
                          CacheFailure(Services[i]),
                          Check(Services[i].name \notin site.unbound, "INTERNAL_ERROR")>>)
             = "OK"
  BY DEF Dispatch, Throw
<1>2. /\ phase = "down" /\ pos = Len(site.chain) + 1
      /\ UNCHANGED <<gateway, request, mcp>> /\ mcp.step = "none"
      /\ Shapes /\ CallerKnown(ctx.auth) /\ RpcUnderWay
      /\ \A k \in 1 .. pos - 1 : LetsThrough(site.chain[k])
  BY DEF Dispatch, Routing, Fixed, GatewayInv, OnTheWayDown
<1>3. gateway \in DOMAIN Sites /\ site.chain \in Seq(STRING) /\ site.closedGates \subseteq Seq(STRING)
      /\ request \in Incoming /\ request.path \in Seq(STRING)
  BY <1>2, SitesAssumption, IncomingAssumption DEF Shapes, site
<1>4. \A m : Uses(m) => LetsThrough(m)
  BY <1>2, <1>3 DEF Uses, ToSet
<1>5. /\ i \in DOMAIN Services /\ Under(Path, NormalizeMount(Services[i].mount))
      /\ Services[i].mount \in Seq(STRING) /\ ValidMount(Services[i].mount)
      /\ \A s \in ToSet(Services) : s.name = Services[i].name => s = Services[i]
  BY <1>1, <1>3, RegistrationsAssumption DEF MatchService, Services, site, ToSet
<1>6. /\ UNCHANGED <<site, Services, Defaults, PresentedKey>>
      /\ \A m : Uses(m)' <=> Uses(m)
  BY <1>2, SameSite
<1> DEFINE f == Sent(Services[i])
<1>7. f.service = Services[i].name /\ f.auth = ctx.auth
      /\ f.cache = ResolveCachePolicy(Services[i]) /\ sent' = {f}
  BY <1>1
<1> HIDE DEF f, Sent
<1>8. AuthenticatedOrRefused'
  <2>1. AuthorizeForService(ctx.auth, Services[i], Defaults) = "OK"
    <3> DEFINE codes == <<AuthorizeForService(ctx.auth, Services[i], Defaults),
                          CacheFailure(Services[i]),
                          Check(Services[i].name \notin site.unbound, "INTERNAL_ERROR")>>
    <3>1. FirstFailure(codes) = "OK" /\ DOMAIN codes = 1 .. 3
      BY <1>1
    <3>2. codes[1] = "OK"
      BY <3>1, AllChecksPass
    <3> QED
      BY <3>2
  <2>2. AuthRequired(Services[i], Defaults) => ctx.auth.authenticated
    BY <2>1, AuthorizedIsAuthenticated
  <2>3. Uses("jwt") /\ "bearer" \in DOMAIN request => Genuine(request.bearer)
    BY <1>3, <1>4, JwtGenuine DEF LetsThrough
  <2>4. Uses("apiKey") /\ PresentedKey # "none" => PresentedKey \in DOMAIN site.keys
    BY <1>4 DEF LetsThrough
  <2>5. ctx.auth.authenticated =>
          \/ Uses("jwt") /\ "bearer" \in DOMAIN request
               /\ ctx.auth = Identity(request.bearer.claims)
          \/ Uses("apiKey") /\ PresentedKey # "none" /\ ctx.auth = site.keys[PresentedKey]
    BY <1>2 DEF CallerKnown, NoAuth
  <2>6. Genuine(request.bearer)' <=> Genuine(request.bearer)
    BY <1>2, <1>6 DEF Genuine
  <2> QED
    BY <1>2, <1>5, <1>6, <1>7, <2>2, <2>3, <2>4, <2>5, <2>6 DEF AuthenticatedOrRefused
<1>9. GateClosesMount'
  <2>1. Uses("flags") => site.flagship \/ site.flagsFailOpen
    BY <1>4 DEF LetsThrough
  <2>2. ASSUME Uses("flags"), site.options.basePath = Unset, site.flagship,
               NEW gate \in site.closedGates, Under(Services[i].mount, gate)
        PROVE  FALSE
    <3>1. Path = request.path
      BY <2>2 DEF Path, StripBase, Defaults, BuildDefaults, Unset
    <3>2. Gated(gate, request.path)
      BY <1>3, <1>5, <2>2, <3>1, GateAboveMount DEF Gated
    <3> QED
      BY <1>4, <2>2, <3>2 DEF LetsThrough
  <2> QED
    BY <1>5, <1>6, <1>7, <2>1, <2>2 DEF GateClosesMount
<1>10. CachedPerUser'
  <2> SUFFICES ASSUME f.cache.cached
               PROVE  /\ request.method \in {"GET", "HEAD"}
                      /\ /\ Services[i].cache.use = "own" =>
                              "key" \notin DOMAIN Services[i].cache.policy
                         /\ "key" \in DOMAIN site.cache /\ site.cache.key = "by user"
                         => f.cache.key = f.auth.user
    BY <1>2, <1>5, <1>6, <1>7 DEF CachedPerUser
  <2>1. ResolveCachePolicy(Services[i]).cached
    BY <1>7
  <2> QED
    BY <1>7, <2>1, KeyedByUser
<1>11. DOMAIN ctx' = DOMAIN ctx /\ ctx'.requestId = ctx.requestId
  BY <1>1, <1>2 DEF Shapes
<1>12. Shapes' /\ OnTheWayDown'
  BY <1>2, <1>11 DEF Shapes, OnTheWayDown
<1>13. RpcUnderWay'
  BY <1>2, SameSite DEF RpcUnderWay
<1> QED
  BY <1>2, <1>8, <1>9, <1>10, <1>11, <1>12, <1>13, SameCall
     DEF GatewayInv, RefusedUnlessEntitled

LEMMA RouteStep ==
  ASSUME GatewayInv, UNCHANGED mcp,
         ServeBuiltIn \/ ServeIndex \/ RedirectToApp \/ Dispatch \/ Reply \/ Finish
  PROVE  GatewayInv'
<1>0. DOMAIN ctx = {"requestId", "auth", "matched", "kind", "session", "counted"}
  BY DEF GatewayInv, Shapes
<1>1. CASE ServeBuiltIn \/ ServeIndex \/ RedirectToApp
  BY <1>1, LeavesKeeps
     DEF ServeBuiltIn, ServeIndex, RedirectToApp, Routing, OnlyMoves, Fixed, Return, Throw
<1>2. CASE Dispatch /\ phase' = "sent"
  BY <1>2, ForwardsKeep
<1>3. CASE Dispatch /\ phase' # "sent"
  <2>1. /\ phase = "down" /\ phase' = "thrown" /\ UNCHANGED <<gateway, request, sent, mcp>>
        /\ \E name, kind : ctx' = [ctx EXCEPT !.matched = name, !.kind = kind]
    BY <1>3 DEF Dispatch, Routing, Fixed, Throw
  <2>2. DOMAIN ctx' = DOMAIN ctx /\ ctx'.requestId = ctx.requestId
    BY <1>0, <2>1
  <2> QED
    BY <2>1, <2>2, LeavesKeeps
<1>4. CASE Reply
  BY <1>4, LeavesKeeps DEF Reply, OnlyMoves, Fixed, Return, Throw
<1>5. CASE Finish
  BY <1>5, LeavesKeeps DEF Finish, Fixed
<1> QED
  BY <1>1, <1>2, <1>3, <1>4, <1>5

LEMMA ChainStep ==
  ASSUME GatewayInv, ChainNext, UNCHANGED mcp
  PROVE  GatewayInv'
BY QuietStep, JwtAuthStep, ApiKeyAuthStep, FlagsGateStep, RouteStep DEF ChainNext

-----------------------------------------------------------------------------
(* mountMcp(). *)

\* The guard lets a caller through only with a session that has the scopes it
\* requires.
LEMMA BearerHasSession ==
  ASSUME BearerFailure = "OK"
  PROVE  /\ "bearer" \in DOMAIN request
         /\ request.bearer \in DOMAIN site.mcp.oauth.sessions
         /\ MatchesAllScopes(site.mcp.oauth.required,
                             site.mcp.oauth.sessions[request.bearer].scopes)
BY DEF BearerFailure, Check

LEMMA TakesTheCall ==
  ASSUME GatewayInv, MountMcp, phase' = "rpc"
  PROVE  GatewayInv'
<1>1. /\ phase = "down" /\ pos \in DOMAIN site.chain /\ site.chain[pos] = "mcp"
      /\ UNCHANGED <<gateway, request, sent>>
      /\ request.path \in site.mcp.paths /\ request.method = "POST"
      /\ mcp' = [mcp EXCEPT !.step = "parsing"]
      /\ Guarded => BearerFailure = "OK"
      /\ ctx' = IF Guarded
                THEN [ctx EXCEPT !.auth = MergeMcpOAuthAuth(ctx.auth,
                        site.mcp.oauth.sessions[request.bearer])]
                ELSE ctx
  BY DEF MountMcp, Entering, At, Fixed, CallNext, Return, Throw
<1>2. /\ Shapes /\ CallerKnown(ctx.auth) /\ mcp.step = "none" /\ mcp.invoked = {}
      /\ RefusedUnlessEntitled /\ CachedPerUser
  BY <1>1 DEF GatewayInv, OnTheWayDown, RpcUnderWay
<1>3. DOMAIN mcp' = DOMAIN mcp /\ mcp'.step = "parsing" /\ mcp'.invoked = {}
  BY <1>1, <1>2 DEF Shapes
<1>4. DOMAIN ctx' = DOMAIN ctx
  BY <1>1, <1>2 DEF Shapes
<1>5. Shapes' /\ OnTheWayDown'
  BY <1>1, <1>2, <1>3, <1>4 DEF Shapes, OnTheWayDown
<1>6. RpcUnderWay'
  <2>1. "mcp" \in ToSet(site.chain)
    BY <1>1 DEF ToSet
  <2> QED
    BY <1>1, <1>3, <2>1, SameSite DEF RpcUnderWay
<1>7. ActsFor(ctx'.auth)
  <2>1. ctx.auth \in Established
    BY <1>2 DEF CallerKnown, Established, BearerTokens
  <2>2. CASE Guarded
    <3> DEFINE session == site.mcp.oauth.sessions[request.bearer]
    <3>1. ctx'.auth = MergeMcpOAuthAuth(ctx.auth, session)
      BY <1>1, <1>2, <2>2 DEF Shapes
    <3> HIDE DEF session
    <3>2. /\ ctx'.auth.user = session.subject
          /\ ctx'.auth.scopes = session.scopes \union ctx.auth.scopes
      BY <3>1 DEF MergeMcpOAuthAuth
    <3> QED
      BY <1>1, <2>1, <2>2, <3>2, BearerHasSession DEF ActsFor, session
  <2>3. CASE ~Guarded
    BY <1>1, <2>1, <2>3 DEF ActsFor
  <2> QED
    BY <2>2, <2>3
<1>8. ActsFor(ctx.auth)'
  BY <1>1, <1>7, SameSite DEF ActsFor
<1>9. ActsForItsCaller' /\ RunsWhatItNames' /\ RepliesTellTheOutcome'
  BY <1>1, <1>3, SameSite, BearerHasSession
     DEF ActsForItsCaller, RunsWhatItNames, RepliesTellTheOutcome, Replied
<1> QED
  BY <1>1, <1>2, <1>5, <1>6, <1>8, <1>9, SameSent DEF GatewayInv

LEMMA MountMcpStep ==
  ASSUME GatewayInv, MountMcp
  PROVE  GatewayInv'
<1>1. /\ phase = "down" /\ pos \in DOMAIN site.chain /\ site.chain[pos] = "mcp"
      /\ UNCHANGED <<gateway, request, sent>>
  BY DEF MountMcp, Entering, At, Fixed
<1>2. CASE phase' # "rpc"
  BY <1>1, <1>2, QuietKeeps DEF MountMcp, CallNext, Return, Throw
<1> QED
  BY <1>2, TakesTheCall

-----------------------------------------------------------------------------
(* Replies. *)

\* A reply that tells what has happened to the message in hand.
Tells(reply) ==
  /\ reply.kind = "accepted" <=> Rpc.body = "message" /\ Notification
  /\ reply.kind # "accepted" =>
       reply.id = IF Rpc.body = "message" THEN Rpc.id ELSE "null"
  /\ reply.kind = "error" /\ reply.code # "InternalError" => mcp.invoked = {}
  /\ reply.kind = "result" /\ "status" \in DOMAIN reply.result =>
       mcp.invoked # {} /\ (reply.result.isError <=> reply.result.status >= 400)

LEMMA ReplyKeeps ==
  ASSUME GatewayInv, OnlyMoves, phase = "rpc", phase' = "up",
         NEW reply, Tells(reply),
         mcp' = [mcp EXCEPT !.step = "replied", !.reply = reply]
  PROVE  GatewayInv'
<1>1. /\ UNCHANGED <<gateway, request, ctx, sent>>
      /\ Shapes /\ RpcUnderWay /\ RefusedUnlessEntitled /\ CachedPerUser
      /\ ActsForItsCaller /\ RunsWhatItNames
      /\ mcp.step \in {"parsing", "dispatching", "calling"}
  BY DEF OnlyMoves, Fixed, GatewayInv, RpcUnderWay
<1>2. /\ DOMAIN mcp' = DOMAIN mcp /\ mcp'.step = "replied" /\ mcp'.reply = reply
      /\ mcp'.invoked = mcp.invoked
  BY <1>1 DEF Shapes
<1>3. UNCHANGED <<site, Services, Rpc, Guarded, Established, Notification, NamedOperation>>
  BY <1>1, SameSite
<1>4. Shapes' /\ OnTheWayDown'
  BY <1>1, <1>2 DEF Shapes, OnTheWayDown
<1>5. RpcUnderWay'
  BY <1>1, <1>2, <1>3 DEF RpcUnderWay
<1>6. ActsForItsCaller'
  BY <1>1, <1>2, <1>3 DEF ActsForItsCaller
<1>7. RunsWhatItNames'
  BY <1>1, <1>2, <1>3 DEF RunsWhatItNames
<1>8. RepliesTellTheOutcome'
  BY <1>1, <1>2, <1>3 DEF RepliesTellTheOutcome, Replied, Tells
<1> QED
  BY <1>1, <1>4, <1>5, <1>6, <1>7, <1>8, SameSent DEF GatewayInv

LEMMA SuccessKeeps ==
  ASSUME GatewayInv, OnlyMoves, phase = "rpc", Rpc.body = "message",
         NEW result, ReplySuccess(result),
         "status" \in DOMAIN result =>
           mcp.invoked # {} /\ (result.isError <=> result.status >= 400)
  PROVE  GatewayInv'
<1>1. CASE Notification
  <2> DEFINE reply == [kind |-> "accepted"]
  <2>1. Tells(reply)
    BY <1>1 DEF Tells
  <2> QED
    BY <1>1, <2>1, ReplyKeeps DEF ReplySuccess, Accepted, Return
<1>2. CASE ~Notification
  <2>1. Tells(Success(result))
    BY <1>2 DEF Tells, Success
  <2> QED
    BY <1>2, <2>1, ReplyKeeps DEF ReplySuccess, JsonRpcResponse, Return
<1> QED
  BY <1>1, <1>2

LEMMA ErrorKeeps ==
  ASSUME GatewayInv, OnlyMoves, phase = "rpc", Rpc.body = "message",
         NEW code, ReplyError(code),
         mcp.invoked # {} => McpErrorCode(code) = "InternalError"
  PROVE  GatewayInv'
<1>1. CASE Notification
  <2> DEFINE reply == [kind |-> "accepted"]
  <2>1. Tells(reply)
    BY <1>1 DEF Tells
  <2> QED
    BY <1>1, <2>1, ReplyKeeps DEF ReplyError, Accepted, Return
<1>2. CASE ~Notification
  <2>1. Tells(RpcError(Rpc.id, McpErrorCode(code)))
    BY <1>2 DEF Tells, RpcError
  <2> QED
    BY <1>2, <2>1, ReplyKeeps DEF ReplyError, JsonRpcResponse, Return
<1> QED
  BY <1>1, <1>2

LEMMA BodyIsKnown ==
  ASSUME Shapes, RpcUnderWay, mcp.step # "none"
  PROVE  Rpc.body \in {"unreadable", "invalid JSON", "empty", "no message", "message"}
BY MessagesAssumption DEF Shapes, RpcUnderWay, site, Rpc

\* A body that is no message is answered without an id; a message is dispatched.
LEMMA ParseStep ==
  ASSUME GatewayInv, ParseStreamableRequest
  PROVE  GatewayInv'
<1>1. /\ phase = "rpc" /\ mcp.step = "parsing" /\ OnlyMoves
      /\ UNCHANGED <<gateway, request, ctx, sent>>
      /\ Shapes /\ RpcUnderWay /\ ActsFor(ctx.auth) /\ mcp.invoked = {}
      /\ RefusedUnlessEntitled /\ CachedPerUser /\ ActsForItsCaller
  BY DEF ParseStreamableRequest, OnlyMoves, Fixed, GatewayInv, RpcUnderWay
<1>2. Rpc.body \in {"unreadable", "invalid JSON", "empty", "no message", "message"}
  BY <1>1, BodyIsKnown
<1>3. CASE Rpc.body = "message"
  <2>1. phase' = phase /\ mcp' = [mcp EXCEPT !.step = "dispatching"]
    BY <1>3 DEF ParseStreamableRequest
  <2>2. /\ DOMAIN mcp' = DOMAIN mcp /\ mcp'.step = "dispatching" /\ mcp'.invoked = {}
    BY <1>1, <2>1 DEF Shapes
  <2>3. UNCHANGED <<site, Rpc, Guarded>> /\ (ActsFor(ctx.auth)' <=> ActsFor(ctx.auth))
    BY <1>1, SameSite DEF ActsFor
  <2>4. Shapes' /\ OnTheWayDown'
    BY <1>1, <2>1, <2>2 DEF Shapes, OnTheWayDown
  <2>5. RpcUnderWay'
    BY <1>1, <1>3, <2>1, <2>2, <2>3 DEF RpcUnderWay
  <2>6. ActsForItsCaller' /\ RunsWhatItNames' /\ RepliesTellTheOutcome'
    BY <1>1, <2>2, <2>3 DEF ActsForItsCaller, RunsWhatItNames, RepliesTellTheOutcome, Replied
  <2> QED
    BY <1>1, <2>3, <2>4, <2>5, <2>6, SameSent DEF GatewayInv
<1>4. CASE Rpc.body \in {"unreadable", "invalid JSON"}
  <2>1. JsonRpcResponse(RpcError("null", "ParseError"))
    BY <1>4 DEF ParseStreamableRequest
  <2>2. Tells(RpcError("null", "ParseError"))
    BY <1>1, <1>4 DEF Tells, RpcError
  <2> QED
    BY <1>1, <2>1, <2>2, ReplyKeeps DEF JsonRpcResponse, Return
<1>5. CASE Rpc.body \in {"empty", "no message"}
  <2>1. JsonRpcResponse(RpcError("null", "InvalidRequest"))
    BY <1>5 DEF ParseStreamableRequest
  <2>2. Tells(RpcError("null", "InvalidRequest"))
    BY <1>1, <1>5 DEF Tells, RpcError
  <2> QED
    BY <1>1, <2>1, <2>2, ReplyKeeps DEF JsonRpcResponse, Return
<1> QED
  BY <1>2, <1>3, <1>4, <1>5

-----------------------------------------------------------------------------
(* Tool calls. *)

\* What a call that passes every check is known to have.
LEMMA PassesItsChecks ==
  ASSUME NEW op, InvocationFailure(op) = "OK"
  PROVE  Complete(op)
<1> DEFINE codes == <<
    AuthorizeForService(ctx.auth, ServiceOf(op), Defaults),
    IF op.scopes = {} THEN "OK"
    ELSE AuthorizeForService(ctx.auth, OperationOnly(op.scopes, {}), Defaults),
    IF op.permissions = {} THEN "OK"
    ELSE AuthorizeForService(ctx.auth, OperationOnly({}, op.permissions), Defaults),
    Check(op.flag = "none" \/ (HasFlags /\ op.flag \in site.mcp.enabled),
          "FEATURE_NOT_AVAILABLE"),
    Check(Complete(op), "INVALID_PARAMS"),
    Check(HasFlags => \A mount \in site.closedGates :
            ~Gated(mount, Substitute(op.path, Rpc.values)), "NOT_FOUND"),
    Check(ServiceOf(op).name \notin site.unbound, "INTERNAL_ERROR")>>
<1>1. FirstFailure(codes) = "OK" /\ DOMAIN codes = 1 .. 7
  BY DEF InvocationFailure
<1>2. codes[5] = "OK"
  BY <1>1, AllChecksPass
<1>3. codes[5] = Check(Complete(op), "INVALID_PARAMS")
  OBVIOUS
<1> HIDE DEF codes
<1> QED
  BY <1>2, <1>3 DEF Check

\* The mount that an operation is listed under is the one that serves its path
\* (matchMount and matchService agree).
LEMMA ListedWhereServed ==
  ASSUME gateway \in DOMAIN Sites, NEW op, MatchMount(op.path) # {}
  PROVE  \E k \in MatchService(op.path, Services) : ServiceOf(op) = Services[k]
<1> DEFINE k == CHOOSE i \in MatchMount(op.path) : TRUE
<1>1. k \in MatchMount(op.path) /\ ServiceOf(op) = Services[k]
  BY DEF ServiceOf
<1>2. \A i \in DOMAIN Services : i \in Nat /\ Len(Services[i].mount) \in Nat
  BY RegistrationsAssumption DEF Services, site
<1> HIDE DEF k
<1>3. k \in MatchService(op.path, Services)
  <2> DEFINE hits == {i \in DOMAIN Services :
                        Under(op.path, NormalizeMount(Services[i].mount))}
             L(i) == Len(Services[i].mount)
  <2>1. k \in hits /\ \A j \in hits \ {k} : L(k) - L(j) > 0 \/ (L(k) - L(j) = 0 /\ k < j)
    BY <1>1 DEF MatchMount
  <2>2. \A i \in hits : i \in Nat /\ L(i) \in Nat
    BY <1>2
  <2> HIDE DEF hits, L
  <2>3. \A j \in hits : L(k) > L(j) \/ (~(L(j) > L(k)) /\ k <= j)
    BY <2>1, <2>2
  <2> QED
    BY <2>1, <2>3 DEF MatchService, hits, L
<1> QED
  BY <1>1, <1>3

\* No placeholder is left in the path of a complete call (substitutePath).
LEMMA NothingLeftToFillIn ==
  ASSUME Shapes, RpcUnderWay, mcp.step # "none", Rpc.body = "message",
         Rpc.method = "tools/call", NEW op, Complete(op)
  PROVE  ToSet(Substitute(op.path, Rpc.values)) \intersect site.mcp.parameters = {}
<1>1. \A x \in DOMAIN Rpc.values : Rpc.values[x] \notin site.mcp.parameters
  BY MessagesAssumption DEF Shapes, RpcUnderWay, site, Rpc
<1>2. \A i \in DOMAIN op.path :
        op.path[i] \notin DOMAIN Rpc.values => op.path[i] \notin site.mcp.parameters
  BY DEF Complete, ToSet
<1> QED
  BY <1>1, <1>2 DEF Substitute, ToSet

LEMMA InvokeKeeps ==
  ASSUME GatewayInv, OnlyMoves, phase = "rpc", mcp.step = "dispatching",
         Rpc.method = "tools/call", NEW id \in NamedOperation,
         NEW op \in FindOperation(id), InvocationFailure(op) = "OK", Invoke(op)
  PROVE  GatewayInv'
<1> DEFINE call == [service |-> ServiceOf(op).name, auth |-> ctx.auth, id |-> ctx.requestId,
                    path |-> RewrittenPath(Substitute(op.path, Rpc.values), ServiceOf(op))]
<1>1. /\ UNCHANGED <<gateway, request, ctx, sent, phase>>
      /\ Shapes /\ RpcUnderWay /\ ActsFor(ctx.auth) /\ Rpc.body = "message"
      /\ RefusedUnlessEntitled /\ CachedPerUser /\ ActsForItsCaller
      /\ mcp' = [mcp EXCEPT !.step = "calling", !.invoked = {call}]
  BY DEF OnlyMoves, Fixed, GatewayInv, RpcUnderWay, Invoke
<1>2. /\ DOMAIN mcp' = DOMAIN mcp /\ mcp'.step = "calling" /\ mcp'.invoked = {call}
  BY <1>1 DEF Shapes
<1>3. /\ UNCHANGED <<site, Services, Rpc, Guarded, Established, NamedOperation>>
      /\ ActsFor(ctx.auth)' <=> ActsFor(ctx.auth)
  BY <1>1, SameSite DEF ActsFor
<1>4. Shapes' /\ OnTheWayDown'
  BY <1>1, <1>2 DEF Shapes, OnTheWayDown
<1>5. RpcUnderWay'
  <2> HIDE DEF call
  <2> QED
    BY <1>1, <1>2, <1>3 DEF RpcUnderWay
<1>6. ActsForItsCaller'
  <2>1. call.id = ctx.requestId /\ call.auth = ctx.auth
    OBVIOUS
  <2> HIDE DEF call
  <2> QED
    BY <1>1, <1>2, <1>3, <2>1 DEF ActsForItsCaller, ActsFor
<1>7. RunsWhatItNames'
  <2>1. /\ op \in site.mcp.document /\ op.id = id /\ op.id \in site.mcp.keep
        /\ MatchMount(op.path) # {}
    BY DEF FindOperation, BuildMountIndex
  <2>2. ToSet(Substitute(op.path, Rpc.values)) \intersect site.mcp.parameters = {}
    BY <1>1, PassesItsChecks, NothingLeftToFillIn
  <2>3. PICK k \in MatchService(op.path, Services) : ServiceOf(op) = Services[k]
    BY <1>1, <2>1, ListedWhereServed DEF Shapes
  <2>4. /\ call.service = Services[k].name
        /\ call.path = RewrittenPath(Substitute(op.path, Rpc.values), Services[k])
    BY <2>3
  <2> HIDE DEF call
  <2> QED
    BY <1>2, <1>3, <2>1, <2>2, <2>3, <2>4 DEF RunsWhatItNames
<1>8. RepliesTellTheOutcome'
  BY <1>2 DEF RepliesTellTheOutcome, Replied
<1> QED
  BY <1>1, <1>3, <1>4, <1>5, <1>6, <1>7, <1>8, SameSent DEF GatewayInv

LEMMA DispatchMcpStep ==
  ASSUME GatewayInv, DispatchMcp
  PROVE  GatewayInv'
<1>1. /\ phase = "rpc" /\ mcp.step = "dispatching" /\ OnlyMoves
      /\ Rpc.body = "message" /\ mcp.invoked = {}
  BY DEF DispatchMcp, GatewayInv, RpcUnderWay
<1>2. \A code : ReplyError(code) => GatewayInv'
  BY <1>1, ErrorKeeps
<1>3. ReplySuccess(<<>>) => GatewayInv'
  <2>1. DOMAIN <<>> = {}
    OBVIOUS
  <2> QED
    BY <1>1, <2>1, SuccessKeeps
<1>4. \A ops : ReplySuccess([operations |-> ops]) => GatewayInv'
  BY <1>1, SuccessKeeps
<1>5. CASE Rpc.method = "tools/list" /\ ListTools
  BY <1>2, <1>4, <1>5 DEF ListTools
<1>6. CASE ReadResource \/ GetPrompt
  BY <1>2, <1>3, <1>6 DEF ReadResource, GetPrompt
<1>7. CASE Rpc.method = "tools/call" /\ HandleToolsCall
  <2>1. CASE \E id \in NamedOperation : \E op \in FindOperation(id) :
               InvocationFailure(op) = "OK" /\ Invoke(op)
    BY <1>1, <1>7, <2>1, InvokeKeeps
  <2> QED
    BY <1>2, <1>4, <1>7, <2>1 DEF HandleToolsCall
<1>8. CASE Notification /\ Accepted
  <2>1. Tells([kind |-> "accepted"])
    BY <1>1, <1>8 DEF Tells
  <2> QED
    BY <1>1, <1>8, <2>1, ReplyKeeps DEF Accepted, Return
<1>9. CASE ~Notification /\ JsonRpcResponse(RpcError(Rpc.id, "MethodNotFound"))
  <2>1. Tells(RpcError(Rpc.id, "MethodNotFound"))
    BY <1>1, <1>9 DEF Tells, RpcError
  <2> QED
    BY <1>1, <1>9, <2>1, ReplyKeeps DEF JsonRpcResponse, Return
<1> QED
  BY <1>3, <1>5, <1>6, <1>7, <1>8, <1>9 DEF DispatchMcp

LEMMA InvocationReturnsStep ==
  ASSUME GatewayInv, InvocationReturns
  PROVE  GatewayInv'
<1>1. /\ phase = "rpc" /\ OnlyMoves /\ Rpc.body = "message" /\ mcp.invoked # {}
  BY DEF InvocationReturns, GatewayInv, RpcUnderWay
<1>2. CASE ReplyError("INTERNAL_ERROR")
  <2>1. McpErrorCode("INTERNAL_ERROR") = "InternalError"
    BY DEF McpErrorCode, StatusOf
  <2> QED
    BY <1>1, <1>2, <2>1, ErrorKeeps
<1>3. ASSUME NEW status \in {200, 404, 503},
             ReplySuccess([status |-> status, isError |-> IsError(status)])
      PROVE  GatewayInv'
  BY <1>1, <1>3, SuccessKeeps DEF IsError
<1> QED
  BY <1>2, <1>3 DEF InvocationReturns

-----------------------------------------------------------------------------
(* The invariant holds. *)

LEMMA StartsInvariant ==
  ASSUME McpInit
  PROVE  GatewayInv
<1>1. /\ gateway \in DOMAIN Sites /\ request \in Incoming /\ ctx.auth = NoAuth
      /\ DOMAIN ctx = {"requestId", "auth", "matched", "kind", "session", "counted"}
      /\ DOMAIN mcp = {"step", "invoked", "reply"}
      /\ pos = 1 /\ phase = "down" /\ sent = {} /\ mcp.step = "none" /\ mcp.invoked = {}
  BY DEF McpInit, ChainInit
<1>2. Len(site.chain) \in Nat
  BY <1>1, SitesAssumption DEF site
<1>3. Shapes /\ OnTheWayDown /\ RpcUnderWay
  BY <1>1, <1>2 DEF Shapes, OnTheWayDown, RpcUnderWay, CallerKnown
<1>4. RefusedUnlessEntitled /\ CachedPerUser
  BY <1>1 DEF RefusedUnlessEntitled, AuthenticatedOrRefused, GateClosesMount, CachedPerUser
<1>5. ActsForItsCaller /\ RunsWhatItNames /\ RepliesTellTheOutcome
  BY <1>1 DEF ActsForItsCaller, RunsWhatItNames, RepliesTellTheOutcome, Replied
<1> QED
  BY <1>1, <1>3, <1>4, <1>5 DEF GatewayInv

LEMMA StepKeepsInvariant ==
  ASSUME GatewayInv, [McpNext]_mcpVars
  PROVE  GatewayInv'
<1>1. CASE McpNext
  BY <1>1, ChainStep, MountMcpStep, ParseStep, DispatchMcpStep, InvocationReturnsStep
     DEF McpNext
<1>2. CASE UNCHANGED mcpVars
  <2>1. UNCHANGED <<gateway, request, ctx, pos, phase, sent, mcp>>
    BY <1>2 DEF mcpVars, chainVars
  <2>2. /\ site' = site /\ Rpc' = Rpc /\ \A m : LetsThrough(m)' <=> LetsThrough(m)
        /\ \A auth : CallerKnown(auth)' <=> CallerKnown(auth)
        /\ \A auth : ActsFor(auth)' <=> ActsFor(auth)
    BY <2>1, SameSite
  <2>3. Shapes' /\ RpcUnderWay'
    BY <2>1, <2>2 DEF GatewayInv, Shapes, RpcUnderWay
  <2>4. OnTheWayDown'
    BY <2>1, <2>2 DEF GatewayInv, OnTheWayDown, CallerKnown
  <2>5. (phase = "rpc" => ActsFor(ctx.auth))'
    BY <2>1, <2>2 DEF GatewayInv, ActsFor
  <2> QED
    BY <2>1, <2>3, <2>4, <2>5, SameSent, SameCall DEF GatewayInv
<1> QED
  BY <1>1, <1>2

THEOREM GatewayInvariant == McpSpec => []GatewayInv
<1>1. McpInit => GatewayInv
  BY StartsInvariant
<1>2. GatewayInv /\ [McpNext]_mcpVars => GatewayInv'
  BY StepKeepsInvariant
<1> QED
  BY <1>1, <1>2, PTL DEF McpSpec

-----------------------------------------------------------------------------
(* Theorems. *)

\* Whatever the chain, a service that requires authentication is sent only
\* requests with an identity, and that identity is entirely one credential's; a
\* bad token or key that a middleware of the chain reads is never ignored; and a
\* closed gate closes every mount at or below it (jwtAuth, apiKeyAuth, the
\* gates, authorizeForService and dispatch).
THEOREM EntitledOnly == McpSpec => []RefusedUnlessEntitled
<1>1. GatewayInv => RefusedUnlessEntitled
  BY DEF GatewayInv
<1> QED
  BY <1>1, GatewayInvariant, PTL

\* A cache policy that keys by user keys every service's answers by the user
\* the service was told of (mergeCachePolicy, resolveCachePolicy).
THEOREM CachesByUser == McpSpec => []CachedPerUser
<1>1. GatewayInv => CachedPerUser
  BY DEF GatewayInv
<1> QED
  BY <1>1, GatewayInvariant, PTL

\* A tool call behind the OAuth guard runs as the subject of a token with the
\* scopes that the guard requires; without a guard as the caller that the
\* middlewares above the endpoint have established (mergeMcpOAuthAuth).
THEOREM ToolCallsActForTheCaller == McpSpec => []ActsForItsCaller
<1>1. GatewayInv => ActsForItsCaller
  BY DEF GatewayInv
<1> QED
  BY <1>1, GatewayInvariant, PTL

\* A tool call reaches the one operation that it names, at the service and under
\* the path that HTTP routing gives it (findOperation, matchMount, substitutePath).
THEOREM ToolCallsRunWhatTheyName == McpSpec => []RunsWhatItNames
<1>1. GatewayInv => RunsWhatItNames
  BY DEF GatewayInv
<1> QED
  BY <1>1, GatewayInvariant, PTL

\* A reply tells a client whether a service was called and whether it refused
\* (handleMcpRequest, toMcpError and the result of handleToolsCall).
THEOREM RepliesAreTruthful == McpSpec => []RepliesTellTheOutcome
<1>1. GatewayInv => RepliesTellTheOutcome
  BY DEF GatewayInv
<1> QED
  BY <1>1, GatewayInvariant, PTL

-----------------------------------------------------------------------------
(* The way back: the invariant of answers and records.                       *)

AnswerFields == {"status", "from", "id", "errorId", "cors", "session", "policy",
                 "deprecated", "rebuilt"}

Placed ==
  /\ gateway \in DOMAIN Sites /\ DOMAIN answer = AnswerFields
  /\ DOMAIN ctx = {"requestId", "auth", "matched", "kind", "session", "counted"}
  /\ phase \in {"down", "rpc", "sent", "up", "thrown", "done"}
  /\ pos \in 0 .. Len(site.chain) + 1
  /\ phase = "down" => pos >= 1
  /\ phase = "rpc" => At(pos, "mcp")
  /\ phase = "sent" => pos = Len(site.chain) + 1
  /\ phase \in {"up", "thrown"} => pos <= Len(site.chain)
  /\ phase = "done" => pos = 0

NothingYet ==
  /\ phase \in {"down", "rpc"} => records = {} /\ sent = {}
  /\ phase \in {"down", "rpc", "sent"} => answer = Respond(0, "none")

OneId ==
  /\ ctx.requestId # "none"
  /\ \A r \in records \union sent : r.id = ctx.requestId
  /\ answer.errorId \in {"none", ctx.requestId}
  /\ answer.id \in {"none", "service's", ctx.requestId}
  /\ phase \in {"up", "done"} /\ pos = 0 /\ At(1, "requestId") /\ ~Passthrough(answer) =>
       answer.id # "none"

OneUser ==
  /\ \A r \in records : r.user = ctx.auth.user
  /\ \A f \in sent : f.auth = ctx.auth

\* An error stays below the jsonErrors() that catches it.
Caught == phase = "thrown" => \A j \in Catchers : pos >= j

TelemetryOutside ==
  \A i \in DOMAIN site.chain :
    site.chain[i] = "telemetry" => i \in MountedOutside("telemetry")

\* A reported status has become final.
Reported ==
  \A r \in records :
    /\ r.by = "inspector" => phase = "done" /\ r.status = answer.status
    /\ r.by = "telemetry" /\ TelemetryOutside =>
         phase \in {"up", "done"} /\ r.status = answer.status /\ \E j \in Catchers : pos < j

\* The answer has the headers of every cors() that it has passed.
Readable ==
  \A i \in MountedOutside("cors") :
    phase \in {"up", "done"} /\ pos < i /\ AllowsOrigin /\ ~Passthrough(answer) => answer.cors

Untouched ==
  ~Uses("doLimit") =>
    (answer.status = 101 \/ (ctx.kind = "web" /\ answer.from = "service")
       => ~answer.rebuilt)

AnswerInv ==
  /\ Placed /\ NothingYet /\ OneId /\ OneUser
  /\ Caught /\ Reported /\ Readable /\ Untouched

LEMMA SameChain ==
  ASSUME UNCHANGED <<gateway, request>>
  PROVE  /\ UNCHANGED <<site, Catchers, AllowsOrigin>>
         /\ \A m : MountedOutside(m)' = MountedOutside(m)
         /\ \A m : Uses(m)' <=> Uses(m)
         /\ \A i, m : At(i, m)' <=> At(i, m)
         /\ TelemetryOutside' <=> TelemetryOutside
<1>1. UNCHANGED <<site, AllowsOrigin>>
  BY DEF site, AllowsOrigin
<1>2. UNCHANGED Catchers
  BY <1>1 DEF Catchers, NeverThrows
<1>3. \A m : MountedOutside(m)' = MountedOutside(m)
  BY <1>1, <1>2 DEF MountedOutside
<1>4. TelemetryOutside' <=> TelemetryOutside
  BY <1>1, <1>3 DEF TelemetryOutside
<1> QED
  BY <1>1, <1>2, <1>3, <1>4 DEF Uses, At

LEMMA ChainLength ==
  ASSUME gateway \in DOMAIN Sites
  PROVE  Len(site.chain) \in Nat /\ DOMAIN site.chain = 1 .. Len(site.chain)
BY SitesAssumption DEF site

\* What throws, or answers a request itself, is below every catching jsonErrors().
LEMMA BelowCatchers ==
  ASSUME gateway \in DOMAIN Sites, pos \in Nat,
         \/ pos = Len(site.chain) + 1
         \/ pos \in DOMAIN site.chain /\ ~NeverThrows(site.chain[pos])
  PROVE  \A j \in Catchers : pos >= j
BY ChainLength DEF Catchers

\* A request that goes on down the chain leaves no trace in answer and records.
LEMMA DownKeepsAnswers ==
  ASSUME AnswerInv, UNCHANGED <<gateway, request, answer, records, sent>>,
         phase = "down", pos \in DOMAIN site.chain,
         \/ phase' = "down" /\ pos' = pos + 1
         \/ phase' = "rpc" /\ pos' = pos /\ site.chain[pos] = "mcp",
         DOMAIN ctx' = DOMAIN ctx, ctx'.requestId # "none"
  PROVE  AnswerInv'
<1>1. UNCHANGED <<site, Catchers>> /\ \A i, m : At(i, m)' <=> At(i, m)
  BY SameChain
<1>2. records = {} /\ sent = {} /\ answer = Respond(0, "none")
  BY DEF AnswerInv, NothingYet
<1>3. Placed'
  BY <1>1, ChainLength DEF AnswerInv, Placed, At
<1>4. NothingYet' /\ OneUser' /\ Caught' /\ Reported' /\ Readable'
  BY <1>1, <1>2 DEF NothingYet, OneUser, Caught, Reported, Readable, Respond
<1>5. OneId'
  BY <1>1, <1>2 DEF OneId, Respond
<1>6. Untouched'
  BY <1>2 DEF Untouched, Respond
<1> QED
  BY <1>3, <1>4, <1>5, <1>6 DEF AnswerInv

\* A new answer, from whoever gives it or from jsonErrors().
LEMMA AnswersKeep ==
  ASSUME AnswerInv, UNCHANGED <<gateway, request, ctx, records, sent>>,
         phase \in {"down", "rpc", "sent", "thrown"}, phase' = "up",
         pos' = pos - 1, pos >= 1, ~At(pos, "requestId"),
         \/ \A j \in Catchers : pos >= j
         \/ At(pos, "cors") /\ (AllowsOrigin => answer'.cors),
         DOMAIN answer' = AnswerFields, answer'.errorId \in {"none", ctx.requestId},
         answer'.id \in {"none", "service's"}, Untouched'
  PROVE  AnswerInv'
<1>1. /\ UNCHANGED <<site, Catchers, AllowsOrigin>>
      /\ \A m : MountedOutside(m)' = MountedOutside(m)
      /\ \A i, m : At(i, m)' <=> At(i, m)
      /\ TelemetryOutside' <=> TelemetryOutside
  BY SameChain
<1>2. Placed /\ Len(site.chain) \in Nat /\ DOMAIN site.chain = 1 .. Len(site.chain)
  BY ChainLength DEF AnswerInv, Placed
<1>3. Placed' /\ NothingYet' /\ OneUser' /\ Caught'
  BY <1>1, <1>2 DEF AnswerInv, Placed, NothingYet, OneUser, Caught
<1>4. OneId'
  BY <1>1, <1>2 DEF AnswerInv, Placed, OneId
<1>5. Reported'
  BY <1>1 DEF AnswerInv, Reported
<1>6. Readable'
  <2> SUFFICES ASSUME NEW i \in MountedOutside("cors"), pos - 1 < i, AllowsOrigin
               PROVE  answer'.cors
    BY <1>1 DEF Readable
  <2>1. PICK j \in Catchers : i < j
    BY DEF MountedOutside
  <2>2. i \in Nat /\ j \in Nat /\ pos \in Nat
    BY <1>2 DEF MountedOutside, Catchers, Placed
  <2> QED
    BY <2>1, <2>2
<1> QED
  BY <1>3, <1>4, <1>5, <1>6 DEF AnswerInv

\* An error, of this middleware or of one below it.
LEMMA ThrowsKeep ==
  ASSUME AnswerInv, UNCHANGED <<gateway, request, answer, sent>>,
         phase \in {"down", "sent", "up", "thrown"}, phase' = "thrown",
         pos' = pos - 1, pos >= 1, \A j \in Catchers : pos > j,
         DOMAIN ctx' = DOMAIN ctx, ctx'.requestId = ctx.requestId, ctx'.auth = ctx.auth,
         ctx'.kind = ctx.kind \/ phase = "down",
         \A r \in records' : \/ r \in records
                             \/ /\ r.id = ctx.requestId /\ r.user = ctx.auth.user
                                /\ r.by # "inspector"
                                /\ r.by = "telemetry" => ~TelemetryOutside
  PROVE  AnswerInv'
<1>1. /\ UNCHANGED <<site, Catchers>>
      /\ \A m : Uses(m)' <=> Uses(m)
      /\ TelemetryOutside' <=> TelemetryOutside
  BY SameChain
<1>2. Placed /\ Len(site.chain) \in Nat /\ DOMAIN site.chain = 1 .. Len(site.chain)
  BY ChainLength DEF AnswerInv, Placed
<1>3. \A j \in Catchers : j \in Nat
  BY <1>2 DEF Catchers
<1>4. Placed' /\ NothingYet' /\ Caught'
  BY <1>1, <1>2, <1>3 DEF AnswerInv, Placed, NothingYet, Caught
<1>5. OneId' /\ OneUser'
  BY DEF AnswerInv, OneId, OneUser
<1>6. Reported'
  <2> SUFFICES ASSUME NEW r \in records, r.by = "telemetry" /\ TelemetryOutside
               PROVE  FALSE
    BY <1>1 DEF AnswerInv, Reported
  <2>1. PICK j \in Catchers : pos < j
    BY DEF AnswerInv, Reported
  <2> QED
    BY <1>2, <1>3, <2>1 DEF Placed
<1>7. Readable'
  BY DEF Readable
<1>8. Untouched'
  BY <1>1 DEF AnswerInv, Untouched, NothingYet, Respond
<1> QED
  BY <1>4, <1>5, <1>6, <1>7, <1>8 DEF AnswerInv

\* What a middleware may do to an answer of one below it.
Keeps(old, new) ==
  /\ DOMAIN new = AnswerFields
  /\ new.status = old.status /\ new.from = old.from /\ new.errorId = old.errorId
  /\ new.id \in {old.id, ctx.requestId}
  /\ At(pos, "requestId") /\ ~Passthrough(old) => new.id # "none"
  /\ old.cors => new.cors
  /\ At(pos, "cors") /\ AllowsOrigin /\ ~Passthrough(old) => new.cors
  /\ new.rebuilt => old.rebuilt \/ ~Passthrough(old) \/ At(pos, "doLimit")

LEMMA ReturnsKeep ==
  ASSUME AnswerInv, UNCHANGED <<gateway, request, ctx, sent>>,
         phase = "up", phase' = "up", pos' = pos - 1, pos \in DOMAIN site.chain,
         Keeps(answer, answer'),
         \A r \in records' : \/ r \in records
                             \/ /\ r.id = ctx.requestId /\ r.user = ctx.auth.user
                                /\ r.by # "inspector"
                                /\ r.by = "telemetry" =>
                                     r.status = answer.status /\ At(pos, "telemetry")
  PROVE  AnswerInv'
<1>1. /\ UNCHANGED <<site, Catchers, AllowsOrigin>>
      /\ \A m : MountedOutside(m)' = MountedOutside(m)
      /\ \A m : Uses(m)' <=> Uses(m)
      /\ \A i, m : At(i, m)' <=> At(i, m)
      /\ TelemetryOutside' <=> TelemetryOutside
  BY SameChain
<1>2. Placed /\ Len(site.chain) \in Nat /\ DOMAIN site.chain = 1 .. Len(site.chain)
  BY ChainLength DEF AnswerInv, Placed
<1>3. \A j \in Catchers : j \in Nat
  BY <1>2 DEF Catchers
<1>4. Passthrough(answer)' <=> Passthrough(answer)
  BY DEF Passthrough, Keeps
<1>5. Placed' /\ NothingYet' /\ Caught' /\ OneUser'
  BY <1>1, <1>2 DEF AnswerInv, Placed, NothingYet, Caught, OneUser, Keeps
<1>6. OneId'
  <2>1. /\ answer'.errorId \in {"none", ctx.requestId}
        /\ answer'.id \in {"none", "service's", ctx.requestId}
        /\ \A r \in records' \union sent : r.id = ctx.requestId
    BY DEF AnswerInv, OneId, Keeps
  <2>2. ASSUME pos - 1 = 0, At(1, "requestId"), ~Passthrough(answer)
        PROVE  answer'.id # "none"
    BY <1>2, <2>2 DEF Keeps
  <2> QED
    BY <1>1, <1>4, <2>1, <2>2 DEF AnswerInv, OneId
<1>7. Reported'
  <2> SUFFICES ASSUME NEW r \in records', r.by = "telemetry", TelemetryOutside
               PROVE  r.status = answer.status /\ \E j \in Catchers : pos - 1 < j
    BY <1>1 DEF AnswerInv, Reported, Keeps
  <2>1. r.status = answer.status /\ \E j \in Catchers : pos < j
    BY DEF AnswerInv, Reported, TelemetryOutside, MountedOutside, At
  <2> QED
    BY <1>2, <1>3, <2>1
<1>8. Readable'
  <2> SUFFICES ASSUME NEW i \in MountedOutside("cors"), pos - 1 < i, AllowsOrigin,
                      ~Passthrough(answer)
               PROVE  answer'.cors
    BY <1>1, <1>4 DEF Readable
  <2>1. i \in Nat /\ site.chain[i] = "cors"
    BY <1>2 DEF MountedOutside
  <2>2. CASE pos = i
    BY <2>1, <2>2 DEF Keeps, At
  <2>3. CASE pos < i
    BY <2>3 DEF AnswerInv, Readable, Keeps
  <2> QED
    BY <1>2, <2>1, <2>2, <2>3
<1>9. Untouched'
  BY <1>1 DEF AnswerInv, Untouched, Keeps, Passthrough, Uses, At, ToSet
<1> QED
  BY <1>5, <1>6, <1>7, <1>8, <1>9 DEF AnswerInv

\* A middleware that calls next(), fails, or returns what next() returned.
LEMMA ErrorPasses ==
  ASSUME AnswerInv, phase = "thrown", pos \in DOMAIN site.chain,
         site.chain[pos] # "jsonErrors"
  PROVE  pos >= 1 /\ \A j \in Catchers : pos > j
BY ChainLength DEF AnswerInv, Placed, Caught, Catchers

LEMMA ThrowsItself ==
  ASSUME AnswerInv, pos \in DOMAIN site.chain, ~NeverThrows(site.chain[pos]),
         site.chain[pos] # "jsonErrors"
  PROVE  pos >= 1 /\ \A j \in Catchers : pos > j
BY BelowCatchers, ChainLength DEF AnswerInv, Placed, Catchers

LEMMA AnswerIntact ==
  ASSUME AnswerInv, ~At(pos, "requestId"), ~At(pos, "cors")
  PROVE  Keeps(answer, answer)
BY DEF AnswerInv, Placed, Keeps

LEMMA RecordersKeepAnswers ==
  ASSUME AnswerInv, JsonErrors \/ Logger \/ Telemetry
  PROVE  AnswerInv'
<1>0. /\ UNCHANGED <<gateway, request, ctx, sent>>
      /\ pos \in DOMAIN site.chain
      /\ site.chain[pos] \in {"jsonErrors", "logger", "telemetry"}
      /\ gateway \in DOMAIN Sites /\ pos \in Nat /\ pos >= 1
      /\ DOMAIN answer = AnswerFields /\ ctx.requestId # "none"
  <2>1. /\ gateway \in DOMAIN Sites /\ DOMAIN answer = AnswerFields /\ ctx.requestId # "none"
    BY DEF AnswerInv, Placed, OneId
  <2>2. /\ UNCHANGED <<gateway, request, ctx, sent>>
        /\ pos \in DOMAIN site.chain
        /\ site.chain[pos] \in {"jsonErrors", "logger", "telemetry"}
    BY DEF JsonErrors, Logger, Telemetry, OnlyMoves, Fixed, Entering, Returning, Failing, At
  <2> QED
    BY <2>1, <2>2, ChainLength
<1>1. CASE phase = "down"
  BY <1>0, <1>1, DownKeepsAnswers
     DEF JsonErrors, Logger, Telemetry, CallNext, OnlyMoves, Entering, Returning, Failing, At
<1>2. CASE phase = "up"
  <2>1. Keeps(answer, answer)
    BY <1>0, AnswerIntact DEF At
  <2>2. CASE phase' = "up"
    BY <1>0, <1>2, <2>1, <2>2, ReturnsKeep
       DEF JsonErrors, Logger, Telemetry, WriteTelemetry, Return, Throw, OnlyMoves,
           Entering, Returning, Failing, At, Report
  <2>3. CASE phase' # "up"
    <3>1. /\ site.chain[pos] = "telemetry" /\ ~site.exports
          /\ phase' = "thrown" /\ pos' = pos - 1 /\ UNCHANGED <<answer, records>>
      BY <1>0, <1>2, <2>3
         DEF JsonErrors, Logger, Telemetry, WriteTelemetry, Return, Throw, OnlyMoves,
             Entering, Returning, Failing, At
    <3>2. \A j \in Catchers : pos > j
      BY <1>0, <3>1, ThrowsItself DEF NeverThrows
    <3> QED
      BY <1>0, <1>2, <3>1, <3>2, ThrowsKeep
  <2> QED
    BY <2>2, <2>3
<1>3. CASE phase = "thrown" /\ JsonErrors
  <2>1. /\ phase' = "up" /\ pos' = pos - 1 /\ answer' = ErrorAnswer(error)
        /\ UNCHANGED records /\ At(pos, "jsonErrors")
    BY <1>3 DEF JsonErrors, Return, OnlyMoves, Entering, Returning, Failing
  <2>2. /\ DOMAIN answer' = AnswerFields /\ answer'.errorId = ctx.requestId
        /\ answer'.id = "none" /\ answer'.rebuilt = FALSE
    BY <2>1 DEF ErrorAnswer, Respond, AnswerFields
  <2>3. \A j \in Catchers : pos >= j
    BY <1>3 DEF AnswerInv, Caught
  <2> QED
    BY <1>0, <1>3, <2>1, <2>2, <2>3, AnswersKeep DEF Untouched, At
<1>4. CASE phase = "thrown" /\ ~JsonErrors
  <2>1. site.chain[pos] # "jsonErrors"
    BY <1>4 DEF Logger, Telemetry, Entering, Returning, Failing, At
  <2>2. \A j \in Catchers : pos > j
    BY <1>0, <1>4, <2>1, ErrorPasses
  <2>3. At(pos, "telemetry") => ~TelemetryOutside
    <3> SUFFICES ASSUME At(pos, "telemetry"), TelemetryOutside PROVE FALSE
      OBVIOUS
    <3>1. PICK j \in Catchers : pos < j
      BY DEF TelemetryOutside, MountedOutside, At
    <3>2. j \in Nat
      BY <1>0, ChainLength DEF Catchers
    <3> QED
      BY <1>0, <2>2, <3>1, <3>2
  <2>4. /\ phase' = "thrown" /\ pos' = pos - 1 /\ UNCHANGED answer
        /\ \A r \in records' : \/ r \in records
                               \/ /\ r.id = ctx.requestId /\ r.user = ctx.auth.user
                                  /\ r.by # "inspector"
                                  /\ r.by = "telemetry" => At(pos, "telemetry")
    <3>1. CASE Logger
      <4>1. Throw(error) /\ records' = records \union {Report("error log", 0)}
        BY <1>4, <3>1 DEF Logger, Entering, Returning, Failing
      <4>2. \A r \in records' : r \in records \/ r = Report("error log", 0)
        BY <4>1
      <4>3. /\ Report("error log", 0).id = ctx.requestId
            /\ Report("error log", 0).user = ctx.auth.user
            /\ Report("error log", 0).by = "error log"
        BY DEF Report
      <4>4. "error log" \notin {"inspector", "telemetry"}
        OBVIOUS
      <4> QED
        BY <4>1, <4>2, <4>3, <4>4 DEF Throw
    <3>2. CASE Telemetry
      <4>1. At(pos, "telemetry") /\ WriteTelemetry(500, Throw(error))
        BY <1>4, <3>2 DEF Telemetry, Entering, Returning, Failing
      <4> QED
        BY <4>1 DEF WriteTelemetry, Throw, Report
    <3> QED
      BY <1>4, <3>1, <3>2
  <2> QED
    BY <1>0, <1>4, <2>2, <2>3, <2>4, ThrowsKeep
<1>5. phase \in {"down", "up", "thrown"}
  BY DEF JsonErrors, Logger, Telemetry, Entering, Returning, Failing
<1> QED
  BY <1>1, <1>2, <1>3, <1>4, <1>5

\* The middlewares that only look at a request before they call next(), or
\* change nothing but headers of an answer.
LEMMA HeadersKeepAnswers ==
  ASSUME AnswerInv, RequestId \/ Cors \/ SessionHeader
  PROVE  AnswerInv'
<1>0. /\ UNCHANGED <<gateway, request, records, sent>>
      /\ pos \in DOMAIN site.chain /\ phase \in {"down", "up"}
      /\ site.chain[pos] \in {"requestId", "cors", "session"}
      /\ gateway \in DOMAIN Sites
      /\ DOMAIN answer = AnswerFields /\ ctx.requestId # "none"
      /\ DOMAIN ctx = {"requestId", "auth", "matched", "kind", "session", "counted"}
  <2>1. /\ gateway \in DOMAIN Sites /\ DOMAIN answer = AnswerFields /\ ctx.requestId # "none"
        /\ DOMAIN ctx = {"requestId", "auth", "matched", "kind", "session", "counted"}
    BY DEF AnswerInv, Placed, OneId
  <2>2. /\ UNCHANGED <<gateway, request, records, sent>>
        /\ pos \in DOMAIN site.chain /\ phase \in {"down", "up"}
        /\ site.chain[pos] \in {"requestId", "cors", "session"}
    BY DEF RequestId, Cors, SessionHeader, OnlyMoves, Fixed, Entering, Returning, At
  <2> QED
    BY <2>1, <2>2
<1>1. CASE RequestId /\ phase = "down"
  <2>1. /\ CallNext
        /\ ctx' = [ctx EXCEPT !.requestId =
                     IF request.id = "valid" THEN "client's" ELSE "middleware's"]
    BY <1>1 DEF RequestId, Entering, Returning
  <2>2. DOMAIN ctx' = DOMAIN ctx /\ ctx'.requestId \in {"client's", "middleware's"}
    BY <1>0, <2>1
  <2> QED
    BY <1>0, <1>1, <2>1, <2>2, DownKeepsAnswers DEF CallNext
<1>2. CASE RequestId /\ phase = "up"
  <2> DEFINE new == IF Passthrough(answer) \/ answer.id # "none" THEN answer
                    ELSE [Rebuilt(answer) EXCEPT !.id = ctx.requestId]
  <2>1. Return(new) /\ UNCHANGED ctx /\ At(pos, "requestId")
    BY <1>2 DEF RequestId, OnlyMoves, Entering, Returning
  <2>2. Keeps(answer, new)
    BY <1>0, <2>1 DEF Keeps, Rebuilt, At, AnswerFields
  <2> HIDE DEF new
  <2> QED
    BY <1>0, <1>2, <2>1, <2>2, ReturnsKeep DEF Return
<1>3. CASE Cors /\ phase = "down" /\ phase' = "down"
  BY <1>0, <1>3, DownKeepsAnswers DEF Cors, CallNext, Return, OnlyMoves, Entering, Returning
<1>4. CASE Cors /\ phase = "down" /\ phase' # "down"
  <2> DEFINE new == [Respond(204, "preflight") EXCEPT !.cors = AllowsOrigin]
  <2>1. Return(new) /\ UNCHANGED ctx /\ At(pos, "cors")
    BY <1>4 DEF Cors, CallNext, OnlyMoves, Entering, Returning
  <2>2. /\ DOMAIN new = AnswerFields /\ new.errorId = "none" /\ new.id = "none"
        /\ new.rebuilt = FALSE /\ new.cors = AllowsOrigin
    BY DEF Respond, AnswerFields
  <2> HIDE DEF new
  <2>3. ~At(pos, "requestId") /\ pos >= 1
    BY <2>1, <1>0, ChainLength DEF At
  <2> QED
    BY <1>0, <1>4, <2>1, <2>2, <2>3, AnswersKeep DEF Return, Untouched
<1>5. CASE Cors /\ phase = "up"
  <2> DEFINE new == IF Passthrough(answer) \/ ~AllowsOrigin THEN answer
                    ELSE [Rebuilt(answer) EXCEPT !.cors = TRUE]
  <2>1. Return(new) /\ UNCHANGED ctx /\ At(pos, "cors")
    BY <1>5 DEF Cors, OnlyMoves, Entering, Returning
  <2>2. Keeps(answer, new)
    BY <1>0, <2>1 DEF Keeps, Rebuilt, At, AnswerFields
  <2> HIDE DEF new
  <2> QED
    BY <1>0, <1>5, <2>1, <2>2, ReturnsKeep DEF Return
<1>6. CASE SessionHeader /\ phase = "down"
  <2>1. CallNext /\ ctx' = [ctx EXCEPT !.session = SessionKey(ctx.auth)]
    BY <1>6 DEF SessionHeader, Entering, Returning
  <2>2. DOMAIN ctx' = DOMAIN ctx /\ ctx'.requestId = ctx.requestId
    BY <1>0, <2>1
  <2> QED
    BY <1>0, <1>6, <2>1, <2>2, DownKeepsAnswers DEF CallNext
<1>7. CASE SessionHeader /\ phase = "up"
  <2> DEFINE new == IF ctx.session = "none" \/ answer.session # "none" \/ Passthrough(answer)
                    THEN answer ELSE [Rebuilt(answer) EXCEPT !.session = ctx.session]
  <2>1. Return(new) /\ UNCHANGED ctx /\ At(pos, "session")
    BY <1>7 DEF SessionHeader, OnlyMoves, Entering, Returning
  <2>2. Keeps(answer, new)
    BY <1>0, <2>1 DEF Keeps, Rebuilt, At, AnswerFields
  <2> HIDE DEF new
  <2> QED
    BY <1>0, <1>7, <2>1, <2>2, ReturnsKeep DEF Return
<1> QED
  BY <1>0, <1>1, <1>2, <1>3, <1>4, <1>5, <1>6, <1>7

\* The middlewares that refuse.
LEMMA RefusersKeepAnswers ==
  ASSUME AnswerInv, JwtAuth \/ ApiKeyAuth \/ Mtls \/ FlagsGate \/ CloudflareLimit \/ DurableLimit
  PROVE  AnswerInv'
<1>0. /\ gateway \in DOMAIN Sites /\ DOMAIN answer = AnswerFields /\ ctx.requestId # "none"
      /\ DOMAIN ctx = {"requestId", "auth", "matched", "kind", "session", "counted"}
  BY DEF AnswerInv, Placed, OneId
<1>1. /\ UNCHANGED <<gateway, request, records, sent>>
      /\ pos \in DOMAIN site.chain /\ phase \in {"down", "up"}
      /\ site.chain[pos] \in {"jwt", "apiKey", "mtls", "flags", "cfLimit", "doLimit"}
  BY DEF JwtAuth, ApiKeyAuth, Mtls, FlagsGate, CloudflareLimit, DurableLimit, OnlyMoves, Fixed,
         Entering, Returning, At
<1>2. pos >= 1 /\ \A j \in Catchers : pos > j
  BY <1>1, ThrowsItself DEF NeverThrows
<1>3. CASE phase = "down"
  <2>1. /\ \/ phase' = "down" /\ pos' = pos + 1
           \/ phase' = "thrown" /\ pos' = pos - 1 /\ ctx'.auth = ctx.auth
        /\ UNCHANGED answer /\ DOMAIN ctx' = DOMAIN ctx /\ ctx'.requestId = ctx.requestId
    <3>1. CASE JwtAuth
      <4>1. \/ CallNext /\ \E auth : ctx' = [ctx EXCEPT !.auth = auth]
            \/ CallNext /\ UNCHANGED ctx
            \/ (\E code : Throw(code)) /\ UNCHANGED ctx
        BY <3>1 DEF JwtAuth, CallNextIf
      <4> QED
        BY <1>0, <1>3, <4>1 DEF CallNext, Throw
    <3>2. CASE ApiKeyAuth
      <4>1. \/ CallNext /\ \E auth : ctx' = [ctx EXCEPT !.auth = auth]
            \/ CallNext /\ UNCHANGED ctx
            \/ (\E code : Throw(code)) /\ UNCHANGED ctx
        BY <3>2 DEF ApiKeyAuth, CallNextIf
      <4> QED
        BY <1>0, <1>3, <4>1 DEF CallNext, Throw
    <3>3. CASE Mtls \/ FlagsGate \/ DurableLimit
      BY <1>3, <3>3 DEF Mtls, FlagsGate, DurableLimit, OnlyMoves, CallNextIf, CallNext, Throw,
                        Returning
    <3>4. CASE CloudflareLimit
      <4>1. /\ \E counted : ctx' = [ctx EXCEPT !.counted = counted]
            /\ CallNext \/ \E code : Throw(code)
        BY <1>3, <3>4 DEF CloudflareLimit, CallNextIf, Entering, Returning
      <4> QED
        BY <1>0, <1>3, <4>1 DEF CallNext, Throw
    <3> QED
      BY <1>3, <3>1, <3>2, <3>3, <3>4
  <2>2. CASE phase' = "down"
    BY <1>0, <1>1, <1>3, <2>1, <2>2, DownKeepsAnswers
  <2>3. CASE phase' = "thrown"
    BY <1>1, <1>2, <1>3, <2>1, <2>3, ThrowsKeep
  <2> QED
    BY <2>1, <2>2, <2>3
<1>4. CASE phase = "up" /\ CloudflareLimit
  <2> DEFINE new == IF Passthrough(answer) \/ ~ctx.counted THEN answer
                    ELSE [Rebuilt(answer) EXCEPT !.policy = TRUE]
  <2>1. Return(new) /\ UNCHANGED ctx /\ At(pos, "cfLimit")
    BY <1>4 DEF CloudflareLimit, OnlyMoves, Entering, Returning
  <2>2. Keeps(answer, new)
    BY <1>0, <2>1 DEF Keeps, Rebuilt, At, AnswerFields
  <2> HIDE DEF new
  <2> QED
    BY <1>1, <1>4, <2>1, <2>2, ReturnsKeep DEF Return
<1>5. CASE phase = "up" /\ DurableLimit
  <2> DEFINE new == [Rebuilt(answer) EXCEPT !.policy = TRUE]
  <2>1. /\ UNCHANGED ctx /\ At(pos, "doLimit")
        /\ Throw("INTERNAL_ERROR") \/ Return(new)
    BY <1>5 DEF DurableLimit, OnlyMoves, Entering, Returning
  <2>2. Keeps(answer, new)
    BY <1>0, <2>1 DEF Keeps, Rebuilt, At, AnswerFields
  <2> HIDE DEF new
  <2>3. CASE Return(new)
    BY <1>1, <1>5, <2>1, <2>2, <2>3, ReturnsKeep DEF Return
  <2>4. CASE Throw("INTERNAL_ERROR")
    BY <1>1, <1>2, <1>5, <2>1, <2>4, ThrowsKeep DEF Throw
  <2> QED
    BY <2>1, <2>3, <2>4
<1> QED
  BY <1>1, <1>3, <1>4, <1>5 DEF JwtAuth, ApiKeyAuth, Mtls, FlagsGate, Entering

LEMMA PassUpKeepsAnswers ==
  ASSUME AnswerInv, PassUp
  PROVE  AnswerInv'
<1>1. UNCHANGED <<gateway, request, ctx, records, sent>> /\ pos \in DOMAIN site.chain
  BY DEF PassUp, OnlyMoves, Fixed
<1>2. CASE phase = "up"
  <2>1. /\ Return(answer)
        /\ site.chain[pos] \in {"jsonErrors", "jwt", "apiKey", "mtls", "flags", "mcp"}
    BY <1>2 DEF PassUp
  <2>2. Keeps(answer, answer)
    BY <2>1, AnswerIntact DEF At
  <2> QED
    BY <1>1, <1>2, <2>1, <2>2, ReturnsKeep DEF Return
<1>3. CASE phase = "thrown"
  <2>1. Throw(error) /\ site.chain[pos] # "jsonErrors"
    BY <1>3 DEF PassUp
  <2> QED
    BY <1>1, <1>3, <2>1, ErrorPasses, ThrowsKeep DEF Throw
<1> QED
  BY <1>2, <1>3 DEF PassUp

\* An answer of the gateway itself, below every middleware.
LEMMA PlainAnswersKeep ==
  ASSUME AnswerInv, UNCHANGED <<gateway, request, ctx, records, sent>>,
         phase \in {"down", "rpc"}, pos >= 1, ~At(pos, "requestId"),
         \A j \in Catchers : pos >= j,
         NEW status, NEW from, Return(Respond(status, from))
  PROVE  AnswerInv'
<1> DEFINE new == Respond(status, from)
<1>1. /\ DOMAIN new = AnswerFields /\ new.errorId = "none" /\ new.id = "none"
      /\ new.rebuilt = FALSE
  BY DEF Respond, AnswerFields
<1> HIDE DEF new
<1> QED
  BY <1>1, AnswersKeep DEF Return, Untouched, new

LEMMA RouterKeepsAnswers ==
  ASSUME AnswerInv, ServeBuiltIn \/ ServeIndex \/ RedirectToApp
  PROVE  AnswerInv'
<1>1. /\ UNCHANGED <<gateway, request, ctx, records, sent>>
      /\ phase = "down" /\ pos = Len(site.chain) + 1
      /\ Throw("NOT_FOUND") \/ \E status : Return(Respond(status, "gateway"))
  BY DEF ServeBuiltIn, ServeIndex, RedirectToApp, Routing, OnlyMoves, Fixed
<1>2. /\ gateway \in DOMAIN Sites /\ pos \in Nat /\ pos >= 1
      /\ \A i, m : At(i, m) => i \in 1 .. Len(site.chain)
      /\ Len(site.chain) \in Nat
  BY <1>1, ChainLength DEF AnswerInv, Placed, At
<1>3. ~At(pos, "requestId") /\ \A j \in Catchers : pos > j /\ pos >= j
  BY <1>1, <1>2, ChainLength DEF Catchers
<1>4. CASE Throw("NOT_FOUND")
  BY <1>1, <1>2, <1>3, <1>4, ThrowsKeep DEF Throw
<1>5. ASSUME NEW status, Return(Respond(status, "gateway"))
      PROVE  AnswerInv'
  BY <1>1, <1>2, <1>3, <1>5, PlainAnswersKeep
<1> QED
  BY <1>1, <1>4, <1>5

LEMMA DispatchKeepsAnswers ==
  ASSUME AnswerInv, Dispatch
  PROVE  AnswerInv'
<1> DEFINE Sent(service) ==
      [service |-> service.name, id |-> ctx.requestId, auth |-> ctx.auth,
       path |-> RewrittenPath(Path, service), cache |-> ResolveCachePolicy(service)]
<1>1. PICK i \in MatchService(Path, Services) :
        /\ UNCHANGED <<gateway, request, records>>
        /\ phase = "down" /\ pos = Len(site.chain) + 1
        /\ ctx' = [ctx EXCEPT !.matched = Services[i].name, !.kind = Services[i].kind]
        /\ \/ UNCHANGED sent /\ \E code : Throw(code)
           \/ /\ phase' = "sent" /\ UNCHANGED <<pos, answer>>
              /\ sent' = {Sent(Services[i])}
  BY DEF Dispatch, Routing, Fixed
<1>2. /\ gateway \in DOMAIN Sites /\ pos \in Nat /\ pos >= 1 /\ Len(site.chain) \in Nat
      /\ DOMAIN ctx = {"requestId", "auth", "matched", "kind", "session", "counted"}
  BY <1>1, ChainLength DEF AnswerInv, Placed
<1>3. /\ DOMAIN ctx' = DOMAIN ctx /\ ctx'.requestId = ctx.requestId
      /\ ctx'.auth = ctx.auth
  BY <1>1, <1>2
<1>4. CASE phase' = "thrown"
  <2>1. \A j \in Catchers : pos > j
    BY <1>1, <1>2, ChainLength DEF Catchers
  <2> QED
    BY <1>1, <1>2, <1>3, <1>4, <2>1, ThrowsKeep DEF Throw
<1>5. CASE phase' = "sent"
  <2>1. /\ UNCHANGED <<pos, answer>>
        /\ \A f \in sent' : f.id = ctx.requestId /\ f.auth = ctx.auth
    <3>1. UNCHANGED <<pos, answer>> /\ sent' = {Sent(Services[i])}
      BY <1>1, <1>5 DEF Throw
    <3> QED
      BY <3>1
  <2>2. records = {} /\ answer = Respond(0, "none")
    BY <1>1 DEF AnswerInv, NothingYet
  <2>3. site' = site
    BY <1>1 DEF site
  <2>4. Placed' /\ NothingYet' /\ Caught' /\ Readable'
    BY <1>1, <1>2, <1>3, <1>5, <2>1, <2>2, <2>3 DEF AnswerInv, Placed, NothingYet, Caught, Readable
  <2>5. OneId'
    BY <1>1, <1>3, <1>5, <2>1, <2>2 DEF AnswerInv, OneId, Respond
  <2>6. OneUser' /\ Reported'
    BY <1>1, <1>3, <2>1, <2>2 DEF OneUser, Reported
  <2>7. Untouched'
    BY <2>1, <2>2 DEF Untouched, Respond
  <2> QED
    BY <2>4, <2>5, <2>6, <2>7 DEF AnswerInv
<1> QED
  BY <1>1, <1>4, <1>5 DEF Throw

LEMMA ReplyKeepsAnswers ==
  ASSUME AnswerInv, Reply
  PROVE  AnswerInv'
<1>1. /\ UNCHANGED <<gateway, request, ctx, records, sent>>
      /\ phase = "sent" /\ pos = Len(site.chain) + 1
  BY DEF Reply, OnlyMoves, Fixed, AnswerInv, Placed
<1>2. gateway \in DOMAIN Sites /\ pos \in Nat /\ pos >= 1 /\ Len(site.chain) \in Nat
  BY <1>1, ChainLength DEF AnswerInv, Placed
<1>3. ~At(pos, "requestId") /\ \A j \in Catchers : pos > j /\ pos >= j
  BY <1>1, <1>2, ChainLength DEF Catchers, At
<1>4. CASE Throw("INTERNAL_ERROR")
  BY <1>1, <1>2, <1>3, <1>4, ThrowsKeep DEF Throw
<1>5. ASSUME NEW status \in {200, 101}, NEW id \in {"none", "service's"}, NEW service,
             LET reply == [Respond(status, "service") EXCEPT !.id = id]
             IN  Return(IF Passthrough(reply) THEN reply
                        ELSE DeprecationHeaders(Rebuilt(reply), service))
      PROVE  AnswerInv'
  <2> DEFINE reply == [Respond(status, "service") EXCEPT !.id = id]
             new == IF Passthrough(reply) THEN reply
                    ELSE DeprecationHeaders(Rebuilt(reply), service)
  <2>1. /\ DOMAIN reply = AnswerFields /\ reply.errorId = "none" /\ reply.id = id
        /\ reply.rebuilt = FALSE /\ reply.status = status
    BY DEF Respond, AnswerFields
  <2> HIDE DEF reply
  <2>2. /\ DOMAIN new = AnswerFields /\ new.errorId = "none" /\ new.id = id
        /\ new.status = status
        /\ status = 101 \/ ctx.kind = "web" => new.rebuilt = FALSE
    BY <2>1 DEF DeprecationHeaders, Rebuilt, AnswerFields, Passthrough
  <2>3. Return(new)
    BY <1>5 DEF reply
  <2> HIDE DEF new
  <2>4. Untouched'
    BY <1>1, <2>2, <2>3 DEF Untouched, Return
  <2> QED
    BY <1>1, <1>2, <1>3, <2>2, <2>3, <2>4, AnswersKeep DEF Return
<1> QED
  BY <1>4, <1>5 DEF Reply

LEMMA FinishKeepsAnswers ==
  ASSUME AnswerInv, Finish
  PROVE  AnswerInv'
<1>1. /\ UNCHANGED <<gateway, request, ctx, pos, sent>>
      /\ pos = 0 /\ phase' = "done" /\ phase \in {"up", "thrown"}
      /\ records' = records \union {Report("inspector", answer'.status)}
  BY DEF Finish, Fixed, InspectedStatus, UncaughtAnswer, ErrorAnswer, Respond
<1>2. /\ UNCHANGED <<site, Catchers, AllowsOrigin>>
      /\ \A m : MountedOutside(m)' = MountedOutside(m)
      /\ \A m : Uses(m)' <=> Uses(m)
      /\ \A i, m : At(i, m)' <=> At(i, m)
      /\ TelemetryOutside' <=> TelemetryOutside
  BY <1>1, SameChain
<1>3. /\ phase = "up" => UNCHANGED answer
      /\ phase = "thrown" =>
           /\ DOMAIN answer' = AnswerFields /\ answer'.rebuilt = FALSE
           /\ answer'.id = ctx.requestId /\ answer'.errorId = ctx.requestId
  BY DEF Finish, UncaughtAnswer, ErrorAnswer, Respond, AnswerFields
<1>4. Placed' /\ NothingYet' /\ Caught'
  BY <1>1, <1>2, <1>3 DEF AnswerInv, Placed, NothingYet, Caught
<1>5. OneId'
  <2>1. \A r \in records' \union sent : r.id = ctx.requestId
    BY <1>1 DEF AnswerInv, OneId, Report
  <2>2. /\ answer'.errorId \in {"none", ctx.requestId}
        /\ answer'.id \in {"none", "service's", ctx.requestId}
        /\ At(1, "requestId") /\ ~Passthrough(answer)' => answer'.id # "none"
    BY <1>1, <1>3 DEF AnswerInv, OneId, Passthrough
  <2> QED
    BY <1>1, <1>2, <2>1, <2>2 DEF AnswerInv, OneId
<1>6. OneUser'
  BY <1>1 DEF AnswerInv, OneUser, Report
<1>7. Reported'
  BY <1>1, <1>2, <1>3 DEF AnswerInv, Reported, Report
<1>8. Readable'
  <2> SUFFICES ASSUME NEW i \in MountedOutside("cors"), AllowsOrigin, ~Passthrough(answer)'
               PROVE  answer'.cors
    BY <1>2 DEF Readable
  <2>1. PICK j \in Catchers : i < j
    BY DEF MountedOutside
  <2>2. i \in Nat /\ j \in Nat /\ 0 < i
    BY ChainLength DEF MountedOutside, Catchers, AnswerInv, Placed
  <2>3. phase = "up"
    BY <1>1, <2>1, <2>2 DEF AnswerInv, Caught
  <2> QED
    BY <1>1, <1>3, <2>2, <2>3 DEF AnswerInv, Readable, Passthrough
<1>9. Untouched'
  BY <1>1, <1>2, <1>3 DEF AnswerInv, Untouched
<1> QED
  BY <1>4, <1>5, <1>6, <1>7, <1>8, <1>9 DEF AnswerInv

\* The endpoint answers below whatever catches errors, and leaves the rest alone.
LEMMA McpKeepsAnswers ==
  ASSUME GatewayInv, AnswerInv, MountMcp \/ ParseStreamableRequest \/ DispatchMcp \/ InvocationReturns
  PROVE  AnswerInv'
<1>1. /\ UNCHANGED <<gateway, request, records, sent>>
      /\ phase \in {"down", "rpc"} /\ pos \in DOMAIN site.chain /\ site.chain[pos] = "mcp"
      /\ DOMAIN ctx = {"requestId", "auth", "matched", "kind", "session", "counted"}
      /\ ctx.requestId # "none"
  BY DEF MountMcp, ParseStreamableRequest, DispatchMcp, InvocationReturns, OnlyMoves, Fixed,
         Entering, At, AnswerInv, Placed, OneId
<1>2. pos >= 1 /\ \A j \in Catchers : pos > j
  BY <1>1, ThrowsItself DEF NeverThrows
<1>3. ~At(pos, "requestId") /\ \A j \in Catchers : pos >= j
  <2>1. gateway \in DOMAIN Sites /\ pos \in Nat
    BY DEF AnswerInv, Placed
  <2> QED
    BY <1>1, <2>1, BelowCatchers DEF At, NeverThrows
<1>4. ASSUME NEW status, NEW from, Return(Respond(status, from)), UNCHANGED ctx
      PROVE  AnswerInv'
  BY <1>1, <1>2, <1>3, <1>4, PlainAnswersKeep
<1>5. ASSUME NEW code, Throw(code), UNCHANGED ctx, phase = "down"
      PROVE  AnswerInv'
  BY <1>1, <1>2, <1>5, ThrowsKeep DEF Throw
<1>6. CASE UNCHANGED <<ctx, pos, phase, answer>>
  <2>1. site' = site
    BY <1>1 DEF site
  <2>2. UNCHANGED <<Catchers, AllowsOrigin, MountedOutside("cors")>>
    BY <1>1, SameChain
  <2> QED
    BY <1>1, <1>6, <2>1, <2>2, SameChain
       DEF AnswerInv, Placed, NothingYet, OneId, OneUser, Caught, Reported, Readable, Untouched,
           Passthrough
<1>7. CASE MountMcp
  <2>1. CASE phase' \in {"down", "rpc"}
    <3>1. /\ phase = "down" /\ UNCHANGED answer
          /\ \/ phase' = "down" /\ pos' = pos + 1
             \/ phase' = "rpc" /\ pos' = pos
          /\ UNCHANGED ctx \/ \E auth : ctx' = [ctx EXCEPT !.auth = auth]
      BY <1>7, <2>1 DEF MountMcp, Entering, CallNext, Return, Throw
    <3>2. DOMAIN ctx' = DOMAIN ctx /\ ctx'.requestId = ctx.requestId
      BY <1>1, <3>1
    <3> QED
      BY <1>1, <3>1, <3>2, DownKeepsAnswers
  <2> QED
    BY <1>4, <1>5, <1>7, <2>1 DEF MountMcp, Entering, CallNext
<1>8. \A reply : JsonRpcResponse(reply) /\ UNCHANGED ctx => AnswerInv'
  BY <1>4 DEF JsonRpcResponse
<1>9. Accepted /\ UNCHANGED ctx => AnswerInv'
  BY <1>4 DEF Accepted
<1>10. \A result : ReplySuccess(result) /\ UNCHANGED ctx => AnswerInv'
  BY <1>8, <1>9 DEF ReplySuccess
<1>11. \A code : ReplyError(code) /\ UNCHANGED ctx => AnswerInv'
  BY <1>8, <1>9 DEF ReplyError
<1>12. CASE ParseStreamableRequest
  <2>1. UNCHANGED ctx /\ mcp.step = "parsing"
    BY <1>12 DEF ParseStreamableRequest, OnlyMoves
  <2>2. Rpc.body \in {"unreadable", "invalid JSON", "empty", "no message", "message"}
    BY <2>1, BodyIsKnown DEF GatewayInv
  <2> QED
    BY <1>6, <1>8, <1>12, <2>1, <2>2 DEF ParseStreamableRequest
<1>13. CASE DispatchMcp
  <2>1. UNCHANGED ctx
    BY <1>13 DEF DispatchMcp, OnlyMoves
  <2>2. CASE ListTools \/ ReadResource \/ GetPrompt
    BY <1>10, <1>11, <2>1, <2>2 DEF ListTools, ReadResource, GetPrompt
  <2>3. CASE HandleToolsCall
    BY <1>6, <1>10, <1>11, <2>1, <2>3 DEF HandleToolsCall, Invoke
  <2> QED
    BY <1>8, <1>9, <1>10, <1>13, <2>1, <2>2, <2>3 DEF DispatchMcp
<1>14. CASE InvocationReturns
  BY <1>10, <1>11, <1>14 DEF InvocationReturns, OnlyMoves
<1> QED
  BY <1>7, <1>12, <1>13, <1>14

LEMMA AnswersStart ==
  ASSUME McpInit
  PROVE  AnswerInv
<1>1. /\ gateway \in DOMAIN Sites /\ ctx.requestId = "gateway's"
      /\ DOMAIN ctx = {"requestId", "auth", "matched", "kind", "session", "counted"}
      /\ pos = 1 /\ phase = "down" /\ sent = {} /\ records = {} /\ answer = Respond(0, "none")
  BY DEF McpInit, ChainInit
<1>2. /\ DOMAIN answer = AnswerFields /\ answer.status = 0 /\ answer.from = "none"
      /\ answer.errorId = "none" /\ answer.id = "none"
  BY <1>1 DEF Respond, AnswerFields
<1>3. Placed
  BY <1>1, <1>2, ChainLength DEF Placed
<1> QED
  BY <1>1, <1>2, <1>3
     DEF AnswerInv, NothingYet, OneId, OneUser, Caught, Reported, Readable, Untouched

LEMMA AnswersStep ==
  ASSUME GatewayInv, AnswerInv, [McpNext]_mcpVars
  PROVE  AnswerInv'
<1>1. CASE ChainNext
  BY <1>1, RecordersKeepAnswers, HeadersKeepAnswers, RefusersKeepAnswers, PassUpKeepsAnswers,
     RouterKeepsAnswers, DispatchKeepsAnswers, ReplyKeepsAnswers, FinishKeepsAnswers DEF ChainNext
<1>2. CASE MountMcp \/ ParseStreamableRequest \/ DispatchMcp \/ InvocationReturns
  BY <1>2, McpKeepsAnswers
<1>3. CASE UNCHANGED mcpVars
  <2>1. UNCHANGED <<gateway, request, ctx, pos, phase, answer, records, sent>>
    BY <1>3 DEF mcpVars, chainVars
  <2>2. /\ UNCHANGED <<site, Catchers, AllowsOrigin, MountedOutside("cors")>>
        /\ \A m : Uses(m)' <=> Uses(m)
        /\ \A i, m : At(i, m)' <=> At(i, m)
        /\ TelemetryOutside' <=> TelemetryOutside
    BY <2>1, SameChain
  <2> QED
    BY <2>1, <2>2
       DEF AnswerInv, Placed, NothingYet, OneId, OneUser, Caught, Reported, Readable, Untouched,
           Passthrough
<1> QED
  BY <1>1, <1>2, <1>3 DEF McpNext

\* Whatever the chain: one id follows a request through lines, spans, the
\* forwarded context and the answer; what is reported is what the client got;
\* an allowed origin can read all that jsonErrors() answers below cors(); and
\* upgrades and web apps' responses pass untouched (requestId, jsonErrors,
\* gatewayTelemetry, cors, sessionHeader, the limiters and handleRequest).
THEOREM AnswersSurvive == McpSpec => []AnswersSurviveTheChain
<1>1. McpInit => GatewayInv /\ AnswerInv
  BY StartsInvariant, AnswersStart
<1>2. GatewayInv /\ AnswerInv /\ [McpNext]_mcpVars => (GatewayInv /\ AnswerInv)'
  BY StepKeepsInvariant, AnswersStep
<1>3. AnswerInv => AnswersSurviveTheChain
  <2> SUFFICES ASSUME AnswerInv, Done PROVE AnswersSurviveTheChain
    BY DEF AnswersSurviveTheChain, Traceable, ReportsAgree, CrossOriginReadable,
           PassthroughUntouched
  <2>1. phase = "done" /\ pos = 0
    BY DEF AnswerInv, Placed, Done
  <2>2. Traceable
    BY <2>1 DEF AnswerInv, OneId, Traceable
  <2>3. ReportsAgree
    BY DEF AnswerInv, OneUser, Reported, TelemetryOutside, ReportsAgree
  <2>4. CrossOriginReadable
    <3> SUFFICES ASSUME NEW i \in MountedOutside("cors"), AllowsOrigin, ~Passthrough(answer)
                 PROVE  answer.cors
      BY DEF CrossOriginReadable
    <3>1. 0 < i
      BY ChainLength DEF AnswerInv, Placed, MountedOutside
    <3> QED
      BY <2>1, <3>1 DEF AnswerInv, Readable
  <2>5. PassthroughUntouched
    BY DEF AnswerInv, Untouched, PassthroughUntouched
  <2> QED
    BY <2>2, <2>3, <2>4, <2>5 DEF AnswersSurviveTheChain
<1> QED
  BY <1>1, <1>2, <1>3, PTL DEF McpSpec

=============================================================================
