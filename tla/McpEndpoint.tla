---------------------------- MODULE McpEndpoint -----------------------------
(***************************************************************************)
(* The MCP endpoint in a gateway's chain: mountMcp(), its OAuth guard, the *)
(* JSON-RPC dispatcher and the tool calls (packages/mcp/src/middleware.ts, *)
(* oauth.ts, transport.ts, handler.ts, dispatch.ts, mount-index.ts).       *)
(*                                                                         *)
(* The middleware "mcp" answers a POST to its path itself: it verifies the *)
(* bearer token, parses the body, dispatches, and for a tool call sends a  *)
(* request to a service and waits for the answer.  All other requests go   *)
(* on to the next middleware.  How long the catalog is cached is the       *)
(* subject of McpCatalog, what flags and secrets do to tool calls that of  *)
(* RequestFlow.                                                            *)
(*                                                                         *)
(* In an operation's path "{id}" stands for a parameter.  request.rpc is   *)
(* the body, and has no field "id" when it is a notification.              *)
(***************************************************************************)
EXTENDS GatewayPipeline

\* The body of a POST to an endpoint is unreadable, no message or a message.
\* Arguments are encoded by encodeURIComponent(), which leaves no braces, so that
\* none is a placeholder.
ASSUME MessagesAssumption ==
  \A g \in DOMAIN Sites, q \in Incoming :
    /\ "mcp" \in ToSet(Sites[g].chain)
    /\ q.method = "POST" /\ q.path \in Sites[g].mcp.paths
    => /\ q.rpc.body \in {"unreadable", "invalid JSON", "empty", "no message", "message"}
       /\ q.rpc.body = "message" /\ q.rpc.method = "tools/call" =>
            \A x \in DOMAIN q.rpc.values : q.rpc.values[x] \notin Sites[g].mcp.parameters

VARIABLE mcp   \* the JSON-RPC request in hand: where it is, what it invoked and
               \* its reply

mcpVars == <<chainVars, mcp>>

NoReply == [kind |-> "none"]

McpInit ==
  /\ ChainInit
  /\ mcp = [step |-> "none", invoked |-> {}, reply |-> NoReply]

-----------------------------------------------------------------------------
(* The catalog: the operations of the document, each with the service that  *)
(* its path leads to.                                                       *)

MountsAsRegistered(path) ==
  LET hits == {i \in DOMAIN Services : Under(path, NormalizeMount(Services[i].mount))}
  IN  {i \in hits : \A j \in hits : i <= j}

\* matchMount(): the longest mount that the path is under.
MatchMount(path) ==
  LET hits == {i \in DOMAIN Services : Under(path, NormalizeMount(Services[i].mount))}
  IN  {i \in hits : \A j \in hits \ {i} :
         LET longer == Len(Services[i].mount) - Len(Services[j].mount)
         IN  longer > 0 \/ (longer = 0 /\ i < j)}

\* buildMountIndex(), with the ids that `include` and `exclude` keep.
BuildMountIndex ==
  {op \in site.mcp.document : op.id \in site.mcp.keep /\ MatchMount(op.path) # {}}

\* findOperation()
FindOperation(id) == {op \in BuildMountIndex : op.id = id}

-----------------------------------------------------------------------------
(* mountMcp() *)

\* bearerTokenOAuthProvider(): the sessions are those verifyToken() knows.
BearerFailure ==
  LET oauth == site.mcp.oauth
  IN  IF "bearer" \notin DOMAIN request THEN "UNAUTHORIZED"
      ELSE IF request.bearer \notin DOMAIN oauth.sessions THEN "INVALID_AUTH_TOKEN"
      ELSE Check(MatchesAllScopes(oauth.required, oauth.sessions[request.bearer].scopes),
                 "INSUFFICIENT_SCOPE")

FirstUserStays(existing, session) ==
  [authenticated |-> TRUE,
   user          |-> IF existing.user # "none" THEN existing.user ELSE session.subject,
   keyId         |-> "none",
   scopes        |-> existing.scopes \union session.scopes,
   permissions   |-> existing.permissions \union session.permissions]

\* mergeMcpOAuthAuth()
MergeMcpOAuthAuth(existing, session) ==
  [authenticated |-> TRUE,
   user          |-> session.subject,
   keyId         |-> "none",
   scopes        |-> existing.scopes \union session.scopes,
   permissions   |-> existing.permissions \union session.permissions]

Guarded == DOMAIN site.mcp.oauth # {}

MountMcp ==
  /\ Entering("mcp")
  /\ LET failure == IF Guarded THEN BearerFailure ELSE "OK"
     IN  \/ request.path \notin site.mcp.paths /\ CallNext /\ UNCHANGED <<ctx, mcp>>
         \/ /\ request.path \in site.mcp.paths /\ request.method # "POST"
            /\ Return(Respond(405, "mcp")) /\ UNCHANGED <<ctx, mcp>>
         \/ /\ request.path \in site.mcp.paths /\ request.method = "POST"
            /\ failure # "OK" /\ Throw(failure) /\ UNCHANGED <<ctx, mcp>>
         \/ /\ request.path \in site.mcp.paths /\ request.method = "POST"
            /\ failure = "OK"
            /\ phase' = "rpc" /\ mcp' = [mcp EXCEPT !.step = "parsing"]
            /\ ctx' = IF Guarded
                      THEN [ctx EXCEPT !.auth = MergeMcpOAuthAuth(@,
                              site.mcp.oauth.sessions[request.bearer])]
                      ELSE ctx
            /\ UNCHANGED <<pos, answer, error>>
  /\ Fixed /\ UNCHANGED <<records, sent>>

-----------------------------------------------------------------------------
(* Replies. *)

Rpc == request.rpc
Notification == "id" \notin DOMAIN Rpc

Success(result) == [kind |-> "result", id |-> Rpc.id, result |-> result]

\* toMcpError()
McpErrorCode(code) ==
  IF StatusOf(code) \in 400 .. 499 THEN "InvalidParams" ELSE "InternalError"

RpcError(id, code) == [kind |-> "error", id |-> id, code |-> code]

\* jsonRpcResponse() and acceptedNotificationResponse()
JsonRpcResponse(reply) ==
  /\ mcp' = [mcp EXCEPT !.step = "replied", !.reply = reply]
  /\ Return(Respond(200, "mcp"))

Accepted ==
  /\ mcp' = [mcp EXCEPT !.step = "replied", !.reply = [kind |-> "accepted"]]
  /\ Return(Respond(202, "mcp"))

ReplySuccess(result) ==
  IF Notification THEN Accepted ELSE JsonRpcResponse(Success(result))

\* The catch of handleMcpRequest().
ReplyError(code) ==
  IF Notification THEN Accepted ELSE JsonRpcResponse(RpcError(Rpc.id, McpErrorCode(code)))

\* parseStreamableRequest(): one message, so that a batch is no message.
ParseStreamableRequest ==
  /\ phase = "rpc" /\ mcp.step = "parsing" /\ OnlyMoves
  /\ CASE Rpc.body \in {"unreadable", "invalid JSON"} ->
            JsonRpcResponse(RpcError("null", "ParseError"))
       [] Rpc.body \in {"empty", "no message"} ->
            JsonRpcResponse(RpcError("null", "InvalidRequest"))
       [] Rpc.body = "message" ->
            mcp' = [mcp EXCEPT !.step = "dispatching"]
              /\ UNCHANGED <<pos, phase, answer, error>>

-----------------------------------------------------------------------------
(* invokeOperation() *)

\* substitutePath(), and the parameters that a call leaves out.
Substitute(path, values) ==
  [i \in DOMAIN path |-> IF path[i] \in DOMAIN values THEN values[path[i]] ELSE path[i]]

Complete(op) == ToSet(op.path) \intersect site.mcp.parameters \subseteq DOMAIN Rpc.values

OperationOnly(scopes, permissions) ==
  [auth |-> "unset", scopes |-> scopes, permissions |-> permissions]

ServiceOf(op) == Services[CHOOSE i \in MatchMount(op.path) : TRUE]

\* context.flags: featureFlags() has run for this request, and found its binding.
HasFlags == site.flagship /\ \E i \in 1 .. pos - 1 : At(i, "flags")

InvocationFailure(op) ==
  FirstFailure(<<
    AuthorizeForService(ctx.auth, ServiceOf(op), Defaults),
    IF op.scopes = {} THEN "OK"
    ELSE AuthorizeForService(ctx.auth, OperationOnly(op.scopes, {}), Defaults),
    IF op.permissions = {} THEN "OK"
    ELSE AuthorizeForService(ctx.auth, OperationOnly({}, op.permissions), Defaults),
    Check(op.flag = "none" \/ (HasFlags /\ op.flag \in site.mcp.enabled),
          "FEATURE_NOT_AVAILABLE"),
    Check(Complete(op), "INVALID_PARAMS"),
    Check(HasFlags => \A mount \in site.closedGates :
            ~Gated(mount, Substitute(op.path, Rpc.values)), "NOT_FOUND"),
    Check(ServiceOf(op).name \notin site.unbound, "INTERNAL_ERROR")>>)

\* forwardToService() with a context for the audience of the service; the
\* handler waits for the answer.
Invoke(op) ==
  /\ mcp' = [mcp EXCEPT !.step = "calling",
       !.invoked = {[service |-> ServiceOf(op).name, auth |-> ctx.auth, id |-> ctx.requestId,
                     path |-> RewrittenPath(Substitute(op.path, Rpc.values), ServiceOf(op))]}]
  /\ UNCHANGED <<pos, phase, answer, error>>

\* handleToolsCall(): the id of the operation that a call names, in a set that
\* is empty when it names none.
NamedOperation ==
  IF site.mcp.mode = "tools" THEN {Rpc.target}
  ELSE IF Rpc.target = "invoke" /\ "operation" \in DOMAIN Rpc THEN {Rpc.operation} ELSE {}

HandleToolsCall ==
  LET ops == UNION {FindOperation(id) : id \in NamedOperation}
  IN  \/ /\ site.mcp.mode = "catalog" /\ Rpc.target = "discover"
         /\ ReplySuccess([operations |-> {op.id : op \in BuildMountIndex}])
      \/ /\ ~(site.mcp.mode = "catalog" /\ Rpc.target = "discover") /\ ops = {}
         /\ ReplyError("INVALID_PARAMS")
      \/ \E op \in ops :
           IF InvocationFailure(op) = "OK" THEN Invoke(op)
           ELSE ReplyError(InvocationFailure(op))

ServerError(status) == status >= 500

IsError(status) == status >= 400

\* The service's answer is the call's result; a binding that throws, or a body
\* that cannot be read, is an error.
InvocationReturns ==
  /\ phase = "rpc" /\ mcp.step = "calling" /\ OnlyMoves
  /\ \/ ReplyError("INTERNAL_ERROR")
     \/ \E status \in {200, 404, 503} :
          ReplySuccess([status |-> status, isError |-> IsError(status)])

-----------------------------------------------------------------------------
(* dispatchMcp() *)

\* buildOperationTools() refuses to list more than maxToolsInToolsMode.
ListTools ==
  IF site.mcp.mode = "catalog" THEN ReplySuccess([operations |-> {}])
  ELSE IF Cardinality(BuildMountIndex) > site.mcp.maxTools THEN ReplyError("INTERNAL_ERROR")
  ELSE ReplySuccess([operations |-> {op.id : op \in BuildMountIndex}])

ReadResource ==
  IF Rpc.target \in {"gmode://openapi.json", "gmode://operations.json"}
  THEN ReplySuccess(<<>>) ELSE ReplyError("INVALID_PARAMS")

GetPrompt ==
  IF Rpc.target \in {"inspect-api", "invoke-operation"}
  THEN ReplySuccess(<<>>) ELSE ReplyError("INVALID_PARAMS")

DispatchMcp ==
  /\ phase = "rpc" /\ mcp.step = "dispatching" /\ OnlyMoves
  /\ \/ Rpc.method \in {"initialize", "initialized", "ping", "resources/list", "prompts/list"}
          /\ ReplySuccess(<<>>)
     \/ Rpc.method = "tools/list" /\ ListTools
     \/ Rpc.method = "resources/read" /\ ReadResource
     \/ Rpc.method = "prompts/get" /\ GetPrompt
     \/ Rpc.method = "tools/call" /\ HandleToolsCall
     \/ /\ Rpc.method = "other"
        /\ IF Notification THEN Accepted
           ELSE JsonRpcResponse(RpcError(Rpc.id, "MethodNotFound"))

McpNext ==
  \/ ChainNext /\ UNCHANGED mcp
  \/ MountMcp \/ ParseStreamableRequest \/ DispatchMcp \/ InvocationReturns

McpSpec == McpInit /\ [][McpNext]_mcpVars

-----------------------------------------------------------------------------
(* Properties. *)

Replied == mcp.step = "replied"

\* A client can tell from the reply what has happened.  A request is answered
\* with its own id and a notification with nothing; an error other than an
\* internal one means that no service was sent anything, so that the call can
\* be corrected and repeated; and a tool call's result without isError means
\* that one was, and that it did not refuse.
RepliesTellTheOutcome ==
  Replied =>
    /\ mcp.reply.kind = "accepted" <=> Rpc.body = "message" /\ Notification
    /\ mcp.reply.kind # "accepted" =>
         mcp.reply.id = IF Rpc.body = "message" THEN Rpc.id ELSE "null"
    /\ mcp.reply.kind = "error" /\ mcp.reply.code # "InternalError" => mcp.invoked = {}
    /\ mcp.reply.kind = "result" /\ "status" \in DOMAIN mcp.reply.result =>
         mcp.invoked # {} /\ (mcp.reply.result.isError <=> mcp.reply.result.status >= 400)

BearerTokens == IF "bearer" \in DOMAIN request THEN {request.bearer} ELSE {}

\* The identities that the middlewares before mountMcp() can have established.
Established ==
  {NoAuth}
    \union {Identity(t.claims) : t \in {b \in BearerTokens : "sub" \in DOMAIN b.claims}}
    \union {site.keys[k] : k \in DOMAIN site.keys \intersect {PresentedKey}}

\* "every POST to the MCP endpoint must present a valid bearer token before
\* JSON-RPC handling starts" when there is an OAuth guard; the call then runs as
\* the token's subject, with what the token and the gateway's own credential
\* grant and nothing else.  Without a guard it runs as an HTTP request would.
ActsForItsCaller ==
  /\ mcp.step # "none" /\ Guarded =>
       /\ "bearer" \in DOMAIN request
       /\ request.bearer \in DOMAIN site.mcp.oauth.sessions
  /\ \A i \in mcp.invoked :
       /\ i.id = ctx.requestId
       /\ ~Guarded => i.auth \in Established
       /\ Guarded =>
            LET session == site.mcp.oauth.sessions[request.bearer]
            IN  /\ i.auth.user = session.subject
                /\ MatchesAllScopes(site.mcp.oauth.required, session.scopes)
                /\ \E e \in Established : i.auth.scopes = session.scopes \union e.scopes

\* A tool call runs the operation that it names, which the mount's patterns
\* keep, at the service that a request to the operation's path reaches, and
\* with every parameter of the path filled in.
RunsWhatItNames ==
  \A i \in mcp.invoked :
    \E op \in site.mcp.document :
      LET path == Substitute(op.path, Rpc.values) IN
      /\ op.id \in site.mcp.keep \intersect NamedOperation
      /\ ToSet(path) \intersect site.mcp.parameters = {}
      /\ \E k \in MatchService(op.path, Services) :
           i.service = Services[k].name /\ i.path = RewrittenPath(path, Services[k])

=============================================================================
