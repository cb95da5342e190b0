----------------------------- MODULE MCGateway ------------------------------
(***************************************************************************)
(* A gateway's chain and its limiters, in three parts that share nothing   *)
(* but the clock: a behaviour is one of the part that `part` names.        *)
(*   "durable" five requests of one bucket of the Durable Object limiter,  *)
(*             over more than two periods                                  *)
(*   "memory"  five requests of two keys through one in-memory limiter     *)
(*   "chain"   one request at gateways with chains in the order of the     *)
(*             examples and in orders that the examples do not use, with   *)
(*             every credential that some check of jwtAuth(),              *)
(*             apiKeyAuth() and mtls() tells from a good one; and at       *)
(*             gateways with an MCP endpoint, with and without an OAuth    *)
(*             guard                                                       *)
(***************************************************************************)
EXTENDS DurableRateLimit, MemoryRateLimit, McpEndpoint, TLC

CONSTANTS r1, r2, r3, r4, r5

VARIABLE part

MCRequests == {r1, r2, r3, r4, r5}

\* Calls that have not read are alike: the i-th to be made, and the i-th to
\* read, may as well be the i-th of this list.
Listed == <<r1, r2, r3, r4, r5>>
InOrder ==
  LET Progress(r) == CASE call[r].pc = "idle" -> 0 [] call[r].pc = "called" -> 1 [] OTHER -> 2
  IN  \A i \in 1..4 : Progress(Listed[i]) >= Progress(Listed[i + 1])

-----------------------------------------------------------------------------
(* The gateways of the chain. *)

Users   == <<"/", "users">>
UsersX  == <<"/", "users", "ex">>       \* "/usersex", below no mount but the root
App     == <<"/", "app">>
V1Users == <<"/", "v1", "/", "users">>
Api     == <<"/", "api">>

Read == <<"users", "read">>
Key1 == [authenticated |-> TRUE, scopes |-> {Read}, permissions |-> {},
         user |-> "none", keyId |-> "k1"]

Registrations ==
  <<[by |-> "web", config |-> [name |-> "app", mount |-> App]],
    [by |-> "service", config |->
       [name |-> "users", mount |-> Users, auth |-> "on", scopes |-> {Read},
        cache |-> [use |-> "own", policy |-> [control |-> "max-age=60"]]]],
    [by |-> "version", prefix |-> <<"/", "v1", "/">>, deprecated |-> TRUE, config |->
       [name |-> "users-v1", mount |-> Users, auth |-> "off",
        cache |-> [use |-> "own", policy |-> [control |-> "no", methods |-> {"HEAD"}]]]]>>

RootService ==
  [by |-> "service", config |-> [name |-> "root", mount |-> Slash,
                                 cache |-> [use |-> "required"]]]

Options == [auth |-> FALSE, scopes |-> {}, permissions |-> {}, basePath |-> Unset,
            openapi |-> Unset, swagger |-> Unset, scalar |-> Unset, ui |-> "scalar",
            index |-> Unset]

Example ==
  [chain |-> <<"requestId", "jsonErrors", "logger", "cors", "apiKey", "jwt", "session",
               "flags", "cfLimit">>,
   options |-> Options, registrations |-> Registrations,
   caching |-> TRUE, cache |-> [control |-> "max-age=10", key |-> "by user"],
   exports |-> TRUE, origins |-> "list", failOpen |-> FALSE, unbound |-> {},
   shield |-> FALSE, secret |-> "s", issuer |-> "any", audience |-> "any",
   jwtRequired |-> FALSE, keyRequired |-> FALSE, certRequired |-> TRUE,
   queryKeys |-> TRUE, keys |-> [k1 |-> Key1],
   closedGates |-> {}, flagship |-> TRUE, flagsFailOpen |-> FALSE]

Strict ==
  [Example EXCEPT !.jwtRequired = TRUE, !.keyRequired = TRUE, !.failOpen = TRUE,
                  !.issuer = "iss", !.audience = "gw", !.options.auth = TRUE]

PlainSites ==
  <<Example,
    [Example EXCEPT !.closedGates = {Users, App}, !.origins = "*"],
    [Example EXCEPT !.closedGates = {Users}, !.flagship = FALSE, !.flagsFailOpen = TRUE],
    [Example EXCEPT !.flagship = FALSE],
    [Example EXCEPT !.registrations = Append(@, RootService), !.unbound = {"users-v1"}],
    [Example EXCEPT !.registrations = Append(@, RootService), !.cache = <<>>],
    [Example EXCEPT !.options.basePath = Api, !.options.index = Null,
                    !.options.scalar = Null, !.cache.control = ""],
    [Strict EXCEPT !.chain = <<"telemetry", "requestId", "cors", "jsonErrors", "jwt", "doLimit">>],
    [Strict EXCEPT !.chain = <<"telemetry", "requestId", "cors", "jsonErrors", "mtls">>,
                   !.exports = FALSE],
    [Strict EXCEPT !.chain = <<"requestId", "cors", "logger", "telemetry", "jwt">>,
                   !.caching = FALSE],
    [Strict EXCEPT !.chain = <<"requestId", "cors", "jsonErrors", "session", "apiKey", "cfLimit">>],
    [Example EXCEPT !.chain = <<"jsonErrors", "mtls", "jwt", "session", "logger">>,
                    !.shield = TRUE, !.certRequired = FALSE]>>

-----------------------------------------------------------------------------
(* Gateways with an MCP endpoint. *)

Admin   == Users \o <<"/", "admin">>
McpPath == <<"/", "mcp">>

Write == <<"users", "write">>
Access == <<"mcp", "access">>

Operation(id, path, scopes, flag) ==
  [id |-> id, path |-> path, scopes |-> scopes, permissions |-> {}, flag |-> flag]

\* "revoke" is an operation of the service that is mounted below another one's
\* mount, and "hidden" is excluded.
McpDocument ==
  {Operation("listUsers", Users, {}, "none"),
   Operation("getUser", Users \o <<"/", "{id}">>, {Write}, "none"),
   Operation("revoke", Admin \o <<"/", "{id}">>, {}, "beta"),
   Operation("hidden", V1Users, {}, "none")}

\* A token that is opaque to jwtAuth(), and one that both accept.
Opaque(name) == [form |-> "malformed", signedBy |-> name, claims |-> <<>>]

Sessions ==
  (Opaque("carl") :> [subject |-> "carl", scopes |-> {Access, Read}, permissions |-> {}])
    @@ (Opaque("dora") :> [subject |-> "dora", scopes |-> {Read}, permissions |-> {}])
    @@ ([form |-> "HS256", signedBy |-> "s",
         claims |-> [sub |-> "ann", scopes |-> {Write}]]
          :> [subject |-> "ann@idp", scopes |-> {Access, Read}, permissions |-> {}])

McpSite ==
  [mcp |-> [paths |-> {McpPath, McpPath \o Slash}, mode |-> "catalog", maxTools |-> 3,
            keep |-> {"listUsers", "getUser", "revoke"}, document |-> McpDocument,
            parameters |-> {"{id}"}, enabled |-> {"beta"}, oauth |-> <<>>]]
    @@ [Example EXCEPT !.registrations = Append(@,
          [by |-> "service", config |-> [name |-> "admin", mount |-> Admin]])]

Guard == [required |-> {Access}, sessions |-> Sessions]

McpSites ==
  <<[McpSite EXCEPT !.chain = <<"requestId", "jsonErrors", "jwt", "session", "flags", "cfLimit",
                                "mcp">>],
    [McpSite EXCEPT !.chain = <<"requestId", "jsonErrors", "cors", "apiKey", "flags", "mcp",
                                "logger">>,
                    !.mcp.oauth = Guard],
    [McpSite EXCEPT !.chain = <<"telemetry", "requestId", "jsonErrors", "jwt", "flags", "mcp">>,
                    !.mcp.oauth = Guard, !.mcp.mode = "tools", !.closedGates = {Admin}],
    [McpSite EXCEPT !.chain = <<"jsonErrors", "flags", "mcp">>, !.closedGates = {Users},
                    !.flagship = FALSE, !.flagsFailOpen = TRUE],
    [McpSite EXCEPT !.chain = <<"jsonErrors", "mcp", "jwt", "flags">>, !.mcp.mode = "tools",
                    !.closedGates = {Users}, !.mcp.maxTools = 2, !.mcp.enabled = {}, !.unbound = {"users"}]>>

Body(method) == [body |-> "message", method |-> method]
Call(target, values) == Body("tools/call") @@ [target |-> target, values |-> values]

Messages ==
  {Body(m) : m \in {"initialize", "tools/list", "other"}}
    \union {Body(m) @@ [target |-> t] :
              m \in {"resources/read", "prompts/get"},
              t \in {"gmode://openapi.json", "inspect-api"}}
    \union {Call("discover", <<>>), Call("invoke", <<>>)}
    \union {Call(t, v) @@ [operation |-> id] :
              t \in {"invoke", "listUsers", "getUser", "revoke", "hidden"},
              id \in {"listUsers", "getUser", "revoke", "hidden"}, v \in {<<>>, [x \in {"{id}"} |-> "7"]}}

RpcBodies ==
  {[body |-> b] : b \in {"unreadable", "invalid JSON", "empty", "no message"}}
    \union Messages \union {m @@ [id |-> 1] : m \in Messages}

-----------------------------------------------------------------------------
(* The requests to them. *)

Token(claims) == [form |-> "HS256", signedBy |-> "s", claims |-> claims]

Good  == [sub |-> "ann", scopes |-> {Read}, iss |-> "iss", aud |-> {"gw", "other"}]
Clock == 100

Tokens ==
  {Token(Good), Token([scope |-> {Read}, scopes |-> {}] @@ Good),
   Token([sub |-> "bob"]), Token([scopes |-> {Read}]),
   Token([iss |-> "iss", aud |-> {"other"}] @@ Good),
   [Token(Good) EXCEPT !.signedBy = "stolen"], [Token(Good) EXCEPT !.form = "none alg"],
   [Token(Good) EXCEPT !.form = "malformed"]}
    \union {Token([exp |-> t] @@ Good) : t \in {Clock - 1, Clock}}
    \union {Token([nbf |-> t] @@ Good) : t \in {Clock + 30, Clock + 31}}
    \union {Token([iat |-> t] @@ Good) : t \in {Clock + 30, Clock + 31}}

Credentials ==
  {<<>>} \union {[bearer |-> t] : t \in Tokens}
    \union {[key |-> "k1"], [key |-> "bad"], [queryKey |-> "k1"],
            [key |-> "k1", bearer |-> Token(Good)],
            [key |-> "k1", bearer |-> Token([exp |-> Clock - 1] @@ Good)],
            [cert |-> "SUCCESS"], [cert |-> "FAILED"], [cert |-> "SUCCESS", bearer |-> Token(Good)]}

Request(method, path) == [method |-> method, path |-> path]
Caller == {[id |-> "valid", origin |-> "listed"], [id |-> "invalid", origin |-> "other"]}

McpCredentials ==
  {<<>>, [key |-> "k1"], [bearer |-> Token([sub |-> "bob"])]}
    \union {[bearer |-> t] : t \in DOMAIN Sessions}
    \union {[key |-> "k1", bearer |-> t] : t \in DOMAIN Sessions}

\* Any credential for the services, none for what the gateway serves itself.
MCIncoming ==
  {Request(m, p) @@ c @@ cred :
     m \in {"GET", "POST"}, p \in {Users, Users \o <<"/", "1">>}, c \in Caller,
     cred \in Credentials}
    \union {Request(m, p) @@ c @@ cred :
     m \in {"GET", "HEAD", "OPTIONS"}, c \in Caller,
     p \in {UsersX, App, App \o Slash, V1Users, Api \o Users, Api, Slash,
            <<"/", "openapi.json">>, <<"/", "scalar">>, <<"/", "favicon.ico">>},
     cred \in {<<>>, [bearer |-> Token(Good)]}}
    \union {Request("POST", McpPath) @@ c @@ cred @@ [rpc |-> body] :
     c \in {[id |-> "valid", origin |-> "listed"]}, cred \in McpCredentials, body \in RpcBodies}
    \union {Request("GET", McpPath) @@ c : c \in Caller}

-----------------------------------------------------------------------------
\* A limiter that shares its buckets with no other.
MCChain == <<[limit |-> 2, window |-> 2]>>

MCSites == PlainSites \o McpSites

\* The chain of the other parts, which never starts.
NoChain ==
  /\ gateway = 1 /\ request = Request("GET", Slash) @@ [id |-> "valid", origin |-> "listed"]
  /\ McpInit

limiterVars == <<store, at, key, limited, passed>>

MCInit ==
  /\ part \in {"durable", "memory", "chain"}
  /\ Init /\ MemoryInit
  /\ part = "memory" \/ \A r \in MCRequests : key[r] = "ann"
  /\ IF part = "chain" THEN McpInit ELSE NoChain

MCNext ==
  \/ part = "durable" /\ Next /\ UNCHANGED <<part, limiterVars, mcpVars>>
  \/ part = "memory" /\ MemoryNext /\ UNCHANGED <<part, stored, call, log, mcpVars>>
  \/ part = "chain" /\ UNCHANGED <<part, vars, limiterVars>> /\ McpNext

MCSpec == MCInit /\ [][MCNext]_<<part, vars, limiterVars, mcpVars>>

=============================================================================
