---------------------------- MODULE MCDocuments -----------------------------
(***************************************************************************)
(* The documents of a gateway, in five parts that share nothing but the    *)
(* clock: a behaviour is one of the part that `part` names.                *)
(*   "cache"    two requests at a time for the document of two services    *)
(*   "catalog"  three requests at two MCP mounts, one of which keeps the   *)
(*              one operation and one of which excludes it                 *)
(*   "pipeline" two services with up to three routes each, and schemas     *)
(*              that agree, collide or refer to a colliding one            *)
(*   "shield"   schemas of depth two, in a body and in parameters           *)
(*   "public"   two services, of which one is mounted below the other, and  *)
(*              a web app with and without an API, and the calls of the    *)
(*              generated client and of browsers, one at a time            *)
(***************************************************************************)
EXTENDS DocumentCache, McpCatalog, DocumentPipeline, ShieldProfile, PublicApi, TLC

CONSTANTS r1, r2, users, billing, c1, c2, c3, purge,
  Parts        \* the parts that are checked

VARIABLE part

MCRequests == {r1, r2}
MCServices == {users, billing}
MCCalls    == {c1, c2, c3}
MCSymmetry ==
  Permutations(MCRequests) \union Permutations(MCServices) \union Permutations(MCCalls)

OnlyAdminCaches == [admin |-> 1, public |-> 0]
BothCache       == [admin |-> 1, public |-> 1]

MCKeep == [admin |-> {purge}, public |-> {}]

-----------------------------------------------------------------------------
(* The inputs of the pipeline. *)

Item == <<"Item">>
Order == <<"Order">>
Ref(n) == <<"schemas", n>>

Def(body) == [body |-> body, refs |-> {}]
ItemIs(body) == [name |-> Item, def |-> Def(body)]
OrderOfItems == [name |-> Order, def |-> [body |-> "order", refs |-> {Ref(Item)}]]

SchemaLists ==
  {<<ItemIs(b)>> : b \in {"goods", "invoice line"}}
    \union {<<ItemIs(b), OrderOfItems>> : b \in {"goods", "invoice line"}}
    \union {<<>>}

RouteAt(method, path, id, refs, scoped) ==
  [method |-> method, path |-> path, id |-> id, refs |-> refs, scoped |-> scoped]

ById    == <<<<"param", "id">>>>
Literal == <<<<"literal", "id">>>>
AtRoot  == <<>>

RouteLists(schemas) ==
  LET names == {schemas[i].name : i \in DOMAIN schemas}
      refs  == {{}} \union {{Ref(n)} : n \in names}
      ids   == {NoId, <<"list">>, <<"list", "2">>}
  IN  {<<RouteAt("get", p, id, r, s)>> :
         p \in {ById, AtRoot}, id \in ids, r \in refs, s \in BOOLEAN}
      \union {<<RouteAt("get", ById, i1, r, FALSE), RouteAt("get", Literal, i2, {}, TRUE)>> :
                i1 \in {NoId, <<"list">>}, i2 \in {NoId, <<"list">>}, r \in refs}
      \union {<<RouteAt("get", ById, <<"list">>, {}, FALSE),
                RouteAt("get", Literal, <<"list">>, {}, FALSE),
                RouteAt("get", AtRoot, <<"billing", "list", "2">>, {}, FALSE)>>}

Mounted(name) ==
  UNION {{[name |-> name, mount |-> <<<<"literal", name>>>>,
           routes |-> routes, schemas |-> schemas] : routes \in RouteLists(schemas)} :
         schemas \in SchemaLists}

PipelineInputs == {<<a, b>> : a \in Mounted("store"), b \in Mounted("billing")}

PipelineSelections ==
  {{<<"get", <<<<"literal", s>>>> \o ById>> : s \in names} :
     names \in SUBSET {"store", "billing"}}

-----------------------------------------------------------------------------
(* The schemas of the Shield part: a root with an anyOf, empty or of one     *)
(* variant, and with one other keyword, which the profile may descend into;  *)
(* below each a leaf, or a schema that has one keyword more.                 *)

Leaf(type, uniqueItems, prefixItems) ==
  [type |-> type, nullable |-> FALSE, uniqueItems |-> uniqueItems,
   prefixItems |-> prefixItems, under |-> <<>>]

Leaves == {Leaf(t, u, p) : t \in {"none", "plain", "nullish"}, u \in BOOLEAN, p \in BOOLEAN}
Corners == {Leaf("plain", FALSE, FALSE), Leaf("nullish", TRUE, FALSE), Leaf("none", FALSE, TRUE)}

Having(keyword, schemas) == [Leaf("none", FALSE, FALSE) EXCEPT !.under = keyword :> schemas]

\* The tables of what is below a keyword of the root.
Subtrees(top, leaf) ==
  {top :> l : l \in Leaves} \union {top :> Having("anyOf", <<>>)}
    \union {(top :> Having(k, <<leaf>>)) @@ (leaf :> l) : k \in {"anyOf", "items", "not"}, l \in Corners}

AnyOfs == {<<<<>>, <<>>>>, <<"anyOf" :> <<>>, <<>>>>} \union {<<"anyOf" :> <<2>>, t>> : t \in Subtrees(2, 3)}
Others == {<<<<>>, <<>>>>} \union {<<k :> <<4>>, t>> : k \in {"items", "not"}, t \in Subtrees(4, 5)}

PipelineSchemas ==
  {<<place, (Root :> [l EXCEPT !.under = a[1] @@ o[1]]) @@ a[2] @@ o[2]>> :
     place \in {"parameter", "path item parameter", "body"}, l \in Leaves, a \in AnyOfs, o \in Others}

-----------------------------------------------------------------------------
(* The gateways, calls and pages of the public part. *)

App   == <<"/", "app">>
Api   == <<"/", "api">>
Users == <<"/", "users">>
Id    == <<"/", "{id}">>
UsersAdmin == Users \o <<"/", "admin">>

PublicRoute(method, path, accepts, result) ==
  [method |-> method, path |-> path, accepts |-> accepts, result |-> result]

Every == {"7", "a%2Fb", "admin", "openapi.json", "%7Bid%7D"}

UsersRoutes ==
  <<PublicRoute("GET", Slash, Every, "none"), PublicRoute("GET", Id, Every \ {"admin"}, "none"),
    PublicRoute("GET", <<"/", "me">>, Every, "none"), PublicRoute("DELETE", Id, Every, "CONFLICT"),
    PublicRoute("GET", Id \o <<"/", "posts">>, {"7"}, "none")>>

Svc(name, base) ==
  [name |-> name, base |-> base, document |-> <<"/", "__gmode", "/", "openapi.json">>, routes |-> UsersRoutes]

AppWorker(base, api, pages, blocks) ==
  [name |-> "shop", base |-> base, pages |-> pages, blocks |-> blocks, api |-> api,
   service |-> Svc("shop-api", Unset)]

Pagesonly(base) == [name |-> "shop", base |-> base, pages |-> TRUE, blocks |-> FALSE]

Defaults == [auth |-> FALSE, scopes |-> {}, permissions |-> {}, basePath |-> Unset,
             openapi |-> Unset, swagger |-> Unset, scalar |-> Unset, ui |-> "scalar",
             index |-> Unset]

UsersEntry == [by |-> "service", config |-> [name |-> "users", mount |-> Users, openapi |-> Unset]]
AdminEntry == [by |-> "service", config |-> [name |-> "admin", mount |-> UsersAdmin, openapi |-> Unset]]
WebEntryAt(mount, api) == [by |-> "web", config |-> [name |-> "shop", mount |-> mount, api |-> api]]

PublicSite(registrations, app, base) ==
  [options |-> [Defaults EXCEPT !.basePath = base], registrations |-> registrations,
   workers |-> [users |-> Svc("users", Unset), admin |-> Svc("admin", <<"/", "v2">>), shop |-> app]]

Homes == {[mount |-> App, api |-> Api], [mount |-> Slash, api |-> Api], [mount |-> App, api |-> Slash]}

EverySite ==
  {PublicSite(<<UsersEntry, AdminEntry, WebEntryAt(h.mount, h.api)>>,
              AppWorker(h.mount, h.api, pages, blocks), base) :
     h \in Homes, pages \in BOOLEAN, blocks \in BOOLEAN, base \in {Unset, <<"/", "v1">>}}
  \union {PublicSite(<<[WebEntryAt(h.mount, h.api) EXCEPT !.config = [devUrl |-> TRUE] @@ @], UsersEntry, AdminEntry>>,
              AppWorker(h.mount, h.api, TRUE, blocks), Unset) : h \in Homes, blocks \in BOOLEAN}
  \union {PublicSite(<<AdminEntry, [by |-> "web", config |-> [name |-> "shop", mount |-> App]], UsersEntry>>,
              Pagesonly(App), Unset)}
  \union {PublicSite(<<WebEntryAt(App, Api), UsersEntry>>, AppWorker(Slash, Api, p, FALSE), Unset) : p \in BOOLEAN}

RootSites ==
  {PublicSite(<<WebEntryAt(Slash, Slash), UsersEntry>>, AppWorker(Slash, Slash, TRUE, FALSE), Unset)}

PublicValues == {<<>>, <<"7">>, <<"a", "/", "b">>, <<"admin">>, <<"openapi.json">>, <<"{id}">>}
PublicEncode ==
  [v \in PublicValues |-> CASE v = <<"a", "/", "b">> -> <<"a%2Fb">>
                       [] v = <<"{id}">>         -> <<"%7Bid%7D">>
                       [] OTHER                  -> v]

PublicPages ==
  {Slash, App, App \o Slash, App \o <<"/", "cart">>, App \o <<"/", "api", "x">>,
   App \o <<"/", "api">>, App \o <<"/", "api", "/", "cart">>, <<"/", "app", "x">>,
   <<"/", "api", "x">>, <<"/", "docs">>, Users \o <<"/", "cart", "/", "x">>,
   App \o <<"/", "__gmode">>, App \o <<"/", "__gmode", "/", "x">>, <<"/", "v1">> \o App \o <<"/", "cart">>}

-----------------------------------------------------------------------------
PublicParameters == {"{id}"}

\* Everything that the paths above consist of.
PublicPieces ==
  {"/", "__gmode", "health", "openapi.json", "docs", "app", "api", "users", "admin", "me", "posts",
   "v1", "v2", "x", "cart"} \union PublicParameters \union UNION {ToSet(PublicEncode[v]) : v \in PublicValues}

NoPublic == site = "none" /\ probes = <<>> /\ passage = Idle

NoPipeline ==
  /\ stage = "sources" /\ input = <<>>
  /\ doc = Nothing /\ selected = {} /\ derived = Nothing

NoShield == shield = [stage |-> "none"]

MCInit ==
  /\ part \in Parts
  /\ Init /\ CatalogInit
  /\ IF part = "pipeline" THEN PipelineInit ELSE NoPipeline
  /\ IF part = "shield" THEN ShieldInit ELSE NoShield
  /\ IF part = "public" THEN PublicInit ELSE NoPublic
  /\ part = "catalog" \/ published = {}

cacheVars == <<version, cache, req, history>>
mcpVars   == <<published, catalog, call, answer, changes>>

MCNext ==
  \/ /\ part = "cache" /\ Next
     /\ UNCHANGED <<part, mcpVars, pipelineVars, shield, publicVars>>
  \/ /\ part = "catalog" /\ CatalogNext
     /\ UNCHANGED <<part, cacheVars, pipelineVars, shield, publicVars>>
  \/ /\ part = "pipeline" /\ PipelineNext
     /\ UNCHANGED <<part, now, cacheVars, mcpVars, shield, publicVars>>
  \/ /\ part = "shield" /\ Downgrade
     /\ UNCHANGED <<part, now, cacheVars, mcpVars, pipelineVars, publicVars>>
  \/ /\ part = "public" /\ PublicNext
     /\ UNCHANGED <<part, now, cacheVars, mcpVars, pipelineVars, shield>>

MCSpec ==
  MCInit
    /\ [][MCNext]_<<part, now, cacheVars, mcpVars, pipelineVars, shield, publicVars>>

=============================================================================
