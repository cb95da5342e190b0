----------------------------- MODULE PublicApi ------------------------------
(***************************************************************************)
(* What a gateway publishes against what it serves: the document that it   *)
(* aggregates from its Workers (packages/gateway/src/internal-fetch.ts,    *)
(* openapi-aggregate.ts), the calls of a generated client                  *)
(* (packages/client/src/index.ts), and their way through the gateway, a    *)
(* web app (packages/web/src/with-gmode.ts) and a service                  *)
(* (packages/service/src/service.ts) to the handler of a route.            *)
(*                                                                         *)
(* A path is a sequence of pieces as in RouteMatcher.  A segment that is   *)
(* a parameter is one piece, in braces, for Hono and the document alike.   *)
(***************************************************************************)
EXTENDS RouteMatcher, FiniteSets

CONSTANTS
  Pieces,     \* of paths
  Sites,      \* gateways and the Workers behind them
  Parameters, \* the pieces that stand for a parameter
  Values,     \* what a client is asked to pass for a parameter
  Encode,     \* encodeURIComponent(), of each value the pieces of one segment;
              \* "." and "..", which new URL() resolves, are not among the values
  Pages       \* what browsers ask for

ASSUME PiecesAssumption ==
  /\ {"/", "__gmode", "api", "openapi.json", "health"} \subseteq Pieces
  /\ "/" \notin Parameters
  /\ \A value \in Values : Encode[value] \in Seq(Pieces \ {"/"}) /\ Len(Encode[value]) <= 1
  /\ Pages \subseteq Seq(Pieces)

VARIABLES
  site,    \* the gateway, fixed
  probes,  \* the document of each entry: [state, tried]
  passage  \* the request that is on its way: [stage, request, ...]

publicVars == <<site, probes, passage>>

Internal     == <<"/", "__gmode", "/">>
InternalRoot == <<"/", "__gmode">>
DocumentPath == Internal \o <<"openapi.json">>
HealthPath   == Internal \o <<"health">>
Alias        == <<"/", "openapi.json">>

\* joinPrefix(), joinWebMount() before its "|| /", and the like.
JoinPrefix(base, mount) ==
  (IF base = Slash THEN <<>> ELSE WithoutTrailingSlash(base))
    \o (IF mount = Slash THEN <<>> ELSE mount)

\* What answers a request: a route's handler, a page of the web framework, the
\* document, the health check, the gateway itself, or an error.
\* An error has the code of its JSON body, if it has one.
Answer(by, ok) == [by |-> by, ok |-> ok, worker |-> "none", route |-> 0, code |-> "none",
                   path |-> <<>>]
NotFound == Answer("nobody", FALSE)

-----------------------------------------------------------------------------
(* A service: its routes in the order of their registration, after the     *)
(* document and the health check.                                          *)

NormalizeBasePath(base) == IF base \in {Unset, Slash} THEN <<>> ELSE WithoutTrailingSlash(base)

JoinBasePath(base, path) ==
  IF base = <<>> THEN path ELSE IF path = Slash THEN base ELSE base \o path

MatchesTemplate(template, path) ==
  /\ Len(template) = Len(path)
  /\ \A i \in DOMAIN path :
       template[i] = path[i] \/ (template[i] \in Parameters /\ path[i] # "/")

Registered(service, i) ==
  JoinBasePath(NormalizeBasePath(service.base), service.routes[i].path)

\* The handler of a route validates the parameters before it runs.
Handle(service, i, path) ==
  LET route  == service.routes[i]
      passed == {path[k] : k \in {k \in DOMAIN path : Registered(service, i)[k] \in Parameters}}
      code   == IF passed \subseteq route.accepts THEN route.result ELSE "VALIDATION_ERROR"
  IN  [Answer("route", code = "none") EXCEPT !.worker = service.name, !.route = i, !.code = code]

ServiceFetch(service, method, path) ==
  LET hits == {i \in DOMAIN service.routes :
                 /\ service.routes[i].method = method
                 /\ MatchesTemplate(Registered(service, i), path)}
  IN  IF method = "GET" /\ path = service.document
        THEN [Answer("document", TRUE) EXCEPT !.worker = service.name]
      ELSE IF method = "GET" /\ path = HealthPath THEN Answer("health", TRUE)
      ELSE IF hits = {} THEN NotFound
      ELSE Handle(service, CHOOSE i \in hits : \A j \in hits : i <= j, path)

-----------------------------------------------------------------------------
(* A web app: withGmode() around the handler of a framework.  A            *)
(* development server may refuse what looks internal before it gets here.  *)

Framework(app, path) ==
  [Answer("page", app.pages) EXCEPT !.worker = app.name, !.path = path]

IsInternalPath(path, base) ==
  LET left == JoinPrefix(base, Slash)
  IN  \/ IsPrefix(Internal, path)
      \/ base # Slash /\ (path = left \o InternalRoot \/ IsPrefix(left \o Internal, path))

ToInternalPath(path, base) ==
  IF IsPrefix(Internal, path) THEN path
  ELSE SubSeq(path, Len(JoinPrefix(base, Slash)) + 1, Len(path))

InternalAnswer(app, method, path) ==
  IF "api" \in DOMAIN app THEN ServiceFetch(app.service, method, path)
  ELSE CASE path = HealthPath   -> Answer("health", TRUE)
         [] path = DocumentPath -> [Answer("document", TRUE) EXCEPT !.worker = app.name]
         [] OTHER               -> NotFound

\* An empty prefix is falsy: such an app serves no API outside the internal paths.
HasApi(app) == "api" \in DOMAIN app /\ JoinPrefix(app.base, app.api) # <<>>

InApi(app, path) ==
  LET prefix == JoinPrefix(app.base, app.api)
  IN  path = prefix \/ IsPrefix(prefix \o Slash, path)

WithGmode(app, method, path) ==
  LET prefix == JoinPrefix(app.base, app.api)
  IN  IF IsInternalPath(path, app.base)
        THEN InternalAnswer(app, method, ToInternalPath(path, app.base))
      ELSE IF HasApi(app) /\ path = prefix \o Alias
        THEN ServiceFetch(app.service, method, DocumentPath)
      ELSE IF HasApi(app) /\ InApi(app, path)
        THEN ServiceFetch(app.service, method,
               IF path = prefix THEN Slash ELSE SubSeq(path, Len(prefix) + 1, Len(path)))
      ELSE Framework(app, path)

Worker(name) == site.workers[name]
IsApp(worker) == "pages" \in DOMAIN worker

Refuses(worker, path) == IsApp(worker) /\ worker.blocks /\ "__gmode" \in ToSet(path)

WorkerFetch(worker, method, path) ==
  IF Refuses(worker, path) THEN NotFound
  ELSE IF IsApp(worker) THEN WithGmode(worker, method, path)
  ELSE ServiceFetch(worker, method, path)

HasRoutes(worker) == IsApp(worker) => "api" \in DOMAIN worker

Routes(worker) == IF IsApp(worker) THEN worker.service ELSE worker

\* What registration demands of a mount, and that every path begins with a slash.
ASSUME SitesAssumption ==
  \A s \in Sites :
    /\ s.options.basePath \in Seq(Pieces)
    /\ \A i \in DOMAIN s.registrations :
         LET entry == Entry(s.registrations[i])
         IN  /\ i \in Nat /\ entry.kind \in {"service", "web"}
             /\ entry.mount \in Seq(Pieces) /\ ValidMount(entry.mount)
             /\ "api" \in DOMAIN entry => entry.api \in Seq(Pieces)
    /\ \A name \in DOMAIN s.workers : HasRoutes(s.workers[name]) =>
         LET service == Routes(s.workers[name])
         IN  \A k \in DOMAIN service.routes :
               /\ k \in Nat
               /\ Registered(service, k) \in Seq(Pieces) \ {<<>>}
               /\ Registered(service, k)[1] = "/"

-----------------------------------------------------------------------------
(* The gateway. *)

Entries == Register(site.registrations)
Options == BuildDefaults(site.options)

ApiMount(entry) == IF "api" \in DOMAIN entry THEN entry.api ELSE <<"/", "api">>

\* Entries whose document the gateway aggregates.
Listed(entry) == IF entry.kind = "web" THEN "api" \in DOMAIN entry ELSE "openapi" \in DOMAIN entry

InternalPathForEntry(entry, suffix) ==
  IF entry.kind = "web" THEN JoinPrefix(entry.mount, Slash) \o suffix ELSE suffix

Suffix(entry) ==
  IF entry.kind = "service" /\ entry.openapi # Unset THEN entry.openapi ELSE DocumentPath

\* The alias under the API mount comes before the bare internal path.
BindingProbePaths(entry) ==
  LET own == InternalPathForEntry(entry, Suffix(entry))
  IN  IF entry.kind = "service" THEN <<own>>
      ELSE <<own, JoinPrefix(entry.mount, ApiMount(entry)) \o Alias, DocumentPath>>

BuiltIns ==
  {Options.openapi, Options.swagger, Options.scalar, <<"/", "favicon.ico">>, HealthPath}

\* What route() does with a path: it answers itself, redirects to the root of a
\* web app, or forwards to an entry.
Route(path) ==
  LET stripped == StripBase(path, Options.basePath)
      hit      == MatchService(stripped, Entries)
      entry    == Entries[CHOOSE i \in hit : TRUE]
  IN  IF stripped \in BuiltIns THEN [to |-> "gateway", code |-> "none"]
      ELSE IF hit = {}
        THEN [to |-> "gateway", code |-> IF stripped = Options.index THEN "none" ELSE "NOT_FOUND"]
      ELSE IF entry.kind = "web" /\ entry.mount # Slash /\ stripped = entry.mount
        THEN [to |-> "redirect", path |-> path \o Slash]
      ELSE [to |-> "worker", worker |-> entry.name, path |-> RewrittenPath(stripped, entry)]

GatewayFetch(method, path) ==
  LET r == Route(path)
  IN  IF r.to = "worker" THEN WorkerFetch(Worker(r.worker), method, r.path)
      ELSE Answer("gateway", FALSE)

-----------------------------------------------------------------------------
(* Aggregation: the documents are fetched by themselves, each from one     *)
(* path after the other.                                                   *)

Idle == [stage |-> "idle"]

PublicInit ==
  /\ site \in Sites
  /\ probes = [i \in DOMAIN site.registrations |->
                 [state |-> IF Listed(Entries[i]) THEN "pending" ELSE "off", tried |-> 0]]
  /\ passage = Idle

\* A page that answers 200 ends the search as well: it is no JSON.
Probed(i, answer, last) ==
  probes' = [probes EXCEPT ![i] =
    [state |-> IF answer.ok THEN IF answer.by = "document" THEN "found" ELSE "unavailable"
               ELSE IF last THEN "unavailable" ELSE "pending",
     tried |-> @.tried + 1]]

\* fetchBindingGet(), or fetch() to a development server that has one path.
ProbeBinding(i) ==
  LET entry == Entries[i]
      paths == BindingProbePaths(entry)
      used  == IF "devUrl" \in DOMAIN entry THEN <<paths[1]>> ELSE paths
  IN  /\ probes[i].state = "pending" /\ probes[i].tried < Len(used)
      /\ Probed(i, WorkerFetch(Worker(entry.name), "GET", used[probes[i].tried + 1]),
                entry.kind = "service" /\ probes[i].tried + 1 = Len(used))
      /\ UNCHANGED <<site, passage>>

\* The alias once more, through the gateway's public surface.
ProbePublic(i) ==
  LET entry == Entries[i]
  IN  /\ probes[i].state = "pending" /\ entry.kind = "web"
      /\ probes[i].tried >= IF "devUrl" \in DOMAIN entry THEN 1 ELSE 3
      /\ Probed(i, GatewayFetch("GET", JoinPrefix(entry.mount, ApiMount(entry)) \o Alias), TRUE)
      /\ UNCHANGED <<site, passage>>

-----------------------------------------------------------------------------
(* The merged document and its client. *)

ServiceOf(entry) == Routes(Worker(entry.name))

PublicMount(entry) ==
  IF entry.kind # "web" THEN entry.mount
  ELSE LET joined == JoinPrefix(entry.mount, ApiMount(entry))
       IN  IF joined = <<>> THEN Slash ELSE joined

\* joinPath() of the merge.
PublicPath(mount, path) ==
  IF mount = Slash THEN path
  ELSE WithoutTrailingSlash(mount) \o (IF path = Slash THEN <<>> ELSE path)

Document ==
  UNION {{[entry |-> i, route |-> k, method |-> ServiceOf(Entries[i]).routes[k].method,
           path |-> PublicPath(PublicMount(Entries[i]), Registered(ServiceOf(Entries[i]), k))] :
            k \in DOMAIN ServiceOf(Entries[i]).routes} :
          i \in {i \in DOMAIN probes : probes[i].state = "found"}}

AllProbed == \A i \in DOMAIN probes : probes[i].state # "pending"

\* The path with the pieces in the place of each parameter.
Substituted(path, pieces) ==
  LET after[n \in 0 .. Len(path)] ==
        IF n = 0 THEN <<>>
        ELSE after[n - 1] \o (IF path[n] \in Parameters THEN pieces ELSE <<path[n]>>)
  IN  after

FillRaw(path, value) == Substituted(path, value)[Len(path)]

\* performRequest(): each placeholder becomes an encoded value.
Fill(path, value) == Substituted(path, Encode[value])[Len(path)]

Sent(request) == [stage |-> "sent", request |-> request, path |-> request.url]

PerformRequest(op, value) ==
  /\ AllProbed /\ passage.stage = "idle"
  /\ passage' = Sent([by |-> "client", op |-> op, value |-> value, method |-> op.method,
                      url |-> Fill(op.path, value)])
  /\ UNCHANGED <<site, probes>>

Browse(path) ==
  /\ AllProbed /\ passage.stage = "idle"
  /\ passage' = Sent([by |-> "browser", method |-> "GET", url |-> path])
  /\ UNCHANGED <<site, probes>>

Answered(answer) == [stage |-> "answered", request |-> passage.request, answer |-> answer]

\* The gateway's part; callers follow its redirect.
Dispatch ==
  LET r == Route(passage.path)
  IN  /\ passage.stage = "sent"
      /\ \/ r.to = "redirect" /\ passage' = [Sent(passage.request) EXCEPT !.path = r.path]
         \/ r.to = "worker" /\ passage' = [stage |-> "forwarded", request |-> passage.request,
                                           worker |-> r.worker, path |-> r.path]
         \/ r.to = "gateway"
              /\ passage' = Answered([Answer("gateway", r.code = "none") EXCEPT !.code = r.code])
      /\ UNCHANGED <<site, probes>>

Serve ==
  /\ passage.stage = "forwarded"
  /\ passage' = Answered(WorkerFetch(Worker(passage.worker), passage.request.method, passage.path))
  /\ UNCHANGED <<site, probes>>

\* What becomes of the client's promise: the answer, or an ApiClientError with
\* the code of the error's body.
SettlePromise ==
  LET answer == passage.answer
  IN  /\ passage.stage = "answered" /\ passage.request.by = "client"
      /\ passage' = [stage |-> "settled", request |-> passage.request, answer |-> answer,
                     outcome |-> IF answer.ok THEN "resolved"
                                 ELSE IF answer.code = "none" THEN "HTTP_ERROR"
                                 ELSE answer.code]
      /\ UNCHANGED <<site, probes>>

PublicNext ==
  \/ \E i \in DOMAIN probes : ProbeBinding(i) \/ ProbePublic(i)
  \/ \E op \in Document, value \in Values : PerformRequest(op, value)
  \/ \E path \in Pages : Browse(path)
  \/ Dispatch
  \/ Serve
  \/ SettlePromise

PublicSpec == PublicInit /\ [][PublicNext]_publicVars

-----------------------------------------------------------------------------
(* Properties. *)

\* Neither a parameter nor part of the internal paths.
Plainly(mount) == ValidMount(mount) /\ ToSet(mount) \intersect (Parameters \union {"__gmode"}) = {}

\* The Worker agrees with its registration, as the README of the web package
\* asks for: basePath is the mount, and the API mounts are one.  A service is
\* registered with the default stripPrefix.
Agrees(i) ==
  LET entry  == Entries[i]
      worker == Worker(entry.name)
  IN  /\ entry.name \in DOMAIN site.workers
      /\ IsApp(worker) <=> entry.kind = "web"
      /\ Options.basePath = Unset \/ ValidMount(Options.basePath)
      /\ Plainly(entry.mount)
      /\ HasRoutes(worker) => Routes(worker).document = Suffix(entry)
      /\ IF entry.kind = "web"
         THEN /\ ~entry.strip /\ worker.base = entry.mount
              /\ "api" \in DOMAIN entry => "api" \in DOMAIN worker
              /\ "api" \in DOMAIN worker => worker.api = ApiMount(entry) /\ Plainly(worker.api)
         ELSE entry.strip

\* The path that was asked for, below the gateway's basePath.
Asked == StripBase(passage.request.url, Options.basePath)

\* Where the redirect to the root of an app leads.
Landing(i, path) ==
  IF Entries[i].kind = "web" /\ path = Entries[i].mount /\ path # Slash THEN path \o Slash ELSE path

\* The entry is the innermost one above a path that the gateway leaves to it.
Innermost(i, path) ==
  /\ Under(path, Entries[i].mount) /\ {path, Landing(i, path)} \intersect BuiltIns = {}
  /\ \A j \in DOMAIN Entries \ {i} :
       Under(path, Entries[j].mount) => Len(Entries[j].mount) < Len(Entries[i].mount)

\* Neither the document of a service nor its health check, nor an internal path
\* of an app, which a development server may refuse as well.
OwnPath(i, path) ==
  LET entry  == Entries[i]
      worker == Worker(entry.name)
      Public(p) == PublicPath(PublicMount(entry), p)
  IN  /\ Innermost(i, path)
      /\ HasRoutes(worker) => path \notin {Public(HealthPath), Public(Routes(worker).document)}
      /\ entry.kind = "web" =>
           /\ ~IsInternalPath(path, entry.mount) /\ ~Refuses(worker, path)
           /\ HasRoutes(worker) => path # Public(Alias)

\* No other published operation has the path as well.
Unambiguous(op, path) ==
  \A other \in Document \ {op} : other.method = op.method => ~MatchesTemplate(other.path, path)

\* Every Worker that agrees with its registration gets into the document, if its
\* framework answers unknown paths with a page and if it refuses internal ones;
\* a development server is asked through the gateway, which then has to route
\* the alias to it.
DocumentsFound ==
  \A i \in DOMAIN probes :
    LET alias == PublicPath(PublicMount(Entries[i]), Alias)
    IN  (/\ Agrees(i) /\ probes[i].state # "off"
         /\ "devUrl" \in DOMAIN Entries[i] =>
              StripBase(alias, Options.basePath) = alias /\ Innermost(i, alias))
        => /\ probes[i].state # "unavailable"
           /\ AllProbed => probes[i].state = "found"

Passed(op, value) ==
  IF ToSet(op.path) \intersect Parameters = {} THEN {<<>>} ELSE {Encode[value]}

OperationServed ==
  LET request == passage.request
      service == ServiceOf(Entries[request.op.entry])
      route   == service.routes[request.op.route]
      valid   == \A p \in Passed(request.op, request.value) : ToSet(p) \subseteq route.accepts
  IN  /\ passage.answer.by = "route"
      /\ passage.answer.worker = service.name /\ passage.answer.route = request.op.route
      /\ passage.outcome = IF ~valid THEN "VALIDATION_ERROR"
                           ELSE IF route.result = "none" THEN "resolved" ELSE route.result

\* A published operation, called by the generated client with a value, runs
\* its own route and tells its caller how that ended; unless another published
\* operation, a built-in path or an inner mount has the same path, or the
\* path begins like the gateway's basePath.
OperationsReachTheirRoute ==
  passage.stage = "settled" =>
    LET op    == passage.request.op
        value == passage.request.value
    IN  (/\ Agrees(op.entry) /\ Asked = passage.request.url
         /\ ToSet(op.path) \intersect Parameters # {} => Encode[value] # <<>>
         /\ OwnPath(op.entry, Asked) /\ Unambiguous(op, Asked))
        => OperationServed

\* Whatever lies outside the API of an app goes to its framework, with the path
\* that was asked for, or with a slash after the app's own mount.
PagesReachTheApp ==
  (passage.stage = "answered" /\ passage.request.by = "browser") =>
    \A i \in DOMAIN Entries :
      (/\ Entries[i].kind = "web" /\ Agrees(i) /\ OwnPath(i, Asked)
       /\ "api" \in DOMAIN Worker(Entries[i].name) => ~Under(Asked, PublicMount(Entries[i])))
      => /\ passage.answer.by = "page"
         /\ passage.answer.path = Landing(i, Asked)

\* The public surface is what the document says it is: every document is found,
\* every operation runs the route that published it, and every other path of a
\* web app is left to the app.
ServedAsDocumented == DocumentsFound /\ OperationsReachTheirRoute /\ PagesReachTheApp

=============================================================================
