# gmode in TLA+

These modules specify the parts of gmode (`packages/*`) whose correctness depends
on the order in which things happen, or on several pieces of code that have to
agree: a request on its way through a gateway's middlewares, a service, an RPC
peer or a tool call while secrets and flags change; caches that are filled by
requests that overtake each other; documents that are derived from one another;
webhooks, dev sessions and dashboards whose events are lost and reordered; CLI
commands that write to the same zone or the same files. TLC checks small
instances; TLAPS proves the safety properties of all parts but the transformations
of OpenAPI documents, and two refinements, for every value of the constants.

All paths below are under `packages/`.

## 1. The system

gmode is a framework for Cloudflare Workers. A public **gateway** Worker
authenticates a request, authorizes it against the service mounted at its path,
mints a private **gateway context** and forwards the request over a service
binding to a **service** Worker, which trusts the context instead of
authenticating again. The same operations are reachable as **MCP** tools through
the gateway, and Workers call each other over typed **RPC** with the context of
the request they serve.

| Component | State it keeps | Operations | Hard behaviour | What makes it correct |
|---|---|---|---|---|
| Scopes (`core/src/utils.ts`) | none | `matchesScope`, `matchesAllScopes` | wildcards | a scope is granted exactly by itself, its prefix wildcard or `*` |
| Gateway context (`core/src/crypto.ts`, `context.ts`) | none; the token travels | encode, sign, verify, validate claims | late delivery, clock skew, secrets deployed separately, forwarding to a peer | never accepted for another audience, unsigned where a signature is required, or after its lifetime and the skew; a live one is not rejected |
| Gateway dispatch (`gateway/src/gateway.ts`, `authorize.ts`, `forward.ts`) | configuration; `openapiCache` | `fetch`, `route`, `authorizeForService`, `forwardToService` | environment captured per request, deployments in between | no handler runs for an identity the mount refuses |
| Feature flags (`gateway/src/middleware/feature-flags.ts`, `service/src/service.ts`) | none; Flagship is external | mount gates, forwarded values, operation gates | a flag switched between two evaluations | MCP and HTTP agree |
| Idempotency (`gateway/src/middleware/idempotency.ts`) | records in Workers KV | `get`, execute, `put`, replay | concurrent duplicates, eventual consistency, failures at each await | a replay is the response of the same request of the same caller; nothing executes twice in one attempt |
| Durable rate limit (`gateway/src/middleware/durable-object-rate-limit.ts`) | a window in a Durable Object | `limit` | calls interleaved at awaits, storage errors, lost replies | at most `limit` per window; refusals justified |
| Memory rate limit (`gateway/src/middleware/memory-rate-limit.ts`) | a module-level map | one synchronous check | a bucket shared between limiters | the same, in one isolate |
| OpenAPI document (`gateway/src/openapi-aggregate.ts`, `gateway.ts`) | `internals.openapiCache` | aggregate, cache, `?refresh=1` | overtaking aggregations, partial failure, redeployed services | bounded staleness |
| Service (`service/src/service.ts`, `gateway-context.ts`) | routes | verify, authorize, gate, handle | deployments of its secret | strict Workers act only on signed contexts |
| RPC (`rpc/src/client.ts`, `service.ts`) | methods | envelope, verify, scopes, gate | a forwarded token | the identity of the original request |
| MCP (`mcp/src/dispatch.ts`, `handler.ts`, `mount-index.ts`) | `catalogCache` | list, call | a second implementation of the gateway's policy; a shared, ageing catalog | never more than HTTP grants; a mount's filters hold |
| Authentication and identity (`gateway/src/middleware/auth.ts`, `mtls.ts`, `request-id.ts`, `session-header.ts`) | `context.auth` | middlewares | optional credentials, several at once, times at their edge | nobody is let through without what the service requires, and never with a bad credential |
| CORS, logger, telemetry, JSON errors (`cors.ts`, `logger.ts`, `telemetry.ts`, `json-errors.ts`, `passthrough.ts`) | none | code before and after `next()`, and around a throw | the order of the chain; upgrades and web apps' responses | id, status, headers and body of the answer are what the parts promise |
| Cloudflare rate limit (`cloudflare-rate-limit.ts`) | the platform's | one binding call | fail open or closed | as configured |
| Route matching (`route-matcher.ts`) | mounts | longest match, prefix stripping | `basePath`, `/`, nested mounts | a path reaches the innermost mount above it |
| Public surface (`gateway/src/internal-fetch.ts`, `web/src/with-gmode.ts`, `client/src/index.ts`) | none | probe, publish, call, serve | four implementations of joining paths | what is published is what is served |
| OpenAPI merge, Shield profile (`core/src/openapi.ts`, `service/src/openapi.ts`, `cli/src/codegen/`) | none | generate, merge, rename, prune, downgrade | clashing names, references | documents stand on their own and name apart what is apart |
| MCP endpoint (`mcp/src/middleware.ts`, `transport.ts`, `oauth.ts`, `handler.ts`) | none | JSON-RPC dispatch, OAuth guard | notifications, errors of two kinds, merged identities | a call acts for its caller, runs what it names, and tells how it ended |
| Webhooks (`core/src/webhooks.ts`) | a queue | sign, post, settle, verify | loss, copies, delay, key rotation | no event is lost; nothing on time is refused |
| Shield commands (`cli/src/commands/sync-*.ts`, `bootstrap-shield.ts`, `push-schema.ts`, `diff-discovered.ts`) | a Cloudflare zone | list, change one by one | failures and lost replies between changes, several commands | exit code 0 means it is done |
| Workspace commands (`new.ts`, `sync.ts`, `doctor.ts`, `deploy.ts`) | five kinds of files, the account's Workers | rewrite file after file | killed between two files, edited meanwhile | doctor is right, sync repairs, bindings resolve |
| `gmode dev` (`cli/src/commands/dev.ts`, `dev/collector.ts`), dashboard (`dashboard/src/App.tsx`) | child processes, flags and timers; a ring, a stream, a page | restart, shutdown; record, broadcast, fetch | events in any order | no orphans, edits are served, the page shows what is |
| Bindings, flags client, landing page, schemas, configuration and scaffolding, testing, e2e, `create-gmode` | | | | not modelled: typed access, text, pure conversion, test doubles |

`PROJECT.json` lists every component with its files and status, and every hazard
with the line where it bites.

How the parts interact: the gateway's middlewares wrap `route()` in the order
they are mounted; `featureFlags()` leaves `context.flags`, the auth middleware
leaves `context.auth`, both of which `route()` and the MCP dispatcher read after
awaits. The gateway and a service share only the token in `x-gmode-context` and
the secret each was deployed with. Requests share, inside an isolate, the memory
limiter's map, `internals.openapiCache` and `catalogCache`; across isolates, KV
and Durable Objects.

The dashboard, the collector and the gateway share events over HTTP and a stream;
the CLI's commands share the zone, respectively the files of the workspace.

## 2. The modules

| Module | Models | Variables and the code's state |
|---|---|---|
| `Scopes` | `core/src/utils.ts` | a scope is the sequence of its parts between `:` and `*` |
| `GatewayContext` | the authorization functions, minting, signature and claim checks, feature-gate decision, as pure operators | a signature is the secret that made it |
| `RequestFlow` | a request through gateway, service, RPC peer | `req` the request's local state, `gwSecret`/`trust` the deployed secrets, `flag` Flagship, `drift` clock errors, `runs` a record of handler executions |
| `ContextRollout` | switching signing on in the order `allowUnsigned` exists for | the variables of `RequestFlow`, fewer deployments |
| `IdempotencyContract` | what an idempotency key promises, without a store | `request`, `execution`, `answer` |
| `Idempotency` | the middleware over eventually consistent KV | `central` the last write, `edge` each location's copy, `att` each attempt |
| `LimiterClock`, `IsolateClock` | `Date.now()` as the limiters, respectively the caches of an isolate read it | `now` |
| `DurableRateLimit` | `limit()` and its caller | `stored` the object's storage, `call` each call, `log` the admissions |
| `MemoryRateLimit` | a chain of in-memory limiters | `store` the map, `at` the next limiter of each request, `passed` the passages so far |
| `RouteMatcher` | registrations, defaults, `matchService()` | pure operators; a path is the sequence of its pieces |
| `GatewayPipeline` | the middlewares of a chain down and up, `route()`, the cache policy | `gateway` which of the configured ones, `ctx` the request context, `pos`/`phase` where the request is, `answer`, `error`, `records` lines and spans, `sent` what was forwarded |
| `McpEndpoint` | extends it by `mountMcp()` and its dispatcher | `mcp` the JSON-RPC request in hand |
| `McpCatalog` | `buildCatalog()` for several MCP mounts | `catalog` = `catalogCache.get(internals)` |
| `DocumentCache` | `/openapi.json` of the gateway | `cache` = `internals.openapiCache`, `req` the running aggregations |
| `OpenApi` | merge and pruning, as operators | documents with tables in place of ordered objects; a loop is the recursive function of its accumulator after each round |
| `ShieldProfile` | `toShieldCompatibleSpec()` | `shield` one schema, a table of the schemas it consists of, each with what is below its keywords, descended into or not, and what becomes of it |
| `DocumentPipeline` | from routes to each derived document | `input` the services, `stage`, `doc`, `derived` |
| `PublicApi` | probing, publishing, the client's call and its way to a handler | `site` the gateway and its Workers, `probes` each entry's document, `passage` the request |
| `Webhooks` | sender, queue, network, receiver, rotation | `queue`, `attempt`, `net`, `accepted`, `phase` of the rotation |
| `ShieldSync` | five `shield:*` commands and a zone | `cmd` each command, `zone` its operations, the schemas uploaded to it and the rules posted to it |
| `Workspace` | `new`, `sync`, `doctor`, `deploy` | `manifest`, `wrangler`, `generated`, `secret` the files; `deployed`, `gateway` the account; `proc` each command, between two files |
| `DevSession` | `gmode dev` | `sessions` the children, `restarting`, `timers`, `pc` |
| `Dashboard` | collector, stream and page | `ring`, `health`, `stream`, `page` |
| `RequestFlowProofs`, `RateLimitProofs`, `IdempotencyProofs`, `DeliveryProofs`, `DocumentsProofs`, `PublicApiProofs`, `GatewayProofs`, `CliProofs` | theorems, see section 4 | |
| `MC…` | instances for TLC | |

Composition. `McpEndpoint` extends `GatewayPipeline`, which extends
`GatewayContext` and `RouteMatcher`; `PublicApi` extends `RouteMatcher` too, so the
gateway routes by one matcher in both. `DocumentPipeline` extends `OpenApi`.
`ContextRollout` implements `RequestFlow` and `Idempotency` implements
`IdempotencyContract`, each by an `INSTANCE … WITH`. `MCGateway`, `MCDocuments`,
`MCDelivery` and `MCCli` each put several specifications that share nothing but a
clock into one run: a variable `part` says which of them a behaviour is of, and the
variables of the others do not change in it. `MCGateway` extends `DurableRateLimit`,
`MemoryRateLimit` and `McpEndpoint`; `MCDocuments` extends `DocumentCache`,
`McpCatalog`, `DocumentPipeline`, `ShieldProfile` and `PublicApi`; `MCDelivery` extends `Webhooks`, `DevSession` and
`Dashboard`; `MCCli` extends `ShieldSync` and `Workspace`. They are written to be
extended together: the second and third of a group name their `Init`, `Next` and
`Spec` after themselves (`MemorySpec`, `DevSpec`, `BoardSpec`, ...), so that a run
and a theorem speak of the same definition.

Conventions. A step is what runs between two awaits: `limit()` is two steps
(`ReadWindow`, `WriteWindow`) because it awaits storage twice; the memory
limiter's check is one. `now` counts seconds. Data that no property looks at
(bodies, headers, messages) is left out. Where an external service matters (KV,
Flagship, Durable Object gates, deployments by `wrangler`) it is modelled from
the way the code uses it, and the definition is marked external in the map.
A definition named for a mistake (`ClaimsWithoutExpiry`, `StoreUnawaited`, ...)
is a mutant: a plausible bug that the named property must catch.

### Request flow

`Arrive`, `FlagsMiddleware`, `Route` or `InvokeOperation`, `ServeHttp`,
`CallPeer`, `InvokeRpc` follow one request; between any two of them a clock may
tick, a Worker may be deployed with another secret or `allowUnsigned`, and a
flag may change. `req[r].env` is the environment the gateway's `fetch()` was
called with, which stays as it is when the gateway is redeployed. `cfg` is the
whole configuration a gateway, a mount, an operation and a peer can be given; it
is chosen by `Init`, so one run ranges over many deployments of gmode.

The service keeps `required` and `trustGateway` apart as the code does: without
`trustGateway` a handler runs as anonymous, and with `required: false` a missing
token does too. The properties therefore speak of executions that verified
their context.

### Idempotency

`Idempotency` is shown to implement `IdempotencyContract` by a refinement
mapping (`Promise`): an attempt's status is the contract's execution, its outcome
the contract's answer. The contract deliberately allows two concurrent attempts
to execute: the code reads, executes and writes with awaits in between, and KV
has no lock. What it forbids is that a replay comes from anything but an earlier
execution of the same request, and that a replayed, conflicting or refused
attempt executes. `AnsweredOnce` adds what a retry may rely on: after an answer,
within `ttlSeconds`, at the same location or one that holds no stale copy.

### Caches

`DocumentCache` and `McpCatalog` keep, beside the code's state, a `history` of
when a service was deployed or failed; the properties compare a document that
can be answered with it. Two slots of `DocumentCache` are reused by request after
request. A hit changes nothing, so it is not a step: `Answers` is the set of
documents that a request would be given in the current state.

### The chain

A middleware is up to three actions: its code before `next()`, on the answer that
`next()` returns, and on the error it throws. `pos` moves down the chain, past
its end is `route()`, and back up to `handleRequest()`. An answer is what the
middlewares look at or change: status, who made it, the id in its header and in
its error body, CORS and deprecation headers, and whether the response object was
rebuilt. A token is its claims and the secret it was signed with. In `McpEndpoint`
the middleware "mcp" answers a POST to its paths itself; a tool call sends a
synthetic request and waits for the answer, in two steps.

### Documents and the public surface

The functions on documents are checked over all inputs of an instance: services
with up to three routes, ids that collide, repeat or are missing, schemas that
agree, collide or refer to a colliding one, and schema trees of depth two.
`PublicApi` follows a path through the code that each side has of its own: the
gateway's probes, the merge, the client, `route()`, `withGmode()` and the router
of a service. An app or a development server answers an unknown path with a page
or with an error.

### Delivery

`Webhooks`, `DevSession` and `Dashboard` have liveness properties, each under the
fairness that the code or its platform gives:

* *Webhooks.* Weak fairness: the queue redelivers a message that is not
  acknowledged, an attempt ends with an answer or an error, no post stays on its
  way for ever. Strong fairness for the acceptance of an attempt: a network that
  loses, and a receiver that fails, do so not for ever. Nothing is assumed of
  duplicated posts or of the progress of the rotation. The number of retries, a
  setting of the queue, is not bounded.
* *`gmode dev`.* Weak fairness for what Node does by itself: it delivers events
  it has, timers expire, a child that was started or interrupted gets there.
  Nobody has to save, fail or interrupt. `calm` names the conditions under which
  the restart works: the next save comes after the last restart, `wrangler` stops
  within the second the timer waits, and no session fails before the command is
  ready. `NoOrphans` needs none of them.
* *Dashboard.* Weak fairness: the browser connects, fetches and reads, and the
  health timer ticks. Events may be lost, and no fairness is given to requests,
  reloads or restarts.

The other modules state no fairness: a request's progress there is a chain of
awaits on the platform with no retry, lock or queue in which it waits for another
request, so "every request is answered" would only repeat the assumption that the
platform answers.

### The CLI

In `ShieldSync` a call to the Cloudflare API fails before or after it took effect,
Shield discovers and forgets operations meanwhile, and a command that failed is
run again. What is sent is what the code sends: a sequence rule arrives with its name
and its action (`log` when it names none) and without its window, a schema with the
operations it declares and whether it is to be enforced. Of each upload the model
remembers which command made it and in which of its runs, so that the exit code of a
run can be held against what that run has uploaded.

In `Workspace` a command reads or writes one file per step, in the order of the code,
and may be killed between two; the developer edits the manifest and the secret
meanwhile. `propagateContextSecret()` reads the gateway's `.dev.vars` in one step and
writes those of the services in one step each; a writer that reads a file to change
one line of it is one step. `new` reads the manifest to check it, reads it again to
append to it, and writes it: an edit between the last two is lost. `doctor` reads the
manifest first and compares the bindings, the generated module, the gateway's secret
and each service's with it, one step each, while other commands run; `exited` is where
its exit code can be seen.

What doctor promises is relative to that. A sync that read an older manifest and is
still at work when doctor begins can overwrite a file that doctor has already
compared: doctor passes a workspace that is out of step a moment later. Nothing in the
code or the docs says otherwise, and `DoctorSound` has it as its premise (`current`)
that every sync at work when doctor began had read the manifest as it was then, and
that nobody has edited since. Any number of syncs, deployments and doctors may start
after that, or go on.

## 3. The runs

| Run | Checks | Instance and why it is enough |
|---|---|---|
| `request_flow` | `TypeOK`, `IdentityPreserved`, `SignatureEnforced`, `FreshContext`, `NoEarlyExpiry` | one request (requests share no state). Every combination of `trustGateway`, the peer's `required` and audience, forwarding or not, with two secrets, none at the gateway, and four deployments of each Worker, changed at any point; or lifetime 2, skew 1, clock error up to 2 and time to 8, beyond their sum, with flags that switch on the way. The constraint `TrustOrClocks` keeps the two families apart: a configuration is explored over deployments or over time |
| `request_policy` | `AuthorizedExecution`, `ToolCallsWithinHttpPolicy` | two requests, to compare the two entry paths; every mix of demands, gates, flag availability and signing over identities with no, an exact and a wildcard scope. Flags hold still (`SteadySpec`), or the two would not be comparable |
| `context_rollout` | `RolloutKeepsServing` | two requests in flight across each of the deployments |
| `idempotency` | `KeepsContract`, `AnsweredOnce` | three attempts at two locations: original, retry and a stale reader; lifetime 1 so that records expire |
| `gateway` | `WindowLimit`, `RollingLimit`, `RefusedOnlyWhenSpent`, `MemoryLimits` | limit 2 and five calls, so that two windows can fill and a fifth call be refused; period 2, time to 4; in memory, two keys that interleave. The constraint `InOrder` numbers the calls by the order in which they are made and read storage, which loses nothing: calls that have not read are alike |
| | `RefusedUnlessEntitled`, `AnswersSurviveTheChain`, `CachedPerUser` | twelve gateways: chains in the order of the examples and in other orders, closed gates, a Flagship binding that is missing with and without `failOpen`, a root service, unbound services, `basePath`, API Shield in front; tokens at both sides of every boundary of time; every kind of credential alone and in pairs |
| | `RepliesTellTheOutcome`, `ActsForItsCaller`, `RunsWhatItNames` | five more gateways with an MCP endpoint, with and without an OAuth guard, in catalog and tools mode, with flags mounted before or after it or without their binding, with a service mounted below another; every method, with an id and as a notification, calls of kept, excluded and unknown operations with and without their parameter |
| `documents` | `BoundedStaleness` | two services, two aggregations at a time, lifetime 1, fetches of up to 1, time to 3: an entry can outlive its bound |
| | `MountOptionsHonoured`, `CatalogStaleness` | two mounts of which one caches; three requests, one to overtake, one to be overtaken, one to hit |
| | `OwnDefinitions`, `PrunedStandsAlone`, `NamesApart` | two services, see above: a third adds no new kind of clash, since the merge is a fold |
| | `ShieldSubset` | schemas of depth two in a body, a parameter and a path item's parameter: a root with any of the keywords that are taken out, an `anyOf` that is absent, empty or of one variant, and schemas below a keyword that the code descends into and one that it does not, each with a level more |
| | `ServedAsDocumented` | two nested services and a web app at `/app` or `/`, its API at `/api` or at its root, with and without `basePath`, with and without a development server; values that are empty, contain a slash, or look like a literal segment or a placeholder |
| `delivery` | `VerifiesExactly`, `ForgottenOnlyIfAccepted`, `EveryEventArrives` | one event (events share nothing but the network), two posts at a time, tolerance 1, clocks apart by up to it, time to 3, the rotation at any point |
| | `NoOrphans`, `EditsAreServed`, `DeathIsNoticed` | two manifests and a broken one, three saves: two restarts can overlap with a third save |
| | `ListIsRecent`, `HealthConverges` | a ring and a window of two, three requests, so that both overflow; one reload or restart; two health frames in the stream |
| `cli` | `ExitZeroHolds` | two commands with any of thirteen arguments, of each of the five commands, rules with and without an action; two operations, two ids, one discovery or removal, each command run up to twice |
| | `DoctorSound`, `AloneSyncSettles`, `BindingsResolve` | two commands at once, each any number of commands in turn; two services, so that the copying of secrets can be cut in between, two mounts, two secrets, two edits. There is no web app: of the files in the model it differs from a service by the secret it does not need, and the theorems hold for every `Kind` |
| `tool_call_flags` | `ToolCallInheritsFlags` is violated | see findings |
| `tool_call_signing` | `ToolCallTrustedAsHttp` is violated | see findings |
| `mcp_catalog_shared` | `MountOptionsHonoured` is violated when both mounts cache | see findings |
| `root_api_mount` | `OperationsReachTheirRoute` is violated | see findings |

Eight of these properties are conjunctions of named parts that are stated one by one
in their modules: `RefusedUnlessEntitled`, `AnswersSurviveTheChain`, `NamesApart`,
`VerifiesExactly`, `ListIsRecent`, `ExitZeroHolds`,
`ServedAsDocumented` and `MemoryLimits`.

Bounds on behaviours: `Horizon`, `MaxClock` (time), `MaxVersion` (deployments of a
service), `MaxEdits`, `MaxRequests`, `MaxRestarts`, `MaxFrames`, `MaxNet`,
`MaxAttempts`, `MaxChanges`, the finite `Requests`/`Attempts`, and `MaxFetch`, which
says that a fetch of a service's document settles within that time. The code sets
no timeout on it; the staleness properties are relative to `MaxFetch`, whatever it
is. Every run allows the system to stop (`CHECK_DEADLOCK FALSE`): all its requests
may have been answered at the end of time, and a command may have exited.

Premises. Several properties name a condition under which the code keeps them, and
the cases left out are listed as smaller disagreements below: gates on a gateway
without `basePath`; CORS and telemetry in the order in which they enclose
`jsonErrors()`; binding names that do not collide; ids without a name the merge
makes; variants of a parameter's `anyOf` that Shield accepts, and schemas that the
Shield profile comes to; syncs that have read the manifest that doctor reads; a web app
that agrees with its registration; calm dev sessions; rotations that name a key by its own id,
or by none.

### Findings

* **Tool calls lose the forwarded flags** (`mcp/src/dispatch.ts:51`).
  `docs/mcp.md:21-23` promises that tool calls inherit the feature flags of
  HTTP requests. The context minted by the dispatcher carries none, so an
  operation gate that depends on them refuses over MCP what it serves over HTTP.
* **Tool calls ignore `internal.signing`** (`mcp/src/dispatch.ts:288`). The
  router resolves its secret with `resolveContextSecret()`; the dispatcher reads
  `GMODE_CONTEXT_SECRET`. With a custom secret, services reject every tool call.
* **Two MCP mounts share one catalog** (`mcp/src/handler.ts:52`). The cache is
  indexed by the gateway, its content filtered by the mount that filled it.
* **An API at the root of a root app is published and not served**
  (`web/src/with-gmode.ts:104`). `joinPrefix("/", "/")` is the empty string, which
  the two conditions that serve the API take for "no API"; the gateway meanwhile
  finds the document at the internal path and publishes its operations.

Smaller disagreements were noticed while modelling and have no run of their own.

*Gateway.* `idempotency()` stores every response below 500, while the comment of
`cacheResponse` (`idempotency.ts:39`) says 2xx. Two memory limiters with the
default key and different windows share buckets, so that the longer limit is not
kept (`memory-rate-limit.ts:33`). `createRpcClient()` suggests forwarding
`x-gmode-context` (`rpc/src/client.ts:28`), which a peer with an audience of its
own rejects. `durableObjectRateLimit()` rebuilds responses of web apps and
upgrades, which `passthrough.ts:3` forbids. With `jsonErrors()` before `cors()`, as
the examples have it, error answers carry no CORS headers, and `telemetry()` inside
`jsonErrors()` reports 500 for a 401 or 429. Error answers on web mounts lose their
id when `jsonErrors()` stands inside `requestId()`. `failOpen` of `featureFlags()` opens
the closed gates along with the flags, for HTTP and for MCP, while a tool call of an
operation with a flag is refused (`feature-flags.ts:84`, `dispatch.ts:107`,
`dispatch.ts:132`); the option's comment (`feature-flags.ts:37`) says that evaluation is
skipped. Gates match the full pathname
and miss it under a `basePath` (`feature-flags.ts:126`, `types.ts:176`). A path
outside `basePath` is routed as it is, and the prefix test sees no segment
boundary (`gateway.ts:457`). `types.ts:72` gives the internal document path as
`/internal/openapi.json`; the code uses `/__gmode/openapi.json`.

*MCP.* A bearer token that is opaque to `jwtAuth()` is refused by it even with
`required: false`, so it cannot stand before an MCP mount with OAuth. A `tools/call`
sent as a notification runs and its error is dropped (202). An argument that equals
the literal of a nested mount goes to the operation's own service, where HTTP would
go to the nested one. `gmode://openapi.json` shows operations that `exclude` hides.

*Documents and client.* References inside a renamed service's schemas are not
rewritten and may point at another service's schema (`openapi.ts:98`). The Shield
profile leaves `uniqueItems`, `prefixItems` and null types where it does not come to,
under `not`, `if`, `contains` or `$defs` (`openapi.ts:515`) and in the parameters of a
path item, and where the first variant of a parameter's `anyOf` brings them along
(`openapi.ts:474`), while `docs/api-shield.md:17` lists them as stripped; and it deletes
an empty `anyOf` of a parameter without the warning that `openapi.ts:523` speaks of
(`openapi.ts:479`). A service
with `stripPrefix: false` and a `basePath` equal to its mount is documented at a
doubled path. Under a gateway's `basePath` a web app sees the path without it,
while its README says the public path is kept. The client puts `""` and `".."` into
a path as they are: `getUser({id: ""})` runs the route at `/`.

*CLI and dashboard.* The rotation that `docs/webhooks.md:116` describes under the ids
"primary" and "previous" refuses deliveries between its steps (`webhooks.ts:66`). A
death during a restart ends `gmode dev` or is taken for the restart's exit
(`dev.ts:315`), and of hurried saves the last may not be served (`dev.ts:264`). Two
names with the same binding name pass the manifest's checks and doctor. `gmode new`
registers a mount that collides, after which the manifest does not load
(`new.ts:116`). An empty variable of the environment hides a token in the file
(`config.ts:57`), and an empty `shield.schemaActions` hides the document's
extensions. `shield:sync-sequences` posts a rule without its `withinSeconds`
(`sync-sequences.ts:126`), which `docs/api-shield.md:91` shows in a policy; only the
dashboard import of `--out` and `--dry-run` has it. A rule that is run again after a failure
is posted twice.

## 4. The proofs

TLAPS proves, for every value of the constants that satisfies the named
assumptions:

| Module | Theorem | States |
|---|---|---|
| `RequestFlowProofs` | `TypeCorrect` | `TypeOK` |
| | `FlowInvariant` | the inductive invariant `FlowInv` |
| | `IdentityPreservation`, `AuthorizationOfExecutions`, `ContextFreshness`, `SignatureEnforcement`, `ExpiryNeverEarly` | `IdentityPreserved`, `AuthorizedExecution`, `FreshContext`, `SignatureEnforced`, `NoEarlyExpiry` |
| | `ToolCallPolicy` | `SteadySpec => []ToolCallsWithinHttpPolicy` |
| | `RolloutImplementsFlow` | `RolloutSpec => Spec` |
| | `RolloutServes` | `RolloutKeepsServing` |
| `RateLimitProofs` | `TypeCorrect`, `LimitInvariant` | `TypeOK`, the inductive invariant `LimitInv` |
| | `WindowIsLimited`, `RollingIsLimited`, `RefusalIsJustified` | `WindowLimit`, `RollingLimit`, `RefusedOnlyWhenSpent` |
| | `MemoryInvariant`, `SharedBucketsAreLimited` | the inductive invariant `MemoryInv` and `LimitPerWindow`, for limiters of one window |
| | `MemoryIsLimited` | `MemoryLimits`, for one limiter |
| `IdempotencyProofs` | `StoreInvariant`, `AnsweredRequestsExecuteOnce` | the inductive invariant `StoreInv`, `AnsweredOnce` |
| | `IdempotencyKeepsContract` | `KeepsContract`: the refinement of `IdempotencyContract` |
| `DeliveryProofs` | `DeliveryInvariant` | the inductive invariant `DeliveryInv` |
| | `WebhooksVerifyExactly`, `QueueForgetsOnlyAccepted` | `VerifiesExactly`, `ForgottenOnlyIfAccepted` |
| | `NoSessionOutlives` | `NoOrphans` |
| | `PageListIsRecent` | `ListIsRecent` |
| `DocumentsProofs` | `CacheInvariant`, `DocumentsBoundedStaleness` | the inductive invariant `CacheInv`, `BoundedStaleness` |
| | `CatalogInvariant`, `MountsHonourTheirOptions`, `CatalogsAreRecent` | the inductive invariant `CatalogInv`, `MountOptionsHonoured`, `CatalogStaleness`, when at most one mount caches |
| | `DefinitionsStayOwn`, `PrunedDocumentsStandAlone` | `OwnDefinitions`, `PrunedStandsAlone`, for any services, routes, schemas and selections |
| | `NamesStayApart` | `NamesApart`, if different numbers are written differently |
| | `ShieldProfileIsAccepted` | `ShieldSubset`, for schemas of any size and with any keywords |
| `PublicApiProofs` | `PublicSurfaceHolds` | `ServedAsDocumented`, if no app has itself and its API at the root |
| `GatewayProofs` | `GatewayInvariant` | the inductive invariant `GatewayInv` of chain and MCP endpoint |
| | `EntitledOnly`, `CachesByUser`, `ToolCallsActForTheCaller`, `ToolCallsRunWhatTheyName`, `RepliesAreTruthful` | `RefusedUnlessEntitled`, `CachedPerUser`, `ActsForItsCaller`, `RunsWhatItNames`, `RepliesTellTheOutcome` |
| | `AnswersSurvive` | `AnswersSurviveTheChain` |
| `CliProofs` | `WorkspaceInvariant`, `DoctorIsSound`, `SyncAloneSettles`, `GatewayBindingsResolve` | the inductive invariant `WorkspaceInv`, `DoctorSound`, `AloneSyncSettles`, `BindingsResolve` |
| | `ShieldInvariant`, `ExitCodeZeroHolds` | the inductive invariant `ShieldInv`, `ExitZeroHolds` |

**Request flow.** None of the properties is inductive by itself: what a handler
runs on was decided several steps and perhaps several deployments earlier.
`FlowInv` says of a request in flight that its token is the one minted for it
(`TokensMinted`), that it was dispatched only after the mount's authorization
succeeded (`DispatchAuthorized`), that executions belong to requests that were
dispatched (`RunsStarted`), and of each execution that it was safe when it
happened (`SafeRun`). A deployment, a tick and a flag change touch none of these,
and each request step re-establishes them for its own request. The lemmas on
`VerifyGatewayContext` say what an accepted token must be. `ExpiryNeverEarly` is
an action property and follows from `FlowInv` at the step that answers.

`ToolCallPolicy` compares two requests that never meet. `SteadyInv` says of each,
at each point of its way, what it was checked against: a refusal over HTTP is one
of the policy's, a tool call is served only by all the gates. As long as nothing is
switched both were checked against the same policy, and `ServedIsNotRefused` shows
that the two implementations of it agree where the property says so.

**Rollout.** `RolloutImplementsFlow` shows that each rollout step is a step of the
general flow, so `FlowInv` comes for free. `RolloutInv` adds the order of the
deployments (`DeploymentOrder`), that a request's environment is one of the two
the gateway ever had (`EnvKnown`), and that a token in flight is signed with its
request's environment (`TokenSigned`). The guard of `BecomeStrict` that old
requests have drained is necessary: without it TLC finds a request whose unsigned
token meets a strict Worker.

**Rate limits.** `LimitInv` says that a call of the Durable Object between its read
and its write holds what is still stored (`ReadIsCurrent`, which is where the input
gate is needed), that every admission lies in its window (`LogConsistent`), that
windows do not overlap (`WindowsDisjoint`), and that the stored count is the number
of admissions in the stored window (`CountIsCardinality`). An interval of one period
meets at most two windows, hence `RollingLimit`. `MemoryInv` says of a
bucket in memory that its count is at least the number of passages of each limiter
since it was opened, and up to the limit exactly that number if there is one limiter
only (`BucketsCount`). The window before it has to be part of the invariant, or the
step that opens a bucket could not bound what an interval across both contains.
Limiters of an isolate share their buckets (section 3). As long as they have one window
they may be many and have different limits, and each still keeps its own: this is the
premise `OneWindow`. That a limit is positive is part of it, since the code lets the
first request of a window pass unchecked. That nobody is refused too early needs a limiter
that is alone (`OneLimiter`), since those that share a bucket count each other's requests.

**Idempotency.** `StoreInv` says that a record, in the store or in any location's
copy, is the response of an execution of a request sent under that very key
(`Genuine`), that an attempt's status agrees with where it is (`ProgressOK`), and
that the record of an answered attempt, or a later one, outlives `Ttl` wherever a
retry may read it (`AnsweredIsStored`). The last one is why `AnsweredOnce` holds
although KV may serve an old copy: a location that has no copy reads the store, and
one that wrote has the record. For the refinement, each step of an attempt is shown
to be a step of the contract or a stutter (`ContractStep`); a replay is allowed by
the contract because `Genuine` names the execution it comes from.

**Delivery.** `DeliveryInv` says that a post on its way is signed with the new
secret only after the sender has switched (`Signed`), so that a receiver that holds
both, or is not yet asked for the new one, finds its secret; that what was accepted
was on time by the receiver's clock; and that a success the consumer was told of was
an acceptance. `NoOrphans` is inductive once sessions keep their shape: the action
that exits also interrupts every session that is left. For the dashboard, `BoardInv`
says that the stream is the tail of what the collector recorded (`StreamIsTail`), so
`Received` tells how far the page is; that each event is recorded once and whatever
is shown was recorded (`EventsOnce`); and of a page that is up to date, that it shows
nothing the stream has yet to bring except what was recorded before (`NotAhead`), and
ends with what was delivered since (`EndsWith`). `DoubledWhileLoading`, which is part
of the property, is needed to prove the rest of it: a row that is doubled carries an
event from before the page was up to date, so the rows after it are single.

**Documents.** In `CacheInv` and `CatalogInv` an entry is true of some time since the
request that gathered it arrived (`TrueSince`, `ShownSince`, `HiddenSince`), during
the aggregation as in the cache, and an aggregation lasts `MaxFetch` at most. The two
theorems on the catalog have the premise `OneMountCaches`; without it the run
`mcp_catalog_shared` violates one of them.

What the document functions compute is a loop's accumulator after its last round, and
the facts about it are proved by induction on the rounds. The library's induction
theorems cannot be instantiated here (they take an operator), so `LeastNumber` states
the principle for sets: if the rounds at which a fact fails were not empty, they would
have a least member, and the step before it contradicts it. `AddSchemasDef`,
`AddOperationsDef` and the like give the equations of each loop. The invariant of the
merge, `MergedSound`, says of the document after each operation of each service that
its entries come from an operation of a service and their keys are its key below the
mount (`MergedShape`), that each reference of an entry leads to the definition its own
service gave it, whether renamed or shared (`MergedOwn`), and that the ids in use are
those of the entries (`MergedIds`). The premises of the two properties appear as
hypotheses there: a service that names a schema the way the merge renames would
be overwritten. For the pruned document, `ReachedFacts` shows by counting that
following references for as many rounds as there are schemas reaches a fixpoint, with
no assumption that references are acyclic. `MethodNameIsNew` is the pigeonhole: among
one candidate more than there are names taken, one is free; that candidates differ
needs `NumeralsDiffer`, since `ToString` is opaque to the prover. For the Shield
profile, whatever is reached in the result through the keywords that are descended into
the recursion has come to, since it descends after it has hoisted, and so it has been
rewritten; a parameter's hoisted variant is copied and not rewritten itself, hence the
premise on variants. Without a warning every schema that was visited is as it was but
for an empty `anyOf`, below which there is nothing: so the schemas reached are the same.

**Public surface.** `ServedAsDocumented` compares what one part of the code writes down
with what another does: the mount that the merge puts before a path, the parameter
that the client fills in, the entry that `route()` picks, the prefix that the gateway
takes off and a web app puts back, and the template that a service matches. The
invariant is short. `PublicInv` says of a Worker that agrees with its registration
that its document is found at the first path asked for, or at the second if an app
refuses the first (`ProbesKept`), and of a request that whichever entry is the
innermost above its path keeps it until it is answered, through the redirect to an
app's root too (`PassageKept`). The work is in the lemmas on paths, for every
sequence of pieces: joining a prefix and taking it off again are inverse (`Rest`,
`Split`); two valid mounts join to a valid one, which is `/` only if both are
(`JoinedMount`); `route()` finds the innermost mount in any table of entries
(`InnermostMatches`); a template that is filled in below a mount is
the template of the service filled in, which needs that an encoded value has no slash
(`FilledBelow`); hence what the entry asks its Worker, and what the Worker's router
runs, is the route that published the operation (`EntryServes`, `ServiceServes`). The
theorem has the premise `NoRootApi`. It excludes the one kind of app of which the run
`root_api_mount` shows that the property fails (section 3), and nothing else.

**Gateway.** A request on its way down was let through by every middleware above it
and nothing was sent for it (`OnTheWayDown`), its identity is none or one
credential's (`CallerKnown`), and a JSON-RPC request is in hand only at the endpoint
(`RpcUnderWay`); during the endpoint's dispatch the identity is the caller's or that
of an OAuth session with the required scopes (`ActsFor`). `AnswerInv` describes the
way back by the position in the chain: what was thrown lies below its catcher
(`Caught`), a header is there above the middleware that sets it (`Readable`), a
status that was reported is final above every catcher (`Reported`), an answer that
must not be touched is not (`Untouched`), and there is one id and one user (`OneId`,
`OneUser`). Both hold for every chain, whatever the order of its middlewares.

**CLI.** `WorkspaceInv` says of a sync or a doctor that no edit has overtaken that it
works on the manifest that is there (`ReadsManifest`); that what a sync has written is
still there, down to the services it has given the secret, when no other command writes
(`Written`, `WritesAlone`); and that what a deployment counts as done is deployed
(`DeploysEntries`). For doctor, each check is a fact of a moment. What carries it to
the end is `WritersAgree`, which says that whoever writes while doctor reads has read
the same manifest, so that a file that was compared is only ever overwritten with what
it has (`WasChecked`); a service that was looked at keeps its secret for the same
reason, as a sync that is copying has read the gateway's. A sync that starts meanwhile
is in agreement because the manifest has not changed since doctor read it.

`ShieldInv` relates a command's plan and counters to the zone
(`Faithful`): rules applied and rules left make up the file (`Enforces`, `Posts`),
the last rule for an operation is what the zone has unless another command set it
since (`Settles`), and a bootstrap (`Bootstraps`) or a push (`Pushes`) whose exit code
claims an upload has made one in this run, of the operations it should be of. Any
number of commands run at once; TLC checks two.

Assumptions, each named in its module and evaluated by TLC in the runs: limits,
periods, lifetimes, tolerances and sizes are naturals (positive where the code
asserts or needs it); the absent secret is not a secret; deployments, flag states,
configurations, registrations, requests and messages have the shapes of their types
(`ConfigsAssumption`, `SitesAssumption`, `IncomingAssumption`,
`RegistrationsAssumption`, `MessagesAssumption`, `ArgumentsAssumption`,
`InputsAssumption`, `ChainAssumption`, `SchemasAssumption`), of which the `SitesAssumption` of `PublicApi`
says that registration has checked each mount and that a registered path begins with
a slash; no entry is named as the gateway's own secret is in the model (`NamesAssumption`);
an encoded value has no slash (`PiecesAssumption`); two callers' keys do not
share a record (`ScopedKeyAssumption`, see the hazards); the clocks of a webhook's
sender and receiver are apart by at most the tolerance (`SkewsAssumption`); for the
rollout, signing uses the conventional secret and clocks agree within the skew.

Model-checked only: `EveryEventArrives`, `EditsAreServed`, `DeathIsNoticed` and
`HealthConverges`, which are liveness under fairness and out of the provers' reach.
Every other property of the runs that pass is the statement of a theorem.

## 5. What is not modelled, and the plan

Left out of the modelled components: HMAC, base64url and JSON (a token is its
content and its signer), the fetching of a JWKS, validation of bodies, queries and
headers, evaluation errors of Flagship, the format of log lines and spans, and the
wording of errors. Health checks are modelled from the dashboard's side only. Of
OpenAPI documents, component kinds other than schemas and security schemes, the
metadata of API versions and the analysis report. Of the CLI, the parsing of
arguments, of configuration and of JSON with comments, package managers and
templates; generated code is text, of which only the names of methods matter to
the model. `createGateway()` and the like build what `Init` chooses.

Not modelled at all, because nothing in them can go wrong in an order or between
two parts: the wrappers of Cloudflare bindings and of Flagship, the landing page,
logging and redaction, the conversion of a schema library's types, scaffolding,
`create-gmode`, and the packages of test doubles and end-to-end tests.

Where the theorems end. Liveness stays with TLC, see section 4. Of in-memory limiters
that share buckets, `RefusesOnlyWhenSpent` is not true, and with different windows
`LimitPerWindow` is not either.
