--------------------------- MODULE DocumentCache ---------------------------
(***************************************************************************)
(* The aggregated OpenAPI document of a gateway isolate and its cache:     *)
(* the openapiPath branch of route() (packages/gateway/src/gateway.ts) and *)
(* aggregateOpenApi() (packages/gateway/src/openapi-aggregate.ts).         *)
(*                                                                         *)
(* Concurrent requests that miss the cache each fetch every service's own  *)
(* document; fetches of one request run in parallel and fail separately,   *)
(* services are redeployed meanwhile, and each request overwrites the      *)
(* cache when its last fetch has settled.                                  *)
(***************************************************************************)
EXTENDS IsolateClock, FiniteSets

CONSTANTS
  Requests,   \* requests in flight at a time; one that is answered makes room
  Services,   \* the services with `openapi` enabled
  Ttl,        \* docs.openapiCacheTtlSeconds
  MaxVersion  \* bound on the deployments of a service

ASSUME TtlAssumption        == Ttl \in Nat
ASSUME MaxVersionAssumption == MaxVersion \in Nat

VARIABLES
  version, \* the deployed version of each service's document
  cache,   \* internals.openapiCache
  req,     \* each request
  history  \* for the properties: when each service was last deployed and when
           \* a fetch of it last failed

vars == <<now, version, cache, req, history>>

\* A document lists, for each service, the version it merged or, under
\* x-gmode-unavailable, that the fetch failed.
Unavailable == 0
NoEntries == [s \in {} |-> 0]
NoCache == [doc |-> NoEntries, expiresAt |-> 0]

\* pc: "idle" or "fetching" (awaiting Promise.allSettled).
NewRequest == [pc |-> "idle", doc |-> NoEntries, arrivedAt |-> 0]

LongAgo == -(Ttl + MaxFetch + 1)

Init ==
  /\ now = 0
  /\ version = [s \in Services |-> 1]
  /\ cache = NoCache
  /\ req = [r \in Requests |-> NewRequest]
  /\ history = [s \in Services |-> [deployedAt |-> LongAgo, failedAt |-> LongAgo]]

\* `!refresh && ttl > 0 && cached && cached.expiresAt > Date.now()`
Usable(refresh) ==
  ~refresh /\ Ttl > 0 /\ cache # NoCache /\ cache.expiresAt > now

\* A usable document answers a request at once, and nothing changes.
Arrive(r, refresh) ==
  /\ req[r].pc = "idle"
  /\ ~Usable(refresh)
  /\ req' = [req EXCEPT ![r] = [pc |-> "fetching", doc |-> NoEntries,
                                arrivedAt |-> now]]
  /\ UNCHANGED <<now, version, cache, history>>

\* fetchServiceSpec() of one service settles.
Settle(r, s, entry) ==
  /\ req[r].pc = "fetching" /\ s \notin DOMAIN req[r].doc
  /\ req' = [req EXCEPT ![r].doc =
       [t \in DOMAIN @ \union {s} |-> IF t = s THEN entry ELSE @[t]]]
  /\ UNCHANGED <<now, version, cache>>

FetchSpec(r, s) == Settle(r, s, version[s]) /\ UNCHANGED history

FetchFails(r, s) ==
  /\ Settle(r, s, Unavailable)
  /\ history' = [history EXCEPT ![s].failedAt = now]

\* The request is answered with the document, which replaces the cached one.
\* The expiry of the new entry counts from the end of the aggregation.
CacheAndAnswer(r, doc) ==
  /\ req' = [req EXCEPT ![r] = NewRequest]
  /\ cache' = IF Ttl > 0 THEN [doc |-> doc, expiresAt |-> now + Ttl] ELSE cache
  /\ UNCHANGED <<now, version, history>>

Complete(r) == req[r].pc = "fetching" /\ DOMAIN req[r].doc = Services

AggregatedAllOrNothing(r) ==
  /\ Complete(r)
  /\ CacheAndAnswer(r, IF \E s \in Services : req[r].doc[s] = Unavailable
                       THEN [s \in Services |-> Unavailable] ELSE req[r].doc)

Aggregated(r) == Complete(r) /\ CacheAndAnswer(r, req[r].doc)

Deploy(s) ==
  /\ version[s] < MaxVersion
  /\ version' = [version EXCEPT ![s] = @ + 1]
  /\ history' = [history EXCEPT ![s].deployedAt = now]
  /\ UNCHANGED <<now, cache, req>>

\* Fetches settle within MaxFetch, and the continuation runs at once.
Tick ==
  /\ now < Horizon
  /\ \A r \in Requests : req[r].pc = "fetching" =>
       /\ now - req[r].arrivedAt < MaxFetch
       /\ ~Complete(r)
  /\ now' = now + 1
  /\ UNCHANGED <<version, cache, req, history>>

Next ==
  \/ \E r \in Requests :
       \/ \E refresh \in BOOLEAN : Arrive(r, refresh)
       \/ \E s \in Services : FetchSpec(r, s) \/ FetchFails(r, s)
       \/ Aggregated(r)
  \/ \E s \in Services : Deploy(s)
  \/ Tick

Spec == Init /\ [][Next]_vars

-----------------------------------------------------------------------------
(* Properties. *)

\* The documents that may be answered now: the cached one, and those whose
\* aggregation has just ended.
Answers ==
  (IF \E refresh \in BOOLEAN : Usable(refresh) THEN {cache.doc} ELSE {})
    \union {req[r].doc : r \in {q \in Requests : Complete(q)}}

\* Through the cache, through aggregations that overtake each other and through
\* failed fetches that are cached like any other, a document that is answered
\* disagrees with what is deployed only for one cache lifetime and one fetch:
\* an older version was replaced, and an unavailable service failed, within it.
BoundedStaleness ==
  \A doc \in Answers, s \in Services :
    \/ doc[s] = version[s]
    \/ /\ doc[s] = Unavailable
       /\ now - history[s].failedAt <= Ttl + MaxFetch
    \/ /\ doc[s] # Unavailable
       /\ now - history[s].deployedAt <= Ttl + MaxFetch

=============================================================================
