---------------------------- MODULE DocumentsProofs ----------------------------
(***************************************************************************)
(* Proofs about the documents of services.                                 *)
(*   DocumentCache: for every set of services and requests, and every      *)
(* cache lifetime and fetch duration, an answered OpenAPI document is      *)
(* never older than one cache lifetime and one fetch.                      *)
(*   McpCatalog: when one mount of a gateway caches its catalog at most,   *)
(* every mount honours its own include and exclude, and answers from no    *)
(* catalog older than its own lifetime and one fetch.  The premise is      *)
(* needed: two mounts that cache share one entry.                          *)
(*   DocumentPipeline: for any number of services, routes and schemas, an  *)
(* operation of the merged document refers to its own service's            *)
(* definitions, names tell operations apart, and a pruned document stands  *)
(* on its own.                                                             *)
(*   ShieldProfile: a schema of any size and depth is left without what    *)
(* Shield rejects wherever the profile descends, and changed only with a   *)
(* warning, or by the loss of an empty anyOf.                              *)
(***************************************************************************)
EXTENDS DocumentCache, McpCatalog, DocumentPipeline, ShieldProfile,
        FiniteSetTheorems, SequenceTheorems, WellFoundedInduction, TLAPS

-----------------------------------------------------------------------------
(* The aggregated document. *)

(* The inductive invariant. *)

\* An entry tells what is deployed, or what was so at some time since `since`.
TrueSince(entry, s, since) ==
  \/ entry = version[s]
  \/ entry = Unavailable /\ history[s].failedAt >= since
  \/ entry # Unavailable /\ history[s].deployedAt >= since

CacheTypes ==
  /\ now \in Nat
  /\ version \in [Services -> Nat \ {Unavailable}]
  /\ history \in [Services -> [deployedAt : Int, failedAt : Int]]
  /\ cache.expiresAt \in Int
  /\ DOMAIN req = Requests

\* An aggregation lasts for MaxFetch at most, and each entry it has gathered
\* was true at some time since the request arrived.
AggregationsFresh ==
  \A r \in Requests : req[r].pc = "fetching" =>
    /\ req[r].arrivedAt \in Int
    /\ req[r].arrivedAt <= now /\ now <= req[r].arrivedAt + MaxFetch
    /\ DOMAIN req[r].doc \subseteq Services
    /\ \A s \in DOMAIN req[r].doc : TrueSince(req[r].doc[s], s, req[r].arrivedAt)

\* The entries of the cached document were true since the aggregation that
\* gathered them, which ended Ttl before the expiry.
CacheFresh ==
  cache # NoCache =>
    /\ cache.expiresAt <= now + Ttl
    /\ \A s \in Services : TrueSince(cache.doc[s], s, cache.expiresAt - Ttl - MaxFetch)

CacheInv == CacheTypes /\ AggregationsFresh /\ CacheFresh

-----------------------------------------------------------------------------
(* The invariant is inductive: one lemma for each action. *)

LEMMA CacheInit == Init => CacheInv
<1> SUFFICES ASSUME Init PROVE CacheInv
  OBVIOUS
<1>1. CacheTypes
  BY TtlAssumption, MaxFetchAssumption DEF Init, CacheTypes, NoCache, Unavailable, LongAgo
<1>2. AggregationsFresh
  BY DEF Init, AggregationsFresh, NewRequest
<1>3. CacheFresh
  BY DEF Init, CacheFresh
<1> QED
  BY <1>1, <1>2, <1>3 DEF CacheInv

LEMMA ArriveStep ==
  ASSUME CacheInv, NEW r \in Requests, NEW refresh \in BOOLEAN, Arrive(r, refresh)
  PROVE  CacheInv'
<1>1. /\ UNCHANGED <<now, version, cache, history>>
      /\ req' = [req EXCEPT ![r] = [pc |-> "fetching", doc |-> NoEntries, arrivedAt |-> now]]
      /\ DOMAIN req = Requests /\ now \in Int
  BY DEF Arrive, CacheInv, CacheTypes
<1>2. CacheTypes' /\ CacheFresh'
  BY <1>1 DEF CacheInv, CacheTypes, CacheFresh, TrueSince
<1>3. ASSUME NEW q \in Requests, req'[q].pc = "fetching"
      PROVE  /\ req'[q].arrivedAt \in Int
             /\ req'[q].arrivedAt <= now /\ now <= req'[q].arrivedAt + MaxFetch
             /\ DOMAIN req'[q].doc \subseteq Services
             /\ \A s \in DOMAIN req'[q].doc : TrueSince(req[q].doc[s], s, req[q].arrivedAt)'
  <2>1. CASE q = r
    <3>1. req'[q].arrivedAt = now /\ req'[q].doc = NoEntries /\ DOMAIN NoEntries = {}
      BY <1>1, <2>1 DEF NoEntries
    <3> QED
      BY <1>1, <3>1, MaxFetchAssumption
  <2>2. CASE q # r
    <3>1. req'[q] = req[q]
      BY <1>1, <2>2
    <3> QED
      BY <1>1, <1>3, <3>1 DEF CacheInv, AggregationsFresh, TrueSince
  <2> QED
    BY <2>1, <2>2
<1>4. AggregationsFresh'
  BY <1>1, <1>3 DEF AggregationsFresh, TrueSince
<1> QED
  BY <1>2, <1>4 DEF CacheInv

\* A fetch settles with an entry that is true now; nothing becomes less true.
LEMMA SettleStep ==
  ASSUME CacheInv, NEW r \in Requests, NEW s \in Services, NEW entry,
         Settle(r, s, entry),
         history' \in [Services -> [deployedAt : Int, failedAt : Int]],
         \/ entry = version[s]
         \/ entry = Unavailable /\ history'[s].failedAt = now,
         \A t \in Services : /\ history'[t].deployedAt = history[t].deployedAt
                             /\ history'[t].failedAt \in {history[t].failedAt, now}
  PROVE  CacheInv'
<1> DEFINE entries == req[r].doc
           merged == [t \in DOMAIN entries \union {s} |-> IF t = s THEN entry ELSE entries[t]]
<1>1. /\ UNCHANGED <<now, version, cache>> /\ req[r].pc = "fetching"
      /\ req' = [req EXCEPT ![r].doc = merged] /\ DOMAIN req = Requests
      /\ now \in Int /\ history \in [Services -> [deployedAt : Int, failedAt : Int]]
      /\ cache.expiresAt \in Int
  BY DEF Settle, CacheInv, CacheTypes
<1>2. ASSUME NEW e, NEW t \in Services, NEW since \in Int, since <= now,
             TrueSince(e, t, since)
      PROVE  TrueSince(e, t, since)'
  BY <1>1, <1>2 DEF TrueSince
<1>3. CacheTypes'
  BY <1>1 DEF CacheInv, CacheTypes
<1>4. CacheFresh'
  <2> SUFFICES ASSUME cache # NoCache
               PROVE  \A t \in Services :
                        TrueSince(cache.doc[t], t, cache.expiresAt - Ttl - MaxFetch)'
    BY <1>1 DEF CacheInv, CacheFresh
  <2>1. /\ cache.expiresAt - Ttl - MaxFetch \in Int
        /\ cache.expiresAt - Ttl - MaxFetch <= now
    BY <1>1, TtlAssumption, MaxFetchAssumption DEF CacheInv, CacheFresh
  <2> QED
    BY <1>1, <1>2, <2>1 DEF CacheInv, CacheFresh, TrueSince
<1>5. ASSUME NEW q \in Requests, req'[q].pc = "fetching"
      PROVE  /\ req'[q].arrivedAt \in Int
             /\ req'[q].arrivedAt <= now /\ now <= req'[q].arrivedAt + MaxFetch
             /\ DOMAIN req'[q].doc \subseteq Services
             /\ \A t \in DOMAIN req'[q].doc : TrueSince(req[q].doc[t], t, req[q].arrivedAt)'
  <2>1. req'[q].arrivedAt = req[q].arrivedAt /\ req[q].pc = "fetching"
    BY <1>1, <1>5
  <2>2. /\ req[q].arrivedAt \in Int
        /\ req[q].arrivedAt <= now /\ now <= req[q].arrivedAt + MaxFetch
        /\ DOMAIN req[q].doc \subseteq Services
        /\ \A t \in DOMAIN req[q].doc : TrueSince(req[q].doc[t], t, req[q].arrivedAt)
    BY <2>1 DEF CacheInv, AggregationsFresh
  <2>3. CASE q # r
    <3>1. req'[q] = req[q]
      BY <1>1, <2>3
    <3>2. ASSUME NEW t \in DOMAIN req[q].doc
          PROVE  TrueSince(req[q].doc[t], t, req[q].arrivedAt)'
      BY <1>2, <2>2, <3>1, <3>2 DEF TrueSince
    <3> QED
      BY <2>2, <3>1, <3>2
  <2>4. CASE q = r
    <3>1. req'[q].doc = merged
      BY <1>1, <2>4
    <3>2. DOMAIN merged = DOMAIN entries \union {s} /\ merged[s] = entry
          /\ \A t \in DOMAIN entries \ {s} : merged[t] = entries[t]
      OBVIOUS
    <3> HIDE DEF merged
    <3>3. TrueSince(entry, s, req[q].arrivedAt)'
      BY <1>1, <2>1, <2>2 DEF TrueSince
    <3>4. ASSUME NEW t \in DOMAIN entries \ {s}
          PROVE  TrueSince(req[q].doc[t], t, req[q].arrivedAt)'
      <4>1. t \in DOMAIN req[q].doc /\ t \in Services /\ req'[q].doc[t] = req[q].doc[t]
        BY <2>2, <2>4, <3>1, <3>2, <3>4
      <4> QED
        BY <1>2, <2>1, <2>2, <4>1 DEF TrueSince
    <3> QED
      BY <2>1, <2>2, <2>4, <3>1, <3>2, <3>3, <3>4 DEF TrueSince
  <2> QED
    BY <2>3, <2>4
<1>6. AggregationsFresh'
  BY <1>1, <1>5 DEF AggregationsFresh
<1> QED
  BY <1>3, <1>4, <1>6 DEF CacheInv

LEMMA FetchStep ==
  ASSUME CacheInv, NEW r \in Requests, NEW s \in Services,
         FetchSpec(r, s) \/ FetchFails(r, s)
  PROVE  CacheInv'
<1>1. /\ history \in [Services -> [deployedAt : Int, failedAt : Int]] /\ now \in Int
      /\ s \in Services
  BY DEF CacheInv, CacheTypes
<1>2. CASE FetchSpec(r, s)
  BY <1>1, <1>2, SettleStep DEF FetchSpec
<1>3. CASE FetchFails(r, s)
  <2>1. history' = [history EXCEPT ![s].failedAt = now] /\ Settle(r, s, Unavailable)
    BY <1>3 DEF FetchFails
  <2>2. /\ history'[s] = [history[s] EXCEPT !.failedAt = now]
        /\ \A t \in Services \ {s} : history'[t] = history[t]
        /\ history' = [t \in Services |-> history'[t]]
    BY <1>1, <2>1
  <2>3. /\ history'[s].failedAt = now /\ history'[s].deployedAt = history[s].deployedAt
        /\ history'[s] \in [deployedAt : Int, failedAt : Int]
    BY <1>1, <2>2
  <2>4. history' \in [Services -> [deployedAt : Int, failedAt : Int]]
    BY <1>1, <2>2, <2>3
  <2> QED
    BY <2>1, <2>2, <2>3, <2>4, SettleStep
<1> QED
  BY <1>2, <1>3

LEMMA AggregatedStep ==
  ASSUME CacheInv, NEW r \in Requests, Aggregated(r)
  PROVE  CacheInv'
<1>1. /\ UNCHANGED <<now, version, history>> /\ req[r].pc = "fetching"
      /\ DOMAIN req[r].doc = Services
      /\ req' = [req EXCEPT ![r] = NewRequest] /\ DOMAIN req = Requests
      /\ cache' = IF Ttl > 0 THEN [doc |-> req[r].doc, expiresAt |-> now + Ttl] ELSE cache
      /\ now \in Int /\ Ttl \in Int /\ MaxFetch \in Int
  BY TtlAssumption, MaxFetchAssumption
  DEF Aggregated, Complete, CacheAndAnswer, CacheInv, CacheTypes
<1>2. /\ req[r].arrivedAt \in Int /\ now <= req[r].arrivedAt + MaxFetch
      /\ \A s \in Services : TrueSince(req[r].doc[s], s, req[r].arrivedAt)
  BY <1>1 DEF CacheInv, AggregationsFresh
<1>3. CacheTypes'
  BY <1>1 DEF CacheInv, CacheTypes
<1>4. AggregationsFresh'
  <2>1. \A q \in Requests : req'[q].pc = "fetching" => req'[q] = req[q]
    BY <1>1 DEF NewRequest
  <2> QED
    BY <1>1, <2>1 DEF CacheInv, AggregationsFresh, TrueSince
<1>5. CacheFresh'
  <2>1. CASE Ttl > 0
    <3>1. cache'.doc = req[r].doc /\ cache'.expiresAt = now + Ttl
      BY <1>1, <2>1
    <3>2. ASSUME NEW s \in Services
          PROVE  TrueSince(cache.doc[s], s, cache.expiresAt - Ttl - MaxFetch)'
      <4>1. /\ cache'.doc[s] = req[r].doc[s]
            /\ cache'.expiresAt - Ttl - MaxFetch = now - MaxFetch
            /\ history[s].failedAt \in Int /\ history[s].deployedAt \in Int
        BY <1>1, <3>1 DEF CacheInv, CacheTypes
      <4> QED
        BY <1>1, <1>2, <4>1 DEF TrueSince
    <3> QED
      BY <1>1, <3>1, <3>2 DEF CacheFresh
  <2>2. CASE ~(Ttl > 0)
    BY <1>1, <2>2 DEF CacheInv, CacheFresh, TrueSince
  <2> QED
    BY <2>1, <2>2
<1> QED
  BY <1>3, <1>4, <1>5 DEF CacheInv

LEMMA DeployStep ==
  ASSUME CacheInv, NEW s \in Services, Deploy(s)
  PROVE  CacheInv'
<1>1. /\ UNCHANGED <<now, cache, req>>
      /\ version' = [version EXCEPT ![s] = @ + 1]
      /\ history' = [history EXCEPT ![s].deployedAt = now]
      /\ version \in [Services -> Nat \ {Unavailable}] /\ now \in Int
      /\ history \in [Services -> [deployedAt : Int, failedAt : Int]]
  BY DEF Deploy, CacheInv, CacheTypes
<1>2. /\ history'[s] = [history[s] EXCEPT !.deployedAt = now]
      /\ \A t \in Services \ {s} : history'[t] = history[t]
      /\ history' = [t \in Services |-> history'[t]]
  BY <1>1
<1>3. /\ history'[s].failedAt = history[s].failedAt /\ history'[s].deployedAt = now
      /\ history'[s] \in [deployedAt : Int, failedAt : Int]
  BY <1>1, <1>2
<1>4. history' \in [Services -> [deployedAt : Int, failedAt : Int]]
  BY <1>1, <1>2, <1>3
<1>5. /\ version' \in [Services -> Nat \ {Unavailable}]
      /\ version[s] # Unavailable
      /\ \A t \in Services \ {s} : version'[t] = version[t]
  BY <1>1 DEF Unavailable
<1>6. ASSUME NEW e, NEW t \in Services, NEW since \in Int, since <= now,
             TrueSince(e, t, since)
      PROVE  TrueSince(e, t, since)'
  <2>1. CASE t = s
    BY <1>1, <1>3, <1>5, <1>6, <2>1 DEF TrueSince
  <2>2. CASE t # s
    BY <1>2, <1>5, <1>6, <2>2 DEF TrueSince
  <2> QED
    BY <2>1, <2>2
<1>7. CacheTypes'
  BY <1>1, <1>4, <1>5 DEF CacheInv, CacheTypes
<1>8. AggregationsFresh'
  BY <1>1, <1>6 DEF CacheInv, AggregationsFresh, TrueSince
<1>9. CacheFresh'
  <2> SUFFICES ASSUME cache # NoCache
               PROVE  \A t \in Services :
                        TrueSince(cache.doc[t], t, cache.expiresAt - Ttl - MaxFetch)'
    BY <1>1 DEF CacheInv, CacheFresh
  <2>1. /\ cache.expiresAt - Ttl - MaxFetch \in Int
        /\ cache.expiresAt - Ttl - MaxFetch <= now
    BY <1>1, TtlAssumption, MaxFetchAssumption DEF CacheInv, CacheTypes, CacheFresh
  <2> QED
    BY <1>1, <1>6, <2>1 DEF CacheInv, CacheFresh, TrueSince
<1> QED
  BY <1>7, <1>8, <1>9 DEF CacheInv

LEMMA TickStep ==
  ASSUME CacheInv, Tick
  PROVE  CacheInv'
<1>1. /\ UNCHANGED <<version, cache, req, history>> /\ now' = now + 1 /\ now \in Nat
      /\ \A r \in Requests : req[r].pc = "fetching" => now - req[r].arrivedAt < MaxFetch
  BY DEF Tick, CacheInv, CacheTypes
<1>2. CacheTypes'
  BY <1>1 DEF CacheInv, CacheTypes
<1>3. AggregationsFresh'
  BY <1>1, MaxFetchAssumption DEF CacheInv, AggregationsFresh, TrueSince
<1>4. CacheFresh'
  BY <1>1, TtlAssumption DEF CacheInv, CacheTypes, CacheFresh, TrueSince
<1> QED
  BY <1>2, <1>3, <1>4 DEF CacheInv

LEMMA CacheStep == CacheInv /\ [Next]_vars => CacheInv'
<1> SUFFICES ASSUME CacheInv, [Next]_vars PROVE CacheInv'
  OBVIOUS
<1>1. CASE UNCHANGED vars
  BY <1>1 DEF vars, CacheInv, CacheTypes, AggregationsFresh, CacheFresh, TrueSince
<1> QED
  BY <1>1, ArriveStep, FetchStep, AggregatedStep, DeployStep, TickStep DEF Next

\* What the cache and every running aggregation hold was true at some time
\* since it was fetched, and the expiry of the cache bounds that time.
THEOREM CacheInvariant == Spec => []CacheInv
BY CacheInit, CacheStep, PTL DEF Spec

-----------------------------------------------------------------------------
LEMMA FreshAnswers == CacheInv => BoundedStaleness
<1> SUFFICES ASSUME CacheInv, NEW served \in Answers, NEW s \in Services
             PROVE  \/ served[s] = version[s]
                    \/ /\ served[s] = Unavailable
                       /\ now - history[s].failedAt <= Ttl + MaxFetch
                    \/ /\ served[s] # Unavailable
                       /\ now - history[s].deployedAt <= Ttl + MaxFetch
  BY DEF BoundedStaleness
<1>1. /\ now \in Int /\ Ttl \in Nat /\ MaxFetch \in Nat /\ cache.expiresAt \in Int
      /\ history[s].failedAt \in Int /\ history[s].deployedAt \in Int
  BY TtlAssumption, MaxFetchAssumption DEF CacheInv, CacheTypes
<1>2. PICK since \in Int : since >= now - Ttl - MaxFetch /\ TrueSince(served[s], s, since)
  <2>1. CASE served = cache.doc /\ \E refresh \in BOOLEAN : Usable(refresh)
    <3>1. cache # NoCache /\ cache.expiresAt > now
      BY <2>1 DEF Usable
    <3>2. TrueSince(served[s], s, cache.expiresAt - Ttl - MaxFetch)
      BY <2>1, <3>1 DEF CacheInv, CacheFresh
    <3> QED
      BY <1>1, <3>1, <3>2
  <2>2. CASE \E r \in Requests : Complete(r) /\ served = req[r].doc
    <3>1. PICK r \in Requests : Complete(r) /\ served = req[r].doc
      BY <2>2
    <3>2. /\ req[r].arrivedAt \in Int /\ now <= req[r].arrivedAt + MaxFetch
          /\ TrueSince(served[s], s, req[r].arrivedAt)
      BY <3>1 DEF Complete, CacheInv, AggregationsFresh
    <3> QED
      BY <1>1, <3>2
  <2> QED
    BY <2>1, <2>2 DEF Answers
<1> QED
  BY <1>1, <1>2 DEF TrueSince

\* A document that is answered, cached or just aggregated, disagrees with what
\* is deployed only for one cache lifetime and one fetch.
THEOREM DocumentsBoundedStaleness == Spec => []BoundedStaleness
BY CacheInvariant, FreshAnswers, PTL

-----------------------------------------------------------------------------
(* The MCP catalog. *)

Caches(m) == m \in Mounts /\ CatalogTtl[m] > 0

OneMountCaches == \A m, n \in Mounts : Caches(m) /\ Caches(n) => m = n

-----------------------------------------------------------------------------
(* The inductive invariant. *)

\* What was published was published, or what was hidden was hidden or could not
\* be fetched, at some time since `since`.
ShownSince(o, since) == o \in published \/ changes.presentUntil[o] >= since

HiddenSince(o, since) ==
  o \notin published \/ changes.absentUntil[o] >= since \/ changes.failedAt >= since

CatalogTypes ==
  /\ now \in Nat
  /\ published \subseteq Operations
  /\ changes.presentUntil \in [Operations -> Int]
  /\ changes.absentUntil \in [Operations -> Int]
  /\ changes.failedAt \in Int
  /\ DOMAIN changes = {"presentUntil", "absentUntil", "failedAt"}
  /\ catalog.expiresAt \in Int
  /\ DOMAIN call = Calls
  /\ \A r \in Calls :
       DOMAIN call[r] = {"pc", "mount", "document", "arrivedAt"}
         /\ call[r].pc \in {"idle", "fetching", "merging", "done"}

\* A build lasts for MaxFetch at most and belongs to one mount; the document it
\* has received tells what was published at some time since it began.
BuildsFresh ==
  \A r \in Calls :
    /\ call[r].pc \in {"idle", "fetching"} => call[r].document = {}
    /\ call[r].pc \in {"fetching", "merging"} =>
         /\ call[r].mount \in Mounts
         /\ call[r].arrivedAt \in Int
         /\ call[r].arrivedAt <= now /\ now <= call[r].arrivedAt + MaxFetch
    /\ call[r].pc = "merging" =>
         /\ call[r].document \subseteq Operations
         /\ \A o \in call[r].document : ShownSince(o, call[r].arrivedAt)
         /\ \A o \in Operations \ call[r].document : HiddenSince(o, call[r].arrivedAt)

\* The cached catalog is one that a caching mount built.
CatalogBuilt ==
  catalog # NoCatalog =>
    \E m \in Mounts :
      /\ Caches(m)
      /\ catalog.operations \subseteq Keep[m] \intersect Operations
      /\ catalog.expiresAt <= now + CatalogTtl[m]
      /\ \A o \in catalog.operations : ShownSince(o, catalog.expiresAt - CatalogTtl[m] - MaxFetch)
      /\ \A o \in (Keep[m] \intersect Operations) \ catalog.operations :
           HiddenSince(o, catalog.expiresAt - CatalogTtl[m] - MaxFetch)

CatalogInv == CatalogTypes /\ BuildsFresh /\ CatalogBuilt /\ MountOptionsHonoured

-----------------------------------------------------------------------------
LEMMA CatalogStart == CatalogInit => CatalogInv
<1> SUFFICES ASSUME CatalogInit PROVE CatalogInv
  OBVIOUS
<1>1. CatalogTypes
  BY DEF CatalogInit, CatalogTypes, NoCatalog, NewCall, Never
<1>2. BuildsFresh
  BY DEF CatalogInit, BuildsFresh, NewCall
<1>3. CatalogBuilt /\ MountOptionsHonoured
  BY DEF CatalogInit, CatalogBuilt, MountOptionsHonoured, NoAnswer
<1> QED
  BY <1>1, <1>2, <1>3 DEF CatalogInv

\* A request that is answered is done; what it is answered with is the mount's.
LEMMA HandOutFact ==
  ASSUME CatalogInv, NEW r \in Calls, NEW m, NEW built, HandOut(r, m, built)
  PROVE  /\ call'[r] = [NewCall EXCEPT !.pc = "done"] /\ DOMAIN call' = Calls
         /\ call'[r].pc = "done"
         /\ \A q \in Calls \ {r} : call'[q] = call[q]
         /\ answer'.mount = m /\ answer'.operations = built
BY DEF HandOut, NewCall, CatalogInv, CatalogTypes

LEMMA CallArrivesStep ==
  ASSUME OneMountCaches, CatalogInv,
         NEW r \in Calls, NEW m \in Mounts, CallArrives(r, m)
  PROVE  CatalogInv'
<1>1. /\ UNCHANGED <<now, published, catalog, changes>> /\ call[r].pc = "idle"
      /\ DOMAIN call = Calls
      /\ now \in Int
  BY DEF CallArrives, CatalogInv, CatalogTypes
<1>2. CatalogBuilt'
  BY <1>1 DEF CatalogInv, CatalogBuilt, ShownSince, HiddenSince
<1>3. CASE CatalogUsable(m) /\ HandOut(r, m, catalog.operations)
  <2>1. /\ call'[r] = [NewCall EXCEPT !.pc = "done"] /\ DOMAIN call' = Calls
        /\ call'[r].pc = "done"
        /\ \A q \in Calls \ {r} : call'[q] = call[q]
        /\ answer'.mount = m /\ answer'.operations = catalog.operations
    BY <1>3, HandOutFact
  <2>2. catalog.operations \subseteq Keep[m]
    BY <1>3 DEF CatalogUsable, Caches, OneMountCaches, CatalogInv, CatalogBuilt
  <2>3. CatalogTypes'
    BY <1>1, <2>1 DEF CatalogInv, CatalogTypes, NewCall
  <2>4. BuildsFresh'
    BY <1>1, <2>1 DEF CatalogInv, BuildsFresh, ShownSince, HiddenSince
  <2> QED
    BY <1>2, <2>1, <2>2, <2>3, <2>4 DEF CatalogInv, MountOptionsHonoured
<1>4. CASE /\ call' = [call EXCEPT ![r].pc = "fetching", ![r].mount = m, ![r].arrivedAt = now]
           /\ UNCHANGED answer
  <2>1. /\ call'[r] = [call[r] EXCEPT !.pc = "fetching", !.mount = m, !.arrivedAt = now]
        /\ DOMAIN call' = Calls
        /\ \A q \in Calls \ {r} : call'[q] = call[q]
    BY <1>1, <1>4
  <2>2. /\ DOMAIN call'[r] = {"pc", "mount", "document", "arrivedAt"}
        /\ call'[r].pc = "fetching" /\ call'[r].mount = m /\ call'[r].arrivedAt = now
        /\ call'[r].document = {}
    BY <1>1, <2>1 DEF CatalogInv, CatalogTypes, BuildsFresh
  <2>3. CatalogTypes'
    BY <1>1, <2>1, <2>2 DEF CatalogInv, CatalogTypes
  <2>4. BuildsFresh'
    <3>1. \A q \in Calls \ {r} : call'[q] = call[q]
      BY <2>1
    <3> QED
      BY <1>1, <2>2, <3>1, CatalogTtlAssumption, MaxFetchAssumption
      DEF CatalogInv, BuildsFresh, ShownSince, HiddenSince
  <2> QED
    BY <1>2, <1>4, <2>3, <2>4 DEF CatalogInv, MountOptionsHonoured
<1> QED
  BY <1>3, <1>4 DEF CallArrives

LEMMA FetchDocumentStep ==
  ASSUME CatalogInv, NEW r \in Calls, FetchDocument(r) \/ DocumentFails(r)
  PROVE  CatalogInv'
<1>1. /\ UNCHANGED <<now, published, catalog, answer>> /\ call[r].pc = "fetching"
      /\ DOMAIN call = Calls /\ now \in Int
      /\ call[r].arrivedAt \in Int /\ call[r].arrivedAt <= now
      /\ call[r].document = {} /\ published \subseteq Operations
  BY DEF FetchDocument, DocumentFails, CatalogInv, CatalogTypes, BuildsFresh
<1>2. PICK document \in {published, {}} :
        /\ call' = [call EXCEPT ![r].pc = "merging", ![r].document = document]
        /\ \/ document = published /\ changes' = changes
           \/ changes' = [changes EXCEPT !.failedAt = now]
  <2>1. CASE FetchDocument(r)
    BY <2>1 DEF FetchDocument
  <2>2. CASE DocumentFails(r)
    <3>1. call' = [call EXCEPT ![r].pc = "merging", ![r].document = {}]
      BY <1>1, <2>2 DEF DocumentFails
    <3> QED
      BY <2>2, <3>1 DEF DocumentFails
  <2> QED
    BY <2>1, <2>2
<1>3. /\ call'[r].pc = "merging" /\ call'[r].document = document
      /\ call'[r].mount = call[r].mount /\ call'[r].arrivedAt = call[r].arrivedAt
      /\ DOMAIN call'[r] = {"pc", "mount", "document", "arrivedAt"}
      /\ DOMAIN call' = Calls
      /\ \A q \in Calls \ {r} : call'[q] = call[q]
  BY <1>1, <1>2 DEF CatalogInv, CatalogTypes
<1>4. /\ changes'.presentUntil = changes.presentUntil
      /\ changes'.absentUntil = changes.absentUntil
      /\ \/ changes'.failedAt = changes.failedAt /\ document = published
         \/ changes'.failedAt = now
      /\ DOMAIN changes' = {"presentUntil", "absentUntil", "failedAt"}
  BY <1>2 DEF CatalogInv, CatalogTypes
<1>5. ASSUME NEW o, NEW since \in Int, since <= now
      PROVE  /\ ShownSince(o, since) => ShownSince(o, since)'
             /\ HiddenSince(o, since) => HiddenSince(o, since)'
  BY <1>1, <1>4, <1>5 DEF ShownSince, HiddenSince
<1>6. CatalogTypes'
  <2>1. changes'.failedAt \in Int
    BY <1>1, <1>4 DEF CatalogInv, CatalogTypes
  <2> QED
    BY <1>1, <1>3, <1>4, <2>1 DEF CatalogInv, CatalogTypes
<1>7. BuildsFresh'
  <2> SUFFICES ASSUME NEW q \in Calls
               PROVE  /\ call'[q].pc \in {"idle", "fetching"} => call'[q].document = {}
                      /\ call'[q].pc \in {"fetching", "merging"} =>
                           /\ call'[q].mount \in Mounts
                           /\ call'[q].arrivedAt \in Int
                           /\ call'[q].arrivedAt <= now /\ now <= call'[q].arrivedAt + MaxFetch
                      /\ call'[q].pc = "merging" =>
                           /\ call'[q].document \subseteq Operations
                           /\ \A o \in call'[q].document : ShownSince(o, call[q].arrivedAt)'
                           /\ \A o \in Operations \ call'[q].document :
                                HiddenSince(o, call[q].arrivedAt)'
    BY <1>1 DEF BuildsFresh
  <2>1. CASE q # r
    BY <1>3, <1>5, <2>1 DEF CatalogInv, BuildsFresh, ShownSince, HiddenSince
  <2>2. CASE q = r
    <3>1. document \subseteq Operations
      BY <1>1, <1>2
    <3>2. \A o \in document : ShownSince(o, call[q].arrivedAt)'
      BY <1>1, <1>2, <1>3, <2>2 DEF ShownSince
    <3>3. \A o \in Operations \ document : HiddenSince(o, call[q].arrivedAt)'
      BY <1>1, <1>3, <1>4, <2>2 DEF HiddenSince
    <3> QED
      BY <1>1, <1>3, <2>2, <3>1, <3>2, <3>3 DEF CatalogInv, BuildsFresh
  <2> QED
    BY <2>1, <2>2
<1>8. CatalogBuilt'
  <2> SUFFICES ASSUME catalog # NoCatalog PROVE CatalogBuilt'
    BY <1>1 DEF CatalogBuilt
  <2>1. PICK m \in Mounts :
          /\ Caches(m)
          /\ catalog.operations \subseteq Keep[m] \intersect Operations
          /\ catalog.expiresAt <= now + CatalogTtl[m]
          /\ \A o \in catalog.operations : ShownSince(o, catalog.expiresAt - CatalogTtl[m] - MaxFetch)
          /\ \A o \in (Keep[m] \intersect Operations) \ catalog.operations :
               HiddenSince(o, catalog.expiresAt - CatalogTtl[m] - MaxFetch)
    BY DEF CatalogInv, CatalogBuilt
  <2>2. /\ catalog.expiresAt - CatalogTtl[m] - MaxFetch \in Int
        /\ catalog.expiresAt - CatalogTtl[m] - MaxFetch <= now
    BY <1>1, <2>1, CatalogTtlAssumption, MaxFetchAssumption DEF CatalogInv, CatalogTypes
  <2>3. /\ \A o \in catalog.operations : ShownSince(o, catalog.expiresAt - CatalogTtl[m] - MaxFetch)'
        /\ \A o \in (Keep[m] \intersect Operations) \ catalog.operations :
             HiddenSince(o, catalog.expiresAt - CatalogTtl[m] - MaxFetch)'
    BY <1>1, <1>5, <2>1, <2>2 DEF ShownSince, HiddenSince
  <2> QED
    BY <1>1, <2>1, <2>3 DEF CatalogBuilt
<1> QED
  BY <1>1, <1>6, <1>7, <1>8 DEF CatalogInv, MountOptionsHonoured

\* A redeploy changes what is published and notes when.
LEMMA RedeployStep ==
  ASSUME CatalogInv, NEW operations \in SUBSET Operations, Redeploy(operations)
  PROVE  CatalogInv'
<1>1. /\ UNCHANGED <<now, catalog, call, answer>> /\ published' = operations
      /\ now \in Int /\ published \subseteq Operations
      /\ changes.presentUntil \in [Operations -> Int]
      /\ changes.absentUntil \in [Operations -> Int]
      /\ changes.failedAt \in Int
  BY DEF Redeploy, CatalogInv, CatalogTypes
<1>2. /\ changes'.presentUntil = [o \in Operations |->
           IF o \in published \ operations THEN now ELSE changes.presentUntil[o]]
      /\ changes'.absentUntil = [o \in Operations |->
           IF o \in operations \ published THEN now ELSE changes.absentUntil[o]]
      /\ changes'.failedAt = changes.failedAt
      /\ DOMAIN changes' = {"presentUntil", "absentUntil", "failedAt"}
  BY DEF Redeploy, CatalogInv, CatalogTypes
<1>3. ASSUME NEW o \in Operations, NEW since \in Int, since <= now
      PROVE  /\ ShownSince(o, since) => ShownSince(o, since)'
             /\ HiddenSince(o, since) => HiddenSince(o, since)'
  BY <1>1, <1>2, <1>3 DEF ShownSince, HiddenSince
<1>4. CatalogTypes'
  BY <1>1, <1>2 DEF CatalogInv, CatalogTypes
<1>5. BuildsFresh'
  <2> SUFFICES ASSUME NEW q \in Calls, call[q].pc = "merging"
               PROVE  /\ \A o \in call[q].document : ShownSince(o, call[q].arrivedAt)'
                      /\ \A o \in Operations \ call[q].document :
                           HiddenSince(o, call[q].arrivedAt)'
    BY <1>1 DEF CatalogInv, BuildsFresh
  <2> QED
    BY <1>1, <1>3 DEF CatalogInv, BuildsFresh, ShownSince, HiddenSince
<1>6. CatalogBuilt'
  <2> SUFFICES ASSUME catalog # NoCatalog PROVE CatalogBuilt'
    BY <1>1 DEF CatalogBuilt
  <2>1. PICK m \in Mounts :
          /\ Caches(m)
          /\ catalog.operations \subseteq Keep[m] \intersect Operations
          /\ catalog.expiresAt <= now + CatalogTtl[m]
          /\ \A o \in catalog.operations : ShownSince(o, catalog.expiresAt - CatalogTtl[m] - MaxFetch)
          /\ \A o \in (Keep[m] \intersect Operations) \ catalog.operations :
               HiddenSince(o, catalog.expiresAt - CatalogTtl[m] - MaxFetch)
    BY DEF CatalogInv, CatalogBuilt
  <2>2. /\ catalog.expiresAt - CatalogTtl[m] - MaxFetch \in Int
        /\ catalog.expiresAt - CatalogTtl[m] - MaxFetch <= now
    BY <1>1, <2>1, CatalogTtlAssumption, MaxFetchAssumption DEF CatalogInv, CatalogTypes
  <2>3. /\ \A o \in catalog.operations : ShownSince(o, catalog.expiresAt - CatalogTtl[m] - MaxFetch)'
        /\ \A o \in (Keep[m] \intersect Operations) \ catalog.operations :
             HiddenSince(o, catalog.expiresAt - CatalogTtl[m] - MaxFetch)'
    BY <1>1, <1>3, <2>1, <2>2 DEF ShownSince, HiddenSince
  <2> QED
    BY <1>1, <2>1, <2>3 DEF CatalogBuilt
<1> QED
  BY <1>1, <1>4, <1>5, <1>6 DEF CatalogInv, MountOptionsHonoured

LEMMA MergeStep ==
  ASSUME CatalogInv, NEW r \in Calls, Merge(r)
  PROVE  CatalogInv'
<1> DEFINE m == call[r].mount
           built == call[r].document \intersect Keep[m]
<1>1. /\ UNCHANGED <<now, published, changes>> /\ call[r].pc = "merging"
      /\ HandOut(r, m, built)
      /\ catalog' = IF CatalogTtl[m] > 0 THEN [operations |-> built, expiresAt |-> now + CatalogTtl[m]]
                  ELSE catalog
      /\ now \in Int
  BY DEF Merge, CatalogInv, CatalogTypes
<1>2. /\ m \in Mounts /\ call[r].arrivedAt \in Int /\ now <= call[r].arrivedAt + MaxFetch
      /\ call[r].document \subseteq Operations
      /\ \A o \in call[r].document : ShownSince(o, call[r].arrivedAt)
      /\ \A o \in Operations \ call[r].document : HiddenSince(o, call[r].arrivedAt)
      /\ CatalogTtl[m] \in Nat /\ MaxFetch \in Nat
  BY <1>1, CatalogTtlAssumption, MaxFetchAssumption DEF CatalogInv, BuildsFresh
<1>3. /\ call'[r] = [NewCall EXCEPT !.pc = "done"] /\ DOMAIN call' = Calls
      /\ call'[r].pc = "done"
      /\ \A q \in Calls \ {r} : call'[q] = call[q]
      /\ answer'.mount = m /\ answer'.operations = built
  BY <1>1, HandOutFact
<1>4. CatalogTypes'
  BY <1>1, <1>2, <1>3 DEF CatalogInv, CatalogTypes, NewCall
<1>5. BuildsFresh'
  BY <1>1, <1>3 DEF CatalogInv, BuildsFresh, ShownSince, HiddenSince
<1>6. CatalogBuilt'
  <2>1. CASE CatalogTtl[m] > 0
    <3>1. catalog'.operations = built /\ catalog'.expiresAt = now + CatalogTtl[m]
      BY <1>1, <2>1
    <3>2. /\ now - MaxFetch \in Int /\ now - MaxFetch <= call[r].arrivedAt
          /\ now + CatalogTtl[m] - CatalogTtl[m] - MaxFetch = now - MaxFetch
      BY <1>1, <1>2
    <3>3. /\ \A o \in built : ShownSince(o, now - MaxFetch)
          /\ \A o \in (Keep[m] \intersect Operations) \ built : HiddenSince(o, now - MaxFetch)
      BY <1>1, <1>2, <3>2 DEF ShownSince, HiddenSince, CatalogInv, CatalogTypes
    <3>4. built \subseteq Keep[m] \intersect Operations
      BY <1>2
    <3>5. PICK n \in Mounts : n = m
      BY <1>2
    <3>6. /\ Caches(n)
          /\ catalog'.operations \subseteq Keep[n] \intersect Operations
          /\ catalog'.expiresAt <= now + CatalogTtl[n]
      BY <1>1, <1>2, <2>1, <3>1, <3>4, <3>5 DEF Caches
    <3>7. /\ \A o \in catalog'.operations : ShownSince(o, catalog.expiresAt - CatalogTtl[n] - MaxFetch)'
          /\ \A o \in (Keep[n] \intersect Operations) \ catalog'.operations :
               HiddenSince(o, catalog.expiresAt - CatalogTtl[n] - MaxFetch)'
      <4>1. catalog'.expiresAt - CatalogTtl[n] - MaxFetch = now - MaxFetch
        BY <1>1, <1>2, <3>1, <3>2, <3>5
      <4>2. /\ \A o \in built : ShownSince(o, catalog.expiresAt - CatalogTtl[n] - MaxFetch)'
            /\ \A o \in (Keep[n] \intersect Operations) \ built :
                 HiddenSince(o, catalog.expiresAt - CatalogTtl[n] - MaxFetch)'
        BY <1>1, <3>3, <3>5, <4>1 DEF ShownSince, HiddenSince
      <4> QED
        BY <3>1, <4>2
    <3> QED
      BY <1>1, <3>6, <3>7 DEF CatalogBuilt
  <2>2. CASE ~(CatalogTtl[m] > 0)
    BY <1>1, <2>2 DEF CatalogInv, CatalogBuilt, ShownSince, HiddenSince
  <2> QED
    BY <2>1, <2>2
<1> QED
  BY <1>3, <1>4, <1>5, <1>6 DEF CatalogInv, MountOptionsHonoured

LEMMA CatalogTickStep ==
  ASSUME CatalogInv, CatalogTick
  PROVE  CatalogInv'
<1>1. /\ UNCHANGED <<published, catalog, call, answer, changes>> /\ now' = now + 1 /\ now \in Nat
      /\ \A r \in Calls : /\ call[r].pc # "merging"
                             /\ call[r].pc = "fetching" => now - call[r].arrivedAt < MaxFetch
  BY DEF CatalogTick, CatalogInv, CatalogTypes
<1>2. CatalogTypes' /\ MountOptionsHonoured'
  BY <1>1 DEF CatalogInv, CatalogTypes, MountOptionsHonoured
<1>3. BuildsFresh'
  <2>1. ASSUME NEW r \in Calls, call[r].pc = "fetching"
        PROVE  /\ call[r].mount \in Mounts /\ call[r].arrivedAt \in Int
               /\ call[r].arrivedAt <= now' /\ now' <= call[r].arrivedAt + MaxFetch
    <3>1. /\ call[r].mount \in Mounts /\ call[r].arrivedAt \in Int
          /\ call[r].arrivedAt <= now
      BY <2>1 DEF CatalogInv, BuildsFresh
    <3>2. now - call[r].arrivedAt < MaxFetch
      BY <1>1, <2>1
    <3> QED
      BY <1>1, <3>1, <3>2, MaxFetchAssumption
  <2>2. call' = call
    BY <1>1
  <2>3. \A r \in Calls : call[r].pc # "merging"
    BY DEF CatalogTick
  <2> QED
    BY <2>1, <2>2, <2>3 DEF CatalogInv, BuildsFresh
<1>4. CatalogBuilt'
  BY <1>1, CatalogTtlAssumption, MaxFetchAssumption
  DEF CatalogInv, CatalogTypes, CatalogBuilt, ShownSince, HiddenSince
<1> QED
  BY <1>2, <1>3, <1>4 DEF CatalogInv

LEMMA CatalogStep ==
  ASSUME OneMountCaches
  PROVE  CatalogInv /\ [CatalogNext]_catalogVars => CatalogInv'
<1> SUFFICES ASSUME CatalogInv, [CatalogNext]_catalogVars PROVE CatalogInv'
  OBVIOUS
<1>1. CASE UNCHANGED catalogVars
  BY <1>1 DEF catalogVars, CatalogInv, CatalogTypes, BuildsFresh, CatalogBuilt, ShownSince,
              HiddenSince, MountOptionsHonoured
<1> QED
  BY <1>1, CallArrivesStep, FetchDocumentStep, MergeStep, RedeployStep, CatalogTickStep DEF CatalogNext

\* What the shared cache holds was built by the mount that caches, and every
\* entry and every omission of it was true since the fetch it comes from.
THEOREM CatalogInvariant ==
  ASSUME OneMountCaches
  PROVE  CatalogSpec => []CatalogInv
BY CatalogStart, CatalogStep, PTL DEF CatalogSpec

\* No mount ever lists or dispatches an operation that it filters out, when at
\* most one of the gateway's mounts caches its catalog.
THEOREM MountsHonourTheirOptions ==
  ASSUME OneMountCaches
  PROVE  CatalogSpec => []MountOptionsHonoured
<1>1. CatalogInv => MountOptionsHonoured
  BY DEF CatalogInv
<1> QED
  BY <1>1, CatalogInvariant, PTL

-----------------------------------------------------------------------------
\* An answer hands out the cached catalog or the one just built.
LEMMA AnswersRecentlyStep ==
  ASSUME OneMountCaches, CatalogInv, [CatalogNext]_catalogVars, CatalogAnswers
  PROVE  LET recent == now - CatalogTtl[answer'.mount] - MaxFetch
         IN  /\ \A o \in answer'.operations : ShownSince(o, recent)
             /\ \A o \in Keep[answer'.mount] \ answer'.operations : HiddenSince(o, recent)
<1>1. call' # call
  BY DEF CatalogAnswers
<1>2. PICK r \in Calls : \/ \E m \in Mounts : CallArrives(r, m)
                        \/ FetchDocument(r) \/ DocumentFails(r) \/ Merge(r)
  <2>1. CASE UNCHANGED catalogVars
    BY <1>1, <2>1 DEF catalogVars
  <2>2. ASSUME NEW operations \in SUBSET Operations, Redeploy(operations) PROVE FALSE
    BY <1>1, <2>2 DEF Redeploy
  <2>3. CASE CatalogTick
    BY <1>1, <2>3 DEF CatalogTick
  <2>4. CatalogNext \/ UNCHANGED catalogVars
    OBVIOUS
  <2>5. \/ \E r \in Calls : \/ \E m \in Mounts : CallArrives(r, m)
                            \/ FetchDocument(r) \/ DocumentFails(r) \/ Merge(r)
        \/ \E operations \in SUBSET Operations : Redeploy(operations)
        \/ CatalogTick
        \/ UNCHANGED catalogVars
    BY <2>4 DEF CatalogNext
  <2> QED
    BY <2>1, <2>2, <2>3, <2>5, Zenon
<1>3. ASSUME NEW m \in Mounts, NEW built, NEW since \in Int,
             answer'.mount = m, answer'.operations = built,
             since >= now - CatalogTtl[m] - MaxFetch,
             \A o \in built : ShownSince(o, since),
             built \subseteq Operations,
             \A o \in (Keep[m] \intersect Operations) \ built : HiddenSince(o, since)
      PROVE  LET recent == now - CatalogTtl[answer'.mount] - MaxFetch
             IN  /\ \A o \in answer'.operations : ShownSince(o, recent)
                 /\ \A o \in Keep[answer'.mount] \ answer'.operations : HiddenSince(o, recent)
  <2> DEFINE recent == now - CatalogTtl[m] - MaxFetch
  <2>1. recent \in Int /\ recent <= since /\ published \subseteq Operations
    BY <1>3, CatalogTtlAssumption, MaxFetchAssumption DEF CatalogInv, CatalogTypes
  <2> HIDE DEF recent
  <2>2. \A o \in built : ShownSince(o, recent)
    BY <1>3, <2>1 DEF ShownSince, CatalogInv, CatalogTypes
  <2>3. \A o \in Keep[m] \ built : HiddenSince(o, recent)
    BY <1>3, <2>1 DEF HiddenSince, CatalogInv, CatalogTypes
  <2> QED
    BY <1>3, <2>2, <2>3 DEF recent
<1>4. ASSUME NEW m \in Mounts, CallArrives(r, m)
      PROVE  CatalogUsable(m) /\ HandOut(r, m, catalog.operations)
  <2>1. CASE /\ call' = [call EXCEPT ![r].pc = "fetching", ![r].mount = m,
                                   ![r].arrivedAt = now]
    <3>1. call'[r].pc = "fetching" /\ \A q \in Calls \ {r} : call'[q] = call[q]
      BY <2>1 DEF CatalogInv, CatalogTypes
    <3> QED
      BY <3>1 DEF CatalogAnswers
  <2> QED
    BY <1>4, <2>1 DEF CallArrives
<1>5. ~(FetchDocument(r) \/ DocumentFails(r))
  <2>1. ASSUME FetchDocument(r) \/ DocumentFails(r)
        PROVE  call'[r].pc = "merging" /\ \A q \in Calls \ {r} : call'[q] = call[q]
    BY <2>1 DEF FetchDocument, DocumentFails, CatalogInv, CatalogTypes
  <2> QED
    BY <2>1 DEF CatalogAnswers
<1>6. CASE \E m \in Mounts : CallArrives(r, m)
  <2>1. PICK m \in Mounts : CatalogUsable(m) /\ HandOut(r, m, catalog.operations)
    BY <1>4, <1>6
  <2>2. answer'.mount = m /\ answer'.operations = catalog.operations
    BY <2>1, HandOutFact
  <2>3. /\ CatalogTtl[m] > 0 /\ catalog.expiresAt > now /\ catalog.expiresAt \in Int
        /\ catalog.operations \subseteq Keep[m] \intersect Operations
        /\ \A o \in catalog.operations : ShownSince(o, catalog.expiresAt - CatalogTtl[m] - MaxFetch)
        /\ \A o \in (Keep[m] \intersect Operations) \ catalog.operations :
             HiddenSince(o, catalog.expiresAt - CatalogTtl[m] - MaxFetch)
    BY <2>1 DEF CatalogUsable, Caches, OneMountCaches, CatalogInv, CatalogBuilt, CatalogTypes
  <2>4. /\ catalog.expiresAt - CatalogTtl[m] - MaxFetch \in Int
        /\ catalog.expiresAt - CatalogTtl[m] - MaxFetch >= now - CatalogTtl[m] - MaxFetch
    BY <2>3, CatalogTtlAssumption, MaxFetchAssumption DEF CatalogInv, CatalogTypes
  <2> QED
    BY <1>3, <2>2, <2>3, <2>4
<1>7. CASE Merge(r)
  <2> DEFINE m == call[r].mount
             built == call[r].document \intersect Keep[m]
  <2>1. answer'.mount = m /\ answer'.operations = built /\ call[r].pc = "merging"
    BY <1>7, HandOutFact DEF Merge
  <2>2. /\ m \in Mounts /\ call[r].arrivedAt \in Int /\ now <= call[r].arrivedAt + MaxFetch
        /\ call[r].document \subseteq Operations
        /\ \A o \in call[r].document : ShownSince(o, call[r].arrivedAt)
        /\ \A o \in Operations \ call[r].document : HiddenSince(o, call[r].arrivedAt)
    BY <2>1 DEF CatalogInv, BuildsFresh
  <2>3. call[r].arrivedAt >= now - CatalogTtl[m] - MaxFetch
    BY <2>2, CatalogTtlAssumption, MaxFetchAssumption DEF CatalogInv, CatalogTypes
  <2> QED
    BY <1>3, <2>1, <2>2, <2>3
<1> QED
  BY <1>2, <1>5, <1>6, <1>7

\* A mount never answers from a catalog that is older than its own lifetime and
\* a fetch, when at most one of the gateway's mounts caches its catalog.
THEOREM CatalogsAreRecent ==
  ASSUME OneMountCaches
  PROVE  CatalogSpec => CatalogStaleness
<1>1. CatalogInv /\ [CatalogNext]_catalogVars => [AnswersRecently]_catalogVars
  BY AnswersRecentlyStep DEF AnswersRecently, ShownSince, HiddenSince
<1> QED
  BY <1>1, CatalogInvariant, PTL DEF CatalogSpec, CatalogStaleness

-----------------------------------------------------------------------------
(* Induction, over a set of numbers: the least number that is not in it.    *)

LEMMA LeastNumber ==
  ASSUME NEW T \in SUBSET Nat, T # {}
  PROVE  \E m \in T : \A k \in T : m <= k
<1> DEFINE less == {p \in Nat \X Nat : p[1] < p[2]}
<1>1. IsWellFoundedOn(less, Nat)
  BY NatLessThanWellFounded DEF OpToRel
<1> HIDE DEF less
<1>2. \E m \in T : \A k \in T : <<k, m>> \notin less
  BY <1>1, WFMin
<1>3. PICK m \in T : \A k \in T : <<k, m>> \notin less
  BY <1>2
<1> USE DEF less
<1>4. ASSUME NEW k \in T PROVE m <= k
  <2>1. ~(k < m)
    BY <1>3
  <2> QED
    BY <2>1
<1> QED
  BY <1>4

LEMMA Induction ==
  ASSUME NEW good, 0 \in good, \A n \in Nat : n \in good => n + 1 \in good
  PROVE  \A n \in Nat : n \in good
<1> DEFINE bad == {n \in Nat : n \notin good}
<1> SUFFICES ASSUME bad # {} PROVE FALSE
  OBVIOUS
<1>1. PICK m \in bad : \A k \in bad : m <= k
  BY LeastNumber
<1>2. m - 1 \in Nat /\ m - 1 \in good
  BY <1>1
<1> QED
  BY <1>1, <1>2

-----------------------------------------------------------------------------
(* The loops: each accumulator is what its equation says. *)

LEMMA AddSchemasDef ==
  ASSUME NEW service, NEW known, Len(service.spec.schemas) \in Nat
  PROVE  AddSchemas(service, known) =
           [n \in 0 .. Len(service.spec.schemas) |->
              IF n = 0 THEN [schemas |-> known, renames |-> <<>>]
              ELSE AddSchema(service.name, AddSchemas(service, known)[n - 1],
                             service.spec.schemas[n])]
<1> DEFINE start == [schemas |-> known, renames |-> <<>>]
           next(acc, n) == AddSchema(service.name, acc, service.spec.schemas[n])
           solves(f, m) == f = [n \in 0 .. m |-> IF n = 0 THEN start ELSE next(f[n - 1], n)]
           good == {m \in Nat : \E f : solves(f, m)}
<1>1. 0 \in good
  <2>1. solves([n \in 0 .. 0 |-> start], 0)
    OBVIOUS
  <2> QED
    BY <2>1
<1>2. ASSUME NEW m \in Nat, m \in good PROVE m + 1 \in good
  <2>1. PICK f : solves(f, m)
    BY <1>2
  <2> DEFINE g == [n \in 0 .. m + 1 |-> IF n = m + 1 THEN next(f[m], m + 1) ELSE f[n]]
  <2> HIDE DEF start, next
  <2>2. solves(g, m + 1)
    BY <2>1
  <2> HIDE DEF solves, g
  <2> QED
    BY <2>2
<1>3. Len(service.spec.schemas) \in good
  <2> HIDE DEF good
  <2> QED
    BY <1>1, <1>2, Induction
<1> QED
  BY <1>3 DEF AddSchemas

LEMMA AddOperationsDef ==
  ASSUME NEW service, NEW renames, NEW known, Len(service.spec.ops) \in Nat
  PROVE  AddOperations(service, renames, known) =
           [n \in 0 .. Len(service.spec.ops) |->
              IF n = 0 THEN [ids |-> {known[k].op.id : k \in DOMAIN known} \ {NoId}, table |-> known]
              ELSE AddOperation(service, renames, AddOperations(service, renames, known)[n - 1],
                                service.spec.ops[n])]
<1> DEFINE start == [ids |-> {known[k].op.id : k \in DOMAIN known} \ {NoId}, table |-> known]
           next(acc, n) == AddOperation(service, renames, acc, service.spec.ops[n])
           solves(f, m) == f = [n \in 0 .. m |-> IF n = 0 THEN start ELSE next(f[n - 1], n)]
           good == {m \in Nat : \E f : solves(f, m)}
<1>1. 0 \in good
  <2>1. solves([n \in 0 .. 0 |-> start], 0)
    OBVIOUS
  <2> QED
    BY <2>1
<1>2. ASSUME NEW m \in Nat, m \in good PROVE m + 1 \in good
  <2>1. PICK f : solves(f, m)
    BY <1>2
  <2> DEFINE g == [n \in 0 .. m + 1 |-> IF n = m + 1 THEN next(f[m], m + 1) ELSE f[n]]
  <2> HIDE DEF start, next
  <2>2. solves(g, m + 1)
    BY <2>1
  <2> HIDE DEF solves, g
  <2> QED
    BY <2>2
<1>3. Len(service.spec.ops) \in good
  <2> HIDE DEF good
  <2> QED
    BY <1>1, <1>2, Induction
<1> QED
  BY <1>3 DEF AddOperations

LEMMA MergeServiceSpecsDef ==
  ASSUME NEW base, NEW services, Len(services) \in Nat
  PROVE  MergeServiceSpecs(base, services) =
           [n \in 0 .. Len(services) |->
              IF n = 0 THEN base
              ELSE MergeService(MergeServiceSpecs(base, services)[n - 1], services[n])]
<1> DEFINE start == base
           next(acc, n) == MergeService(acc, services[n])
           solves(f, m) == f = [n \in 0 .. m |-> IF n = 0 THEN start ELSE next(f[n - 1], n)]
           good == {m \in Nat : \E f : solves(f, m)}
<1>1. 0 \in good
  <2>1. solves([n \in 0 .. 0 |-> start], 0)
    OBVIOUS
  <2> QED
    BY <2>1
<1>2. ASSUME NEW m \in Nat, m \in good PROVE m + 1 \in good
  <2>1. PICK f : solves(f, m)
    BY <1>2
  <2> DEFINE g == [n \in 0 .. m + 1 |-> IF n = m + 1 THEN next(f[m], m + 1) ELSE f[n]]
  <2> HIDE DEF start, next
  <2>2. solves(g, m + 1)
    BY <2>1
  <2> HIDE DEF solves, g
  <2> QED
    BY <2>2
<1>3. Len(services) \in good
  <2> HIDE DEF good
  <2> QED
    BY <1>1, <1>2, Induction
<1> QED
  BY <1>3 DEF MergeServiceSpecs

LEMMA GenerateMethodsDef ==
  ASSUME NEW table, NEW keys, Len(keys) \in Nat
  PROVE  GenerateMethods(table, keys) =
           [n \in 0 .. Len(keys) |->
              IF n = 0 THEN <<>>
              ELSE LET before == GenerateMethods(table, keys)[n - 1]
                       taken  == {before[i].name : i \in DOMAIN before}
                   IN  Append(before, [key |-> keys[n], name |-> MethodName(taken, table[keys[n]].op.id)])]
<1> DEFINE start == <<>>
           next(acc, n) == LET taken == {acc[i].name : i \in DOMAIN acc}
                           IN  Append(acc, [key |-> keys[n], name |-> MethodName(taken, table[keys[n]].op.id)])
           solves(f, m) == f = [n \in 0 .. m |-> IF n = 0 THEN start ELSE next(f[n - 1], n)]
           good == {m \in Nat : \E f : solves(f, m)}
<1>1. 0 \in good
  <2>1. solves([n \in 0 .. 0 |-> start], 0)
    OBVIOUS
  <2> QED
    BY <2>1
<1>2. ASSUME NEW m \in Nat, m \in good PROVE m + 1 \in good
  <2>1. PICK f : solves(f, m)
    BY <1>2
  <2> DEFINE g == [n \in 0 .. m + 1 |-> IF n = m + 1 THEN next(f[m], m + 1) ELSE f[n]]
  <2> HIDE DEF start, next
  <2>2. solves(g, m + 1)
    BY <2>1
  <2> HIDE DEF solves, g
  <2> QED
    BY <2>2
<1>3. Len(keys) \in good
  <2> HIDE DEF good
  <2> QED
    BY <1>1, <1>2, Induction
<1> QED
  BY <1>3 DEF GenerateMethods

LEMMA SchemasWithinDef ==
  ASSUME NEW schemas, NEW refs, Cardinality(DOMAIN schemas) \in Nat
  PROVE  SchemasWithin(schemas, refs) =
           [n \in 0 .. Cardinality(DOMAIN schemas) |->
              IF n = 0 THEN DirectSchemas(schemas, refs)
              ELSE LET before == SchemasWithin(schemas, refs)[n - 1]
                   IN  before \union DirectSchemas(schemas, UNION {schemas[m].refs : m \in before})]
<1> DEFINE start == DirectSchemas(schemas, refs)
           next(acc) == acc \union DirectSchemas(schemas, UNION {schemas[m].refs : m \in acc})
           solves(f, m) == f = [n \in 0 .. m |-> IF n = 0 THEN start ELSE next(f[n - 1])]
           good == {m \in Nat : \E f : solves(f, m)}
<1>1. 0 \in good
  <2>1. solves([n \in 0 .. 0 |-> start], 0)
    OBVIOUS
  <2> QED
    BY <2>1
<1>2. ASSUME NEW m \in Nat, m \in good PROVE m + 1 \in good
  <2>1. PICK f : solves(f, m)
    BY <1>2
  <2> DEFINE g == [n \in 0 .. m + 1 |-> IF n = m + 1 THEN next(f[m]) ELSE f[n]]
  <2> HIDE DEF start, next
  <2>2. solves(g, m + 1)
    BY <2>1
  <2> HIDE DEF solves, g
  <2> QED
    BY <2>2
<1>3. Cardinality(DOMAIN schemas) \in good
  <2> HIDE DEF good
  <2> QED
    BY <1>1, <1>2, Induction
<1> QED
  BY <1>3 DEF SchemasWithin

-----------------------------------------------------------------------------
(* Sequences and tables. *)

IsList(s) == s \in Seq(Range(s))

LEMMA ListShape ==
  ASSUME NEW s, IsList(s)
  PROVE  Len(s) \in Nat /\ DOMAIN s = 1 .. Len(s)
BY LenProperties DEF IsList

LEMMA MappedList ==
  ASSUME NEW s, IsList(s), NEW t, DOMAIN t = DOMAIN s, t = [i \in DOMAIN t |-> t[i]]
  PROVE  IsList(t) /\ Len(t) = Len(s)
<1>1. DOMAIN t = 1 .. Len(s) /\ Len(s) \in Nat
  BY ListShape
<1>2. t \in [1 .. Len(s) -> Range(t)]
  BY <1>1 DEF Range
<1>3. t \in Seq(Range(t))
  BY <1>1, <1>2, SeqDef
<1>4. Len(t) \in Nat /\ DOMAIN t = 1 .. Len(t)
  BY <1>3, LenProperties
<1> QED
  BY <1>1, <1>3, <1>4 DEF IsList

LEMMA ConcatCancel ==
  ASSUME NEW m, NEW s, NEW t, IsList(m), IsList(s), IsList(t), m \o s = m \o t
  PROVE  s = t
<1> DEFINE S == Range(m) \union Range(s) \union Range(t)
<1>1. m \in Seq(S) /\ s \in Seq(S) /\ t \in Seq(S)
  BY SeqMonotonic DEF IsList
<1> HIDE DEF S
<1>2. /\ Len(m \o s) = Len(m) + Len(s)
      /\ \A i \in 1 .. Len(m) + Len(s) : (m \o s)[i] = IF i <= Len(m) THEN m[i] ELSE s[i - Len(m)]
  BY <1>1, ConcatProperties
<1>3. /\ Len(m \o t) = Len(m) + Len(t)
      /\ \A i \in 1 .. Len(m) + Len(t) : (m \o t)[i] = IF i <= Len(m) THEN m[i] ELSE t[i - Len(m)]
  BY <1>1, ConcatProperties
<1>4. Len(m) \in Nat /\ Len(s) \in Nat /\ Len(t) \in Nat
  BY <1>1, LenProperties
<1>5. Len(s) = Len(t)
  BY <1>2, <1>3, <1>4
<1>6. ASSUME NEW i \in 1 .. Len(s) PROVE s[i] = t[i]
  <2>1. i + Len(m) \in 1 .. Len(m) + Len(s) /\ ~(i + Len(m) <= Len(m)) /\ (i + Len(m)) - Len(m) = i
    BY <1>4
  <2>2. (m \o s)[i + Len(m)] = s[i]
    BY <2>1, <1>2
  <2>3. (m \o t)[i + Len(m)] = t[i]
    BY <2>1, <1>3, <1>5
  <2> QED
    BY <2>2, <2>3
<1> QED
  BY <1>1, <1>5, <1>6, SeqEqual

LEMMA PrefixedCancel ==
  ASSUME NEW a, NEW b, NEW s, NEW t, IsList(s), IsList(t), Prefixed(a, s) = Prefixed(b, t)
  PROVE  a = b /\ s = t
<1> DEFINE S == {a, b} \union Range(s) \union Range(t)
<1>1. s \in Seq(S) /\ t \in Seq(S)
  BY SeqMonotonic DEF IsList
<1>2. <<a>> \in Seq(S) /\ <<b>> \in Seq(S)
  OBVIOUS
<1> HIDE DEF S
<1>3. Len(<<a>>) = 1 /\ Len(<<b>>) = 1 /\ Len(s) \in Nat /\ Len(t) \in Nat
  BY <1>1, LenProperties
<1>4. (<<a>> \o s)[1] = a /\ (<<b>> \o t)[1] = b
  <2>1. 1 \in 1 .. Len(<<a>>) + Len(s) /\ 1 \in 1 .. Len(<<b>>) + Len(t) /\ 1 <= Len(<<a>>) /\ 1 <= Len(<<b>>)
    BY <1>3
  <2>2. (<<a>> \o s)[1] = <<a>>[1]
    BY <2>1, <1>1, <1>2, ConcatProperties
  <2>3. (<<b>> \o t)[1] = <<b>>[1]
    BY <2>1, <1>1, <1>2, ConcatProperties
  <2> QED
    BY <2>2, <2>3
<1>5. a = b
  BY <1>4 DEF Prefixed
<1>6. IsList(<<a>>)
  <2>1. Range(<<a>>) = {a}
    BY DEF Range
  <2> QED
    BY <2>1 DEF IsList
<1> QED
  BY <1>5, <1>6, ConcatCancel DEF Prefixed

LEMMA PrefixedIsList ==
  ASSUME NEW a, NEW s, IsList(s)
  PROVE  IsList(Prefixed(a, s)) /\ Prefixed(a, s) # <<>>
<1> DEFINE S == {a} \union Range(s)
<1>1. s \in Seq(S)
  BY SeqMonotonic DEF IsList
<1>2. <<a>> \in Seq(S) /\ Len(<<a>>) = 1
  OBVIOUS
<1> HIDE DEF S
<1>3. <<a>> \o s \in Seq(S) /\ Len(<<a>> \o s) = Len(<<a>>) + Len(s) /\ Len(s) \in Nat
  BY <1>1, <1>2, ConcatProperties, LenProperties
<1>4. Len(<<a>> \o s) # 0
  BY <1>3, <1>2
<1>5. <<a>> \o s # <<>>
  BY <1>4, EmptySeq
<1>6. <<a>> \o s \in Seq(Range(<<a>> \o s))
  <2> DEFINE u == <<a>> \o s
  <2>1. u \in [1 .. Len(u) -> S] /\ Len(u) \in Nat /\ DOMAIN u = 1 .. Len(u)
    BY <1>3, LenProperties
  <2>2. u \in [1 .. Len(u) -> Range(u)]
    BY <2>1 DEF Range
  <2> QED
    BY <2>1, <2>2, SeqDef
<1> QED
  BY <1>5, <1>6 DEF Prefixed, IsList

LEMMA PutFacts ==
  ASSUME NEW f, NEW x, NEW v
  PROVE  /\ DOMAIN Put(f, x, v) = DOMAIN f \union {x}
         /\ Put(f, x, v)[x] = v
         /\ \A y \in DOMAIN f : y # x => Put(f, x, v)[y] = f[y]
BY DEF Put

-----------------------------------------------------------------------------
(* What the assumption says of the documents. *)

SchemaName(d, l) == d.spec.schemas[l].name

GoodSchemas(d) ==
  /\ IsList(d.spec.schemas)
  /\ \A l \in DOMAIN d.spec.schemas : IsList(SchemaName(d, l))
  /\ \A k, l \in DOMAIN d.spec.schemas : SchemaName(d, k) = SchemaName(d, l) => k = l

GoodOperation(d, op) ==
  /\ op = [path |-> op.path, method |-> op.method, refs |-> op.refs,
           id |-> op.id, security |-> op.security]
  /\ IsList(op.path) /\ IsList(op.id) /\ op.id # NoId
  /\ op.security \subseteq DOMAIN d.spec.schemes
  /\ \A r \in op.refs : \E k \in DOMAIN d.spec.schemas : r = <<"schemas", SchemaName(d, k)>>

GoodOperations(d) ==
  /\ IsList(d.mount) /\ IsList(d.spec.ops)
  /\ \A l \in DOMAIN d.spec.ops : GoodOperation(d, d.spec.ops[l])
  /\ \A k, l \in DOMAIN d.spec.ops : Key(d.spec.ops[k]) = Key(d.spec.ops[l]) => k = l

GoodDocuments(docs) ==
  /\ IsList(docs)
  /\ \A i \in DOMAIN docs : GoodSchemas(docs[i]) /\ GoodOperations(docs[i])

LEMMA OperationIdFacts ==
  ASSUME NEW method, NEW path, IsList(path)
  PROVE  IsList(GenerateOperationId(method, path)) /\ GenerateOperationId(method, path) # NoId
<1> DEFINE words == IF path = <<>> THEN <<"Root">> ELSE [i \in DOMAIN path |-> path[i][2]]
<1>1. IsList(words)
  <2>1. CASE path = <<>>
    <3>1. words = <<"Root">> /\ Range(<<"Root">>) = {"Root"}
      BY <2>1 DEF Range
    <3>2. <<"Root">> \in Seq({"Root"})
      OBVIOUS
    <3> QED
      BY <3>1, <3>2 DEF IsList
  <2>2. CASE path # <<>>
    <3> DEFINE second == [i \in DOMAIN path |-> path[i][2]]
    <3>1. DOMAIN second = DOMAIN path /\ second = [i \in DOMAIN second |-> second[i]]
      OBVIOUS
    <3> HIDE DEF second
    <3>2. IsList(second)
      BY <3>1, MappedList
    <3>3. words = second
      BY <2>2 DEF second
    <3> QED
      BY <3>2, <3>3
  <2> QED
    BY <2>1, <2>2
<1> HIDE DEF words
<1>2. GenerateOperationId(method, path) = Prefixed(method, words)
  BY DEF GenerateOperationId, Prefixed, words
<1> QED
  BY <1>1, <1>2, PrefixedIsList DEF NoId

LEMMA RouteOperationFacts ==
  ASSUME NEW route, IsList(route.path), IsList(route.id)
  PROVE  LET op == RouteOperation(route)
         IN  /\ op = [path |-> op.path, method |-> op.method, refs |-> op.refs,
                      id |-> op.id, security |-> op.security]
             /\ op.path = route.path /\ op.method = route.method /\ op.refs = route.refs
             /\ op.security \subseteq {"GatewayContext"}
             /\ IsList(op.id) /\ op.id # NoId
<1> DEFINE id == IF route.id # NoId THEN route.id ELSE GenerateOperationId(route.method, route.path)
<1>1. IsList(id) /\ id # NoId
  BY OperationIdFacts
<1> HIDE DEF id
<1>2. RouteOperation(route) =
        [path |-> route.path, method |-> route.method, refs |-> route.refs, id |-> id,
         security |-> IF route.scoped THEN {"GatewayContext"} ELSE {}]
  BY DEF RouteOperation, id
<1> QED
  BY <1>1, <1>2

LEMMA BuiltDocument ==
  ASSUME input \in Inputs, NEW i \in DOMAIN input
  PROVE  LET d == BuildServiceOpenApi(input[i])
         IN  /\ d.name = input[i].name /\ d.mount = input[i].mount
             /\ d.spec.ops = [l \in DOMAIN input[i].routes |-> RouteOperation(input[i].routes[l])]
             /\ d.spec.schemas = input[i].schemas
             /\ DOMAIN d.spec.schemes = {"GatewayContext"}
BY DEF BuildServiceOpenApi

LEMMA DocumentFacts ==
  ASSUME input \in Inputs
  PROVE  GoodDocuments(Documents)
<1>1. IsList(input)
  BY InputsAssumption DEF IsList
<1>2. IsList(Documents) /\ DOMAIN Documents = DOMAIN input
  <2>1. DOMAIN Documents = DOMAIN input /\ Documents = [i \in DOMAIN Documents |-> Documents[i]]
    BY DEF Documents
  <2> QED
    BY <1>1, <2>1, MappedList
<1>3. ASSUME NEW i \in DOMAIN input
      PROVE  GoodSchemas(Documents[i]) /\ GoodOperations(Documents[i])
  <2> DEFINE d == Documents[i]
             service == input[i]
  <2>1. /\ IsList(service.schemas) /\ IsList(service.routes) /\ IsList(service.mount)
        /\ \A j, k \in DOMAIN service.schemas :
             service.schemas[j].name = service.schemas[k].name => j = k
        /\ \A j \in DOMAIN service.schemas : IsList(service.schemas[j].name)
    BY InputsAssumption DEF IsList
  <2>2. \A j, k \in DOMAIN service.routes :
          (service.routes[j].method = service.routes[k].method
             /\ service.routes[j].path = service.routes[k].path) => j = k
    BY InputsAssumption
  <2>3. \A j \in DOMAIN service.routes :
          /\ IsList(service.routes[j].path) /\ IsList(service.routes[j].id)
          /\ \A r \in service.routes[j].refs :
               \E k \in DOMAIN service.schemas : r = <<"schemas", service.schemas[k].name>>
    BY InputsAssumption DEF IsList
  <2>4. d = BuildServiceOpenApi(service)
    BY DEF Documents
  <2>5. /\ d.mount = service.mount
        /\ d.spec.ops = [l \in DOMAIN service.routes |-> RouteOperation(service.routes[l])]
        /\ d.spec.schemas = service.schemas
        /\ DOMAIN d.spec.schemes = {"GatewayContext"}
    BY <2>4, BuiltDocument
  <2> HIDE DEF d, service
  <2>6. GoodSchemas(d)
    BY <2>1, <2>5 DEF GoodSchemas, SchemaName
  <2>7. ASSUME NEW l \in DOMAIN service.routes
        PROVE  GoodOperation(d, RouteOperation(service.routes[l]))
    BY <2>3, <2>5, RouteOperationFacts DEF GoodOperation, SchemaName
  <2>8. DOMAIN d.spec.ops = DOMAIN service.routes /\ d.spec.ops = [l \in DOMAIN d.spec.ops |-> d.spec.ops[l]]
    BY <2>5
  <2>9. IsList(d.spec.ops)
    BY <2>1, <2>8, MappedList
  <2>10. \A k, l \in DOMAIN d.spec.ops : Key(d.spec.ops[k]) = Key(d.spec.ops[l]) => k = l
    <3> SUFFICES ASSUME NEW k \in DOMAIN d.spec.ops, NEW l \in DOMAIN d.spec.ops,
                        Key(d.spec.ops[k]) = Key(d.spec.ops[l])
                 PROVE  k = l
      OBVIOUS
    <3>1. /\ Key(RouteOperation(service.routes[k])) = <<service.routes[k].method, service.routes[k].path>>
          /\ Key(RouteOperation(service.routes[l])) = <<service.routes[l].method, service.routes[l].path>>
      BY <2>8, <2>3, RouteOperationFacts DEF Key
    <3> QED
      BY <2>2, <2>5, <2>8, <3>1
  <2>11. GoodOperations(d)
    BY <2>1, <2>5, <2>7, <2>8, <2>9, <2>10 DEF GoodOperations
  <2> QED
    BY <2>6, <2>11 DEF d
<1> QED
  BY <1>2, <1>3 DEF GoodDocuments

-----------------------------------------------------------------------------
(* One service's schemas: AddSchemas() keeps the definitions there are and  *)
(* gives each of the service's a name that leads to it.                     *)

AliasOf(d, l) == Prefixed(d.name, SchemaName(d, l))

\* The name that the rewritten references give a schema.
NewName(renames, name) == IF name \in DOMAIN renames THEN renames[name] ELSE name

\* What names the schemas of a merged document have.
NamesOf(d) == {SchemaName(d, l) : l \in DOMAIN d.spec.schemas}
                \union {AliasOf(d, l) : l \in DOMAIN d.spec.schemas}

\* The service's aliases are none of its own names, and none that are taken.
AliasesFresh(d, known) ==
  \A l \in DOMAIN d.spec.schemas :
    /\ AliasOf(d, l) \notin DOMAIN known
    /\ \A k \in DOMAIN d.spec.schemas : SchemaName(d, k) # AliasOf(d, l)

SchemasFinite(d, known, acc) ==
  /\ acc = [schemas |-> acc.schemas, renames |-> acc.renames]
  /\ IsFiniteSet(DOMAIN acc.schemas)
  /\ DOMAIN acc.schemas \subseteq DOMAIN known \union NamesOf(d)
  /\ DOMAIN acc.renames \subseteq {SchemaName(d, l) : l \in DOMAIN d.spec.schemas}

SchemasSound(d, known, acc, n) ==
  /\ \A x \in DOMAIN known : x \in DOMAIN acc.schemas /\ acc.schemas[x] = known[x]
  /\ \A x \in DOMAIN acc.renames : \E l \in 1 .. n : x = SchemaName(d, l)
  /\ \A x \in DOMAIN acc.schemas :
       x \in DOMAIN known \/ \E l \in 1 .. n : x \in {SchemaName(d, l), AliasOf(d, l)}
  /\ \A l \in 1 .. n :
       LET x == NewName(acc.renames, SchemaName(d, l))
       IN  x \in DOMAIN acc.schemas /\ acc.schemas[x] = d.spec.schemas[l].def

LEMMA AddSchemaForms ==
  ASSUME NEW d, NEW known, NEW acc, NEW l \in DOMAIN d.spec.schemas, SchemasFinite(d, known, acc)
  PROVE  LET name == SchemaName(d, l)
             def  == d.spec.schemas[l].def
             new  == AddSchema(d.name, acc, d.spec.schemas[l])
         IN  \/ /\ name \notin DOMAIN acc.schemas
                /\ new = [schemas |-> Put(acc.schemas, name, def), renames |-> acc.renames]
             \/ name \in DOMAIN acc.schemas /\ acc.schemas[name] = def /\ new = acc
             \/ /\ name \in DOMAIN acc.schemas
                /\ new = [schemas |-> Put(acc.schemas, AliasOf(d, l), def),
                          renames |-> Put(acc.renames, name, AliasOf(d, l))]
<1>1. acc = [schemas |-> acc.schemas, renames |-> acc.renames]
  BY DEF SchemasFinite
<1> DEFINE name == SchemaName(d, l)
           def  == d.spec.schemas[l].def
<1>2. name \notin DOMAIN acc.schemas =>
        AddSchema(d.name, acc, d.spec.schemas[l])
          = [schemas |-> Put(acc.schemas, name, def), renames |-> acc.renames]
  BY <1>1 DEF AddSchema, SchemaName
<1>3. name \in DOMAIN acc.schemas /\ acc.schemas[name] = def =>
        AddSchema(d.name, acc, d.spec.schemas[l]) = acc
  BY DEF AddSchema, SchemaName
<1>4. name \in DOMAIN acc.schemas /\ acc.schemas[name] # def =>
        AddSchema(d.name, acc, d.spec.schemas[l])
          = [schemas |-> Put(acc.schemas, AliasOf(d, l), def),
             renames |-> Put(acc.renames, name, AliasOf(d, l))]
  BY DEF AddSchema, SchemaName, AliasOf
<1> QED
  BY <1>2, <1>3, <1>4

LEMMA AddSchemaFinite ==
  ASSUME NEW d, NEW known, NEW acc, NEW l \in DOMAIN d.spec.schemas, SchemasFinite(d, known, acc)
  PROVE  SchemasFinite(d, known, AddSchema(d.name, acc, d.spec.schemas[l]))
<1> DEFINE name == SchemaName(d, l)
           def  == d.spec.schemas[l].def
           new  == AddSchema(d.name, acc, d.spec.schemas[l])
<1> DEFINE plain == Put(acc.schemas, name, def)
           moved == Put(acc.schemas, AliasOf(d, l), def)
           also  == Put(acc.renames, name, AliasOf(d, l))
<1>1. name \in NamesOf(d) /\ AliasOf(d, l) \in NamesOf(d)
  BY DEF NamesOf
<1>2. /\ DOMAIN plain = DOMAIN acc.schemas \union {name}
      /\ DOMAIN moved = DOMAIN acc.schemas \union {AliasOf(d, l)}
      /\ DOMAIN also = DOMAIN acc.renames \union {name}
  BY PutFacts
<1>3. IsFiniteSet(DOMAIN plain) /\ IsFiniteSet(DOMAIN moved)
  BY <1>2, FS_AddElement DEF SchemasFinite
<1>4. \/ new = [schemas |-> plain, renames |-> acc.renames]
      \/ new = acc
      \/ new = [schemas |-> moved, renames |-> also]
  BY AddSchemaForms
<1>5. name \in {SchemaName(d, k) : k \in DOMAIN d.spec.schemas}
  OBVIOUS
<1> SUFFICES SchemasFinite(d, known, new)
  OBVIOUS
<1> HIDE DEF new, plain, moved, also
<1>6. CASE new = [schemas |-> plain, renames |-> acc.renames]
  BY <1>1, <1>2, <1>3, <1>6 DEF SchemasFinite
<1>7. CASE new = acc
  BY <1>7 DEF SchemasFinite
<1>8. CASE new = [schemas |-> moved, renames |-> also]
  BY <1>1, <1>2, <1>3, <1>5, <1>8 DEF SchemasFinite
<1> QED
  BY <1>4, <1>6, <1>7, <1>8

LEMMA AddSchemaSound ==
  ASSUME NEW d, NEW known, NEW acc, NEW n \in Nat, n + 1 \in DOMAIN d.spec.schemas,
         GoodSchemas(d), AliasesFresh(d, known),
         SchemasFinite(d, known, acc), SchemasSound(d, known, acc, n)
  PROVE  SchemasSound(d, known, AddSchema(d.name, acc, d.spec.schemas[n + 1]), n + 1)
<1> DEFINE name  == SchemaName(d, n + 1)
           alias == AliasOf(d, n + 1)
           def   == d.spec.schemas[n + 1].def
           new   == AddSchema(d.name, acc, d.spec.schemas[n + 1])
<1>1. /\ 1 .. n + 1 = 1 .. n \union {n + 1}
      /\ 1 .. n \subseteq DOMAIN d.spec.schemas /\ \A l \in 1 .. n : l # n + 1
  <2>1. DOMAIN d.spec.schemas = 1 .. Len(d.spec.schemas) /\ Len(d.spec.schemas) \in Nat
    BY ListShape DEF GoodSchemas
  <2> QED
    BY <2>1
<1>2. \A l \in 1 .. n : SchemaName(d, l) # name
  BY <1>1 DEF GoodSchemas
<1>3. \A l \in 1 .. n : AliasOf(d, l) # alias
  BY <1>1, <1>2, PrefixedCancel DEF GoodSchemas, AliasOf
<1>4. alias \notin DOMAIN acc.schemas
  BY <1>1, <1>3 DEF SchemasSound, AliasesFresh
<1>5. alias # name
  BY DEF AliasesFresh
<1>6. name \notin DOMAIN acc.renames
  BY <1>2 DEF SchemasSound
<1> DEFINE target(l) == NewName(acc.renames, SchemaName(d, l))
<1>7. \A l \in 1 .. n : target(l) \in DOMAIN acc.schemas /\ acc.schemas[target(l)] = d.spec.schemas[l].def
  BY DEF SchemasSound
<1>8. target(n + 1) = name
  BY <1>6 DEF NewName
<1> DEFINE plain == Put(acc.schemas, name, def)
           moved == Put(acc.schemas, alias, def)
           also  == Put(acc.renames, name, alias)
<1>9. /\ DOMAIN plain = DOMAIN acc.schemas \union {name} /\ plain[name] = def
      /\ \A z \in DOMAIN acc.schemas : z # name => plain[z] = acc.schemas[z]
  BY DEF Put
<1>16. /\ DOMAIN moved = DOMAIN acc.schemas \union {alias} /\ moved[alias] = def
      /\ \A z \in DOMAIN acc.schemas : z # alias => moved[z] = acc.schemas[z]
  BY DEF Put
<1>10. /\ DOMAIN also = DOMAIN acc.renames \union {name} /\ also[name] = alias
       /\ \A z \in DOMAIN acc.renames : z # name => also[z] = acc.renames[z]
  BY DEF Put
<1>15. \/ name \notin DOMAIN acc.schemas /\ new = [schemas |-> plain, renames |-> acc.renames]
       \/ new = acc /\ name \in DOMAIN acc.schemas /\ acc.schemas[name] = def
       \/ new = [schemas |-> moved, renames |-> also]
  BY AddSchemaForms
<1>11. /\ \A x \in DOMAIN known : x \in DOMAIN acc.schemas /\ acc.schemas[x] = known[x]
       /\ \A x \in DOMAIN acc.renames : \E l \in 1 .. n : x = SchemaName(d, l)
       /\ \A x \in DOMAIN acc.schemas :
            x \in DOMAIN known \/ \E l \in 1 .. n : x \in {SchemaName(d, l), AliasOf(d, l)}
  BY DEF SchemasSound
<1> SUFFICES SchemasSound(d, known, new, n + 1)
  OBVIOUS
<1> HIDE DEF new, target, plain, moved, also
<1>12. CASE name \notin DOMAIN acc.schemas /\ new = [schemas |-> plain, renames |-> acc.renames]
  <2>1. \A l \in 1 .. n : target(l) # name
    BY <1>7, <1>12
  <2>2. ASSUME NEW l \in 1 .. n + 1
        PROVE  target(l) \in DOMAIN new.schemas /\ new.schemas[target(l)] = d.spec.schemas[l].def
    <3>1. CASE l = n + 1
      BY <3>1, <1>8, <1>9, <1>12
    <3>2. CASE l \in 1 .. n
      BY <3>2, <2>1, <1>7, <1>9, <1>12
    <3> QED
      BY <3>1, <3>2, <1>1
  <2>3. \A x \in DOMAIN known : x \in DOMAIN new.schemas /\ new.schemas[x] = known[x]
    BY <1>9, <1>11, <1>12
  <2>4. \A x \in DOMAIN new.renames : \E l \in 1 .. n + 1 : x = SchemaName(d, l)
    BY <1>1, <1>11, <1>12
  <2>5. \A x \in DOMAIN new.schemas :
          x \in DOMAIN known \/ \E l \in 1 .. n + 1 : x \in {SchemaName(d, l), AliasOf(d, l)}
    BY <1>1, <1>9, <1>11, <1>12
  <2>6. \A l \in 1 .. n + 1 : target(l) = NewName(new.renames, SchemaName(d, l))
    BY <1>12 DEF target
  <2> QED
    BY <2>2, <2>3, <2>4, <2>5, <2>6 DEF SchemasSound, target
<1>13. CASE new = acc /\ name \in DOMAIN acc.schemas /\ acc.schemas[name] = def
  <2>1. \A l \in 1 .. n + 1 : target(l) \in DOMAIN acc.schemas /\ acc.schemas[target(l)] = d.spec.schemas[l].def
    <3>1. ASSUME NEW l \in 1 .. n + 1
          PROVE  target(l) \in DOMAIN acc.schemas /\ acc.schemas[target(l)] = d.spec.schemas[l].def
      <4>1. CASE l = n + 1
        BY <4>1, <1>8, <1>13
      <4>2. CASE l \in 1 .. n
        BY <4>2, <1>7
      <4> QED
        BY <4>1, <4>2, <1>1
    <3> QED
      BY <3>1
  <2> QED
    BY <1>1, <1>11, <1>13, <2>1 DEF SchemasSound, target
<1>14. CASE new = [schemas |-> moved, renames |-> also]
  <2> DEFINE next(l) == NewName(new.renames, SchemaName(d, l))
  <2>1. next(n + 1) = alias
    BY <1>10, <1>14 DEF NewName
  <2>2. ASSUME NEW l \in 1 .. n PROVE next(l) = target(l)
    BY <1>2, <1>10, <1>14 DEF NewName, target
  <2> HIDE DEF next
  <2>3. ASSUME NEW l \in 1 .. n + 1
        PROVE  next(l) \in DOMAIN new.schemas /\ new.schemas[next(l)] = d.spec.schemas[l].def
    <3>1. CASE l = n + 1
      BY <3>1, <2>1, <1>16, <1>14
    <3>2. CASE l \in 1 .. n
      BY <3>2, <2>2, <1>4, <1>7, <1>16, <1>14
    <3> QED
      BY <3>1, <3>2, <1>1
  <2>4. \A x \in DOMAIN known : x \in DOMAIN new.schemas /\ new.schemas[x] = known[x]
    BY <1>4, <1>16, <1>11, <1>14
  <2>5. \A x \in DOMAIN new.renames : \E l \in 1 .. n + 1 : x = SchemaName(d, l)
    BY <1>1, <1>10, <1>11, <1>14
  <2>6. \A x \in DOMAIN new.schemas :
          x \in DOMAIN known \/ \E l \in 1 .. n + 1 : x \in {SchemaName(d, l), AliasOf(d, l)}
    BY <1>1, <1>16, <1>11, <1>14
  <2> QED
    BY <2>3, <2>4, <2>5, <2>6 DEF SchemasSound, next
<1> QED
  BY <1>12, <1>13, <1>14, <1>15

LEMMA AddSchemasFinite ==
  ASSUME NEW d, NEW known, GoodSchemas(d), IsFiniteSet(DOMAIN known)
  PROVE  SchemasFinite(d, known, AddSchemas(d, known)[Len(d.spec.schemas)])
<1> DEFINE last == Len(d.spec.schemas)
           after == AddSchemas(d, known)
           fine == {n \in Nat : n <= last => SchemasFinite(d, known, after[n])}
<1>1. last \in Nat /\ DOMAIN d.spec.schemas = 1 .. last
  BY ListShape DEF GoodSchemas
<1>2. /\ after[0] = [schemas |-> known, renames |-> <<>>]
      /\ \A n \in Nat : n < last => after[n + 1] = AddSchema(d.name, after[n], d.spec.schemas[n + 1])
  <2> HIDE DEF after
  <2>1. after = [n \in 0 .. last |->
                   IF n = 0 THEN [schemas |-> known, renames |-> <<>>]
                   ELSE AddSchema(d.name, after[n - 1], d.spec.schemas[n])]
    BY <1>1, AddSchemasDef DEF after
  <2>2. \A n \in Nat : n < last => n + 1 \in 0 .. last /\ n + 1 # 0 /\ (n + 1) - 1 = n
    BY <1>1
  <2> QED
    BY <1>1, <2>1, <2>2
<1> HIDE DEF after
<1>3. 0 \in fine
  BY <1>2 DEF SchemasFinite
<1>4. \A n \in Nat : n \in fine => n + 1 \in fine
  <2> SUFFICES ASSUME NEW n \in Nat, n + 1 <= last, SchemasFinite(d, known, after[n])
               PROVE  SchemasFinite(d, known, after[n + 1])
    BY <1>1
  <2>1. n + 1 \in DOMAIN d.spec.schemas /\ after[n + 1] = AddSchema(d.name, after[n], d.spec.schemas[n + 1])
    BY <1>1, <1>2
  <2> QED
    BY <2>1, AddSchemaFinite
<1> HIDE DEF fine
<1>5. last \in fine
  BY <1>1, <1>3, <1>4, Induction
<1> QED
  BY <1>1, <1>5 DEF fine, after

LEMMA AddSchemasSound ==
  ASSUME NEW d, NEW known, GoodSchemas(d), IsFiniteSet(DOMAIN known), AliasesFresh(d, known)
  PROVE  SchemasSound(d, known, AddSchemas(d, known)[Len(d.spec.schemas)], Len(d.spec.schemas))
<1> DEFINE last == Len(d.spec.schemas)
           after == AddSchemas(d, known)
           fine == {n \in Nat : n <= last => SchemasFinite(d, known, after[n]) /\ SchemasSound(d, known, after[n], n)}
<1>1. last \in Nat /\ DOMAIN d.spec.schemas = 1 .. last
  BY ListShape DEF GoodSchemas
<1>2. /\ after[0] = [schemas |-> known, renames |-> <<>>]
      /\ \A n \in Nat : n < last => after[n + 1] = AddSchema(d.name, after[n], d.spec.schemas[n + 1])
  <2> HIDE DEF after
  <2>1. after = [n \in 0 .. last |->
                   IF n = 0 THEN [schemas |-> known, renames |-> <<>>]
                   ELSE AddSchema(d.name, after[n - 1], d.spec.schemas[n])]
    BY <1>1, AddSchemasDef DEF after
  <2>2. \A n \in Nat : n < last => n + 1 \in 0 .. last /\ n + 1 # 0 /\ (n + 1) - 1 = n
    BY <1>1
  <2> QED
    BY <1>1, <2>1, <2>2
<1> HIDE DEF after
<1>3. 0 \in fine
  BY <1>2 DEF SchemasFinite, SchemasSound
<1>4. \A n \in Nat : n \in fine => n + 1 \in fine
  <2> SUFFICES ASSUME NEW n \in Nat, n + 1 <= last,
                      SchemasFinite(d, known, after[n]), SchemasSound(d, known, after[n], n)
               PROVE  SchemasFinite(d, known, after[n + 1]) /\ SchemasSound(d, known, after[n + 1], n + 1)
    BY <1>1
  <2>1. n + 1 \in DOMAIN d.spec.schemas /\ after[n + 1] = AddSchema(d.name, after[n], d.spec.schemas[n + 1])
    BY <1>1, <1>2
  <2> QED
    BY <2>1, AddSchemaFinite, AddSchemaSound
<1> HIDE DEF fine
<1>5. last \in fine
  BY <1>1, <1>3, <1>4, Induction
<1> QED
  BY <1>1, <1>5 DEF fine, after

-----------------------------------------------------------------------------
(* One service's operations: AddOperations() gives each its place under the *)
(* mount and an id, and keeps the entries it does not replace.              *)

Moved(d, renames, op, id) ==
  [path |-> d.mount \o op.path, method |-> op.method,
   refs |-> {RewriteRef(renames, r) : r \in op.refs}, id |-> id, security |-> op.security]

\* An entry made of the service's l-th operation.
MadeOf(d, renames, l, entry) ==
  \E id \in {d.spec.ops[l].id, Prefixed(d.name, d.spec.ops[l].id)} :
    entry = [op |-> Moved(d, renames, d.spec.ops[l], id), service |-> d.name]

KeyedByOperation(table) == \A k \in DOMAIN table : k = Key(table[k].op) /\ table[k].op.id # NoId

OperationsSound(d, renames, known, acc, n) ==
  /\ IsFiniteSet(DOMAIN acc.table)
  /\ KeyedByOperation(acc.table)
  /\ \A k \in DOMAIN acc.table :
       \/ k \in DOMAIN known /\ acc.table[k] = known[k]
       \/ \E l \in 1 .. n : MadeOf(d, renames, l, acc.table[k])

LEMMA AddOperationForm ==
  ASSUME NEW d, NEW renames, NEW acc, NEW op, GoodOperation(d, op)
  PROVE  LET id  == IF op.id \in acc.ids THEN Prefixed(d.name, op.id) ELSE op.id
             new == Moved(d, renames, op, id)
         IN  /\ AddOperation(d, renames, acc, op)
                  = [ids |-> acc.ids \union {id}, table |-> Put(acc.table, Key(new), [op |-> new, service |-> d.name])]
             /\ id \in {op.id, Prefixed(d.name, op.id)} /\ id # NoId
             /\ new.id = id
<1> DEFINE id   == IF op.id \in acc.ids THEN Prefixed(d.name, op.id) ELSE op.id
           refs == {RewriteRef(renames, r) : r \in op.refs}
           path == d.mount \o op.path
           new  == [op EXCEPT !.id = id, !.path = path, !.refs = refs]
<1>1. id \in {op.id, Prefixed(d.name, op.id)} /\ id # NoId
  BY PrefixedIsList DEF GoodOperation, NoId
<1>2. op = [path |-> op.path, method |-> op.method, refs |-> op.refs, id |-> op.id, security |-> op.security]
  BY DEF GoodOperation
<1>3. AddOperation(d, renames, acc, op)
        = [ids |-> acc.ids \union ({id} \ {NoId}), table |-> Put(acc.table, Key(new), [op |-> new, service |-> d.name])]
  BY DEF AddOperation
<1> HIDE DEF id, refs, path
<1>4. new = [path |-> path, method |-> op.method, refs |-> refs, id |-> id, security |-> op.security]
  <2>1. DOMAIN op = {"path", "method", "refs", "id", "security"}
    BY <1>2
  <2>2. new.path = path /\ new.refs = refs /\ new.id = id /\ new.method = op.method /\ new.security = op.security
    BY <2>1
  <2>3. new = [x \in {"path", "method", "refs", "id", "security"} |-> new[x]]
    BY <2>1
  <2> HIDE DEF new
  <2>4. new = [path |-> new.path, method |-> new.method, refs |-> new.refs, id |-> new.id, security |-> new.security]
    BY <2>3
  <2> QED
    BY <2>2, <2>4
<1> HIDE DEF new
<1>5. new = Moved(d, renames, op, id)
  BY <1>4 DEF Moved, refs, path
<1>6. {id} \ {NoId} = {id}
  BY <1>1
<1>7. AddOperation(d, renames, acc, op)
        = [ids |-> acc.ids \union {id},
           table |-> Put(acc.table, Key(Moved(d, renames, op, id)), [op |-> Moved(d, renames, op, id), service |-> d.name])]
  BY <1>3, <1>5, <1>6
<1>8. Moved(d, renames, op, id).id = id
  BY <1>4, <1>5
<1> QED
  BY <1>1, <1>7, <1>8 DEF id

LEMMA AddOperationSound ==
  ASSUME NEW d, NEW renames, NEW known, NEW acc, NEW n \in Nat, n + 1 \in DOMAIN d.spec.ops,
         GoodOperations(d), OperationsSound(d, renames, known, acc, n)
  PROVE  OperationsSound(d, renames, known, AddOperation(d, renames, acc, d.spec.ops[n + 1]), n + 1)
<1> DEFINE op  == d.spec.ops[n + 1]
           id  == IF op.id \in acc.ids THEN Prefixed(d.name, op.id) ELSE op.id
           new == Moved(d, renames, op, id)
           entry == [op |-> new, service |-> d.name]
           table == Put(acc.table, Key(new), entry)
<1>1. /\ AddOperation(d, renames, acc, op) = [ids |-> acc.ids \union {id}, table |-> table]
      /\ id \in {op.id, Prefixed(d.name, op.id)} /\ id # NoId /\ new.id = id
  <2> HIDE DEF op
  <2>1. GoodOperation(d, op)
    BY DEF GoodOperations, op
  <2> QED
    BY <2>1, AddOperationForm
<1>2. MadeOf(d, renames, n + 1, entry)
  <2> HIDE DEF id
  <2> QED
    BY <1>1 DEF MadeOf
<1>3. entry.op = new
  OBVIOUS
<1> HIDE DEF new, id, entry
<1>4. /\ DOMAIN table = DOMAIN acc.table \union {Key(new)} /\ table[Key(new)] = entry
      /\ \A k \in DOMAIN acc.table : k # Key(new) => table[k] = acc.table[k]
  BY DEF Put
<1> HIDE DEF table
<1>5. IsFiniteSet(DOMAIN table)
  BY <1>4, FS_AddElement DEF OperationsSound
<1>6. KeyedByOperation(table)
  BY <1>1, <1>3, <1>4 DEF OperationsSound, KeyedByOperation
<1>7. ASSUME NEW k \in DOMAIN table
      PROVE  \/ k \in DOMAIN known /\ table[k] = known[k]
             \/ \E l \in 1 .. n + 1 : MadeOf(d, renames, l, table[k])
  <2>1. CASE k = Key(new)
    BY <2>1, <1>2, <1>4
  <2>2. CASE k \in DOMAIN acc.table /\ k # Key(new)
    <3>1. table[k] = acc.table[k]
      BY <2>2, <1>4
    <3>2. \/ k \in DOMAIN known /\ acc.table[k] = known[k]
          \/ \E l \in 1 .. n : MadeOf(d, renames, l, acc.table[k])
      BY <2>2 DEF OperationsSound
    <3>3. \A l \in 1 .. n : l \in 1 .. n + 1
      OBVIOUS
    <3> QED
      BY <3>1, <3>2, <3>3
  <2> QED
    BY <2>1, <2>2, <1>4
<1>8. AddOperation(d, renames, acc, op).table = table
  BY <1>1
<1> HIDE DEF op
<1>9. OperationsSound(d, renames, known, AddOperation(d, renames, acc, op), n + 1)
  BY <1>5, <1>6, <1>7, <1>8 DEF OperationsSound
<1> QED
  BY <1>9 DEF op

LEMMA AddOperationsSteps ==
  ASSUME NEW d, NEW renames, NEW known, Len(d.spec.ops) \in Nat
  PROVE  LET after == AddOperations(d, renames, known)
         IN  /\ after[0] = [ids |-> {known[k].op.id : k \in DOMAIN known} \ {NoId}, table |-> known]
             /\ \A n \in Nat : n < Len(d.spec.ops) =>
                  after[n + 1] = AddOperation(d, renames, after[n], d.spec.ops[n + 1])
<1> DEFINE after == AddOperations(d, renames, known)
           last  == Len(d.spec.ops)
<1>1. after = [n \in 0 .. last |->
                 IF n = 0 THEN [ids |-> {known[k].op.id : k \in DOMAIN known} \ {NoId}, table |-> known]
                 ELSE AddOperation(d, renames, after[n - 1], d.spec.ops[n])]
  BY AddOperationsDef
<1>2. 0 \in 0 .. last /\ \A n \in Nat : n < last => n + 1 \in 0 .. last /\ n + 1 # 0 /\ (n + 1) - 1 = n
  OBVIOUS
<1> HIDE DEF after, last
<1>3. after[0] = [ids |-> {known[k].op.id : k \in DOMAIN known} \ {NoId}, table |-> known]
  BY <1>1, <1>2
<1>4. \A n \in Nat : n < last => after[n + 1] = AddOperation(d, renames, after[n], d.spec.ops[n + 1])
  BY <1>1, <1>2
<1> QED
  BY <1>3, <1>4 DEF after, last

LEMMA AddOperationsSound ==
  ASSUME NEW d, NEW renames, NEW known, GoodOperations(d),
         IsFiniteSet(DOMAIN known), KeyedByOperation(known)
  PROVE  OperationsSound(d, renames, known,
                         AddOperations(d, renames, known)[Len(d.spec.ops)], Len(d.spec.ops))
<1> DEFINE last == Len(d.spec.ops)
           after == AddOperations(d, renames, known)
           fine == {n \in Nat : n <= last => OperationsSound(d, renames, known, after[n], n)}
<1>1. last \in Nat /\ DOMAIN d.spec.ops = 1 .. last
  BY ListShape DEF GoodOperations
<1>2. /\ after[0].table = known
      /\ \A n \in Nat : n < last => after[n + 1] = AddOperation(d, renames, after[n], d.spec.ops[n + 1])
  <2>1. /\ after[0] = [ids |-> {known[k].op.id : k \in DOMAIN known} \ {NoId}, table |-> known]
        /\ \A n \in Nat : n < last => after[n + 1] = AddOperation(d, renames, after[n], d.spec.ops[n + 1])
    BY <1>1, AddOperationsSteps
  <2> HIDE DEF after
  <2> QED
    BY <2>1
<1> HIDE DEF after
<1>3. 0 \in fine
  BY <1>2 DEF OperationsSound
<1>4. \A n \in Nat : n \in fine => n + 1 \in fine
  <2> SUFFICES ASSUME NEW n \in Nat, n + 1 <= last, OperationsSound(d, renames, known, after[n], n)
               PROVE  OperationsSound(d, renames, known, after[n + 1], n + 1)
    BY <1>1
  <2>1. n + 1 \in DOMAIN d.spec.ops /\ after[n + 1] = AddOperation(d, renames, after[n], d.spec.ops[n + 1])
    BY <1>1, <1>2
  <2> QED
    BY <2>1, AddOperationSound
<1> HIDE DEF fine
<1>5. last \in fine
  BY <1>1, <1>3, <1>4, Induction
<1> QED
  BY <1>1, <1>5 DEF fine, after

\* The ids that the merge gives are told apart when the service's own are, and
\* none that it would make is taken.
IdsFresh(d, known) ==
  \A l \in DOMAIN d.spec.ops :
    /\ \A k \in DOMAIN known : known[k].op.id # Prefixed(d.name, d.spec.ops[l].id)
    /\ \A k \in DOMAIN d.spec.ops :
         /\ d.spec.ops[k].id # Prefixed(d.name, d.spec.ops[l].id)
         /\ d.spec.ops[k].id = d.spec.ops[l].id => k = l

IdsDistinct(table) == \A k, l \in DOMAIN table : table[k].op.id = table[l].op.id => k = l

IdsSound(d, known, acc, n) ==
  /\ \A k \in DOMAIN acc.table : acc.table[k].op.id \in acc.ids
  /\ \A x \in acc.ids :
       \/ \E k \in DOMAIN known : x = known[k].op.id
       \/ \E l \in 1 .. n : x \in {d.spec.ops[l].id, Prefixed(d.name, d.spec.ops[l].id)}
  /\ IdsDistinct(acc.table)

LEMMA AddOperationIds ==
  ASSUME NEW d, NEW renames, NEW known, NEW acc, NEW n \in Nat, n + 1 \in DOMAIN d.spec.ops,
         GoodOperations(d), IdsFresh(d, known), IdsSound(d, known, acc, n)
  PROVE  IdsSound(d, known, AddOperation(d, renames, acc, d.spec.ops[n + 1]), n + 1)
<1> DEFINE op  == d.spec.ops[n + 1]
           alias == Prefixed(d.name, op.id)
           id  == IF op.id \in acc.ids THEN alias ELSE op.id
           new == Moved(d, renames, op, id)
           entry == [op |-> new, service |-> d.name]
           table == Put(acc.table, Key(new), entry)
           after == AddOperation(d, renames, acc, op)
<1>1. after = [ids |-> acc.ids \union {id}, table |-> table] /\ id \in {op.id, alias} /\ new.id = id
  <2> HIDE DEF op
  <2>1. GoodOperation(d, op)
    BY DEF GoodOperations, op
  <2> QED
    BY <2>1, AddOperationForm
<1>2. 1 .. n + 1 = 1 .. n \union {n + 1} /\ 1 .. n \subseteq DOMAIN d.spec.ops /\ \A l \in 1 .. n : l # n + 1
  <2>1. DOMAIN d.spec.ops = 1 .. Len(d.spec.ops) /\ Len(d.spec.ops) \in Nat
    BY ListShape DEF GoodOperations
  <2> QED
    BY <2>1
<1>3. alias \notin acc.ids
  <2>1. \A k \in DOMAIN known : known[k].op.id # alias
    BY DEF IdsFresh
  <2>2. ASSUME NEW l \in 1 .. n PROVE alias # d.spec.ops[l].id
    BY <1>2 DEF IdsFresh
  <2>3. ASSUME NEW l \in 1 .. n PROVE alias # Prefixed(d.name, d.spec.ops[l].id)
    <3>1. l \in DOMAIN d.spec.ops /\ l # n + 1
      BY <1>2
    <3>2. op.id # d.spec.ops[l].id
      BY <3>1 DEF IdsFresh
    <3>3. IsList(op.id) /\ IsList(d.spec.ops[l].id)
      BY <3>1 DEF GoodOperations, GoodOperation
    <3> QED
      BY <3>2, <3>3, PrefixedCancel
  <2> QED
    BY <2>1, <2>2, <2>3 DEF IdsSound
<1>4. id \notin acc.ids
  BY <1>3
<1>5. entry.op.id = id
  BY <1>1
<1> HIDE DEF new, id, entry, after
<1>6. /\ DOMAIN table = DOMAIN acc.table \union {Key(new)} /\ table[Key(new)] = entry
      /\ \A k \in DOMAIN acc.table : k # Key(new) => table[k] = acc.table[k]
  BY DEF Put
<1> HIDE DEF table, op, alias
<1>7. \A k \in DOMAIN table : table[k].op.id \in acc.ids \union {id}
  BY <1>5, <1>6 DEF IdsSound
<1>8. IdsDistinct(table)
  <2> SUFFICES ASSUME NEW k \in DOMAIN table, NEW l \in DOMAIN table, table[k].op.id = table[l].op.id, k # l
               PROVE  FALSE
    BY DEF IdsDistinct
  <2>1. CASE k = Key(new)
    <3>1. table[l] = acc.table[l] /\ l \in DOMAIN acc.table
      BY <2>1, <1>6
    <3> QED
      BY <2>1, <3>1, <1>4, <1>5, <1>6 DEF IdsSound
  <2>2. CASE l = Key(new)
    <3>1. table[k] = acc.table[k] /\ k \in DOMAIN acc.table
      BY <2>2, <1>6
    <3> QED
      BY <2>2, <3>1, <1>4, <1>5, <1>6 DEF IdsSound
  <2>3. CASE k # Key(new) /\ l # Key(new)
    <3>1. table[k] = acc.table[k] /\ table[l] = acc.table[l] /\ k \in DOMAIN acc.table /\ l \in DOMAIN acc.table
      BY <2>3, <1>6
    <3> QED
      BY <3>1 DEF IdsSound, IdsDistinct
  <2> QED
    BY <2>1, <2>2, <2>3
<1>9. ASSUME NEW x \in acc.ids \union {id}
      PROVE  \/ \E k \in DOMAIN known : x = known[k].op.id
             \/ \E l \in 1 .. n + 1 : x \in {d.spec.ops[l].id, Prefixed(d.name, d.spec.ops[l].id)}
  <2>1. CASE x \in acc.ids
    BY <2>1, <1>2 DEF IdsSound
  <2>2. CASE x = id
    <3>1. x \in {d.spec.ops[n + 1].id, Prefixed(d.name, d.spec.ops[n + 1].id)}
      BY <2>2, <1>1 DEF op, alias
    <3> QED
      BY <3>1, <1>2
  <2> QED
    BY <2>1, <2>2
<1>10. IdsSound(d, known, after, n + 1)
  <2>1. after.ids = acc.ids \union {id} /\ after.table = table
    BY <1>1
  <2> QED
    BY <2>1, <1>7, <1>8, <1>9 DEF IdsSound
<1> QED
  BY <1>10 DEF after, op

LEMMA AddOperationsIds ==
  ASSUME NEW d, NEW renames, NEW known, GoodOperations(d), IdsFresh(d, known),
         KeyedByOperation(known), IdsDistinct(known)
  PROVE  IdsSound(d, known, AddOperations(d, renames, known)[Len(d.spec.ops)], Len(d.spec.ops))
<1> DEFINE last == Len(d.spec.ops)
           after == AddOperations(d, renames, known)
           fine == {n \in Nat : n <= last => IdsSound(d, known, after[n], n)}
<1>1. last \in Nat /\ DOMAIN d.spec.ops = 1 .. last
  BY ListShape DEF GoodOperations
<1>2. /\ after[0].table = known /\ after[0].ids = {known[k].op.id : k \in DOMAIN known} \ {NoId}
      /\ \A n \in Nat : n < last => after[n + 1] = AddOperation(d, renames, after[n], d.spec.ops[n + 1])
  <2>1. /\ after[0] = [ids |-> {known[k].op.id : k \in DOMAIN known} \ {NoId}, table |-> known]
        /\ \A n \in Nat : n < last => after[n + 1] = AddOperation(d, renames, after[n], d.spec.ops[n + 1])
    BY <1>1, AddOperationsSteps
  <2> HIDE DEF after
  <2> QED
    BY <2>1
<1> HIDE DEF after
<1>3. 0 \in fine
  BY <1>2 DEF IdsSound, KeyedByOperation
<1>4. \A n \in Nat : n \in fine => n + 1 \in fine
  <2> SUFFICES ASSUME NEW n \in Nat, n + 1 <= last, IdsSound(d, known, after[n], n)
               PROVE  IdsSound(d, known, after[n + 1], n + 1)
    BY <1>1
  <2>1. n + 1 \in DOMAIN d.spec.ops /\ after[n + 1] = AddOperation(d, renames, after[n], d.spec.ops[n + 1])
    BY <1>1, <1>2
  <2> QED
    BY <2>1, AddOperationIds
<1> HIDE DEF fine
<1>5. last \in fine
  BY <1>1, <1>3, <1>4, Induction
<1> QED
  BY <1>1, <1>5 DEF fine, after

-----------------------------------------------------------------------------
(* The merged document: where its entries come from.                        *)

MergedShape(docs, m, n) ==
  /\ IsFiniteSet(DOMAIN m.table) /\ KeyedByOperation(m.table)
  /\ IsFiniteSet(DOMAIN m.schemas)
  /\ \A i \in 1 .. n : DOMAIN docs[i].spec.schemes \subseteq DOMAIN m.schemes
  /\ \A k \in DOMAIN m.table : \E i \in 1 .. n : \E l \in DOMAIN docs[i].spec.ops : \E renames :
       MadeOf(docs[i], renames, l, m.table[k])

\* A service's references, renamed, lead to its own definitions.
Leads(d, renames, schemas) ==
  \A l \in DOMAIN d.spec.schemas :
    LET x == NewName(renames, SchemaName(d, l))
    IN  x \in DOMAIN schemas /\ schemas[x] = d.spec.schemas[l].def

MergedOwn(docs, m, n) ==
  /\ \A x \in DOMAIN m.schemas : \E i \in 1 .. n : \E l \in DOMAIN docs[i].spec.schemas :
       x \in {SchemaName(docs[i], l), AliasOf(docs[i], l)}
  /\ \A k \in DOMAIN m.table : \E i \in 1 .. n : \E l \in DOMAIN docs[i].spec.ops : \E renames :
       MadeOf(docs[i], renames, l, m.table[k]) /\ Leads(docs[i], renames, m.schemas)

NamesDiffer(docs) == \A i, j \in DOMAIN docs : docs[i].name = docs[j].name => i = j

SchemasDiffer(docs) ==
  \A i, j \in DOMAIN docs :
    \A k \in DOMAIN docs[i].spec.schemas, l \in DOMAIN docs[j].spec.schemas :
      SchemaName(docs[i], k) # AliasOf(docs[j], l)

IdsDiffer(docs) ==
  \A i, j \in DOMAIN docs :
    \A k \in DOMAIN docs[i].spec.ops, l \in DOMAIN docs[j].spec.ops :
      LET one == docs[i].spec.ops[k].id
          two == docs[j].spec.ops[l].id
      IN  one # Prefixed(docs[j].name, two) /\ (i = j /\ one = two => k = l)

LEMMA MergeServiceFacts ==
  ASSUME NEW m, NEW d
  PROVE  LET named == AddSchemas(d, m.schemas)[Len(d.spec.schemas)]
             new   == MergeService(m, d)
         IN  /\ new.table = AddOperations(d, named.renames, m.table)[Len(d.spec.ops)].table
             /\ new.schemas = named.schemas
             /\ DOMAIN new.schemes = DOMAIN m.schemes \union DOMAIN d.spec.schemes
BY DEF MergeService, Extended

LEMMA MergedShapeStep ==
  ASSUME NEW docs, GoodDocuments(docs), NEW m, NEW n \in Nat, n + 1 \in DOMAIN docs, MergedShape(docs, m, n)
  PROVE  MergedShape(docs, MergeService(m, docs[n + 1]), n + 1)
<1> DEFINE d == docs[n + 1]
           named == AddSchemas(d, m.schemas)[Len(d.spec.schemas)]
           added == AddOperations(d, named.renames, m.table)[Len(d.spec.ops)]
           new == MergeService(m, d)
<1>1. GoodSchemas(d) /\ GoodOperations(d)
  BY DEF GoodDocuments
<1>2. /\ new.table = added.table /\ new.schemas = named.schemas
      /\ DOMAIN new.schemes = DOMAIN m.schemes \union DOMAIN d.spec.schemes
  BY MergeServiceFacts
<1>3. SchemasFinite(d, m.schemas, named)
  <2>1. IsFiniteSet(DOMAIN m.schemas)
    BY DEF MergedShape
  <2> HIDE DEF d
  <2> QED
    BY <1>1, <2>1, AddSchemasFinite
<1>4. OperationsSound(d, named.renames, m.table, added, Len(d.spec.ops))
  <2>1. IsFiniteSet(DOMAIN m.table) /\ KeyedByOperation(m.table)
    BY DEF MergedShape
  <2> HIDE DEF d, named
  <2> QED
    BY <1>1, <2>1, AddOperationsSound
<1>5. 1 .. n + 1 = 1 .. n \union {n + 1}
  OBVIOUS
<1> SUFFICES MergedShape(docs, new, n + 1)
  OBVIOUS
<1>6. DOMAIN d.spec.ops = 1 .. Len(d.spec.ops)
  <2> HIDE DEF d
  <2> QED
    BY <1>1, ListShape DEF GoodOperations
<1> HIDE DEF new, added, named
<1>7. ASSUME NEW k \in DOMAIN new.table
      PROVE  \E i \in 1 .. n + 1 : \E l \in DOMAIN docs[i].spec.ops : \E renames :
               MadeOf(docs[i], renames, l, new.table[k])
  <2>1. CASE k \in DOMAIN m.table /\ new.table[k] = m.table[k]
    <3>1. PICK i \in 1 .. n : \E l \in DOMAIN docs[i].spec.ops : \E renames : MadeOf(docs[i], renames, l, m.table[k])
      BY <2>1 DEF MergedShape
    <3>2. i \in 1 .. n + 1
      OBVIOUS
    <3> QED
      BY <2>1, <3>1, <3>2
  <2>2. CASE \E l \in 1 .. Len(d.spec.ops) : MadeOf(d, named.renames, l, new.table[k])
    <3>1. n + 1 \in 1 .. n + 1
      OBVIOUS
    <3>2. \E l \in DOMAIN d.spec.ops : \E renames : MadeOf(d, renames, l, new.table[k])
      BY <2>2, <1>6
    <3> QED
      BY <3>1, <3>2
  <2> QED
    BY <2>1, <2>2, <1>2, <1>4 DEF OperationsSound
<1>8. \A i \in 1 .. n + 1 : DOMAIN docs[i].spec.schemes \subseteq DOMAIN new.schemes
  BY <1>2, <1>5 DEF MergedShape
<1>9. IsFiniteSet(DOMAIN new.table) /\ KeyedByOperation(new.table) /\ IsFiniteSet(DOMAIN new.schemas)
  BY <1>2, <1>3, <1>4 DEF OperationsSound, SchemasFinite
<1> QED
  BY <1>7, <1>8, <1>9 DEF MergedShape

LEMMA AliasesAreFresh ==
  ASSUME NEW docs, GoodDocuments(docs), NamesDiffer(docs), SchemasDiffer(docs),
         NEW m, NEW n \in Nat, n + 1 \in DOMAIN docs, MergedOwn(docs, m, n)
  PROVE  AliasesFresh(docs[n + 1], m.schemas)
<1> DEFINE d == docs[n + 1]
<1>1. 1 .. n \subseteq DOMAIN docs /\ \A i \in 1 .. n : i # n + 1
  <2>1. DOMAIN docs = 1 .. Len(docs) /\ Len(docs) \in Nat
    BY ListShape DEF GoodDocuments
  <2> QED
    BY <2>1
<1>2. ASSUME NEW l \in DOMAIN d.spec.schemas PROVE AliasOf(d, l) \notin DOMAIN m.schemas
  <2> SUFFICES ASSUME AliasOf(d, l) \in DOMAIN m.schemas PROVE FALSE
    OBVIOUS
  <2>1. PICK i \in 1 .. n : \E k \in DOMAIN docs[i].spec.schemas :
               AliasOf(d, l) \in {SchemaName(docs[i], k), AliasOf(docs[i], k)}
    BY DEF MergedOwn
  <2>2. PICK k \in DOMAIN docs[i].spec.schemas : AliasOf(d, l) \in {SchemaName(docs[i], k), AliasOf(docs[i], k)}
    BY <2>1
  <2>3. i \in DOMAIN docs /\ i # n + 1
    BY <1>1
  <2>4. AliasOf(d, l) # SchemaName(docs[i], k)
    BY <2>3 DEF SchemasDiffer
  <2>5. IsList(SchemaName(d, l)) /\ IsList(SchemaName(docs[i], k))
    BY <2>3 DEF GoodDocuments, GoodSchemas
  <2>6. Prefixed(d.name, SchemaName(d, l)) = Prefixed(docs[i].name, SchemaName(docs[i], k))
    BY <2>2, <2>4 DEF AliasOf
  <2>7. d.name = docs[i].name
    <3> HIDE DEF d
    <3> QED
      BY <2>5, <2>6, PrefixedCancel
  <2> QED
    BY <2>3, <2>7 DEF NamesDiffer
<1>3. \A l \in DOMAIN d.spec.schemas : \A k \in DOMAIN d.spec.schemas : SchemaName(d, k) # AliasOf(d, l)
  BY DEF SchemasDiffer
<1> QED
  BY <1>2, <1>3 DEF AliasesFresh

LEMMA MergedOwnStep ==
  ASSUME NEW docs, GoodDocuments(docs), NamesDiffer(docs), SchemasDiffer(docs),
         NEW m, NEW n \in Nat, n + 1 \in DOMAIN docs, MergedShape(docs, m, n), MergedOwn(docs, m, n)
  PROVE  MergedOwn(docs, MergeService(m, docs[n + 1]), n + 1)
<1> DEFINE d == docs[n + 1]
           named == AddSchemas(d, m.schemas)[Len(d.spec.schemas)]
           added == AddOperations(d, named.renames, m.table)[Len(d.spec.ops)]
           new == MergeService(m, d)
<1>1. GoodSchemas(d) /\ GoodOperations(d)
  BY DEF GoodDocuments
<1>2. new.table = added.table /\ new.schemas = named.schemas
  BY MergeServiceFacts
<1>3. SchemasSound(d, m.schemas, named, Len(d.spec.schemas))
  <2>1. IsFiniteSet(DOMAIN m.schemas) /\ AliasesFresh(d, m.schemas)
    BY AliasesAreFresh DEF MergedShape
  <2> HIDE DEF d
  <2> QED
    BY <1>1, <2>1, AddSchemasSound
<1>4. OperationsSound(d, named.renames, m.table, added, Len(d.spec.ops))
  <2>1. IsFiniteSet(DOMAIN m.table) /\ KeyedByOperation(m.table)
    BY DEF MergedShape
  <2> HIDE DEF d, named
  <2> QED
    BY <1>1, <2>1, AddOperationsSound
<1>5. DOMAIN d.spec.ops = 1 .. Len(d.spec.ops) /\ DOMAIN d.spec.schemas = 1 .. Len(d.spec.schemas)
  <2> HIDE DEF d
  <2> QED
    BY <1>1, ListShape DEF GoodOperations, GoodSchemas
<1> SUFFICES MergedOwn(docs, new, n + 1)
  OBVIOUS
<1> HIDE DEF new, added, named
<1>6. \A x \in DOMAIN m.schemas : x \in DOMAIN new.schemas /\ new.schemas[x] = m.schemas[x]
  BY <1>2, <1>3 DEF SchemasSound
<1>7. Leads(d, named.renames, new.schemas)
  BY <1>2, <1>3, <1>5 DEF SchemasSound, Leads
<1>8. ASSUME NEW x \in DOMAIN new.schemas
      PROVE  \E i \in 1 .. n + 1 : \E l \in DOMAIN docs[i].spec.schemas :
               x \in {SchemaName(docs[i], l), AliasOf(docs[i], l)}
  <2>1. CASE x \in DOMAIN m.schemas
    <3>1. PICK i \in 1 .. n : \E l \in DOMAIN docs[i].spec.schemas :
                 x \in {SchemaName(docs[i], l), AliasOf(docs[i], l)}
      BY <2>1 DEF MergedOwn
    <3>2. i \in 1 .. n + 1
      OBVIOUS
    <3> QED
      BY <3>1, <3>2
  <2>2. CASE \E l \in DOMAIN d.spec.schemas : x \in {SchemaName(d, l), AliasOf(d, l)}
    <3>1. n + 1 \in 1 .. n + 1
      OBVIOUS
    <3> QED
      BY <2>2, <3>1
  <2> QED
    BY <2>1, <2>2, <1>2, <1>3, <1>5 DEF SchemasSound
<1>9. ASSUME NEW k \in DOMAIN new.table
      PROVE  \E i \in 1 .. n + 1 : \E l \in DOMAIN docs[i].spec.ops : \E renames :
               MadeOf(docs[i], renames, l, new.table[k]) /\ Leads(docs[i], renames, new.schemas)
  <2>1. CASE k \in DOMAIN m.table /\ new.table[k] = m.table[k]
    <3>1. PICK i \in 1 .. n : \E l \in DOMAIN docs[i].spec.ops : \E renames :
                 MadeOf(docs[i], renames, l, m.table[k]) /\ Leads(docs[i], renames, m.schemas)
      BY <2>1 DEF MergedOwn
    <3>2. i \in 1 .. n + 1
      OBVIOUS
    <3>3. \A renames : Leads(docs[i], renames, m.schemas) => Leads(docs[i], renames, new.schemas)
      BY <1>6 DEF Leads
    <3> QED
      BY <2>1, <3>1, <3>2, <3>3
  <2>2. CASE \E l \in 1 .. Len(d.spec.ops) : MadeOf(d, named.renames, l, new.table[k])
    <3>1. n + 1 \in 1 .. n + 1
      OBVIOUS
    <3>2. \E l \in DOMAIN d.spec.ops : \E renames :
            MadeOf(d, renames, l, new.table[k]) /\ Leads(d, renames, new.schemas)
      BY <2>2, <1>5, <1>7
    <3> QED
      BY <3>1, <3>2
  <2> QED
    BY <2>1, <2>2, <1>2, <1>4 DEF OperationsSound
<1> QED
  BY <1>8, <1>9 DEF MergedOwn

MergedIds(docs, m, n) ==
  /\ IdsDistinct(m.table)
  /\ \A k \in DOMAIN m.table : \E i \in 1 .. n : \E l \in DOMAIN docs[i].spec.ops :
       m.table[k].op.id \in {docs[i].spec.ops[l].id, Prefixed(docs[i].name, docs[i].spec.ops[l].id)}

LEMMA IdsAreFresh ==
  ASSUME NEW docs, GoodDocuments(docs), NamesDiffer(docs), IdsDiffer(docs),
         NEW m, NEW n \in Nat, n + 1 \in DOMAIN docs, MergedIds(docs, m, n)
  PROVE  IdsFresh(docs[n + 1], m.table)
<1> DEFINE d == docs[n + 1]
<1>1. 1 .. n \subseteq DOMAIN docs /\ \A i \in 1 .. n : i # n + 1
  <2>1. DOMAIN docs = 1 .. Len(docs) /\ Len(docs) \in Nat
    BY ListShape DEF GoodDocuments
  <2> QED
    BY <2>1
<1>2. ASSUME NEW l \in DOMAIN d.spec.ops, NEW k \in DOMAIN m.table
      PROVE  m.table[k].op.id # Prefixed(d.name, d.spec.ops[l].id)
  <2> SUFFICES ASSUME m.table[k].op.id = Prefixed(d.name, d.spec.ops[l].id) PROVE FALSE
    OBVIOUS
  <2>1. PICK i \in 1 .. n : \E j \in DOMAIN docs[i].spec.ops :
               m.table[k].op.id \in {docs[i].spec.ops[j].id, Prefixed(docs[i].name, docs[i].spec.ops[j].id)}
    BY DEF MergedIds
  <2>2. PICK j \in DOMAIN docs[i].spec.ops :
               m.table[k].op.id \in {docs[i].spec.ops[j].id, Prefixed(docs[i].name, docs[i].spec.ops[j].id)}
    BY <2>1
  <2>3. i \in DOMAIN docs /\ i # n + 1
    BY <1>1
  <2>4. docs[i].spec.ops[j].id # Prefixed(d.name, d.spec.ops[l].id)
    BY <2>3 DEF IdsDiffer
  <2>5. IsList(d.spec.ops[l].id) /\ IsList(docs[i].spec.ops[j].id)
    BY <2>3 DEF GoodDocuments, GoodOperations, GoodOperation
  <2>6. Prefixed(d.name, d.spec.ops[l].id) = Prefixed(docs[i].name, docs[i].spec.ops[j].id)
    BY <2>2, <2>4
  <2>7. d.name = docs[i].name
    <3> HIDE DEF d
    <3> QED
      BY <2>5, <2>6, PrefixedCancel
  <2> QED
    BY <2>3, <2>7 DEF NamesDiffer
<1>3. ASSUME NEW l \in DOMAIN d.spec.ops, NEW k \in DOMAIN d.spec.ops
      PROVE  /\ d.spec.ops[k].id # Prefixed(d.name, d.spec.ops[l].id)
             /\ d.spec.ops[k].id = d.spec.ops[l].id => k = l
  BY DEF IdsDiffer
<1> QED
  BY <1>2, <1>3 DEF IdsFresh

LEMMA MergedIdsStep ==
  ASSUME NEW docs, GoodDocuments(docs), NamesDiffer(docs), IdsDiffer(docs),
         NEW m, NEW n \in Nat, n + 1 \in DOMAIN docs, MergedShape(docs, m, n), MergedIds(docs, m, n)
  PROVE  MergedIds(docs, MergeService(m, docs[n + 1]), n + 1)
<1> DEFINE d == docs[n + 1]
           named == AddSchemas(d, m.schemas)[Len(d.spec.schemas)]
           added == AddOperations(d, named.renames, m.table)[Len(d.spec.ops)]
           new == MergeService(m, d)
<1>1. GoodOperations(d)
  BY DEF GoodDocuments
<1>2. new.table = added.table
  BY MergeServiceFacts
<1>3. IdsSound(d, m.table, added, Len(d.spec.ops))
  <2>1. KeyedByOperation(m.table) /\ IdsFresh(d, m.table) /\ IdsDistinct(m.table)
    BY IdsAreFresh DEF MergedShape, MergedIds
  <2> HIDE DEF d, named
  <2> QED
    BY <1>1, <2>1, AddOperationsIds
<1>4. DOMAIN d.spec.ops = 1 .. Len(d.spec.ops)
  <2> HIDE DEF d
  <2> QED
    BY <1>1, ListShape DEF GoodOperations
<1> SUFFICES MergedIds(docs, new, n + 1)
  OBVIOUS
<1> HIDE DEF new, added, named
<1>5. ASSUME NEW k \in DOMAIN new.table
      PROVE  \E i \in 1 .. n + 1 : \E l \in DOMAIN docs[i].spec.ops :
               new.table[k].op.id \in {docs[i].spec.ops[l].id, Prefixed(docs[i].name, docs[i].spec.ops[l].id)}
  <2> DEFINE x == new.table[k].op.id
  <2>1. x \in added.ids
    BY <1>2, <1>3 DEF IdsSound
  <2>2. \/ \E j \in DOMAIN m.table : x = m.table[j].op.id
        \/ \E l \in 1 .. Len(d.spec.ops) : x \in {d.spec.ops[l].id, Prefixed(d.name, d.spec.ops[l].id)}
    BY <2>1, <1>3 DEF IdsSound
  <2> HIDE DEF x
  <2>3. CASE \E j \in DOMAIN m.table : x = m.table[j].op.id
    <3>1. PICK i \in 1 .. n : \E l \in DOMAIN docs[i].spec.ops :
                 x \in {docs[i].spec.ops[l].id, Prefixed(docs[i].name, docs[i].spec.ops[l].id)}
      BY <2>3 DEF MergedIds
    <3>2. i \in 1 .. n + 1
      OBVIOUS
    <3> QED
      BY <3>1, <3>2 DEF x
  <2>4. CASE \E l \in 1 .. Len(d.spec.ops) : x \in {d.spec.ops[l].id, Prefixed(d.name, d.spec.ops[l].id)}
    <3>1. n + 1 \in 1 .. n + 1
      OBVIOUS
    <3> QED
      BY <2>4, <3>1, <1>4 DEF x
  <2> QED
    BY <2>2, <2>3, <2>4
<1>6. IdsDistinct(new.table)
  BY <1>2, <1>3 DEF IdsSound
<1> QED
  BY <1>5, <1>6 DEF MergedIds

LEMMA MergeSteps ==
  ASSUME NEW docs, Len(docs) \in Nat
  PROVE  LET after == MergeServiceSpecs(Base, docs)
         IN  /\ after[0] = Base
             /\ \A n \in Nat : n < Len(docs) => after[n + 1] = MergeService(after[n], docs[n + 1])
<1> DEFINE after == MergeServiceSpecs(Base, docs)
           last  == Len(docs)
<1>1. after = [n \in 0 .. last |->
                 IF n = 0 THEN Base ELSE MergeService(after[n - 1], docs[n])]
  BY MergeServiceSpecsDef
<1>2. 0 \in 0 .. last /\ \A n \in Nat : n < last => n + 1 \in 0 .. last /\ n + 1 # 0 /\ (n + 1) - 1 = n
  OBVIOUS
<1> HIDE DEF after, last
<1>3. after[0] = Base
  BY <1>1, <1>2
<1>4. \A n \in Nat : n < last => after[n + 1] = MergeService(after[n], docs[n + 1])
  BY <1>1, <1>2
<1> QED
  BY <1>3, <1>4 DEF after, last

LEMMA MergedSound ==
  ASSUME NEW docs, GoodDocuments(docs)
  PROVE  LET m == MergeServiceSpecs(Base, docs)[Len(docs)]
         IN  /\ MergedShape(docs, m, Len(docs))
             /\ NamesDiffer(docs) /\ SchemasDiffer(docs) => MergedOwn(docs, m, Len(docs))
             /\ NamesDiffer(docs) /\ IdsDiffer(docs) => MergedIds(docs, m, Len(docs))
<1> DEFINE last == Len(docs)
           after == MergeServiceSpecs(Base, docs)
           all(n) == /\ MergedShape(docs, after[n], n)
                     /\ NamesDiffer(docs) /\ SchemasDiffer(docs) => MergedOwn(docs, after[n], n)
                     /\ NamesDiffer(docs) /\ IdsDiffer(docs) => MergedIds(docs, after[n], n)
           fine == {n \in Nat : n <= last => all(n)}
<1>1. last \in Nat /\ DOMAIN docs = 1 .. last
  BY ListShape DEF GoodDocuments
<1>2. /\ after[0] = Base
      /\ \A n \in Nat : n < last => after[n + 1] = MergeService(after[n], docs[n + 1])
  BY <1>1, MergeSteps
<1> HIDE DEF after
<1>3. 0 \in fine
  <2>1. DOMAIN Base.table = {} /\ DOMAIN Base.schemas = {} /\ after[0] = Base
    BY <1>2 DEF Base
  <2>2. IsFiniteSet(DOMAIN Base.table) /\ IsFiniteSet(DOMAIN Base.schemas)
    BY <2>1, FS_EmptySet
  <2> HIDE DEF Base
  <2>3. MergedShape(docs, Base, 0)
    BY <2>1, <2>2 DEF MergedShape, KeyedByOperation
  <2>4. MergedOwn(docs, Base, 0) /\ MergedIds(docs, Base, 0)
    BY <2>1 DEF MergedOwn, MergedIds, IdsDistinct
  <2> QED
    BY <2>1, <2>3, <2>4
<1>4. \A n \in Nat : n \in fine => n + 1 \in fine
  <2> SUFFICES ASSUME NEW n \in Nat, n + 1 <= last, all(n) PROVE all(n + 1)
    BY <1>1
  <2>1. n + 1 \in DOMAIN docs /\ after[n + 1] = MergeService(after[n], docs[n + 1])
    BY <1>1, <1>2
  <2> DEFINE m == after[n]
  <2> HIDE DEF m
  <2>2. /\ MergedShape(docs, m, n) /\ after[n + 1] = MergeService(m, docs[n + 1])
        /\ NamesDiffer(docs) /\ SchemasDiffer(docs) => MergedOwn(docs, m, n)
        /\ NamesDiffer(docs) /\ IdsDiffer(docs) => MergedIds(docs, m, n)
    BY <2>1 DEF m
  <2>3. MergedShape(docs, after[n + 1], n + 1)
    BY <2>1, <2>2, MergedShapeStep
  <2>4. NamesDiffer(docs) /\ SchemasDiffer(docs) => MergedOwn(docs, after[n + 1], n + 1)
    BY <2>1, <2>2, MergedOwnStep
  <2>5. NamesDiffer(docs) /\ IdsDiffer(docs) => MergedIds(docs, after[n + 1], n + 1)
    BY <2>1, <2>2, MergedIdsStep
  <2> QED
    BY <2>3, <2>4, <2>5
<1> HIDE DEF fine
<1>5. last \in fine
  BY <1>1, <1>3, <1>4, Induction
<1>6. all(last)
  BY <1>1, <1>5 DEF fine
<1> QED
  BY <1>6 DEF after

-----------------------------------------------------------------------------
(* OwnDefinitions. *)

LEMMA SchemaOfFacts ==
  ASSUME NEW d, GoodSchemas(d), NEW l \in DOMAIN d.spec.schemas
  PROVE  SchemaOf(d, SchemaName(d, l)) = d.spec.schemas[l].def
<1> DEFINE s == d.spec.schemas[l]
           found == CHOOSE t \in Range(d.spec.schemas) : t.name = SchemaName(d, l)
<1>1. s \in Range(d.spec.schemas) /\ s.name = SchemaName(d, l)
  BY DEF Range, SchemaName
<1>2. found \in Range(d.spec.schemas) /\ found.name = SchemaName(d, l)
  <2> HIDE DEF s
  <2> QED
    BY <1>1
<1>3. PICK k \in DOMAIN d.spec.schemas : found = d.spec.schemas[k]
  BY <1>2 DEF Range
<1>4. k = l
  BY <1>2, <1>3 DEF GoodSchemas, SchemaName
<1> HIDE DEF found
<1>5. found = s
  BY <1>3, <1>4
<1> QED
  BY <1>5 DEF SchemaOf, found

LEMMA SourceOfFacts ==
  ASSUME GoodDocuments(Documents), ServicesApart, NEW i \in DOMAIN Documents, NEW entry,
         entry.service = Documents[i].name
  PROVE  SourceOf(entry) = Documents[i]
<1> DEFINE found == CHOOSE d \in Range(Documents) : d.name = entry.service
<1>1. Documents[i] \in Range(Documents)
  BY DEF Range
<1>2. found \in Range(Documents) /\ found.name = entry.service
  BY <1>1
<1>3. PICK j \in DOMAIN Documents : found = Documents[j]
  BY <1>2 DEF Range
<1>4. j = i
  BY <1>2, <1>3 DEF ServicesApart
<1> HIDE DEF found
<1>5. found = Documents[i]
  BY <1>3, <1>4
<1> QED
  BY <1>5 DEF SourceOf, found

LEMMA OriginFacts ==
  ASSUME NEW d, GoodOperations(d), NEW l \in DOMAIN d.spec.ops, NEW entry, SourceOf(entry) = d,
         Key(entry.op) = <<d.spec.ops[l].method, d.mount \o d.spec.ops[l].path>>
  PROVE  Origin(entry) = d.spec.ops[l]
<1> DEFINE op == d.spec.ops[l]
           found == CHOOSE o \in Range(d.spec.ops) : Key(entry.op) = <<o.method, d.mount \o o.path>>
<1>1. op \in Range(d.spec.ops)
  BY DEF Range
<1>2. found \in Range(d.spec.ops) /\ Key(entry.op) = <<found.method, d.mount \o found.path>>
  BY <1>1
<1>3. PICK k \in DOMAIN d.spec.ops : found = d.spec.ops[k]
  BY <1>2 DEF Range
<1>4. found.method = op.method /\ d.mount \o found.path = d.mount \o op.path
  <2> HIDE DEF found
  <2>1. <<found.method, d.mount \o found.path>> = <<op.method, d.mount \o op.path>>
    BY <1>2
  <2> QED
    BY <2>1
<1>5. IsList(d.mount) /\ IsList(found.path) /\ IsList(op.path)
  BY <1>3 DEF GoodOperations, GoodOperation
<1> HIDE DEF found
<1>6. found.path = op.path
  BY <1>4, <1>5, ConcatCancel
<1>7. k = l
  BY <1>3, <1>4, <1>6 DEF GoodOperations, Key
<1>8. found = op
  BY <1>3, <1>7
<1> QED
  BY <1>8 DEF Origin, found

LEMMA RewrittenReference ==
  ASSUME NEW renames, NEW name
  PROVE  RewriteRef(renames, <<"schemas", name>>) = <<"schemas", NewName(renames, name)>>
BY DEF RewriteRef, NewName

OwnEntry(m, entry) ==
  {m.schemas[r[2]] : r \in entry.op.refs} = {SchemaOf(SourceOf(entry), r[2]) : r \in Origin(entry).refs}

LEMMA OwnOfMerged ==
  ASSUME GoodDocuments(Documents), ServicesApart, NEW m, MergedOwn(Documents, m, Len(Documents)),
         NEW k \in DOMAIN m.table, Key(m.table[k].op) = k
  PROVE  OwnEntry(m, m.table[k])
<1> DEFINE entry == m.table[k]
<1>1. DOMAIN Documents = 1 .. Len(Documents)
  BY ListShape DEF GoodDocuments
<1>2. PICK i \in DOMAIN Documents : \E l \in DOMAIN Documents[i].spec.ops : \E renames :
             MadeOf(Documents[i], renames, l, entry) /\ Leads(Documents[i], renames, m.schemas)
  BY <1>1 DEF MergedOwn
<1>3. PICK l \in DOMAIN Documents[i].spec.ops : \E renames :
             MadeOf(Documents[i], renames, l, entry) /\ Leads(Documents[i], renames, m.schemas)
  BY <1>2
<1>4. PICK renames : MadeOf(Documents[i], renames, l, entry) /\ Leads(Documents[i], renames, m.schemas)
  BY <1>3
<1> DEFINE d == Documents[i]
           op == d.spec.ops[l]
           refs == {RewriteRef(renames, r) : r \in op.refs}
<1>5. GoodSchemas(d) /\ GoodOperations(d) /\ GoodOperation(d, op)
  BY DEF GoodDocuments, GoodOperations
<1> HIDE DEF d, entry
<1>6. /\ entry.service = d.name /\ entry.op.refs = refs
      /\ entry.op.method = op.method /\ entry.op.path = d.mount \o op.path
  <2>1. PICK id : entry = [op |-> Moved(d, renames, op, id), service |-> d.name]
    BY <1>4 DEF MadeOf, d
  <2>2. entry.service = d.name /\ entry.op = Moved(d, renames, op, id)
    BY <2>1
  <2> DEFINE path == d.mount \o op.path
             moved == Moved(d, renames, op, id)
  <2> HIDE DEF op, refs
  <2>3. moved = [path |-> path, method |-> op.method, refs |-> refs, id |-> id, security |-> op.security]
    BY DEF Moved, refs
  <2> HIDE DEF path, moved
  <2>4. moved.path = path /\ moved.method = op.method /\ moved.refs = refs
    BY <2>3
  <2>5. entry.op = moved
    BY <2>2 DEF moved
  <2> QED
    BY <2>2, <2>4, <2>5 DEF path
<1>7. SourceOf(entry) = d
  BY <1>6, SourceOfFacts DEF d
<1>8. Origin(entry) = op
  BY <1>5, <1>6, <1>7, OriginFacts DEF Key, d
<1> HIDE DEF op, refs
<1>9. ASSUME NEW r \in op.refs
      PROVE  m.schemas[RewriteRef(renames, r)[2]] = SchemaOf(d, r[2])
  <2>1. PICK j \in DOMAIN d.spec.schemas : r = <<"schemas", SchemaName(d, j)>>
    BY <1>5 DEF GoodOperation
  <2>2. RewriteRef(renames, r) = <<"schemas", NewName(renames, SchemaName(d, j))>>
    BY <2>1, RewrittenReference
  <2>3. m.schemas[NewName(renames, SchemaName(d, j))] = d.spec.schemas[j].def
    BY <1>4 DEF Leads, d
  <2>4. SchemaOf(d, SchemaName(d, j)) = d.spec.schemas[j].def
    BY <1>5, SchemaOfFacts
  <2> QED
    BY <2>1, <2>2, <2>3, <2>4
<1>10. {m.schemas[r[2]] : r \in refs} = {SchemaOf(d, r[2]) : r \in op.refs}
  BY <1>9 DEF refs
<1>11. {m.schemas[r[2]] : r \in entry.op.refs} = {SchemaOf(SourceOf(entry), r[2]) : r \in Origin(entry).refs}
  BY <1>6, <1>7, <1>8, <1>10
<1> QED
  BY <1>11 DEF entry, OwnEntry

-----------------------------------------------------------------------------
(* The inductive invariant: what each stage has derived. *)

MergedDocument == MergeServiceSpecs(Base, Documents)[Len(Documents)]

Whole ==
  [ops      |-> {doc.table[k].op : k \in DOMAIN doc.table},
   schemas  |-> doc.schemas,
   schemes  |-> doc.schemes,
   security |-> {}]

PipelineInv ==
  /\ input \in Inputs
  /\ stage \in {"sources", "merged", "pruned", "generated"}
  /\ stage # "sources" => doc = MergedDocument
  /\ stage = "pruned" => derived = PruneOpenApiDocument(Whole, selected)
  /\ stage = "generated" =>
       LET keys == SetToSeq(DOMAIN doc.table)
       IN  derived = GenerateMethods(doc.table, keys)[Len(keys)]

LEMMA PipelineInvHolds == PipelineSpec => []PipelineInv
<1>1. PipelineInit => PipelineInv
  BY DEF PipelineInit, PipelineInv
<1>2. PipelineInv /\ [PipelineNext]_pipelineVars => PipelineInv'
  <2> SUFFICES ASSUME PipelineInv, [PipelineNext]_pipelineVars PROVE PipelineInv'
    OBVIOUS
  <2>1. ASSUME Aggregate PROVE PipelineInv'
    <3>1. input' = input /\ stage' = "merged" /\ doc' = MergedDocument
      BY <2>1 DEF Aggregate, MergedDocument
    <3>2. MergedDocument' = MergedDocument
      BY <3>1 DEF MergedDocument, Documents
    <3> QED
      BY <3>1, <3>2 DEF PipelineInv
  <2>2. ASSUME NEW keys \in Selections, Prune(keys) PROVE PipelineInv'
    <3>1. /\ stage = "merged" /\ input' = input /\ stage' = "pruned" /\ doc' = doc /\ selected' = keys
          /\ derived' = PruneOpenApiDocument(Whole, keys)
      BY <2>2 DEF Prune, Whole
    <3>2. MergedDocument' = MergedDocument
      BY <3>1 DEF MergedDocument, Documents
    <3>3. Whole' = Whole
      BY <3>1 DEF Whole
    <3>4. PruneOpenApiDocument(Whole, selected)' = PruneOpenApiDocument(Whole', selected')
      OBVIOUS
    <3> QED
      BY <3>1, <3>2, <3>3, <3>4 DEF PipelineInv
  <2>3. ASSUME GenerateClient PROVE PipelineInv'
    <3>1. /\ stage = "merged" /\ input' = input /\ stage' = "generated" /\ doc' = doc
          /\ derived' = LET keys == SetToSeq(DOMAIN doc.table) IN GenerateMethods(doc.table, keys)[Len(keys)]
      BY <2>3 DEF GenerateClient
    <3>2. MergedDocument' = MergedDocument
      BY <3>1 DEF MergedDocument, Documents
    <3> QED
      BY <3>1, <3>2 DEF PipelineInv
  <2>4. ASSUME UNCHANGED pipelineVars PROVE PipelineInv'
    <3>1. input' = input /\ stage' = stage /\ doc' = doc /\ selected' = selected /\ derived' = derived
      BY <2>4 DEF pipelineVars
    <3>2. MergedDocument' = MergedDocument
      BY <3>1 DEF MergedDocument, Documents
    <3>3. Whole' = Whole
      BY <3>1 DEF Whole
    <3> QED
      BY <3>1, <3>2, <3>3 DEF PipelineInv
  <2> QED
    BY <2>1, <2>2, <2>3, <2>4 DEF PipelineNext
<1> QED
  BY <1>1, <1>2, PTL DEF PipelineSpec

LEMMA MergedFacts ==
  ASSUME PipelineInv, stage # "sources"
  PROVE  /\ GoodDocuments(Documents)
         /\ MergedShape(Documents, doc, Len(Documents))
         /\ ServicesApart /\ SchemasApart => MergedOwn(Documents, doc, Len(Documents))
         /\ ServicesApart /\ IdsApart => IdsDistinct(doc.table)
<1>1. GoodDocuments(Documents) /\ doc = MergedDocument
  BY DocumentFacts DEF PipelineInv
<1>2. /\ MergedShape(Documents, doc, Len(Documents))
      /\ NamesDiffer(Documents) /\ SchemasDiffer(Documents) => MergedOwn(Documents, doc, Len(Documents))
      /\ NamesDiffer(Documents) /\ IdsDiffer(Documents) => MergedIds(Documents, doc, Len(Documents))
  BY <1>1, MergedSound DEF MergedDocument
<1>3. ServicesApart => NamesDiffer(Documents)
  BY DEF ServicesApart, NamesDiffer
<1>4. SchemasApart => SchemasDiffer(Documents)
  BY DEF SchemasApart, SchemasDiffer, SchemaName, AliasOf
<1>5. IdsApart => IdsDiffer(Documents)
  BY DEF IdsApart, IdsDiffer
<1> QED
  BY <1>1, <1>2, <1>3, <1>4, <1>5 DEF MergedIds

\* What an operation of the merged document refers to is what its own service
\* defined, however names collide.
THEOREM DefinitionsStayOwn == PipelineSpec => []OwnDefinitions
<1>1. PipelineInv => OwnDefinitions
  <2> SUFFICES ASSUME PipelineInv, stage = "merged", ServicesApart, SchemasApart, NEW k \in DOMAIN doc.table
               PROVE  OwnEntry(doc, doc.table[k])
    BY DEF OwnDefinitions, OwnEntry
  <2>1. /\ GoodDocuments(Documents) /\ MergedOwn(Documents, doc, Len(Documents))
        /\ MergedShape(Documents, doc, Len(Documents))
    BY MergedFacts
  <2>2. Key(doc.table[k].op) = k
    BY <2>1 DEF MergedShape, KeyedByOperation
  <2> QED
    BY <2>1, <2>2, OwnOfMerged
<1> QED
  BY <1>1, PipelineInvHolds, PTL

-----------------------------------------------------------------------------
(* PrunedStandsAlone: the rounds reach everything there is to reach.        *)

Closed(schemas, names) == \A m \in names : DirectSchemas(schemas, schemas[m].refs) \subseteq names

Needed(schemas, refs, names) ==
  \A x \in names : <<"schemas", x>> \in refs \/ \E m \in names : <<"schemas", x>> \in schemas[m].refs

LEMMA ReachedSteps ==
  ASSUME NEW schemas, NEW refs, Cardinality(DOMAIN schemas) \in Nat
  PROVE  LET reached == SchemasWithin(schemas, refs)
         IN  /\ reached[0] = DirectSchemas(schemas, refs)
             /\ \A n \in Nat : n < Cardinality(DOMAIN schemas) =>
                  reached[n + 1] = reached[n] \union DirectSchemas(schemas, UNION {schemas[m].refs : m \in reached[n]})
<1> DEFINE reached == SchemasWithin(schemas, refs)
           last == Cardinality(DOMAIN schemas)
           next(names) == names \union DirectSchemas(schemas, UNION {schemas[m].refs : m \in names})
<1>1. reached = [n \in 0 .. last |->
                   IF n = 0 THEN DirectSchemas(schemas, refs) ELSE next(reached[n - 1])]
  BY SchemasWithinDef
<1>2. 0 \in 0 .. last /\ \A n \in Nat : n < last => n + 1 \in 0 .. last /\ n + 1 # 0 /\ (n + 1) - 1 = n
  OBVIOUS
<1> HIDE DEF reached, last, next
<1>3. reached[0] = DirectSchemas(schemas, refs)
  BY <1>1, <1>2
<1>4. \A n \in Nat : n < last => reached[n + 1] = next(reached[n])
  BY <1>1, <1>2
<1> QED
  BY <1>3, <1>4 DEF reached, last, next

LEMMA NextRound ==
  ASSUME NEW schemas, NEW names, names \subseteq DOMAIN schemas, IsFiniteSet(DOMAIN schemas)
  PROVE  LET next == names \union DirectSchemas(schemas, UNION {schemas[m].refs : m \in names})
         IN  /\ next \subseteq DOMAIN schemas
             /\ Closed(schemas, names) => next = names
             /\ ~Closed(schemas, names) => Cardinality(next) > Cardinality(names)
             /\ \A refs : Needed(schemas, refs, names) => Needed(schemas, refs, next)
<1> DEFINE direct == DirectSchemas(schemas, UNION {schemas[m].refs : m \in names})
           next == names \union direct
<1>1. direct = {x \in DOMAIN schemas : \E m \in names : <<"schemas", x>> \in schemas[m].refs}
  BY DEF DirectSchemas
<1>2. \A m \in names : DirectSchemas(schemas, schemas[m].refs) = {x \in DOMAIN schemas : <<"schemas", x>> \in schemas[m].refs}
  BY DEF DirectSchemas
<1> HIDE DEF direct
<1>3. next \subseteq DOMAIN schemas
  BY <1>1
<1>4. Closed(schemas, names) => next = names
  BY <1>1, <1>2 DEF Closed
<1>5. ASSUME ~Closed(schemas, names) PROVE Cardinality(next) > Cardinality(names)
  <2>1. PICK m \in names : ~(DirectSchemas(schemas, schemas[m].refs) \subseteq names)
    BY <1>5 DEF Closed
  <2>2. PICK x \in DOMAIN schemas : <<"schemas", x>> \in schemas[m].refs /\ x \notin names
    BY <2>1, <1>2
  <2>3. x \in next
    BY <2>2, <1>1
  <2>4. IsFiniteSet(next) /\ IsFiniteSet(names)
    BY <1>3, FS_Subset
  <2>5. names \subseteq next /\ names # next
    BY <2>2, <2>3
  <2> HIDE DEF next
  <2> QED
    BY <2>4, <2>5, FS_Subset, FS_CardinalityType
<1>6. ASSUME NEW refs, Needed(schemas, refs, names) PROVE Needed(schemas, refs, next)
  BY <1>1, <1>6 DEF Needed
<1> QED
  BY <1>3, <1>4, <1>5, <1>6 DEF direct

LEMMA ReachedFacts ==
  ASSUME NEW schemas, NEW refs, IsFiniteSet(DOMAIN schemas)
  PROVE  LET names == ReachedSchemas(schemas, refs)
         IN  /\ names \subseteq DOMAIN schemas /\ DirectSchemas(schemas, refs) \subseteq names
             /\ Closed(schemas, names) /\ Needed(schemas, refs, names)
<1> DEFINE last == Cardinality(DOMAIN schemas)
           reached == SchemasWithin(schemas, refs)
           sound(n) == /\ reached[n] \subseteq DOMAIN schemas
                       /\ DirectSchemas(schemas, refs) \subseteq reached[n]
                       /\ Needed(schemas, refs, reached[n])
                       /\ Closed(schemas, reached[n]) \/ Cardinality(reached[n]) >= n
           fine == {n \in Nat : n <= last => sound(n)}
<1>1. last \in Nat
  BY FS_CardinalityType
<1>2. /\ reached[0] = DirectSchemas(schemas, refs)
      /\ \A n \in Nat : n < last =>
           reached[n + 1] = reached[n] \union DirectSchemas(schemas, UNION {schemas[m].refs : m \in reached[n]})
  BY <1>1, ReachedSteps
<1> HIDE DEF reached, last
<1>3. 0 \in fine
  <2>1. reached[0] \subseteq DOMAIN schemas /\ Needed(schemas, refs, reached[0])
    BY <1>2 DEF DirectSchemas, Needed
  <2>2. IsFiniteSet(reached[0])
    BY <2>1, FS_Subset
  <2>3. Cardinality(reached[0]) \in Nat
    BY <2>2, FS_CardinalityType
  <2> QED
    BY <2>1, <2>3, <1>2
<1>4. \A n \in Nat : n \in fine => n + 1 \in fine
  <2> SUFFICES ASSUME NEW n \in Nat, n + 1 <= last, sound(n) PROVE sound(n + 1)
    BY <1>1
  <2> DEFINE names == reached[n]
             next == names \union DirectSchemas(schemas, UNION {schemas[m].refs : m \in names})
  <2>1. reached[n + 1] = next
    BY <1>1, <1>2
  <2> HIDE DEF names
  <2>2. names \subseteq DOMAIN schemas
    BY DEF names
  <2>3. /\ next \subseteq DOMAIN schemas
        /\ Closed(schemas, names) => next = names
        /\ ~Closed(schemas, names) => Cardinality(next) > Cardinality(names)
        /\ \A q : Needed(schemas, q, names) => Needed(schemas, q, next)
    BY <2>2, NextRound
  <2>4. Needed(schemas, refs, next) /\ DirectSchemas(schemas, refs) \subseteq next
    BY <2>3 DEF names
  <2>5. IsFiniteSet(names) /\ IsFiniteSet(next)
    BY <2>2, <2>3, FS_Subset
  <2>6. Cardinality(names) \in Nat /\ Cardinality(next) \in Nat
    BY <2>5, FS_CardinalityType
  <2>7. Closed(schemas, next) \/ Cardinality(next) >= n + 1
    <3>1. CASE Closed(schemas, names)
      BY <3>1, <2>3
    <3>2. CASE ~Closed(schemas, names)
      <4>1. Cardinality(names) >= n
        BY <3>2 DEF names
      <4>2. Cardinality(next) > Cardinality(names)
        BY <3>2, <2>3
      <4> HIDE DEF next
      <4> QED
        BY <4>1, <4>2, <2>6
    <3> QED
      BY <3>1, <3>2
  <2> QED
    BY <2>1, <2>3, <2>4, <2>7
<1> HIDE DEF fine
<1>5. last \in fine
  BY <1>1, <1>3, <1>4, Induction
<1>6. sound(last)
  BY <1>1, <1>5 DEF fine
<1>7. Closed(schemas, reached[last])
  <2>1. CASE Cardinality(reached[last]) >= last
    <3>1. reached[last] \subseteq DOMAIN schemas
      BY <1>6
    <3>2. IsFiniteSet(reached[last])
      BY <3>1, FS_Subset
    <3>3. Cardinality(reached[last]) <= Cardinality(DOMAIN schemas) /\ Cardinality(reached[last]) \in Nat
      BY <3>1, FS_Subset, <3>2, FS_CardinalityType
    <3>4. Cardinality(reached[last]) = Cardinality(DOMAIN schemas)
      BY <2>1, <3>3, <1>1 DEF last
    <3>5. reached[last] = DOMAIN schemas
      BY <3>1, <3>4, FS_Subset
    <3> QED
      BY <3>5 DEF Closed, DirectSchemas
  <2> QED
    BY <2>1, <1>6
<1>8. ReachedSchemas(schemas, refs) = reached[last]
  BY DEF ReachedSchemas, reached, last
<1> QED
  BY <1>6, <1>7, <1>8

LEMMA PrunedFields ==
  ASSUME NEW whole, NEW keys,
         whole = [ops |-> whole.ops, schemas |-> whole.schemas, schemes |-> whole.schemes,
                  security |-> whole.security]
  PROVE  LET kept == {op \in whole.ops : Key(op) \in keys}
             new  == PruneOpenApiDocument(whole, keys)
         IN  /\ new.ops = kept
             /\ new.schemas = PruneSchemas(whole.schemas, CollectRefs(kept))
             /\ new.schemes = PruneSecuritySchemes(whole.schemes, CollectSecuritySchemeNames(whole, kept))
<1> DEFINE kept == {op \in whole.ops : Key(op) \in keys}
           schemas == PruneSchemas(whole.schemas, CollectRefs(kept))
           names == CollectSecuritySchemeNames(whole, kept)
           schemes == PruneSecuritySchemes(whole.schemes, names)
           part == [whole EXCEPT !.schemas = schemas, !.schemes = PruneSecuritySchemes(@, names)]
           new == [part EXCEPT !.ops = kept]
<1>1. DOMAIN whole = {"ops", "schemas", "schemes", "security"}
  OBVIOUS
<1>2. PruneOpenApiDocument(whole, keys) = new
  BY DEF PruneOpenApiDocument, PruneComponents
<1> HIDE DEF kept, schemas, names
<1>3. DOMAIN part = DOMAIN whole /\ part.schemas = schemas /\ part.schemes = schemes
  BY <1>1
<1> HIDE DEF part, schemes
<1>4. new.ops = kept /\ new.schemas = schemas /\ new.schemes = schemes
  BY <1>1, <1>3
<1> HIDE DEF new
<1> QED
  BY <1>2, <1>4 DEF kept, schemas, schemes, names

LEMMA MadeOfFields ==
  ASSUME NEW d, NEW renames, NEW l, NEW entry, MadeOf(d, renames, l, entry)
  PROVE  /\ entry.service = d.name
         /\ entry.op.security = d.spec.ops[l].security
         /\ entry.op.refs = {RewriteRef(renames, r) : r \in d.spec.ops[l].refs}
<1> DEFINE op == d.spec.ops[l]
<1>1. PICK id : entry = [op |-> Moved(d, renames, op, id), service |-> d.name]
  BY DEF MadeOf
<1> DEFINE path == d.mount \o op.path
           refs == {RewriteRef(renames, r) : r \in op.refs}
           moved == Moved(d, renames, op, id)
<1>2. entry.service = d.name /\ entry.op = moved
  BY <1>1
<1> HIDE DEF op, refs
<1>3. moved = [path |-> path, method |-> op.method, refs |-> refs, id |-> id, security |-> op.security]
  BY DEF Moved, refs
<1> HIDE DEF path, moved
<1>4. moved.security = op.security /\ moved.refs = refs
  BY <1>3
<1> QED
  BY <1>2, <1>4 DEF op, refs

LEMMA SecurityIsMerged ==
  ASSUME NEW docs, GoodDocuments(docs), NEW m, MergedShape(docs, m, Len(docs)), NEW k \in DOMAIN m.table
  PROVE  m.table[k].op.security \subseteq DOMAIN m.schemes
<1>1. DOMAIN docs = 1 .. Len(docs)
  BY ListShape DEF GoodDocuments
<1>2. PICK i \in DOMAIN docs : \E l \in DOMAIN docs[i].spec.ops : \E renames :
             MadeOf(docs[i], renames, l, m.table[k])
  BY <1>1 DEF MergedShape
<1>3. PICK l \in DOMAIN docs[i].spec.ops : \E renames : MadeOf(docs[i], renames, l, m.table[k])
  BY <1>2
<1>4. m.table[k].op.security = docs[i].spec.ops[l].security
  BY <1>3, MadeOfFields
<1>5. docs[i].spec.ops[l].security \subseteq DOMAIN docs[i].spec.schemes
  BY DEF GoodDocuments, GoodOperations, GoodOperation
<1>6. DOMAIN docs[i].spec.schemes \subseteq DOMAIN m.schemes
  BY <1>1 DEF MergedShape
<1> QED
  BY <1>4, <1>5, <1>6

\* A pruned document is the selected part of its source and stands on its own.
THEOREM PrunedDocumentsStandAlone == PipelineSpec => []PrunedStandsAlone
<1>1. PipelineInv => PrunedStandsAlone
  <2> SUFFICES ASSUME PipelineInv, stage = "pruned" PROVE PrunedStandsAlone
    BY DEF PrunedStandsAlone
  <2> DEFINE kept == {op \in Whole.ops : Key(op) \in selected}
             refs == CollectRefs(kept)
             names == ReachedSchemas(doc.schemas, refs)
             required == CollectSecuritySchemeNames(Whole, kept)
  <2>1. MergedShape(Documents, doc, Len(Documents)) /\ GoodDocuments(Documents)
    BY MergedFacts
  <2>2. /\ Whole = [ops |-> Whole.ops, schemas |-> Whole.schemas, schemes |-> Whole.schemes,
                    security |-> Whole.security]
        /\ Whole.ops = {doc.table[k].op : k \in DOMAIN doc.table}
        /\ Whole.schemas = doc.schemas /\ Whole.schemes = doc.schemes
    BY DEF Whole
  <2>3. /\ derived.ops = kept /\ derived.schemas = PruneSchemas(doc.schemas, refs)
        /\ derived.schemes = PruneSecuritySchemes(doc.schemes, required)
    <3>1. derived = PruneOpenApiDocument(Whole, selected)
      BY DEF PipelineInv
    <3> DEFINE new == PruneOpenApiDocument(Whole, selected)
    <3>2. /\ new.ops = kept /\ new.schemas = PruneSchemas(Whole.schemas, refs)
          /\ new.schemes = PruneSecuritySchemes(Whole.schemes, required)
      BY <2>2, PrunedFields
    <3> HIDE DEF kept, new, refs, required
    <3> QED
      BY <2>2, <3>1, <3>2 DEF new
  <2>4. DOMAIN derived.schemas = names /\ \A n \in names : derived.schemas[n] = doc.schemas[n]
    BY <2>3 DEF PruneSchemas
  <2>5. /\ names \subseteq DOMAIN doc.schemas /\ DirectSchemas(doc.schemas, refs) \subseteq names
        /\ Closed(doc.schemas, names) /\ Needed(doc.schemas, refs, names)
    <3>1. IsFiniteSet(DOMAIN doc.schemas)
      BY <2>1 DEF MergedShape
    <3> HIDE DEF refs
    <3> QED
      BY <3>1, ReachedFacts
  <2>6. \A x : x \in refs <=> \E op \in kept : x \in op.refs
    BY DEF CollectRefs
  <2>7. {Key(op) : op \in derived.ops} = selected \intersect DOMAIN doc.table
    <3>1. \A k \in DOMAIN doc.table : Key(doc.table[k].op) = k
      BY <2>1 DEF MergedShape, KeyedByOperation
    <3> QED
      BY <2>2, <2>3, <3>1
  <2> HIDE DEF names, refs
  <2>8. ASSUME NEW refers \in {op.refs : op \in derived.ops} \union {derived.schemas[n].refs : n \in names},
               NEW n \in DOMAIN doc.schemas, <<"schemas", n>> \in refers
        PROVE  n \in names
    <3>1. CASE \E op \in kept : refers = op.refs
      BY <3>1, <2>5, <2>6, <2>8 DEF DirectSchemas
    <3>2. CASE \E m \in names : refers = doc.schemas[m].refs
      BY <3>2, <2>5, <2>8 DEF Closed, DirectSchemas
    <3> QED
      BY <3>1, <3>2, <2>3, <2>4
  <2>9. ASSUME NEW n \in names
        PROVE  \E refers \in {op.refs : op \in derived.ops} \union {derived.schemas[m].refs : m \in names} :
                 <<"schemas", n>> \in refers
    <3>1. CASE <<"schemas", n>> \in refs
      BY <3>1, <2>3, <2>6
    <3>2. CASE \E m \in names : <<"schemas", n>> \in doc.schemas[m].refs
      BY <3>2, <2>4
    <3> QED
      BY <3>1, <3>2, <2>5 DEF Needed
  <2>10. ASSUME NEW op \in derived.ops PROVE op.security \subseteq DOMAIN derived.schemes
    <3>1. op \in kept /\ \E k \in DOMAIN doc.table : op = doc.table[k].op
      BY <2>2, <2>3
    <3>2. PICK k \in DOMAIN doc.table : op = doc.table[k].op
      BY <3>1
    <3>3. op.security \subseteq DOMAIN doc.schemes
      BY <2>1, <3>2, SecurityIsMerged
    <3>4. op.security \subseteq required
      BY <3>1 DEF CollectSecuritySchemeNames
    <3>5. DOMAIN derived.schemes = DOMAIN doc.schemes \intersect required
      BY <2>3 DEF PruneSecuritySchemes
    <3> QED
      BY <3>3, <3>4, <3>5
  <2> QED
    BY <2>4, <2>7, <2>8, <2>9, <2>10 DEF PrunedStandsAlone
<1> QED
  BY <1>1, PipelineInvHolds, PTL

-----------------------------------------------------------------------------
(* NamesApart: a name that is taken gets a number that is not.              *)

LEMMA Listing ==
  ASSUME NEW S, IsFiniteSet(S)
  PROVE  /\ SetToSeq(S) \in Seq(S) /\ Len(SetToSeq(S)) = Cardinality(S)
         /\ {SetToSeq(S)[i] : i \in 1 .. Cardinality(S)} = S
         /\ \A i, j \in 1 .. Cardinality(S) : SetToSeq(S)[i] = SetToSeq(S)[j] => i = j
<1> DEFINE n == Cardinality(S)
           f == SetToSeq(S)
<1>1. n \in Nat /\ ExistsBijection(1 .. n, S)
  BY FS_CardinalityType
<1> HIDE DEF n
<1>2. \E g \in [1 .. n -> S] : IsInjective(g)
  <2>1. PICK g : g \in Bijection(1 .. n, S)
    BY <1>1 DEF ExistsBijection
  <2> QED
    BY <2>1 DEF Bijection, Injection
<1>3. f \in [1 .. n -> S] /\ IsInjective(f)
  BY <1>2 DEF SetToSeq, n
<1> HIDE DEF f
<1>4. f \in Injection(1 .. n, S)
  BY <1>3 DEF Injection
<1>5. f \in Surjection(1 .. n, S)
  <2>1. Cardinality(1 .. n) = n
    BY <1>1, FS_Interval
  <2> QED
    BY <1>4, <2>1, FS_Injection DEF n
<1>6. f \in Seq(S) /\ Len(f) = n
  <2>1. f \in Seq(S) /\ DOMAIN f = 1 .. n
    BY <1>1, <1>3, SeqDef
  <2>2. DOMAIN f = 1 .. Len(f) /\ Len(f) \in Nat
    BY <2>1, LenProperties
  <2> QED
    BY <2>1, <2>2, <1>1
<1>7. {f[i] : i \in 1 .. n} = S
  BY <1>3, <1>5 DEF Surjection
<1>8. \A i, j \in 1 .. n : f[i] = f[j] => i = j
  BY <1>3 DEF IsInjective
<1> QED
  BY <1>6, <1>7, <1>8 DEF f, n

\* Two numbers are written differently.
NumeralsDiffer == \A m, n \in Nat : ToString(m) = ToString(n) => m = n

LEMMA NumbersSuffice ==
  ASSUME NumeralsDiffer, NEW taken, IsFiniteSet(taken), NEW id, IsList(id)
  PROVE  \E n \in 2 .. Cardinality(taken) + 2 : Append(id, ToString(n)) \notin taken
<1> SUFFICES ASSUME \A n \in 2 .. Cardinality(taken) + 2 : Append(id, ToString(n)) \in taken
             PROVE  FALSE
  OBVIOUS
<1> DEFINE numbers == 2 .. Cardinality(taken) + 2
           f == [n \in numbers |-> Append(id, ToString(n))]
<1>1. Cardinality(taken) \in Nat
  BY FS_CardinalityType
<1>2. IsFiniteSet(numbers) /\ Cardinality(numbers) = Cardinality(taken) + 1
  BY <1>1, FS_Interval
<1>3. ASSUME NEW m \in numbers, NEW n \in numbers, Append(id, ToString(m)) = Append(id, ToString(n))
      PROVE  m = n
  <2> DEFINE S == Range(id) \union {ToString(m), ToString(n)}
  <2>1. id \in Seq(S)
    BY SeqMonotonic DEF IsList
  <2>2. ToString(m) \in S /\ ToString(n) \in S
    OBVIOUS
  <2> HIDE DEF S
  <2>3. ToString(m) = ToString(n)
    BY <1>3, <2>1, <2>2, AppendInjective
  <2> QED
    BY <1>1, <2>3 DEF NumeralsDiffer
<1>4. f \in [numbers -> taken]
  OBVIOUS
<1>5. IsInjective(f)
  BY <1>3 DEF IsInjective
<1> HIDE DEF f, numbers
<1>6. f \in Injection(numbers, taken)
  BY <1>4, <1>5 DEF Injection
<1>7. Cardinality(numbers) <= Cardinality(taken)
  BY <1>6, FS_Injection
<1> QED
  BY <1>1, <1>2, <1>7

LEMMA MethodNameIsNew ==
  ASSUME NumeralsDiffer, NEW taken, IsFiniteSet(taken), NEW id, IsList(id)
  PROVE  MethodName(taken, id) \notin taken
<1>1. CASE id \notin taken
  BY <1>1 DEF MethodName
<1>2. CASE id \in taken
  <2> DEFINE free == {n \in 2 .. Cardinality(taken) + 2 : Append(id, ToString(n)) \notin taken}
             least == CHOOSE n \in free : \A k \in free : n <= k
  <2>1. free \in SUBSET Nat /\ free # {}
    <3>1. Cardinality(taken) \in Nat
      BY FS_CardinalityType
    <3> QED
      BY <3>1, NumbersSuffice
  <2>2. MethodName(taken, id) = Append(id, ToString(least))
    BY <1>2 DEF MethodName
  <2>3. \A n \in free : Append(id, ToString(n)) \notin taken
    OBVIOUS
  <2> HIDE DEF free
  <2>4. \E n \in free : \A k \in free : n <= k
    BY <2>1, LeastNumber
  <2>5. least \in free
    BY <2>4
  <2> HIDE DEF least
  <2> QED
    BY <2>2, <2>3, <2>5
<1> QED
  BY <1>1, <1>2

LEMMA MethodSteps ==
  ASSUME NEW table, NEW keys, Len(keys) \in Nat
  PROVE  LET after == GenerateMethods(table, keys)
         IN  /\ after[0] = <<>>
             /\ \A n \in Nat : n < Len(keys) =>
                  after[n + 1] = Append(after[n],
                    [key  |-> keys[n + 1],
                     name |-> MethodName({after[n][i].name : i \in DOMAIN after[n]}, table[keys[n + 1]].op.id)])
<1> DEFINE after == GenerateMethods(table, keys)
           last == Len(keys)
           next(before, n) == Append(before, [key  |-> keys[n],
                                              name |-> MethodName({before[i].name : i \in DOMAIN before},
                                                                  table[keys[n]].op.id)])
<1>1. after = [n \in 0 .. last |-> IF n = 0 THEN <<>> ELSE next(after[n - 1], n)]
  BY GenerateMethodsDef
<1>2. 0 \in 0 .. last /\ \A n \in Nat : n < last => n + 1 \in 0 .. last /\ n + 1 # 0 /\ (n + 1) - 1 = n
  OBVIOUS
<1> HIDE DEF after, last, next
<1>3. after[0] = <<>>
  BY <1>1, <1>2
<1>4. \A n \in Nat : n < last => after[n + 1] = next(after[n], n + 1)
  BY <1>1, <1>2
<1> QED
  BY <1>3, <1>4 DEF after, last, next

\* The methods so far: one for each of the first keys, and no two of one name.
Methods(keys, methods, n) ==
  /\ IsList(methods) /\ Len(methods) = n
  /\ \A i \in 1 .. n : methods[i].key = keys[i]
  /\ \A i, j \in 1 .. n : methods[i].name = methods[j].name => i = j

LEMMA MethodAdded ==
  ASSUME NumeralsDiffer, NEW keys, NEW methods, NEW n \in Nat, Methods(keys, methods, n), NEW id, IsList(id)
  PROVE  LET taken == {methods[i].name : i \in DOMAIN methods}
         IN  Methods(keys, Append(methods, [key |-> keys[n + 1], name |-> MethodName(taken, id)]), n + 1)
<1> DEFINE taken == {methods[i].name : i \in DOMAIN methods}
           method == [key |-> keys[n + 1], name |-> MethodName(taken, id)]
           new == Append(methods, method)
<1>1. DOMAIN methods = 1 .. n /\ Len(methods) = n
  BY ListShape DEF Methods
<1>2. IsFiniteSet(taken)
  <2> DEFINE f == [i \in 1 .. n |-> methods[i].name]
  <2>1. f \in Surjection(1 .. n, taken)
    BY <1>1 DEF Surjection
  <2>2. IsFiniteSet(1 .. n)
    BY FS_Interval
  <2> HIDE DEF f, taken
  <2> QED
    BY <2>1, <2>2, FS_Surjection
<1>3. MethodName(taken, id) \notin taken
  <2> HIDE DEF taken
  <2> QED
    BY <1>2, MethodNameIsNew
<1>4. method.key = keys[n + 1] /\ method.name \notin taken
  <2> HIDE DEF taken
  <2> QED
    BY <1>3
<1> HIDE DEF method
<1>5. /\ new \in Seq(Range(methods) \union {method}) /\ Len(new) = n + 1
      /\ \A i \in 1 .. n : new[i] = methods[i]
      /\ new[n + 1] = method
  <2> DEFINE S == Range(methods) \union {method}
  <2>1. methods \in Seq(S)
    BY SeqMonotonic DEF Methods, IsList
  <2>2. method \in S
    OBVIOUS
  <2> HIDE DEF S
  <2>3. /\ new \in Seq(S) /\ Len(new) = Len(methods) + 1
        /\ \A i \in 1 .. Len(methods) : new[i] = methods[i]
        /\ new[Len(methods) + 1] = method
    BY <2>1, <2>2, AppendProperties
  <2> QED
    BY <2>3, <1>1 DEF S
<1> HIDE DEF new
<1>6. IsList(new)
  <2>1. DOMAIN new = 1 .. n + 1 /\ new \in [1 .. n + 1 -> Range(methods) \union {method}]
    BY <1>5, LenProperties
  <2>2. new \in [1 .. n + 1 -> Range(new)]
    BY <2>1 DEF Range
  <2> QED
    BY <2>2, SeqDef DEF IsList
<1>7. \A i \in 1 .. n + 1 : i \in 1 .. n \/ i = n + 1
  OBVIOUS
<1>8. \A i \in 1 .. n : methods[i].name \in taken
  BY <1>1
<1>9. \A i \in 1 .. n + 1 : new[i].key = keys[i]
  BY <1>4, <1>5, <1>7 DEF Methods
<1>10. ASSUME NEW i \in 1 .. n + 1, NEW j \in 1 .. n + 1, new[i].name = new[j].name PROVE i = j
  <2> HIDE DEF taken
  <2>1. CASE i = n + 1 /\ j \in 1 .. n
    BY <2>1, <1>4, <1>5, <1>8, <1>10
  <2>2. CASE j = n + 1 /\ i \in 1 .. n
    BY <2>2, <1>4, <1>5, <1>8, <1>10
  <2>3. CASE i \in 1 .. n /\ j \in 1 .. n
    BY <2>3, <1>5, <1>10 DEF Methods
  <2> QED
    BY <2>1, <2>2, <2>3, <1>7
<1>11. Methods(keys, new, n + 1)
  BY <1>5, <1>6, <1>9, <1>10 DEF Methods
<1> QED
  BY <1>11 DEF new, method

LEMMA GeneratedMethods ==
  ASSUME NumeralsDiffer, NEW table, NEW keys, Len(keys) \in Nat,
         \A i \in 1 .. Len(keys) : IsList(table[keys[i]].op.id)
  PROVE  Methods(keys, GenerateMethods(table, keys)[Len(keys)], Len(keys))
<1> DEFINE last == Len(keys)
           after == GenerateMethods(table, keys)
           next(n) == Append(after[n], [key  |-> keys[n + 1],
                                        name |-> MethodName({after[n][i].name : i \in DOMAIN after[n]},
                                                            table[keys[n + 1]].op.id)])
           fine == {n \in Nat : n <= last => Methods(keys, after[n], n)}
<1>1. after[0] = <<>> /\ \A n \in Nat : n < last => after[n + 1] = next(n)
  BY MethodSteps
<1> HIDE DEF after
<1>2. 0 \in fine
  <2>1. IsList(<<>>) /\ Len(<<>>) = 0
    BY EmptySeq DEF IsList
  <2> QED
    BY <1>1, <2>1 DEF Methods
<1>3. \A n \in Nat : n \in fine => n + 1 \in fine
  <2> SUFFICES ASSUME NEW n \in Nat, n + 1 <= last, Methods(keys, after[n], n)
               PROVE  Methods(keys, after[n + 1], n + 1)
    OBVIOUS
  <2> DEFINE methods == after[n]
             id == table[keys[n + 1]].op.id
  <2>1. IsList(id)
    OBVIOUS
  <2>2. n < last
    OBVIOUS
  <2>3. after[n + 1] = Append(methods, [key  |-> keys[n + 1],
                                        name |-> MethodName({methods[i].name : i \in DOMAIN methods}, id)])
    BY <1>1, <2>2
  <2>4. Methods(keys, methods, n)
    OBVIOUS
  <2> HIDE DEF methods, id
  <2> QED
    BY <2>1, <2>3, <2>4, MethodAdded
<1> HIDE DEF fine
<1>4. last \in fine
  BY <1>2, <1>3, Induction
<1> QED
  BY <1>4 DEF fine, after

LEMMA IdsAreLists ==
  ASSUME NEW docs, GoodDocuments(docs), NEW m, MergedShape(docs, m, Len(docs)), NEW k \in DOMAIN m.table
  PROVE  IsList(m.table[k].op.id)
<1>1. DOMAIN docs = 1 .. Len(docs)
  BY ListShape DEF GoodDocuments
<1>2. PICK i \in DOMAIN docs : \E l \in DOMAIN docs[i].spec.ops : \E renames :
             MadeOf(docs[i], renames, l, m.table[k])
  BY <1>1 DEF MergedShape
<1>3. PICK l \in DOMAIN docs[i].spec.ops : \E renames : MadeOf(docs[i], renames, l, m.table[k])
  BY <1>2
<1> DEFINE op == docs[i].spec.ops[l]
           entry == m.table[k]
<1>4. PICK renames : MadeOf(docs[i], renames, l, entry)
  BY <1>3
<1>5. PICK id \in {op.id, Prefixed(docs[i].name, op.id)} :
             entry = [op |-> Moved(docs[i], renames, op, id), service |-> docs[i].name]
  BY <1>4 DEF MadeOf
<1>6. GoodOperation(docs[i], op)
  BY DEF GoodDocuments, GoodOperations
<1>7. IsList(id)
  <2> HIDE DEF op
  <2> QED
    BY <1>5, <1>6, PrefixedIsList DEF GoodOperation
<1>8. entry.op = Moved(docs[i], renames, op, id)
  BY <1>5
<1> HIDE DEF op, entry
<1>9. Moved(docs[i], renames, op, id).id = id
  <2> DEFINE path == docs[i].mount \o op.path
             refs == {RewriteRef(renames, r) : r \in op.refs}
             moved == Moved(docs[i], renames, op, id)
  <2>1. moved = [path |-> path, method |-> op.method, refs |-> refs, id |-> id, security |-> op.security]
    BY DEF Moved
  <2> HIDE DEF path, refs, moved
  <2>2. moved.id = id
    BY <2>1
  <2> QED
    BY <2>2 DEF moved
<1>10. IsList(entry.op.id)
  BY <1>7, <1>8, <1>9
<1> QED
  BY <1>10 DEF entry

\* The merged ids, and the methods that are generated from them, tell the
\* operations apart.
THEOREM NamesStayApart ==
  ASSUME NumeralsDiffer
  PROVE  PipelineSpec => []NamesApart
<1>1. PipelineInv => DistinctOperationIds
  <2> SUFFICES ASSUME PipelineInv, stage = "merged", ServicesApart, IdsApart PROVE IdsDistinct(doc.table)
    BY DEF DistinctOperationIds, IdsDistinct
  <2> QED
    BY MergedFacts
<1>2. PipelineInv => DistinctMethods
  <2> SUFFICES ASSUME PipelineInv, stage = "generated" PROVE DistinctMethods
    BY DEF DistinctMethods
  <2> DEFINE keys == SetToSeq(DOMAIN doc.table)
  <2>1. GoodDocuments(Documents) /\ MergedShape(Documents, doc, Len(Documents))
    BY MergedFacts
  <2>2. IsFiniteSet(DOMAIN doc.table)
    BY <2>1 DEF MergedShape
  <2>3. derived = GenerateMethods(doc.table, keys)[Len(keys)]
    BY DEF PipelineInv
  <2>4. /\ Len(keys) = Cardinality(DOMAIN doc.table) /\ Len(keys) \in Nat
        /\ {keys[i] : i \in 1 .. Len(keys)} = DOMAIN doc.table
    BY <2>2, Listing, FS_CardinalityType
  <2> HIDE DEF keys
  <2>5. \A i \in 1 .. Len(keys) : IsList(doc.table[keys[i]].op.id)
    <3>1. \A i \in 1 .. Len(keys) : keys[i] \in DOMAIN doc.table
      BY <2>4
    <3> QED
      BY <2>1, <3>1, IdsAreLists
  <2>6. Methods(keys, derived, Len(keys))
    BY <2>3, <2>4, <2>5, GeneratedMethods
  <2>7. DOMAIN derived = 1 .. Len(keys)
    BY <2>6, ListShape DEF Methods
  <2> QED
    BY <2>4, <2>6, <2>7 DEF DistinctMethods, Methods
<1> QED
  BY <1>1, <1>2, PipelineInvHolds, PTL DEF NamesApart

-----------------------------------------------------------------------------
(* ShieldSubset. *)

LEMMA ReachedIsClosed ==
  ASSUME NEW below, Root \in DOMAIN below,
         \A m \in DOMAIN below : below[m] \subseteq DOMAIN below
  PROVE  /\ Reached(below) \subseteq DOMAIN below
         /\ Root \in Reached(below)
         /\ \A m \in Reached(below) : below[m] \subseteq Reached(below)
BY DEF Reached

LEMMA ReachedIsLeast ==
  ASSUME NEW below, NEW S \in SUBSET DOMAIN below, Root \in S, \A m \in S : below[m] \subseteq S
  PROVE  Reached(below) \subseteq S
BY DEF Reached

\* A schema whose parts are in it.
GoodSchema(schema) ==
  /\ schema = [n \in DOMAIN schema |-> schema[n]]
  /\ \A n \in DOMAIN schema : IsNode(schema[n], schema)
  /\ Root \in DOMAIN schema /\ Reached(Everything(schema)) = DOMAIN schema

LEMMA BelowIsWithin ==
  ASSUME NEW schema, NEW s, \A k \in DOMAIN s.under : s.under[k] \in Seq(DOMAIN schema), NEW keywords
  PROVE  Below(s, keywords) \subseteq DOMAIN schema
BY ElementOfSeq, LenProperties DEF Below

LEMMA DeletedAnyOf ==
  ASSUME NEW schema, NEW s, IsNode(s, schema)
  PROVE  /\ IsNode(DeleteAnyOf(s), schema)
         /\ DOMAIN DeleteAnyOf(s).under = DOMAIN s.under \ {"anyOf"}
         /\ \A k \in DOMAIN DeleteAnyOf(s).under : DeleteAnyOf(s).under[k] = s.under[k]
         /\ DeleteAnyOf(s).type = s.type /\ DeleteAnyOf(s).uniqueItems = s.uniqueItems
         /\ DeleteAnyOf(s).prefixItems = s.prefixItems
BY DEF DeleteAnyOf, IsNode

\* A function on the keywords of a schema is a record of them.
LEMMA RecordOfKeywords ==
  ASSUME NEW s, s = [k \in {"type", "nullable", "uniqueItems", "prefixItems", "under"} |-> s[k]]
  PROVE  s = [type |-> s.type, nullable |-> s.nullable, uniqueItems |-> s.uniqueItems,
              prefixItems |-> s.prefixItems, under |-> s.under]
OBVIOUS

\* What the conversion of a null type leaves of a schema.
LEMMA ConvertedNode ==
  ASSUME NEW schema, NEW s, IsNode(s, schema)
  PROVE  /\ IsNode(ConvertNull(s), schema)
         /\ ConvertNull(s).under = s.under /\ ConvertNull(s).type # "nullish"
<1> DEFINE c == ConvertNull(s)
<1>1. CASE s.type # "nullish"
  BY <1>1 DEF ConvertNull
<1>2. CASE s.type = "nullish"
  <2>1. c = [s EXCEPT !.type = "plain", !.nullable = TRUE]
    BY <1>2 DEF ConvertNull
  <2>2. s = [type |-> s.type, nullable |-> s.nullable, uniqueItems |-> s.uniqueItems,
             prefixItems |-> s.prefixItems, under |-> s.under]
    BY DEF IsNode
  <2> HIDE DEF c
  <2>3. c = [k \in {"type", "nullable", "uniqueItems", "prefixItems", "under"} |-> c[k]]
    BY <2>1, <2>2
  <2>4. /\ c.type = "plain" /\ c.nullable = TRUE /\ c.uniqueItems = s.uniqueItems
        /\ c.prefixItems = s.prefixItems /\ c.under = s.under
    BY <2>1, <2>2
  <2>5. IsNode(c, schema)
    BY <2>3, <2>4, RecordOfKeywords DEF IsNode
  <2> QED
    BY <2>4, <2>5 DEF c
<1> QED
  BY <1>1, <1>2

\* What stripping leaves of it.
LEMMA StrippedNode ==
  ASSUME NEW schema, NEW s, IsNode(s, schema)
  PROVE  /\ IsNode(StripKeywords(s), schema)
         /\ StripKeywords(s).under = s.under /\ StripKeywords(s).type = s.type
         /\ StripKeywords(s).uniqueItems = FALSE /\ StripKeywords(s).prefixItems = FALSE
<1> DEFINE c == StripKeywords(s)
<1>1. s = [type |-> s.type, nullable |-> s.nullable, uniqueItems |-> s.uniqueItems,
           prefixItems |-> s.prefixItems, under |-> s.under]
  BY DEF IsNode
<1>2. c = [s EXCEPT !.uniqueItems = FALSE, !.prefixItems = FALSE]
  BY DEF StripKeywords
<1> HIDE DEF c
<1>3. c = [k \in {"type", "nullable", "uniqueItems", "prefixItems", "under"} |-> c[k]]
  BY <1>1, <1>2
<1>4. /\ c.type = s.type /\ c.nullable = s.nullable /\ c.uniqueItems = FALSE
      /\ c.prefixItems = FALSE /\ c.under = s.under
  BY <1>1, <1>2
<1>5. IsNode(c, schema)
  BY <1>3, <1>4, RecordOfKeywords DEF IsNode
<1> QED
  BY <1>4, <1>5 DEF c

\* What becomes of one schema: its parts are in the table, what Shield rejects is
\* gone, and it stays what it was unless there is a reason.
LEMMA DowngradedNode ==
  ASSUME NEW schema, GoodSchema(schema), NEW n \in DOMAIN schema, NEW stripAnyOf \in BOOLEAN,
         NEW place, stripAnyOf <=> place = "parameter"
  PROVE  LET s   == schema[n]
             new == DowngradeOne(schema, n, stripAnyOf)
         IN  /\ \A k \in DOMAIN new.under : new.under[k] \in Seq(DOMAIN schema)
             /\ (stripAnyOf => VariantsAccepted(schema)) => Accepted(place, new)
             /\ Reasons(s, stripAnyOf) = {} =>
                  new = s \/ (stripAnyOf /\ EmptyAnyOf(s) /\ new = DeleteAnyOf(s))
<1> DEFINE s == schema[n]
           plain == StripKeywords(ConvertNull(s))
           gone  == DeleteAnyOf(plain)
           new == DowngradeOne(schema, n, stripAnyOf)
<1>1. \A m \in DOMAIN schema : IsNode(schema[m], schema)
  BY DEF GoodSchema
<1>2. IsNode(s, schema)
  BY <1>1
<1>3. /\ IsNode(plain, schema) /\ plain.under = s.under
      /\ plain.type # "nullish" /\ plain.uniqueItems = FALSE /\ plain.prefixItems = FALSE
  <2> HIDE DEF s
  <2>1. /\ IsNode(ConvertNull(s), schema)
        /\ ConvertNull(s).under = s.under /\ ConvertNull(s).type # "nullish"
    BY <1>2, ConvertedNode
  <2> QED
    BY <2>1, StrippedNode
<1>4. s.type # "nullish" /\ ~s.uniqueItems /\ ~s.prefixItems => plain = s
  BY <1>2 DEF StripKeywords, ConvertNull, IsNode
<1>5. new = IF ~stripAnyOf \/ "anyOf" \notin DOMAIN plain.under THEN plain
            ELSE IF plain.under["anyOf"] = <<>> THEN gone
            ELSE HoistFirstVariant(gone, schema[Head(plain.under["anyOf"])])
  BY DEF DowngradeOne
<1>6. Reasons(s, stripAnyOf) = {} =>
        /\ s.type # "nullish" /\ ~s.uniqueItems /\ ~s.prefixItems
        /\ ~(stripAnyOf /\ "anyOf" \in DOMAIN s.under /\ s.under["anyOf"] # <<>>)
  BY DEF Reasons
<1> HIDE DEF plain, new, s
<1>7. /\ IsNode(gone, schema) /\ DOMAIN gone.under = DOMAIN plain.under \ {"anyOf"}
      /\ \A k \in DOMAIN gone.under : gone.under[k] = plain.under[k]
      /\ gone.type = plain.type /\ gone.uniqueItems = plain.uniqueItems /\ gone.prefixItems = plain.prefixItems
  BY <1>3, DeletedAnyOf
<1>8. CASE ~stripAnyOf \/ "anyOf" \notin DOMAIN plain.under
  <2>1. new = plain
    BY <1>5, <1>8
  <2>2. Accepted(place, new)
    BY <2>1, <1>3, <1>8 DEF Accepted
  <2>3. \A k \in DOMAIN new.under : new.under[k] \in Seq(DOMAIN schema)
    BY <2>1, <1>3 DEF IsNode
  <2>4. Reasons(s, stripAnyOf) = {} => new = s
    BY <2>1, <1>4, <1>6
  <2> QED
    BY <2>2, <2>3, <2>4 DEF s, new
<1>9. CASE stripAnyOf /\ "anyOf" \in DOMAIN plain.under /\ plain.under["anyOf"] = <<>>
  <2>1. new = gone
    BY <1>5, <1>9
  <2>2. Accepted(place, new)
    BY <2>1, <1>3, <1>7 DEF Accepted
  <2>3. \A k \in DOMAIN new.under : new.under[k] \in Seq(DOMAIN schema)
    BY <2>1, <1>7 DEF IsNode
  <2>4. EmptyAnyOf(s)
    BY <1>3, <1>9 DEF EmptyAnyOf
  <2>5. Reasons(s, stripAnyOf) = {} => new = DeleteAnyOf(s)
    BY <2>1, <1>4, <1>6
  <2> QED
    BY <1>9, <2>2, <2>3, <2>4, <2>5 DEF s, new
<1>10. CASE stripAnyOf /\ "anyOf" \in DOMAIN plain.under /\ plain.under["anyOf"] # <<>>
  <2> DEFINE first == schema[Head(plain.under["anyOf"])]
  <2>1. new = HoistFirstVariant(gone, first)
    BY <1>5, <1>10
  <2>2. Head(plain.under["anyOf"]) \in DOMAIN schema
    <3>1. plain.under["anyOf"] \in Seq(DOMAIN schema)
      BY <1>3, <1>10 DEF IsNode
    <3> QED
      BY <3>1, <1>10, HeadTailProperties
  <2>3. IsNode(first, schema)
    BY <1>1, <2>2
  <2>4. VariantsAccepted(schema) => Accepted("parameter", first)
    BY <1>3, <1>10 DEF VariantsAccepted, s
  <2> HIDE DEF first
  <2>5. /\ new.under = [k \in DOMAIN gone.under \union DOMAIN first.under |->
                          IF k \in DOMAIN gone.under THEN gone.under[k] ELSE first.under[k]]
        /\ new.type = IF gone.type = "none" THEN first.type ELSE gone.type
        /\ new.uniqueItems = (gone.uniqueItems \/ first.uniqueItems)
        /\ new.prefixItems = (gone.prefixItems \/ first.prefixItems)
    BY <2>1 DEF HoistFirstVariant
  <2>6. \A k \in DOMAIN new.under : new.under[k] \in Seq(DOMAIN schema)
    BY <2>3, <2>5, <1>7 DEF IsNode
  <2>7. VariantsAccepted(schema) => Accepted(place, new)
    BY <1>3, <1>7, <1>10, <2>4, <2>5 DEF Accepted
  <2>8. Reasons(s, stripAnyOf) # {}
    BY <1>3, <1>6, <1>10
  <2> QED
    BY <1>10, <2>6, <2>7, <2>8 DEF s, new
<1> QED
  BY <1>8, <1>9, <1>10

LEMMA DowngradedSchema ==
  ASSUME NEW schema, GoodSchema(schema), NEW stripAnyOf \in BOOLEAN,
         NEW place, stripAnyOf <=> place = "parameter"
  PROVE  LET result == DowngradeSchema(schema, stripAnyOf)
         IN  /\ (stripAnyOf => VariantsAccepted(schema)) =>
                  \A n \in WithinReach(result) : Accepted(place, result[n])
             /\ Warnings(schema, stripAnyOf) = {} =>
                  /\ DOMAIN result = DOMAIN schema
                  /\ \A n \in DOMAIN schema :
                       \/ result[n] = schema[n]
                       \/ stripAnyOf /\ EmptyAnyOf(schema[n]) /\ result[n] = DeleteAnyOf(schema[n])
<1> DEFINE one     == [n \in DOMAIN schema |-> DowngradeOne(schema, n, stripAnyOf)]
           descent == [n \in DOMAIN schema |-> Below(DowngradeOne(schema, n, stripAnyOf), Descended)]
           visited == Visited(schema, stripAnyOf)
           table   == [n \in DOMAIN schema |-> IF n \in visited THEN one[n] ELSE schema[n]]
           kept    == Reached(Everything(table))
           result  == DowngradeSchema(schema, stripAnyOf)
<1>1. result = [n \in kept |-> table[n]]
  BY DEF DowngradeSchema
<1>2. visited = Reached(descent)
  BY DEF Visited
<1>3. \A n \in DOMAIN schema :
        /\ \A k \in DOMAIN one[n].under : one[n].under[k] \in Seq(DOMAIN schema)
        /\ (stripAnyOf => VariantsAccepted(schema)) => Accepted(place, one[n])
        /\ Reasons(schema[n], stripAnyOf) = {} =>
             one[n] = schema[n] \/ (stripAnyOf /\ EmptyAnyOf(schema[n]) /\ one[n] = DeleteAnyOf(schema[n]))
  BY DowngradedNode
<1>4. DOMAIN descent = DOMAIN schema /\ \A n \in DOMAIN schema : descent[n] = Below(one[n], Descended)
  OBVIOUS
<1>5. DOMAIN table = DOMAIN schema /\ \A n \in DOMAIN schema : table[n] = IF n \in visited THEN one[n] ELSE schema[n]
  OBVIOUS
<1> HIDE DEF one, descent, visited, table, result
<1>6. Root \in DOMAIN schema /\ \A n \in DOMAIN schema : IsNode(schema[n], schema)
  BY DEF GoodSchema
<1>7. \A n \in DOMAIN schema : \A keywords :
        Below(one[n], keywords) \subseteq DOMAIN schema /\ Below(table[n], keywords) \subseteq DOMAIN schema
  <2> SUFFICES ASSUME NEW n \in DOMAIN schema, NEW keywords
               PROVE  Below(one[n], keywords) \subseteq DOMAIN schema /\ Below(table[n], keywords) \subseteq DOMAIN schema
    OBVIOUS
  <2>1. Below(one[n], keywords) \subseteq DOMAIN schema
    BY <1>3, BelowIsWithin
  <2>2. Below(schema[n], keywords) \subseteq DOMAIN schema
    BY <1>6, BelowIsWithin DEF IsNode
  <2> QED
    BY <2>1, <2>2, <1>5
<1>8. /\ visited \subseteq DOMAIN schema /\ Root \in visited
      /\ \A n \in visited : Below(one[n], Descended) \subseteq visited
  BY <1>2, <1>4, <1>6, <1>7, ReachedIsClosed
<1>9. /\ DOMAIN Everything(table) = DOMAIN schema
      /\ \A n \in DOMAIN schema : Everything(table)[n] = Below(table[n], DOMAIN table[n].under)
  BY <1>5 DEF Everything
<1>10. /\ kept \subseteq DOMAIN schema /\ Root \in kept
       /\ \A n \in kept : Below(table[n], DOMAIN table[n].under) \subseteq kept
  BY <1>6, <1>7, <1>9, ReachedIsClosed
<1>11. \A n \in WithinReach(result) : n \in visited /\ n \in kept
  <2> DEFINE below == [n \in DOMAIN result |-> Below(result[n], Descended)]
             S == visited \intersect kept
  <2>1. DOMAIN result = kept /\ \A n \in kept : result[n] = table[n]
    BY <1>1
  <2>2. WithinReach(result) = Reached(below)
    BY DEF WithinReach
  <2>3. DOMAIN below = kept /\ \A n \in kept : below[n] = Below(table[n], Descended)
    BY <2>1
  <2> HIDE DEF below
  <2>4. \A n \in S : below[n] \subseteq S
    <3> SUFFICES ASSUME NEW n \in S PROVE below[n] \subseteq S
      OBVIOUS
    <3>1. table[n] = one[n] /\ below[n] = Below(table[n], Descended)
      BY <1>5, <1>8, <2>3
    <3>2. Below(table[n], Descended) \subseteq Below(table[n], DOMAIN table[n].under)
      BY DEF Below
    <3> QED
      BY <3>1, <3>2, <1>8, <1>10
  <2>5. S \in SUBSET DOMAIN below /\ Root \in S
    BY <1>8, <1>10, <2>3
  <2>6. Reached(below) \subseteq S
    BY <2>4, <2>5, ReachedIsLeast
  <2> QED
    BY <2>2, <2>6
<1>12. ASSUME stripAnyOf => VariantsAccepted(schema), NEW n \in WithinReach(result)
       PROVE  Accepted(place, result[n])
  <2>1. result[n] = one[n] /\ n \in DOMAIN schema
    BY <1>1, <1>5, <1>8, <1>11, <1>12
  <2> QED
    BY <2>1, <1>3, <1>12
<1>13. ASSUME Warnings(schema, stripAnyOf) = {}
       PROVE  /\ DOMAIN result = DOMAIN schema
              /\ \A n \in DOMAIN schema :
                   \/ result[n] = schema[n]
                   \/ stripAnyOf /\ EmptyAnyOf(schema[n]) /\ result[n] = DeleteAnyOf(schema[n])
  <2>1. \A n \in visited : Reasons(schema[n], stripAnyOf) = {}
    BY <1>13 DEF Warnings, visited
  <2>2. \A n \in DOMAIN schema :
          table[n] = schema[n] \/ (stripAnyOf /\ EmptyAnyOf(schema[n]) /\ table[n] = DeleteAnyOf(schema[n]))
    BY <2>1, <1>3, <1>5
  <2>3. ASSUME NEW n \in DOMAIN schema
        PROVE  Below(table[n], DOMAIN table[n].under) = Below(schema[n], DOMAIN schema[n].under)
    <3>1. CASE table[n] = schema[n]
      BY <3>1
    <3>2. CASE EmptyAnyOf(schema[n]) /\ table[n] = DeleteAnyOf(schema[n])
      <4>3. IsNode(schema[n], schema)
        BY <1>6
      <4>4. /\ DOMAIN DeleteAnyOf(schema[n]).under = DOMAIN schema[n].under \ {"anyOf"}
            /\ \A k \in DOMAIN DeleteAnyOf(schema[n]).under :
                 DeleteAnyOf(schema[n]).under[k] = schema[n].under[k]
        BY <4>3, DeletedAnyOf
      <4> HIDE DEF table
      <4>1. /\ DOMAIN table[n].under = DOMAIN schema[n].under \ {"anyOf"}
            /\ \A k \in DOMAIN table[n].under : table[n].under[k] = schema[n].under[k]
        BY <3>2, <4>4
      <4>2. schema[n].under["anyOf"] = <<>>
        BY <3>2 DEF EmptyAnyOf
      <4> QED
        BY <4>1, <4>2 DEF Below
    <3> QED
      BY <2>2, <3>1, <3>2
  <2>4. Everything(table) = Everything(schema)
    BY <2>3, <1>5 DEF Everything
  <2>5. kept = DOMAIN schema
    BY <2>4 DEF GoodSchema
  <2> QED
    BY <2>2, <2>5, <1>1
<1> QED
  BY <1>12, <1>13 DEF result

WarningsAt(place, schema) ==
  IF place = "path item parameter" THEN {} ELSE Warnings(schema, place = "parameter")

ShieldGiven(p) == shield = [stage |-> "given", place |-> p[1], schema |-> p[2]]

ShieldDone(p) ==
  shield = [stage |-> "downgraded", place |-> p[1], schema |-> p[2],
            result   |-> ToShieldCompatible(p[1], p[2]),
            warnings |-> WarningsAt(p[1], p[2])]

ShieldInv == \E p \in Schemas : ShieldGiven(p) \/ ShieldDone(p)

LEMMA ShieldInvHolds == ShieldSpec => []ShieldInv
<1>1. ShieldInit => ShieldInv
  BY DEF ShieldInit, ShieldInv, ShieldGiven
<1>2. ShieldInv /\ [Downgrade]_shield => ShieldInv'
  <2> SUFFICES ASSUME ShieldInv, [Downgrade]_shield PROVE ShieldInv'
    OBVIOUS
  <2>1. PICK p \in Schemas : ShieldGiven(p) \/ ShieldDone(p)
    BY DEF ShieldInv
  <2>2. CASE Downgrade
    <3>1. shield.stage = "given"
      BY <2>2 DEF Downgrade
    <3>2. ShieldDone(p) => shield.stage = "downgraded"
      BY DEF ShieldDone
    <3>5. ShieldGiven(p)
      BY <2>1, <3>1, <3>2
    <3>3. shield.place = p[1] /\ shield.schema = p[2]
      BY <3>5 DEF ShieldGiven
    <3>4. ShieldDone(p)'
      BY <2>2, <3>3 DEF Downgrade, ShieldDone, WarningsAt
    <3> QED
      BY <3>4 DEF ShieldInv
  <2>3. CASE shield' = shield
    BY <2>1, <2>3 DEF ShieldInv, ShieldGiven, ShieldDone
  <2> QED
    BY <2>2, <2>3
<1> QED
  BY <1>1, <1>2, PTL DEF ShieldSpec

\* The Shield profile leaves no keyword behind, wherever it descends, that it is
\* to take out, and changes nothing without a warning but an empty anyOf.
THEOREM ShieldProfileIsAccepted == ShieldSpec => []ShieldSubset
<1>1. ShieldInv => ShieldSubset
  <2> SUFFICES ASSUME ShieldInv, shield.stage = "downgraded" PROVE ShieldSubset
    BY DEF ShieldSubset
  <2>1. PICK p \in Schemas : ShieldDone(p)
    BY DEF ShieldInv, ShieldGiven
  <2> DEFINE place == p[1]
             schema == p[2]
  <2>2. GoodSchema(schema)
    BY SchemasAssumption DEF GoodSchema
  <2> HIDE DEF place, schema
  <2>3. /\ shield.place = place /\ shield.schema = schema /\ shield.result = ToShieldCompatible(place, schema)
        /\ shield.warnings = WarningsAt(place, schema)
    BY <2>1 DEF ShieldDone, place, schema
  <2>4. CASE place = "path item parameter"
    <3>1. ToShieldCompatible(place, schema) = schema
      BY <2>4 DEF ToShieldCompatible
    <3> QED
      BY <2>3, <2>4, <3>1 DEF ShieldSubset
  <2>5. CASE place = "parameter"
    <3>1. ToShieldCompatible(place, schema) = DowngradeSchema(schema, TRUE)
      BY <2>5 DEF ToShieldCompatible
    <3>2. shield.warnings = Warnings(schema, TRUE)
      BY <2>3, <2>5 DEF WarningsAt
    <3>3. /\ VariantsAccepted(schema) =>
               \A n \in WithinReach(shield.result) : Accepted(place, shield.result[n])
          /\ shield.warnings = {} =>
               /\ DOMAIN shield.result = DOMAIN schema
               /\ \A n \in DOMAIN schema :
                    \/ shield.result[n] = schema[n]
                    \/ EmptyAnyOf(schema[n]) /\ shield.result[n] = DeleteAnyOf(schema[n])
      <4>1. /\ VariantsAccepted(schema) =>
                 \A n \in WithinReach(DowngradeSchema(schema, TRUE)) :
                   Accepted("parameter", DowngradeSchema(schema, TRUE)[n])
            /\ Warnings(schema, TRUE) = {} =>
                 /\ DOMAIN DowngradeSchema(schema, TRUE) = DOMAIN schema
                 /\ \A n \in DOMAIN schema :
                      \/ DowngradeSchema(schema, TRUE)[n] = schema[n]
                      \/ /\ EmptyAnyOf(schema[n])
                         /\ DowngradeSchema(schema, TRUE)[n] = DeleteAnyOf(schema[n])
        BY <2>2, DowngradedSchema
      <4>2. shield.result = DowngradeSchema(schema, TRUE)
        BY <2>3, <3>1
      <4> QED
        BY <2>5, <3>2, <4>1, <4>2
    <3> QED
      BY <2>3, <2>5, <3>3 DEF ShieldSubset
  <2>6. CASE place # "parameter" /\ place # "path item parameter"
    <3>1. ToShieldCompatible(place, schema) = DowngradeSchema(schema, FALSE)
      BY <2>6 DEF ToShieldCompatible
    <3>2. shield.warnings = Warnings(schema, FALSE)
      BY <2>3, <2>6 DEF WarningsAt
    <3>3. /\ \A n \in WithinReach(shield.result) : Accepted(place, shield.result[n])
          /\ shield.warnings = {} =>
               /\ DOMAIN shield.result = DOMAIN schema
               /\ \A n \in DOMAIN schema : shield.result[n] = schema[n]
      <4>1. /\ \A n \in WithinReach(DowngradeSchema(schema, FALSE)) :
                 Accepted(place, DowngradeSchema(schema, FALSE)[n])
            /\ Warnings(schema, FALSE) = {} =>
                 /\ DOMAIN DowngradeSchema(schema, FALSE) = DOMAIN schema
                 /\ \A n \in DOMAIN schema : DowngradeSchema(schema, FALSE)[n] = schema[n]
        BY <2>2, <2>6, DowngradedSchema
      <4>2. shield.result = DowngradeSchema(schema, FALSE)
        BY <2>3, <3>1
      <4> QED
        BY <3>2, <4>1, <4>2
    <3> QED
      BY <2>3, <3>3 DEF ShieldSubset
  <2> QED
    BY <2>4, <2>5, <2>6
<1> QED
  BY <1>1, ShieldInvHolds, PTL

=============================================================================
