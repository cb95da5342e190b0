----------------------------- MODULE McpCatalog -----------------------------
(***************************************************************************)
(* The operation catalog behind the MCP endpoints of one gateway isolate:  *)
(* buildCatalog(), tools/list and tools/call                               *)
(* (packages/mcp/src/handler.ts, mount-index.ts).                          *)
(*                                                                         *)
(* mountMcp() may be used more than once, each time with its own include,  *)
(* exclude and catalogTtlSeconds.  The cached catalog belongs to the       *)
(* gateway, not to the mount, and holds what the mount that built it       *)
(* keeps.  A service is redeployed with other operations, or fails to      *)
(* answer, while catalogs are built and tools are called.                  *)
(***************************************************************************)
EXTENDS IsolateClock, FiniteSets

CONSTANTS
  Calls,      \* tools/list and tools/call requests
  Operations, \* operation ids
  Mounts,     \* the mountMcp() middlewares of the gateway
  Keep,       \* what the include and exclude patterns of a mount keep
  CatalogTtl  \* catalogTtlSeconds of a mount

ASSUME CatalogTtlAssumption == CatalogTtl \in [Mounts -> Nat]

VARIABLES
  published, \* the operations in the service's current document
  catalog,   \* catalogCache.get(internals)
  call,      \* each request
  answer,    \* the last catalog handed out, and to which mount
  changes    \* for the properties: when each operation was last published and
             \* last absent, and when a fetch last failed

catalogVars == <<now, published, catalog, call, answer, changes>>

NoCatalog == [operations |-> {}, expiresAt |-> 0]
NoAnswer  == [mount |-> CHOOSE m \in Mounts : TRUE, operations |-> {}]

\* pc: "idle", "fetching", "merging" (document received), "done".
NewCall == [pc |-> "idle", mount |-> NoAnswer.mount, document |-> {}, arrivedAt |-> 0]

Never == -1000

CatalogInit ==
  /\ now = 0
  /\ published \in SUBSET Operations
  /\ catalog = NoCatalog
  /\ call = [r \in Calls |-> NewCall]
  /\ answer = NoAnswer
  /\ changes = [presentUntil |-> [o \in Operations |-> Never],
                absentUntil  |-> [o \in Operations |-> Never],
                failedAt     |-> Never]

UsableForever(m) == CatalogTtl[m] > 0 /\ catalog # NoCatalog

UsableByAnyMount(m) == catalog # NoCatalog /\ catalog.expiresAt > now

CatalogUsable(m) == CatalogTtl[m] > 0 /\ catalog # NoCatalog /\ catalog.expiresAt > now

\* tools/list answers with the catalog; tools/call finds the operation in it
\* and dispatches it (InvokeOperation of RequestFlow), or refuses it.
HandOut(r, m, built) ==
  /\ call' = [call EXCEPT ![r] = [NewCall EXCEPT !.pc = "done"]]
  /\ answer' = [mount |-> m, operations |-> built]

CallArrives(r, m) ==
  /\ call[r].pc = "idle"
  /\ \/ /\ CatalogUsable(m)
        /\ HandOut(r, m, catalog.operations)
     \/ /\ ~CatalogUsable(m)
        /\ call' = [call EXCEPT ![r].pc = "fetching", ![r].mount = m,
                              ![r].arrivedAt = now]
        /\ UNCHANGED answer
  /\ UNCHANGED <<now, published, catalog, changes>>

\* A service whose document cannot be fetched contributes no operation.
FetchDocument(r) ==
  /\ call[r].pc = "fetching"
  /\ call' = [call EXCEPT ![r].pc = "merging", ![r].document = published]
  /\ UNCHANGED <<now, published, catalog, answer, changes>>

DocumentFails(r) ==
  /\ call[r].pc = "fetching"
  /\ call' = [call EXCEPT ![r].pc = "merging"]
  /\ changes' = [changes EXCEPT !.failedAt = now]
  /\ UNCHANGED <<now, published, catalog, answer>>

\* buildMountIndex() keeps what the mount's own patterns keep, and the result
\* replaces the catalog of the gateway.
Merge(r) ==
  /\ call[r].pc = "merging"
  /\ LET m     == call[r].mount
         built == call[r].document \intersect Keep[m]
     IN  /\ HandOut(r, m, built)
         /\ catalog' = IF CatalogTtl[m] > 0
                       THEN [operations |-> built, expiresAt |-> now + CatalogTtl[m]]
                       ELSE catalog
  /\ UNCHANGED <<now, published, changes>>

Redeploy(operations) ==
  /\ published' = operations
  /\ changes' = [changes EXCEPT
       !.presentUntil = [o \in Operations |->
          IF o \in published \ operations THEN now ELSE @[o]],
       !.absentUntil = [o \in Operations |->
          IF o \in operations \ published THEN now ELSE @[o]]]
  /\ UNCHANGED <<now, catalog, call, answer>>

\* Fetches end within MaxFetch, and the continuation runs at once.
CatalogTick ==
  /\ now < Horizon
  /\ \A r \in Calls :
       /\ call[r].pc # "merging"
       /\ call[r].pc = "fetching" => now - call[r].arrivedAt < MaxFetch
  /\ now' = now + 1
  /\ UNCHANGED <<published, catalog, call, answer, changes>>

CatalogNext ==
  \/ \E r \in Calls :
       \/ \E m \in Mounts : CallArrives(r, m)
       \/ FetchDocument(r) \/ DocumentFails(r) \/ Merge(r)
  \/ \E operations \in SUBSET Operations : Redeploy(operations)
  \/ CatalogTick

CatalogSpec == CatalogInit /\ [][CatalogNext]_catalogVars

-----------------------------------------------------------------------------
(* Properties. *)

\* docs/mcp.md: `include` and `exclude` filter operations by operation id.  A
\* mount never lists, and never dispatches, an operation it filters out.
MountOptionsHonoured == answer.operations \subseteq Keep[answer.mount]

CatalogAnswers == \E r \in Calls : call[r].pc # "done" /\ call'[r].pc = "done"

AnswersRecently ==
  CatalogAnswers =>
    LET recent == now - CatalogTtl[answer'.mount] - MaxFetch
    IN  /\ \A o \in answer'.operations :
             o \in published \/ changes.presentUntil[o] >= recent
        /\ \A o \in Keep[answer'.mount] \ answer'.operations :
             \/ o \notin published
             \/ changes.absentUntil[o] >= recent
             \/ changes.failedAt >= recent

\* A mount that caches its catalog alone never answers from one that is older
\* than its own catalogTtlSeconds and a fetch: what it hides that it should
\* show was absent, or could not be fetched, within that time, and what it
\* shows was published within it.
CatalogStaleness == [][AnswersRecently]_catalogVars

=============================================================================
