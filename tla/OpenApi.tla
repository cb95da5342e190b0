------------------------------ MODULE OpenApi ------------------------------
(***************************************************************************)
(* OpenAPI documents and what GMode does to them (packages/core/src/       *)
(* openapi.ts): merging the documents of services, and pruning a document  *)
(* to selected operations.                                                 *)
(*                                                                         *)
(* A path is a sequence of segments and a name a sequence of parts, so     *)
(* that <<"billing", "Item">> is the name "billing_Item".  A reference is  *)
(* a pair of a component kind and a name.                                  *)
(*                                                                         *)
(*  operation  [path, method, id, refs, security]                          *)
(*  document   [ops     : sequence of operations,                          *)
(*              schemas : sequence of [name, def], def = [body, refs],     *)
(*              schemes : function from security scheme names]             *)
(*                                                                         *)
(* A loop is the recursive function of its accumulator after each round.   *)
(***************************************************************************)
EXTENDS Naturals, Sequences, FiniteSets

NoId == <<>>

\* `${serviceName}_${name}`
Prefixed(service, name) == <<service>> \o name

Key(op) == <<op.method, op.path>>

\* table[key] = value, and the entries of a table with those of another for
\* the keys it lacks.
Put(table, key, value) ==
  [k \in DOMAIN table \union {key} |-> IF k = key THEN value ELSE table[k]]

Extended(table, other) ==
  [k \in DOMAIN table \union DOMAIN other |-> IF k \in DOMAIN table THEN table[k] ELSE other[k]]

-----------------------------------------------------------------------------
(* mergeServiceSpecs(): the services' documents become one, with tables in  *)
(* place of sequences because a later definition replaces an earlier one.   *)

\* One schema of a service: equal definitions are shared, a different one of
\* the same name gets the service's prefix.
AddSchema(service, acc, schema) ==
  LET alias == Prefixed(service, schema.name)
  IN  IF schema.name \notin DOMAIN acc.schemas
      THEN [acc EXCEPT !.schemas = Put(@, schema.name, schema.def)]
      ELSE IF acc.schemas[schema.name] = schema.def THEN acc
      ELSE [schemas |-> Put(acc.schemas, alias, schema.def),
            renames |-> Put(acc.renames, schema.name, alias)]

AddSchemas(service, known) ==
  LET after[n \in 0 .. Len(service.spec.schemas)] ==
        IF n = 0 THEN [schemas |-> known, renames |-> <<>>]
        ELSE AddSchema(service.name, after[n - 1], service.spec.schemas[n])
  IN  after

RefsKept(renames, ref) == ref

\* rewriteRefs()
RewriteRef(renames, ref) ==
  IF ref[1] = "schemas" /\ ref[2] \in DOMAIN renames
  THEN <<"schemas", renames[ref[2]]>> ELSE ref

IdsKept(service, renames, acc, op) ==
  LET new == [op EXCEPT !.path = service.mount \o op.path,
                        !.refs = {RewriteRef(renames, r) : r \in op.refs}]
  IN  [ids   |-> acc.ids \union ({op.id} \ {NoId}),
       table |-> Put(acc.table, Key(new), [op |-> new, service |-> service.name])]

AddOperation(service, renames, acc, op) ==
  LET id  == IF op.id \in acc.ids THEN Prefixed(service.name, op.id) ELSE op.id
      new == [op EXCEPT !.id = id, !.path = service.mount \o op.path,
                        !.refs = {RewriteRef(renames, r) : r \in op.refs}]
  IN  [ids   |-> acc.ids \union ({id} \ {NoId}),
       table |-> Put(acc.table, Key(new), [op |-> new, service |-> service.name])]

AddOperations(service, renames, known) ==
  LET after[n \in 0 .. Len(service.spec.ops)] ==
        IF n = 0 THEN [ids   |-> {known[k].op.id : k \in DOMAIN known} \ {NoId},
                       table |-> known]
        ELSE AddOperation(service, renames, after[n - 1], service.spec.ops[n])
  IN  after

MergeService(result, service) ==
  LET named == AddSchemas(service, result.schemas)[Len(service.spec.schemas)]
      added == AddOperations(service, named.renames, result.table)[Len(service.spec.ops)]
  IN  [table   |-> added.table,
       schemas |-> named.schemas,
       schemes |-> Extended(result.schemes, service.spec.schemes)]

MergeServiceSpecs(base, services) ==
  LET after[n \in 0 .. Len(services)] ==
        IF n = 0 THEN base ELSE MergeService(after[n - 1], services[n])
  IN  after

-----------------------------------------------------------------------------
(* pruneOpenApiDocument(): selected operations and the components they      *)
(* reach.                                                                   *)

DirectSchemas(schemas, refs) == {n \in DOMAIN schemas : <<"schemas", n>> \in refs}

\* The schemas a set of references leads to: pruneSchemas() follows the
\* references of schemas, and those only.  The queue is empty when there have
\* been as many rounds as there are schemas.
SchemasWithin(schemas, refs) ==
  LET reached[n \in 0 .. Cardinality(DOMAIN schemas)] ==
        IF n = 0 THEN DirectSchemas(schemas, refs)
        ELSE reached[n - 1]
               \union DirectSchemas(schemas, UNION {schemas[m].refs : m \in reached[n - 1]})
  IN  reached

ReachedSchemas(schemas, refs) == SchemasWithin(schemas, refs)[Cardinality(DOMAIN schemas)]

PruneSchemas(schemas, refs) == [n \in ReachedSchemas(schemas, refs) |-> schemas[n]]

\* collectRefs() and collectSecuritySchemeNames() of the kept operations; the
\* document's own requirements count for all of them.
CollectRefs(ops) == UNION {op.refs : op \in ops}

CollectSecuritySchemeNames(doc, ops) == doc.security \union UNION {op.security : op \in ops}

PruneSecuritySchemes(schemes, names) ==
  [s \in DOMAIN schemes \intersect names |-> schemes[s]]

PruneComponents(doc, schemas, names) ==
  [doc EXCEPT !.schemas = schemas, !.schemes = PruneSecuritySchemes(@, names)]

PruneOpenApiDocument(doc, selected) ==
  LET kept == {op \in doc.ops : Key(op) \in selected}
  IN  [PruneComponents(doc, PruneSchemas(doc.schemas, CollectRefs(kept)),
                       CollectSecuritySchemeNames(doc, kept)) EXCEPT !.ops = kept]

=============================================================================
