-------------------------- MODULE DocumentPipeline --------------------------
(***************************************************************************)
(* From the routes of services to what is derived from the gateway's       *)
(* document: buildServiceOpenApi() of each service (packages/service/src/  *)
(* openapi.ts), the merge (aggregateOpenApi()), the pruned schema that     *)
(* `gmode shield:bootstrap` uploads, and the methods of the client that    *)
(* `gmode generate client` writes (packages/cli/src/codegen/).             *)
(*                                                                         *)
(* Every step is a function of its input; the module checks the functions  *)
(* against what their callers rely on, over all inputs of an instance.     *)
(***************************************************************************)
EXTENDS OpenApi, SequencesExt, TLC

CONSTANTS
  Inputs,     \* sequences of services [name, mount, routes, schemas]
  Selections  \* sets of operation keys that Shield has discovered

\* Each service's document is one: its schemas and its operations are keyed, and
\* what its operations refer to is in it.
ASSUME InputsAssumption ==
  \A services \in Inputs :
    /\ services \in Seq(Range(services))
    /\ \A i \in DOMAIN services :
         LET schemas == services[i].schemas
             routes  == services[i].routes
         IN  /\ schemas \in Seq(Range(schemas)) /\ routes \in Seq(Range(routes))
             /\ services[i].mount \in Seq(Range(services[i].mount))
             /\ \A j, k \in DOMAIN schemas : schemas[j].name = schemas[k].name => j = k
             /\ \A j \in DOMAIN schemas : schemas[j].name \in Seq(Range(schemas[j].name))
             /\ \A j, k \in DOMAIN routes :
                  (routes[j].method = routes[k].method /\ routes[j].path = routes[k].path) => j = k
             /\ \A j \in DOMAIN routes :
                  /\ routes[j].path \in Seq(Range(routes[j].path))
                  /\ routes[j].id \in Seq(Range(routes[j].id))
                  /\ \A r \in routes[j].refs : \E k \in DOMAIN schemas : r = <<"schemas", schemas[k].name>>

VARIABLES
  stage,    \* "sources", "merged", "pruned" or "generated"
  input,    \* the services
  doc,      \* the merged document
  selected, \* the keys the pruned document was asked for
  derived   \* the pruned document, or the client's methods

pipelineVars == <<stage, input, doc, selected, derived>>

Nothing == "nothing"

PipelineInit ==
  /\ stage = "sources"
  /\ input \in Inputs
  /\ doc = Nothing /\ selected = {} /\ derived = Nothing

-----------------------------------------------------------------------------
(* buildServiceOpenApi() *)

\* generateOperationId(): the method and the words of the path; a parameter
\* and a literal segment read alike.  A segment is <<kind, word>>.
GenerateOperationId(method, path) ==
  <<method>> \o (IF path = <<>> THEN <<"Root">> ELSE [i \in DOMAIN path |-> path[i][2]])

RouteOperation(route) ==
  [path |-> route.path, method |-> route.method, refs |-> route.refs,
   id |-> IF route.id # NoId THEN route.id
          ELSE GenerateOperationId(route.method, route.path),
   security |-> IF route.scoped THEN {"GatewayContext"} ELSE {}]

BuildServiceOpenApi(service) ==
  [name |-> service.name, mount |-> service.mount,
   spec |-> [ops     |-> [i \in DOMAIN service.routes |->
                            RouteOperation(service.routes[i])],
             schemas |-> service.schemas,
             schemes |-> [GatewayContext |-> "x-gmode-context"]]]

Documents == [i \in DOMAIN input |-> BuildServiceOpenApi(input[i])]

\* aggregateOpenApi() starts from a document with the gateway's own schemes.
Base ==
  [table |-> <<>>, schemas |-> <<>>,
   schemes |-> [BearerAuth |-> "bearer", ApiKeyAuth |-> "x-api-key"]]

Aggregate ==
  /\ stage = "sources"
  /\ stage' = "merged"
  /\ doc' = MergeServiceSpecs(Base, Documents)[Len(Documents)]
  /\ UNCHANGED <<input, selected, derived>>

-----------------------------------------------------------------------------
(* What is derived from the merged document. *)

Prune(keys) ==
  /\ stage = "merged"
  /\ stage' = "pruned"
  /\ selected' = keys
  /\ derived' = PruneOpenApiDocument(
       [ops      |-> {doc.table[k].op : k \in DOMAIN doc.table},
        schemas  |-> doc.schemas,
        schemes  |-> doc.schemes,
        security |-> {}], keys)
  /\ UNCHANGED <<input, doc>>

\* An operation's method takes its id, and a number when the name is taken.
MethodName(taken, id) ==
  IF id \notin taken THEN id
  ELSE LET free == {n \in 2 .. Cardinality(taken) + 2 : Append(id, ToString(n)) \notin taken}
       IN  Append(id, ToString(CHOOSE n \in free : \A k \in free : n <= k))

\* The methods after each of the operations.
GenerateMethods(table, keys) ==
  LET after[n \in 0 .. Len(keys)] ==
        IF n = 0 THEN <<>>
        ELSE LET taken == {after[n - 1][i].name : i \in DOMAIN after[n - 1]}
             IN  Append(after[n - 1],
                        [key |-> keys[n], name |-> MethodName(taken, table[keys[n]].op.id)])
  IN  after

GenerateClient ==
  LET keys == SetToSeq(DOMAIN doc.table)
  IN  /\ stage = "merged"
      /\ stage' = "generated"
      /\ derived' = GenerateMethods(doc.table, keys)[Len(keys)]
      /\ UNCHANGED <<input, doc, selected>>

PipelineNext ==
  \/ Aggregate
  \/ \E keys \in Selections : Prune(keys)
  \/ GenerateClient

PipelineSpec == PipelineInit /\ [][PipelineNext]_pipelineVars

-----------------------------------------------------------------------------
(* Properties. *)

\* Two services do not share a name: a manifest with two entries of one name is
\* refused (cli/src/manifest.ts).
ServicesApart == \A i, j \in DOMAIN Documents : Documents[i].name = Documents[j].name => i = j

\* Each service's own ids are distinct, and none is spelled like one that the
\* merge makes, which is what its prefixing presupposes.
IdsApart ==
  \A i, j \in DOMAIN Documents :
    \A k \in DOMAIN Documents[i].spec.ops, l \in DOMAIN Documents[j].spec.ops :
      LET one == Documents[i].spec.ops[k].id
          two == Documents[j].spec.ops[l].id
      IN  one # Prefixed(Documents[j].name, two) /\ (i = j /\ one = two => k = l)

\* No service names a schema like one that the merge renames.
SchemasApart ==
  \A i, j \in DOMAIN Documents :
    \A k \in DOMAIN Documents[i].spec.schemas, l \in DOMAIN Documents[j].spec.schemas :
      Documents[i].spec.schemas[k].name
        # Prefixed(Documents[j].name, Documents[j].spec.schemas[l].name)

\* The document of the service that a merged operation comes from, its
\* operation there, and the document's schema of a name.
SourceOf(entry) == CHOOSE d \in Range(Documents) : d.name = entry.service

Origin(entry) ==
  CHOOSE op \in Range(SourceOf(entry).spec.ops) :
    Key(entry.op) = <<op.method, SourceOf(entry).mount \o op.path>>

SchemaOf(document, name) ==
  (CHOOSE s \in Range(document.spec.schemas) : s.name = name).def

\* MCP tools and client methods are named by operation id, and the merge keeps
\* the ids of the merged document distinct.
DistinctOperationIds ==
  (stage = "merged" /\ ServicesApart /\ IdsApart) =>
    \A k, l \in DOMAIN doc.table : doc.table[k].op.id = doc.table[l].op.id => k = l

\* Renaming colliding schemas never makes an operation point at another
\* service's schema: what an operation refers to directly is the definition
\* its own service gave it.
OwnDefinitions ==
  (stage = "merged" /\ ServicesApart /\ SchemasApart) =>
    \A k \in DOMAIN doc.table :
      LET entry == doc.table[k]
      IN  {doc.schemas[r[2]] : r \in entry.op.refs}
            = {SchemaOf(SourceOf(entry), r[2]) : r \in Origin(entry).refs}

\* A pruned document is the selected part of its source and stands on its own:
\* every schema its operations and its schemas refer to is in it, with every
\* security scheme its operations require, and it carries no schema that none
\* of them needs.
PrunedStandsAlone ==
  stage = "pruned" =>
    LET names == DOMAIN derived.schemas
        referrers ==
              {op.refs : op \in derived.ops}
                   \union {derived.schemas[n].refs : n \in names}
    IN  /\ {Key(op) : op \in derived.ops} = selected \intersect DOMAIN doc.table
        /\ \A refs \in referrers : \A n \in DOMAIN doc.schemas :
             <<"schemas", n>> \in refs => n \in names
        /\ \A n \in names : \E refs \in referrers : <<"schemas", n>> \in refs
        /\ \A op \in derived.ops : op.security \subseteq DOMAIN derived.schemes

\* The generated client offers every operation under a name of its own, though
\* ids may repeat and may look like the names that numbering makes.
DistinctMethods ==
  stage = "generated" =>
    /\ {derived[i].key : i \in DOMAIN derived} = DOMAIN doc.table
    /\ \A i, j \in DOMAIN derived : derived[i].name = derived[j].name => i = j

\* What is named after operations tells them apart: the merged ids, and the
\* methods of the client that is generated from them.
NamesApart == DistinctOperationIds /\ DistinctMethods

=============================================================================
