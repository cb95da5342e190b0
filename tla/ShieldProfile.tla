--------------------------- MODULE ShieldProfile ----------------------------
(***************************************************************************)
(* toShieldCompatibleSpec() (packages/core/src/openapi.ts): what becomes   *)
(* of one schema of a document that is downgraded to what Cloudflare API   *)
(* Shield accepts.                                                         *)
(*                                                                         *)
(* A schema is a table of the schemas it consists of, the first its root:  *)
(*   type     "none", "plain", or "nullish" (an array that includes "null") *)
(*   nullable, uniqueItems, prefixItems                                     *)
(*            whether the keyword is there                                  *)
(*   under    the schemas below each of its other keywords: anyOf, which    *)
(*            may be there and empty, the ones that are descended into, and *)
(*            those that are left as they are, such as not or contains      *)
(***************************************************************************)
EXTENDS Naturals, Sequences, FiniteSets

CONSTANT Schemas \* pairs <<place, schema>>

Root == 1

\* The keywords whose schemas are downgraded as well.
Descended ==
  {"anyOf", "oneOf", "allOf", "properties", "patternProperties", "definitions",
   "items", "additionalProperties"}

Below(s, keywords) ==
  UNION {{s.under[k][i] : i \in DOMAIN s.under[k]} : k \in keywords \intersect DOMAIN s.under}

Everything(table) == [n \in DOMAIN table |-> Below(table[n], DOMAIN table[n].under)]

\* The least set that holds the root and all that is below what it holds.
Reached(below) ==
  {n \in DOMAIN below :
     \A S \in SUBSET DOMAIN below :
       Root \in S /\ (\A m \in S : below[m] \subseteq S) => n \in S}

IsNode(s, schema) ==
  /\ s = [type |-> s.type, nullable |-> s.nullable, uniqueItems |-> s.uniqueItems,
          prefixItems |-> s.prefixItems, under |-> s.under]
  /\ s.type \in {"none", "plain", "nullish"}
  /\ s.nullable \in BOOLEAN /\ s.uniqueItems \in BOOLEAN /\ s.prefixItems \in BOOLEAN
  /\ s.under = [k \in DOMAIN s.under |-> s.under[k]]
  /\ \A k \in DOMAIN s.under : s.under[k] \in Seq(DOMAIN schema)

\* No schema stands in two places.
IsTree(schema) ==
  \A m, n \in DOMAIN schema :
    \A k \in DOMAIN schema[m].under, l \in DOMAIN schema[n].under :
      \A i \in DOMAIN schema[m].under[k], j \in DOMAIN schema[n].under[l] :
        schema[m].under[k][i] = schema[n].under[l][j] => <<m, k, i>> = <<n, l, j>>

ASSUME SchemasAssumption ==
  \A p \in Schemas :
    /\ p[2] = [n \in DOMAIN p[2] |-> p[2][n]]
    /\ \A n \in DOMAIN p[2] : IsNode(p[2][n], p[2])
    /\ IsTree(p[2])
    /\ Root \in DOMAIN p[2] /\ Reached(Everything(p[2])) = DOMAIN p[2]

VARIABLE shield \* one schema, its place in the document, and what becomes of it

-----------------------------------------------------------------------------

ConvertNull(s) ==
  IF s.type = "nullish" THEN [s EXCEPT !.type = "plain", !.nullable = TRUE] ELSE s

StripUniqueItems(s) == [s EXCEPT !.uniqueItems = FALSE]

StripKeywords(s) == [s EXCEPT !.uniqueItems = FALSE, !.prefixItems = FALSE]

DeleteAnyOf(s) == [s EXCEPT !.under = [k \in DOMAIN s.under \ {"anyOf"} |-> s.under[k]]]

\* The keywords of the first variant that the schema does not have itself.
HoistFirstVariant(s, first) ==
  [type        |-> IF s.type = "none" THEN first.type ELSE s.type,
   nullable    |-> s.nullable \/ first.nullable,
   uniqueItems |-> s.uniqueItems \/ first.uniqueItems,
   prefixItems |-> s.prefixItems \/ first.prefixItems,
   under       |-> [k \in DOMAIN s.under \union DOMAIN first.under |->
                      IF k \in DOMAIN s.under THEN s.under[k] ELSE first.under[k]]]

\* One schema, without those below it.
DowngradeOne(schema, n, stripAnyOf) ==
  LET plain == StripKeywords(ConvertNull(schema[n]))
      gone  == DeleteAnyOf(plain)
  IN  IF ~stripAnyOf \/ "anyOf" \notin DOMAIN plain.under THEN plain
      ELSE IF plain.under["anyOf"] = <<>> THEN gone
      ELSE HoistFirstVariant(gone, schema[Head(plain.under["anyOf"])])

\* The schemas that the recursion comes to: it descends after it has hoisted.
Visited(schema, stripAnyOf) ==
  Reached([n \in DOMAIN schema |-> Below(DowngradeOne(schema, n, stripAnyOf), Descended)])

\* What the recursion does not come to stays as it is, and the variants that are
\* not hoisted are gone.
DowngradeSchema(schema, stripAnyOf) ==
  LET visited == Visited(schema, stripAnyOf)
      table   == [n \in DOMAIN schema |->
                    IF n \in visited THEN DowngradeOne(schema, n, stripAnyOf) ELSE schema[n]]
  IN  [n \in Reached(Everything(table)) |-> table[n]]

\* The warnings of one schema, as the set of their reasons.
Reasons(s, stripAnyOf) ==
  {r \in {"null-type-converted"} : s.type = "nullish"}
    \union {r \in {"uniqueItems-stripped"} : s.uniqueItems}
    \union {r \in {"prefixItems-stripped"} : s.prefixItems}
    \union {r \in {"anyOf-in-parameter"} :
              stripAnyOf /\ "anyOf" \in DOMAIN s.under /\ s.under["anyOf"] # <<>>}

Warnings(schema, stripAnyOf) ==
  UNION {Reasons(schema[n], stripAnyOf) : n \in Visited(schema, stripAnyOf)}

\* The places of a schema in a document: only an operation's own parameters
\* lose their anyOf, and the parameters of a path item are not visited.
ToShieldCompatible(place, schema) ==
  CASE place = "parameter" -> DowngradeSchema(schema, TRUE)
    [] place = "path item parameter" -> schema
    [] OTHER -> DowngradeSchema(schema, FALSE)

ShieldInit ==
  \E p \in Schemas : shield = [stage |-> "given", place |-> p[1], schema |-> p[2]]

Downgrade ==
  /\ shield.stage = "given"
  /\ shield' = [stage |-> "downgraded", place |-> shield.place, schema |-> shield.schema,
                result   |-> ToShieldCompatible(shield.place, shield.schema),
                warnings |-> IF shield.place = "path item parameter" THEN {}
                             ELSE Warnings(shield.schema, shield.place = "parameter")]

ShieldSpec == ShieldInit /\ [][Downgrade]_shield

-----------------------------------------------------------------------------
(* Properties. *)

\* Without the keywords that docs/api-shield.md:19-21 says are taken out.
Accepted(place, s) ==
  /\ s.type # "nullish" /\ ~s.uniqueItems /\ ~s.prefixItems
  /\ place = "parameter" => "anyOf" \notin DOMAIN s.under

\* What stands first in an anyOf uses none of them.
VariantsAccepted(schema) ==
  \A n \in DOMAIN schema :
    "anyOf" \in DOMAIN schema[n].under /\ schema[n].under["anyOf"] # <<>> =>
      Accepted("parameter", schema[Head(schema[n].under["anyOf"])])

\* The schemas of a table that are below the root through keywords that the
\* profile descends into.
WithinReach(table) == Reached([n \in DOMAIN table |-> Below(table[n], Descended)])

EmptyAnyOf(s) == "anyOf" \in DOMAIN s.under /\ s.under["anyOf"] = <<>>

\* In what the Shield profile returns, no schema within its reach has a keyword
\* left that it is to take out, anyOf in a parameter included, save in the
\* parameters of a path item and where a variant that was hoisted brought it
\* along; and if it gives no warning, it has changed nothing but taken an empty
\* anyOf out of a parameter, which it does not report.
ShieldSubset ==
  shield.stage = "downgraded" =>
    /\ \/ shield.place = "path item parameter"
       \/ shield.place = "parameter" /\ ~VariantsAccepted(shield.schema)
       \/ \A n \in WithinReach(shield.result) : Accepted(shield.place, shield.result[n])
    /\ shield.warnings = {} =>
         /\ DOMAIN shield.result = DOMAIN shield.schema
         /\ \A n \in DOMAIN shield.schema :
              \/ shield.result[n] = shield.schema[n]
              \/ /\ shield.place = "parameter" /\ EmptyAnyOf(shield.schema[n])
                 /\ shield.result[n] = DeleteAnyOf(shield.schema[n])

=============================================================================
