------------------------------- MODULE Scopes -------------------------------
(***************************************************************************)
(* Scope and permission matching (packages/core/src/utils.ts).             *)
(*                                                                         *)
(* A scope string is modelled by its ":"-separated segments: "users:read"  *)
(* is <<"users", "read">>, the global wildcard "*" is <<"*">> and the      *)
(* prefix wildcard "users:*" is <<"users", "*">>.  The code tests prefixes *)
(* that end in ":", so it compares whole segments, as the tuples do.       *)
(***************************************************************************)
EXTENDS Naturals, Sequences

AnyScope == <<"*">>

\* g.endsWith(":*")
IsPrefixWildcard(g) == Len(g) > 1 /\ g[Len(g)] = "*"

\* required.startsWith(g.slice(0, -1)): the ":" that is kept demands one more
\* segment, which may be empty.
StartsWithPrefixOf(required, g) ==
  /\ Len(required) >= Len(g)
  /\ SubSeq(required, 1, Len(g) - 1) = SubSeq(g, 1, Len(g) - 1)

MatchesScope(required, granted) ==
  \/ AnyScope \in granted
  \/ required \in granted
  \/ \E g \in granted : IsPrefixWildcard(g) /\ StartsWithPrefixOf(required, g)

MatchesAllScopes(required, granted) ==
  \A r \in required : MatchesScope(r, granted)

=============================================================================
