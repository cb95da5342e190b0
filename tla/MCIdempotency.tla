--------------------------- MODULE MCIdempotency ---------------------------
(***************************************************************************)
(* Three attempts of a user and of an anonymous caller at two locations;   *)
(* each may be a retry of another, the same key for another request, a     *)
(* request without a key or an unprotected one.                            *)
(***************************************************************************)
EXTENDS Idempotency, TLC

CONSTANTS a1, a2, a3, east, west

MCAttempts == {a1, a2, a3}
MCLocations == {east, west}
MCSymmetry == Permutations(MCAttempts)

Ann == [tenant |-> <<"acme">>, user |-> <<"ann">>]
MCCallers == {Ann, NoIds}
MCRawKeys == {<<"key">>}
MCFingerprints == {"create", "update"}

Request(l, c, f) ==
  [loc |-> l, caller |-> c, rawKey |-> <<"key">>, fp |-> f, protected |-> TRUE]

Keyless(l) == [Request(l, Ann, "create") EXCEPT !.rawKey = NoKey]
Unprotected(l) == [Request(l, Ann, "create") EXCEPT !.protected = FALSE]

MCInputs ==
  {Request(l, Ann, "create") : l \in MCLocations}
    \union {Request(east, Ann, "update"), Request(east, NoIds, "create"),
            Keyless(east), Unprotected(east)}

=============================================================================
