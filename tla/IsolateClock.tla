---------------------------- MODULE IsolateClock ----------------------------
(***************************************************************************)
(* The clock that the caches of one gateway isolate read (Date.now() in    *)
(* packages/gateway/src/gateway.ts and packages/mcp/src/handler.ts), and   *)
(* how long a fetch over a service binding takes at most.                  *)
(***************************************************************************)
EXTENDS Integers

CONSTANTS
  MaxFetch, \* bound on the duration of a service binding fetch
  Horizon   \* bound on time

ASSUME MaxFetchAssumption == MaxFetch \in Nat
ASSUME HorizonAssumption  == Horizon \in Nat

VARIABLE now \* seconds

=============================================================================
