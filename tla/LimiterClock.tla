---------------------------- MODULE LimiterClock ----------------------------
(***************************************************************************)
(* What the rate limiters of a gateway read: the requests that arrive, and *)
(* the clock (Date.now() in packages/gateway/src/middleware/               *)
(* memory-rate-limit.ts and durable-object-rate-limit.ts).                 *)
(***************************************************************************)
EXTENDS Integers

CONSTANTS
  Requests, \* requests to the limiter
  Horizon   \* bound on time

ASSUME HorizonAssumption == Horizon \in Nat

VARIABLE now \* seconds

=============================================================================
