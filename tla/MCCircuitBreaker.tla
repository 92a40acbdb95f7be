-------------------------- MODULE MCCircuitBreaker --------------------------
(***************************************************************************)
(* Instances of CircuitBreaker for TLC.  The breakers of two tools share   *)
(* no state (one Arc<Mutex<Breaker>> per key), so one tool and three       *)
(* callers meet every race: with two failures to trip and two probe slots, *)
(* a third caller can still be inside a call it started while CLOSED.      *)
(***************************************************************************)
EXTENDS CircuitBreaker

CONSTANTS c1, c2, c3, t1
=============================================================================
