----------------------------- MODULE MCRateLimit -----------------------------
(***************************************************************************)
(* Instances of RateLimit for TLC: a global window and a tool `slow` with  *)
(* a window of its own.  `free` has none; `never` is configured with limit *)
(* zero, which the builder accepts.                                        *)
(***************************************************************************)
EXTENDS RateLimit

CONSTANTS k1, k2, k3, slow, free, never

LimitOf == [w \in Windows |-> CASE w = Global -> 2 [] w = slow -> 1 [] OTHER -> 0]
PeriodOf == [w \in Windows |-> CASE w = Global -> 2 [] w = slow -> 3 [] OTHER -> 1]
=============================================================================
