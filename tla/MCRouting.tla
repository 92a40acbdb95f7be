------------------------------ MODULE MCRouting ------------------------------
(***************************************************************************)
(* An instance of Routing for TLC: three connections that offer `x`, `x`   *)
(* and `y`, and `y` and a tool without a name, for two server names.       *)
(***************************************************************************)
EXTENDS Routing

CONSTANTS web, files, x, y, c1, c2, c3, a, b

OffersOf == [c \in Conns |->
    CASE c = c1 -> {x} [] c = c2 -> {x, y} [] OTHER -> {y, Empty}]
=============================================================================
