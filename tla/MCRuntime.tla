------------------------------ MODULE MCRuntime ------------------------------
(***************************************************************************)
(* An instance of Runtime for TLC: two calls through every stack that can  *)
(* be built, of a cacheable tool with and without a timeout, of a tool     *)
(* that no server offers, and pinned to a server that exists or does not.  *)
(***************************************************************************)
EXTENDS Runtime

CONSTANTS one, two, search, ghost

RetryableMessages == {Refused, TimedOut}

RequestsOf ==
    {[tool |-> search, timeout |-> 1, pinned |-> FALSE, found |-> TRUE],
     [tool |-> search, timeout |-> NoTimeout, pinned |-> FALSE, found |-> TRUE],
     [tool |-> ghost, timeout |-> NoTimeout, pinned |-> FALSE, found |-> FALSE],
     [tool |-> search, timeout |-> 1, pinned |-> TRUE, found |-> TRUE],
     [tool |-> search, timeout |-> NoTimeout, pinned |-> TRUE, found |-> FALSE]}
=============================================================================
