------------------------------- MODULE MCCache -------------------------------
(***************************************************************************)
(* An instance of Cache for TLC: a key whose entries live two ticks, one   *)
(* that never expires and one of a tool that is not cacheable.             *)
(***************************************************************************)
EXTENDS Cache

CONSTANTS a, b, brief, lasting, plain

TtlOf == [k \in Keys |-> CASE k = brief -> 2 [] k = lasting -> Forever [] OTHER -> 1]
VersionsOf == [k \in Keys |-> IF k = plain THEN 0 ELSE 1]
=============================================================================
