------------------------------- MODULE MCBroker -------------------------------
(***************************************************************************)
(* An instance of Broker for TLC: the one entry of the allowlist is the    *)
(* name "other.write" in the host's namespace; "write" is not allowed.     *)
(* Three frames after the hello reach a limit of one call, a result and    *)
(* what comes after it; one of the two ids makes replies that may not fit. *)
(***************************************************************************)
EXTENDS Broker

CONSTANTS default, other, write, value1, value2

Host == <<default>>
Entries == {<<default, other, write>>}
Asked == {<<write>>, <<other, write>>}
AskedNamespaces == {<<other>>}
=============================================================================
