------------------------------ MODULE MCSandbox ------------------------------
(***************************************************************************)
(* Instances of Sandbox for TLC: one tool, one value, a pipe that holds    *)
(* one character, of one byte or of three where two are kept at most, and  *)
(* frames for a hello, two calls and a result; every backend, with the     *)
(* staging directory inside and outside /tmp, and an interpreter that      *)
(* bubblewrap does not mount.                                              *)
(***************************************************************************)
EXTENDS Sandbox

CONSTANTS read, host, value1

Names == {<<read>>}
Host == <<host>>
Hosts == {Host}

Usr == <<"usr">>
Home == <<"home">>
Python == <<"usr", "python3">>
Roots == <<Usr, <<"etc">>>>
Denied == <<Home \o <<"ssh">>>>
InTmp == Tmp \o <<"work">>
InVar == <<"var", "work">>

Setup(backend, workdir, python, allowed) ==
    [backend |-> backend, workdir |-> workdir, python |-> python,
     allow_no_isolation |-> allowed]
SetupsOf ==
    {Setup("seatbelt", InTmp, Python, FALSE), Setup("seatbelt", InVar, Python, FALSE),
     Setup("bubblewrap", InTmp, Python, FALSE), Setup("bubblewrap", InVar, Python, FALSE),
     Setup("bubblewrap", InTmp, Home \o <<"python3">>, FALSE),
     Setup("local", InTmp, Python, TRUE), Setup("local", InTmp, Python, FALSE)}

PlacesOf ==
    {<<>>, Python, Home, Denied[1], Tmp, Endpoint, <<"dev">>, <<"dev", "null">>,
     <<"proc">>, <<"var">>, <<"private", "tmp">>, InTmp, InVar}
=============================================================================
