----------------------------- MODULE BreakerGate -----------------------------
(***************************************************************************)
(* What the circuit-breaker layer promises, without its counters: a gate   *)
(* per tool that callers enter and leave.  An open gate lets nobody in     *)
(* until it has cooled; only a caller that leaves can close or open it.    *)
(* CircuitBreaker implements this (CircuitBreaker!GateSpec).               *)
(***************************************************************************)
CONSTANTS Tools, Callers, NoTool,
          NoCooling \* whether a gate that opens is ready for a probe at once

VARIABLES mode,   \* tool -> Closed, Open, HalfOpen
          cooled, \* tool -> whether an open gate would admit a probe
          inside  \* caller -> the tool it was let through for, or NoTool

gateVars == <<mode, cooled, inside>>

GateInit ==
    /\ mode = [t \in Tools |-> "Closed"]
    /\ cooled = [t \in Tools |-> FALSE]
    /\ inside = [c \in Callers |-> NoTool]

\* A closed or half-open gate may let a caller through unchanged.
Pass(c, t) ==
    /\ inside[c] = NoTool
    /\ mode[t] \in {"Closed", "HalfOpen"}
    /\ inside' = [inside EXCEPT ![c] = t]
    /\ UNCHANGED <<mode, cooled>>

\* The first caller after the cooling time makes an open gate half-open.
Probe(c, t) ==
    /\ inside[c] = NoTool
    /\ mode[t] = "Open" /\ cooled[t]
    /\ inside' = [inside EXCEPT ![c] = t]
    /\ mode' = [mode EXCEPT ![t] = "HalfOpen"]
    /\ cooled' = [cooled EXCEPT ![t] = FALSE]

\* A caller leaves and nothing changes at the gate.
LeaveQuietly(c) ==
    /\ inside[c] # NoTool
    /\ inside' = [inside EXCEPT ![c] = NoTool]
    /\ UNCHANGED <<mode, cooled>>

\* A caller that leaves opens a closed or half-open gate ...
LeaveOpening(c) ==
    /\ inside[c] # NoTool
    /\ mode[inside[c]] \in {"Closed", "HalfOpen"}
    /\ inside' = [inside EXCEPT ![c] = NoTool]
    /\ mode' = [mode EXCEPT ![inside[c]] = "Open"]
    /\ cooled' = [cooled EXCEPT ![inside[c]] = NoCooling]

\* ... or closes a half-open one.
LeaveClosing(c) ==
    /\ inside[c] # NoTool
    /\ mode[inside[c]] = "HalfOpen"
    /\ inside' = [inside EXCEPT ![c] = NoTool]
    /\ mode' = [mode EXCEPT ![inside[c]] = "Closed"]
    /\ UNCHANGED cooled

\* Time passes: some open gates become ready, none becomes unready.
Cool ==
    /\ \E ready \in SUBSET {t \in Tools : mode[t] = "Open"} :
          cooled' = [t \in Tools |-> cooled[t] \/ t \in ready]
    /\ UNCHANGED <<mode, inside>>

GateNext ==
    \/ \E c \in Callers, t \in Tools : Pass(c, t) \/ Probe(c, t)
    \/ \E c \in Callers : LeaveQuietly(c) \/ LeaveOpening(c) \/ LeaveClosing(c)
    \/ Cool

GateSpec == GateInit /\ [][GateNext]_gateVars
=============================================================================
