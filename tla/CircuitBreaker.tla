--------------------------- MODULE CircuitBreaker ---------------------------
(***************************************************************************)
(* The per-tool circuit-breaker layer                                      *)
(* (crates/chuk-tool-runtime/src/layers/circuit_breaker.rs).               *)
(*                                                                         *)
(* Concurrent callers go through CircuitBreakerLayer::call_tool.  The      *)
(* breaker of a tool is locked twice per call, once around try_acquire and *)
(* once around record_success / record_failure followed by release_probe;  *)
(* between the two the call is inside `self.inner.call_tool(..).await`.    *)
(* These two critical sections are the atomic steps Admit and Complete.    *)
(* The future of a call can also be dropped while it waits (Cancel), which *)
(* skips the second critical section altogether.                           *)
(***************************************************************************)
EXTENDS BreakerState, FiniteSets

CONSTANTS
    Tools,   \* tool names, the keys of the map of breakers
    Callers, \* tasks; each one makes calls one after the other
    NoTool   \* what running[c] holds while c makes no call

ASSUME NoToolAssumption == NoTool \notin Tools

VARIABLES
    breakers, \* the layer's map: one Breaker per tool
    running,  \* the tool a caller is inside inner.call_tool for, or NoTool
    healthy,  \* environment: the tools that will not fail any more
    probes,   \* history: the admitted, unfinished probes of the current
              \* HALF_OPEN period of each tool
    lost,     \* history: how many probes of that period were cancelled
    streak    \* history: failures in a row since the breaker last closed

vars == <<breakers, running, healthy, probes, lost, streak>>

\* The history streak after a call on breaker b has completed, when it was n
\* before (capped as the count).
Streak(b, ok, n) ==
    IF ok \/ b.state # "Closed" THEN 0
    ELSE IF n + 1 > CountCap THEN n ELSE n + 1

-----------------------------------------------------------------------------
(* CircuitBreakerLayer::call_tool, one action per critical section.        *)

TypeOK ==
    /\ breakers \in [Tools -> Breaker]
    /\ running \in [Callers -> Tools \cup {NoTool}]
    /\ healthy \subseteq Tools
    /\ probes \in [Tools -> SUBSET Callers]
    /\ lost \in [Tools -> Nat]
    /\ streak \in [Tools -> 0 .. CountCap]

Init ==
    /\ breakers = [t \in Tools |-> NewBreaker]
    /\ running = [c \in Callers |-> NoTool]
    /\ healthy = {}
    /\ probes = [t \in Tools |-> {}]
    /\ lost = [t \in Tools |-> 0]
    /\ streak = [t \in Tools |-> 0]

\* breaker_for and try_acquire allow the call: it enters the inner invoker.
Admit(c, t) ==
    /\ running[c] = NoTool
    /\ Allowed(breakers[t])
    /\ breakers' = [breakers EXCEPT ![t] = Acquired(@)]
    /\ running' = [running EXCEPT ![c] = t]
    /\ probes' = [probes EXCEPT ![t] =
                     IF breakers[t].state = "Closed" THEN @ ELSE @ \cup {c}]
    /\ UNCHANGED <<healthy, lost, streak>>

\* try_acquire refuses: the caller gets the short-circuit error at once.
Reject(c, t) ==
    /\ running[c] = NoTool
    /\ ~Allowed(breakers[t])
    /\ UNCHANGED vars

\* The inner invoker answered: the outcome is recorded, the slot released.
Complete(c, ok) ==
    LET t == running[c]
        b == breakers[t]
        a == AfterCall(b, ok)
    IN  /\ t # NoTool
        /\ ok \/ t \notin healthy
        /\ breakers' = [breakers EXCEPT ![t] = a]
        /\ running' = [running EXCEPT ![c] = NoTool]
        /\ probes' = [probes EXCEPT ![t] =
                         IF a.state = "HalfOpen" THEN @ \ {c} ELSE {}]
        /\ lost' = [lost EXCEPT ![t] = IF a.state = "HalfOpen" THEN @ ELSE 0]
        /\ streak' = [streak EXCEPT ![t] = Streak(b, ok, @)]
        /\ UNCHANGED healthy

\* The future is dropped at the await on the inner invoker: a wall-clock
\* timeout, an aborted task or a cancelled Python awaitable above the layer.
Cancel(c) ==
    /\ running[c] # NoTool
    /\ running' = [running EXCEPT ![c] = NoTool]
    /\ probes' = [probes EXCEPT ![running[c]] = @ \ {c}]
    /\ lost' = [lost EXCEPT ![running[c]] =
                   IF c \in probes[running[c]] THEN @ + 1 ELSE @]
    /\ UNCHANGED <<breakers, healthy, streak>>

\* One unit of time: every breaker that is OPEN gets older.
Tick ==
    LET Ages(t) == /\ breakers[t].state = "Open"
                   /\ breakers[t].opened_at # NotOpened
                   /\ breakers[t].opened_at < ResetTimeout
    IN  /\ \E t \in Tools : Ages(t)
        /\ breakers' = [t \in Tools |->
                          IF Ages(t) THEN [breakers[t] EXCEPT !.opened_at = @ + 1]
                                     ELSE breakers[t]]
        /\ UNCHANGED <<running, healthy, probes, lost, streak>>

\* The server behind t recovers for good.
Heal(t) ==
    /\ t \notin healthy
    /\ healthy' = healthy \cup {t}
    /\ UNCHANGED <<breakers, running, probes, lost, streak>>

Next ==
    \/ \E c \in Callers, t \in Tools : Admit(c, t) \/ Reject(c, t)
    \/ \E c \in Callers, ok \in BOOLEAN : Complete(c, ok)
    \/ \E c \in Callers : Cancel(c)
    \/ Tick
    \/ \E t \in Tools : Heal(t)

Spec == Init /\ [][Next]_vars

\* Time passes, an admitted call is answered (McpInvoker bounds it with the
\* call's timeout), and some caller keeps asking for every tool.
Fairness ==
    /\ WF_vars(Tick)
    /\ \A c \in Callers : WF_vars(\E ok \in BOOLEAN : Complete(c, ok))
    /\ \A t \in Tools : WF_vars(\E c \in Callers : Admit(c, t))

FairSpec == Spec /\ Fairness

-----------------------------------------------------------------------------
(* Properties.                                                             *)

\* While a breaker is CLOSED its failure_count is exactly the number of
\* failures completed in a row since it closed, and stays below the threshold:
\* no interleaving of completions lets failures of an earlier life of the
\* breaker count, or lets the threshold pass without a trip
\* (record_success, record_failure).
ClosedBelowThreshold ==
    \A t \in Tools : breakers[t].state = "Closed" =>
        /\ breakers[t].failure_count = streak[t]
        /\ streak[t] = 0 \/ streak[t] < FailureThreshold

\* Nothing of a HALF_OPEN period outlives it: outside HALF_OPEN no success is
\* counted and no slot is taken, inside it the breaker has not yet collected
\* the successes that close it (try_acquire, record_*, release_probe).
ProbePeriodsAreFresh ==
    \A t \in Tools :
        LET b == breakers[t]
        IN  IF b.state = "HalfOpen"
            THEN b.success_count = 0 \/ b.success_count < SuccessThreshold
            ELSE b.success_count = 0 /\ b.half_open_calls = 0 /\ probes[t] = {}

\* Every taken slot belongs to a probe of the current period that will still
\* give it back, or to one that was cancelled: no other interleaving loses a
\* slot (try_acquire, release_probe).
SlotsAccounted ==
    \A t \in Tools :
        /\ breakers[t].half_open_calls <= Cardinality(probes[t]) + lost[t]
        /\ \A c \in probes[t] : running[c] = t

\* An OPEN breaker stays OPEN for its whole reset_timeout: a straggler that
\* was admitted earlier neither closes it nor restarts the window, whatever
\* its outcome (the OPEN arms of try_acquire and record_*).
OpenWaitsOutReset ==
    [][\A t \in Tools : breakers[t].state = "Open" =>
          LET b == breakers[t]
              n == breakers'[t]
          IN  \/ n.state = "Open" /\ n.opened_at >= b.opened_at
              \/ n.state = "HalfOpen" /\ ResetElapsed(b)]_vars

\* A CLOSED breaker trips only on an unbroken run of failure_threshold
\* failures, all of them completed since it closed (record_failure).
TripsOnlyAfterRun ==
    [][\A t \in Tools :
          breakers[t].state = "Closed" /\ breakers'[t].state # "Closed" =>
              /\ breakers'[t].state = "Open"
              /\ streak'[t] >= FailureThreshold]_vars

\* A HALF_OPEN period ends, its probes close the breaker or reopen it, unless
\* cancelled probes hold slots of it for ever (try_acquire, release_probe).
HalfOpenResolves ==
    \A t \in Tools :
        \/ breakers[t].state = "HalfOpen" ~> breakers[t].state # "HalfOpen"
        \/ <>[](lost[t] > 0)

\* Once the server behind a tool has recovered, the breaker of the tool closes
\* for good, with the same exception.
ClosesUnlessCancelled ==
    \A t \in Tools :
        \/ [](t \in healthy => <>[](breakers[t].state = "Closed"))
        \/ <>[](lost[t] > 0)

\* The same without the exception: the layer gives a tool that keeps failing
\* "time to recover" (circuit_breaker.rs:3-4), it does not cut it off.
EventuallyCloses ==
    \A t \in Tools : [](t \in healthy => <>[](breakers[t].state = "Closed"))

\* The layer keeps the promise of BreakerGate.
Gate == INSTANCE BreakerGate WITH
    mode      <- [t \in Tools |-> breakers[t].state],
    cooled    <- [t \in Tools |-> breakers[t].state = "Open"
                                  /\ ResetElapsed(breakers[t])],
    inside    <- running,
    NoCooling <- ResetTimeout = 0

\* Every step of the layer is a step of the gate or a stutter.
ImplementsGate == Gate!GateSpec

\* At most half_open_max_calls probes run at once in HALF_OPEN
\* (config.rs:147).
ProbesBounded ==
    \A t \in Tools : Cardinality(probes[t]) <= HalfOpenMaxCalls
=============================================================================
