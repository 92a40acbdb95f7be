------------------------ MODULE CircuitBreakerProofs ------------------------
(***************************************************************************)
(* Proofs about CircuitBreaker for every number of tools and callers and   *)
(* every configuration, with calls cancelled at any time.                  *)
(***************************************************************************)
EXTENDS CircuitBreaker, FiniteSetTheorems, TLAPS

-----------------------------------------------------------------------------
(* The methods of Breaker keep its type.                                   *)

\* A new breaker is well typed.
LEMMA NewBreakerType == NewBreaker \in Breaker
BY ThresholdAssumption, CapAssumption DEF NewBreaker, Breaker, CircuitState, NotOpened

\* try_acquire keeps the type.
LEMMA AcquiredType ==
    ASSUME NEW b \in Breaker
    PROVE  Acquired(b) \in Breaker
<1> USE ThresholdAssumption, CapAssumption DEF Acquired, Breaker, CircuitState, NotOpened
<1>1. CASE b.state = "Closed"
  BY <1>1
<1>2. CASE b.state = "HalfOpen"
  BY <1>2
<1>3. CASE b.state = "Open"
  BY <1>3
<1> QED BY <1>1, <1>2, <1>3

\* record_success keeps the type.
LEMMA RecordSuccessType ==
    ASSUME NEW b \in Breaker
    PROVE  RecordSuccess(b) \in Breaker
BY ThresholdAssumption, CapAssumption, NewBreakerType
   DEF RecordSuccess, Breaker, CircuitState, NotOpened

\* Breaker::open keeps the type.
LEMMA OpenedType ==
    ASSUME NEW b \in Breaker
    PROVE  Opened(b) \in Breaker
<1>1. 0 \in NotOpened .. ResetTimeout
  BY ThresholdAssumption DEF NotOpened
<1>2. "Open" \in CircuitState
  BY DEF CircuitState
<1> QED BY <1>1, <1>2 DEF Opened, Breaker

\* record_failure keeps the type.
LEMMA RecordFailureType ==
    ASSUME NEW b \in Breaker
    PROVE  RecordFailure(b) \in Breaker
<1> DEFINE n       == b.failure_count + 1
           counted == [b EXCEPT !.failure_count = IF n > CountCap THEN @ ELSE n]
           cleared == [counted EXCEPT !.success_count = 0, !.half_open_calls = 0]
<1>1. counted \in Breaker
  BY CapAssumption DEF Breaker
<1>2. cleared \in Breaker
  BY <1>1 DEF Breaker
<1>3. Opened(counted) \in Breaker /\ Opened(cleared) \in Breaker
  BY <1>1, <1>2, OpenedType
<1>4. b.state \in {"Closed", "HalfOpen", "Open"}
  BY DEF Breaker, CircuitState
<1>5. RecordFailure(b) \in {counted, Opened(counted), Opened(cleared)}
  <2> HIDE DEF n
  <2>1. CASE b.state = "Closed"
    BY <2>1 DEF RecordFailure, n
  <2>2. CASE b.state = "HalfOpen"
    BY <2>2 DEF RecordFailure, n
  <2>3. CASE b.state = "Open"
    BY <2>3 DEF RecordFailure, n
  <2> QED BY <1>4, <2>1, <2>2, <2>3
<1> QED BY <1>1, <1>3, <1>5

\* release_probe keeps the type.
LEMMA ReleaseProbeType ==
    ASSUME NEW b \in Breaker
    PROVE  ReleaseProbe(b) \in Breaker
BY ThresholdAssumption, CapAssumption DEF ReleaseProbe, Breaker, CircuitState, NotOpened

\* So does the second critical section as a whole.
LEMMA AfterCallType ==
    ASSUME NEW b \in Breaker, NEW ok \in BOOLEAN
    PROVE  AfterCall(b, ok) \in Breaker
BY RecordSuccessType, RecordFailureType, ReleaseProbeType DEF AfterCall

-----------------------------------------------------------------------------
(* What the second critical section does, case by case.                    *)

\* CLOSED and the call succeeded: the failures are forgotten.
LEMMA ClosedSuccess ==
    ASSUME NEW b \in Breaker, b.state = "Closed"
    PROVE  LET a == AfterCall(b, TRUE)
           IN  /\ a.state = "Closed" /\ a.failure_count = 0
               /\ a.success_count = b.success_count
               /\ a.half_open_calls = b.half_open_calls
BY DEF AfterCall, RecordSuccess, ReleaseProbe, Breaker

\* CLOSED and the call failed: one more failure, or the trip.
LEMMA ClosedFailure ==
    ASSUME NEW b \in Breaker, b.state = "Closed"
    PROVE  LET a == AfterCall(b, FALSE)
               n == b.failure_count + 1
           IN  /\ a.success_count = b.success_count
               /\ a.half_open_calls = b.half_open_calls
               /\ \/ n >= FailureThreshold /\ a.state = "Open" /\ a.opened_at = 0
                  \/ /\ n < FailureThreshold /\ a.state = "Closed"
                     /\ a.failure_count = n
<1> DEFINE n       == b.failure_count + 1
           counted == [b EXCEPT !.failure_count = IF n > CountCap THEN @ ELSE n]
<1>1. CASE n >= FailureThreshold
  <2>1. RecordFailure(b) = Opened(counted)
    BY <1>1 DEF RecordFailure
  <2>2. AfterCall(b, FALSE) = Opened(counted)
    BY <2>1 DEF AfterCall, ReleaseProbe, Opened, Breaker
  <2> QED BY <1>1, <2>2 DEF Opened, Breaker
<1>2. CASE ~(n >= FailureThreshold)
  <2>1. RecordFailure(b) = counted
    BY <1>2 DEF RecordFailure
  <2>2. AfterCall(b, FALSE) = counted
    BY <2>1 DEF AfterCall, ReleaseProbe, Breaker
  <2>3. n < FailureThreshold /\ ~(n > CountCap)
    BY <1>2, ThresholdAssumption, CapAssumption DEF Breaker
  <2> QED BY <2>2, <2>3 DEF Breaker
<1> QED BY <1>1, <1>2

\* OPEN: whatever a straggler reports, only the failure count may change.
LEMMA OpenStraggler ==
    ASSUME NEW b \in Breaker, b.state = "Open", NEW ok \in BOOLEAN
    PROVE  LET a == AfterCall(b, ok)
           IN  /\ a.state = "Open" /\ a.opened_at = b.opened_at
               /\ a.success_count = b.success_count
               /\ a.half_open_calls = b.half_open_calls
<1>1. CASE ok
  BY <1>1 DEF AfterCall, RecordSuccess, ReleaseProbe, Breaker
<1>2. CASE ~ok
  BY <1>2 DEF AfterCall, RecordFailure, ReleaseProbe, Breaker
<1> QED BY <1>1, <1>2

\* HALF_OPEN and success: the breaker closes, or counts it and frees a slot.
LEMMA HalfOpenSuccess ==
    ASSUME NEW b \in Breaker, b.state = "HalfOpen"
    PROVE  LET a == AfterCall(b, TRUE)
           IN  \/ a = NewBreaker
               \/ /\ a.state = "HalfOpen"
                  /\ a.success_count = b.success_count + 1
                  /\ a.success_count < SuccessThreshold
                  /\ a.half_open_calls =
                       IF b.half_open_calls > 0 THEN b.half_open_calls - 1 ELSE 0
<1>1. CASE b.success_count + 1 >= SuccessThreshold
  BY <1>1 DEF AfterCall, RecordSuccess, ReleaseProbe, NewBreaker
<1>2. CASE ~(b.success_count + 1 >= SuccessThreshold)
  <2> DEFINE r == [b EXCEPT !.success_count = @ + 1]
  <2>1. RecordSuccess(b) = r
    BY <1>2 DEF RecordSuccess
  <2>2. /\ r.state = "HalfOpen" /\ r.half_open_calls = b.half_open_calls
        /\ r.success_count = b.success_count + 1
        /\ r.success_count < SuccessThreshold
    BY <1>2, ThresholdAssumption DEF Breaker
  <2>3. r \in Breaker
    BY DEF Breaker
  <2>4. AfterCall(b, TRUE) = ReleaseProbe(r)
    BY <2>1 DEF AfterCall
  <2> HIDE DEF r
  <2>5. CASE r.half_open_calls > 0
    BY <2>2, <2>3, <2>4, <2>5 DEF ReleaseProbe, Breaker
  <2>6. CASE ~(r.half_open_calls > 0)
    <3>1. ReleaseProbe(r) = r
      BY <2>6 DEF ReleaseProbe
    <3>2. r.half_open_calls = 0
      BY <2>3, <2>6 DEF Breaker
    <3> QED BY <2>2, <2>4, <2>6, <3>1, <3>2
  <2> QED BY <2>5, <2>6
<1> QED BY <1>1, <1>2

\* HALF_OPEN and failure: back to OPEN with a restarted window.
LEMMA HalfOpenFailure ==
    ASSUME NEW b \in Breaker, b.state = "HalfOpen"
    PROVE  LET a == AfterCall(b, FALSE)
           IN  /\ a.state = "Open" /\ a.opened_at = 0
               /\ a.success_count = 0 /\ a.half_open_calls = 0
<1> DEFINE n       == b.failure_count + 1
           counted == [b EXCEPT !.failure_count = IF n > CountCap THEN @ ELSE n]
           cleared == [counted EXCEPT !.success_count = 0, !.half_open_calls = 0]
<1>1. RecordFailure(b) = Opened(cleared)
  BY DEF RecordFailure
<1>2. AfterCall(b, FALSE) = Opened(cleared)
  BY <1>1 DEF AfterCall, ReleaseProbe, Opened, Breaker
<1> QED BY <1>2 DEF Opened, Breaker

-----------------------------------------------------------------------------
\* Type correctness: every reachable state has its variables in their sets.
THEOREM TypeCorrect == Spec => []TypeOK
<1>1. Init => TypeOK
  BY ThresholdAssumption, CapAssumption, NewBreakerType DEF Init, TypeOK
<1>2. TypeOK /\ [Next]_vars => TypeOK'
  <2> SUFFICES ASSUME TypeOK, [Next]_vars PROVE TypeOK'
    OBVIOUS
  <2> USE ThresholdAssumption, CapAssumption DEF TypeOK
  <2>1. ASSUME NEW c \in Callers, NEW t \in Tools, Admit(c, t) PROVE TypeOK'
    BY <2>1, AcquiredType DEF Admit
  <2>2. ASSUME NEW c \in Callers, NEW t \in Tools, Reject(c, t) PROVE TypeOK'
    BY <2>2 DEF Reject, vars
  <2>3. ASSUME NEW c \in Callers, NEW ok \in BOOLEAN, Complete(c, ok) PROVE TypeOK'
    <3> DEFINE t == running[c]
               a == AfterCall(breakers[t], ok)
    <3>1. t \in Tools
      BY <2>3 DEF Complete
    <3>2. a \in Breaker
      BY <3>1, AfterCallType
    <3>3. breakers' \in [Tools -> Breaker]
      BY <2>3, <3>1, <3>2 DEF Complete
    <3>4. /\ running' \in [Callers -> Tools \cup {NoTool}]
          /\ healthy' \subseteq Tools
          /\ probes' \in [Tools -> SUBSET Callers]
          /\ lost' \in [Tools -> Nat]
      BY <2>3, <3>1 DEF Complete
    <3>5. streak' \in [Tools -> 0 .. CountCap]
      BY <2>3, <3>1 DEF Complete, Streak
    <3> QED BY <3>3, <3>4, <3>5
  <2>4. ASSUME NEW c \in Callers, Cancel(c) PROVE TypeOK'
    BY <2>4 DEF Cancel
  <2>5. ASSUME Tick PROVE TypeOK'
    BY <2>5 DEF Tick, Breaker, NotOpened
  <2>6. ASSUME NEW t \in Tools, Heal(t) PROVE TypeOK'
    BY <2>6 DEF Heal
  <2>7. CASE UNCHANGED vars
    BY <2>7 DEF vars
  <2> QED BY <2>1, <2>2, <2>3, <2>4, <2>5, <2>6, <2>7 DEF Next
<1> QED BY <1>1, <1>2, PTL DEF Spec

-----------------------------------------------------------------------------
(* The counters and the state of a breaker agree.                          *)

\* The part of the invariant about one tool: n failures in a row, and the
\* probes p of the current period.
Coherent(b, n, p) ==
    /\ b.state = "Closed" => b.failure_count = n /\ (n = 0 \/ n < FailureThreshold)
    /\ b.state = "HalfOpen" => b.success_count = 0 \/ b.success_count < SuccessThreshold
    /\ b.state # "HalfOpen" => b.success_count = 0 /\ b.half_open_calls = 0 /\ p = {}

\* The inductive invariant behind the safety properties.
Inv == TypeOK /\ \A t \in Tools : Coherent(breakers[t], streak[t], probes[t])

\* The invariant holds initially.
LEMMA InvInit == Init => Inv
BY ThresholdAssumption, CapAssumption, NewBreakerType
   DEF Init, Inv, TypeOK, Coherent, NewBreaker

\* Admitting a call keeps one breaker coherent.
LEMMA AcquiredCoherent ==
    ASSUME NEW b \in Breaker, NEW n, NEW p, NEW q, Coherent(b, n, p),
           b.state = "Closed" => q = p
    PROVE  Coherent(Acquired(b), n, q)
<1>1. CASE b.state = "Closed"
  BY <1>1 DEF Coherent, Acquired
<1>2. CASE b.state = "HalfOpen"
  BY <1>2 DEF Coherent, Acquired, Breaker
<1>3. CASE b.state = "Open"
  BY <1>3 DEF Coherent, Acquired, Breaker
<1> QED BY <1>1, <1>2, <1>3 DEF Breaker, CircuitState

\* So does recording an outcome, whatever the state the call finds.
LEMMA AfterCallCoherent ==
    ASSUME NEW b \in Breaker, NEW ok \in BOOLEAN, NEW n \in 0 .. CountCap,
           NEW p, NEW q, Coherent(b, n, p),
           AfterCall(b, ok).state # "HalfOpen" => q = {}
    PROVE  Coherent(AfterCall(b, ok), Streak(b, ok, n), q)
<1>1. CASE b.state = "Closed" /\ ok
  BY <1>1, ClosedSuccess DEF Coherent, Streak
<1>2. CASE b.state = "Closed" /\ ~ok
  <2> DEFINE a == AfterCall(b, FALSE)
             m == IF n + 1 > CountCap THEN n ELSE n + 1
  <2>1. /\ a.success_count = 0 /\ a.half_open_calls = 0
        /\ \/ n + 1 >= FailureThreshold /\ a.state = "Open"
           \/ n + 1 < FailureThreshold /\ a.state = "Closed" /\ a.failure_count = n + 1
    BY <1>2, ClosedFailure DEF Coherent
  <2>2. n + 1 < FailureThreshold => m = n + 1
    BY ThresholdAssumption, CapAssumption
  <2>3. a = AfterCall(b, ok)
    BY <1>2
  <2> HIDE DEF a
  <2>4. Coherent(a, m, q)
    BY <2>1, <2>2, <2>3 DEF Coherent
  <2>5. m = Streak(b, ok, n)
    BY <1>2 DEF Streak
  <2> QED BY <2>3, <2>4, <2>5
<1>3. CASE b.state = "Open"
  BY <1>3, OpenStraggler DEF Coherent
<1>4. CASE b.state = "HalfOpen" /\ ok
  <2> DEFINE a == AfterCall(b, TRUE)
  <2>1. a = AfterCall(b, ok) /\ Streak(b, ok, n) = 0
    BY <1>4 DEF Streak
  <2>2. CASE a = NewBreaker
    <3> HIDE DEF a
    <3>1. /\ a.state = "Closed" /\ a.failure_count = 0
          /\ a.success_count = 0 /\ a.half_open_calls = 0
      BY <2>2 DEF NewBreaker
    <3>2. Coherent(a, 0, q)
      BY <2>1, <3>1 DEF Coherent
    <3> QED BY <2>1, <3>2
  <2>3. CASE a.state = "HalfOpen" /\ a.success_count < SuccessThreshold
    BY <2>1, <2>3 DEF Coherent
  <2> QED BY <1>4, <2>2, <2>3, HalfOpenSuccess
<1>5. CASE b.state = "HalfOpen" /\ ~ok
  BY <1>5, HalfOpenFailure DEF Coherent
<1> QED BY <1>1, <1>2, <1>3, <1>4, <1>5 DEF Breaker, CircuitState

\* Every step keeps the invariant.
LEMMA InvNext == Inv /\ TypeOK' /\ [Next]_vars => Inv'
<1> SUFFICES ASSUME Inv, TypeOK', [Next]_vars,
                    NEW u \in Tools
             PROVE  Coherent(breakers[u], streak[u], probes[u])'
  BY DEF Inv
<1> USE DEF Inv, TypeOK
<1>0. Coherent(breakers[u], streak[u], probes[u])
  OBVIOUS
<1>1. ASSUME NEW c \in Callers, NEW t \in Tools, Admit(c, t)
      PROVE  Coherent(breakers[u], streak[u], probes[u])'
  <2>1. CASE u = t
    <3>1. /\ breakers'[u] = Acquired(breakers[u])
          /\ streak'[u] = streak[u]
          /\ breakers[u].state = "Closed" => probes'[u] = probes[u]
      BY <1>1, <2>1 DEF Admit
    <3> QED BY <1>0, <3>1, AcquiredCoherent
  <2>2. CASE u # t
    BY <1>0, <1>1, <2>2 DEF Admit
  <2> QED BY <2>1, <2>2
<1>2. ASSUME NEW c \in Callers, NEW ok \in BOOLEAN, Complete(c, ok)
      PROVE  Coherent(breakers[u], streak[u], probes[u])'
  <2>1. running[c] \in Tools
    BY <1>2 DEF Complete
  <2>2. CASE u = running[c]
    <3> DEFINE b == breakers[u]
    <3>1. /\ breakers'[u] = AfterCall(b, ok)
          /\ streak'[u] = Streak(b, ok, streak[u])
          /\ AfterCall(b, ok).state # "HalfOpen" => probes'[u] = {}
      BY <1>2, <2>1, <2>2 DEF Complete
    <3>2. b \in Breaker /\ streak[u] \in 0 .. CountCap
      OBVIOUS
    <3>3. Coherent(AfterCall(b, ok), Streak(b, ok, streak[u]), probes'[u])
      BY <1>0, <3>1, <3>2, AfterCallCoherent
    <3> QED BY <3>1, <3>3
  <2>3. CASE u # running[c]
    BY <1>0, <1>2, <2>1, <2>3 DEF Complete
  <2> QED BY <2>2, <2>3
<1>3. ASSUME NEW c \in Callers, Cancel(c)
      PROVE  Coherent(breakers[u], streak[u], probes[u])'
  BY <1>0, <1>3 DEF Cancel, Coherent
<1>4. ASSUME Tick PROVE Coherent(breakers[u], streak[u], probes[u])'
  BY <1>0, <1>4 DEF Tick, Coherent, Breaker
<1>5. ASSUME NEW t \in Tools, Heal(t)
      PROVE  Coherent(breakers[u], streak[u], probes[u])'
  BY <1>0, <1>5 DEF Heal
<1>6. CASE UNCHANGED vars
  BY <1>0, <1>6 DEF vars
<1> QED BY <1>1, <1>2, <1>3, <1>4, <1>5, <1>6 DEF Next, Reject

\* The inductive invariant is an invariant.
THEOREM Invariance == Spec => []Inv
<1>1. Init => Inv
  BY InvInit
<1>2. Inv /\ TypeOK' /\ [Next]_vars => Inv'
  BY InvNext
<1> QED BY <1>1, <1>2, TypeCorrect, PTL DEF Spec

\* While CLOSED, a breaker counts exactly the failures completed in a row
\* since it closed, and stays below the threshold.
THEOREM ClosedBelowThresholdHolds == Spec => []ClosedBelowThreshold
<1>1. Inv => ClosedBelowThreshold
  BY DEF Inv, Coherent, ClosedBelowThreshold
<1> QED BY <1>1, Invariance, PTL

\* Nothing of a HALF_OPEN period outlives it.
THEOREM ProbePeriodsAreFreshHolds == Spec => []ProbePeriodsAreFresh
<1>1. Inv => ProbePeriodsAreFresh
  BY DEF Inv, Coherent, ProbePeriodsAreFresh
<1> QED BY <1>1, Invariance, PTL

-----------------------------------------------------------------------------
(* What a step may never do.                                               *)

\* A step of the layer changes at most one breaker, by admitting a call for
\* its tool or by recording the outcome of one; time only ages OPEN ones.
LEMMA BreakerSteps ==
    ASSUME TypeOK, [Next]_vars, NEW u \in Tools
    PROVE  \/ breakers'[u] = breakers[u] /\ streak'[u] = streak[u]
           \/ /\ Allowed(breakers[u])
              /\ breakers'[u] = Acquired(breakers[u])
              /\ streak'[u] = streak[u]
           \/ \E ok \in BOOLEAN :
                /\ breakers'[u] = AfterCall(breakers[u], ok)
                /\ streak'[u] = Streak(breakers[u], ok, streak[u])
           \/ /\ breakers[u].state = "Open"
              /\ breakers[u].opened_at < ResetTimeout
              /\ breakers'[u] = [breakers[u] EXCEPT !.opened_at = @ + 1]
              /\ streak'[u] = streak[u]
<1> USE DEF TypeOK
<1>1. ASSUME NEW c \in Callers, NEW t \in Tools, Admit(c, t)
      PROVE  \/ breakers'[u] = breakers[u] /\ streak'[u] = streak[u]
             \/ /\ Allowed(breakers[u])
                /\ breakers'[u] = Acquired(breakers[u])
                /\ streak'[u] = streak[u]
  BY <1>1 DEF Admit
<1>2. ASSUME NEW c \in Callers, NEW ok \in BOOLEAN, Complete(c, ok)
      PROVE  \/ breakers'[u] = breakers[u] /\ streak'[u] = streak[u]
             \/ /\ breakers'[u] = AfterCall(breakers[u], ok)
                /\ streak'[u] = Streak(breakers[u], ok, streak[u])
  BY <1>2 DEF Complete
<1>3. ASSUME NEW c \in Callers, Cancel(c)
      PROVE  breakers'[u] = breakers[u] /\ streak'[u] = streak[u]
  BY <1>3 DEF Cancel
<1>4. ASSUME Tick
      PROVE  \/ breakers'[u] = breakers[u] /\ streak'[u] = streak[u]
             \/ /\ breakers[u].state = "Open"
                /\ breakers[u].opened_at < ResetTimeout
                /\ breakers'[u] = [breakers[u] EXCEPT !.opened_at = @ + 1]
                /\ streak'[u] = streak[u]
  BY <1>4 DEF Tick
<1>5. ASSUME NEW t \in Tools, Heal(t)
      PROVE  breakers'[u] = breakers[u] /\ streak'[u] = streak[u]
  BY <1>5 DEF Heal
<1>6. CASE UNCHANGED vars
  BY <1>6 DEF vars
<1> QED BY <1>1, <1>2, <1>3, <1>4, <1>5, <1>6 DEF Next, Reject

\* An OPEN breaker waits out its whole reset_timeout: no straggler closes it
\* or restarts its window.
THEOREM OpenWaitsOutResetHolds == Spec => OpenWaitsOutReset
<1> DEFINE Waits(u) ==
      breakers[u].state = "Open" =>
          \/ breakers'[u].state = "Open" /\ breakers'[u].opened_at >= breakers[u].opened_at
          \/ breakers'[u].state = "HalfOpen" /\ ResetElapsed(breakers[u])
<1>1. ASSUME TypeOK, [Next]_vars, NEW u \in Tools PROVE Waits(u)
  <2> SUFFICES ASSUME breakers[u].state = "Open" PROVE Waits(u)
    OBVIOUS
  <2>0. breakers[u] \in Breaker
    BY <1>1 DEF TypeOK
  <2>1. CASE breakers'[u] = breakers[u]
    BY <2>0, <2>1, ThresholdAssumption DEF Breaker, NotOpened
  <2>2. CASE Allowed(breakers[u]) /\ breakers'[u] = Acquired(breakers[u])
    BY <2>0, <2>2 DEF Allowed, Acquired, Breaker
  <2>3. ASSUME NEW ok \in BOOLEAN, breakers'[u] = AfterCall(breakers[u], ok)
        PROVE  Waits(u)
    BY <2>0, <2>3, OpenStraggler, ThresholdAssumption DEF Breaker, NotOpened
  <2>4. CASE breakers'[u] = [breakers[u] EXCEPT !.opened_at = @ + 1]
    BY <2>0, <2>4, ThresholdAssumption DEF Breaker, NotOpened
  <2> QED BY <1>1, <2>1, <2>2, <2>3, <2>4, BreakerSteps
<1>2. TypeOK /\ [Next]_vars => [\A t \in Tools : Waits(t)]_vars
  BY <1>1
<1> QED BY <1>2, TypeCorrect, PTL DEF Spec, OpenWaitsOutReset

\* A CLOSED breaker trips only on an unbroken run of failure_threshold
\* failures completed since it closed.
THEOREM TripsOnlyAfterRunHolds == Spec => TripsOnlyAfterRun
<1> DEFINE Trips(u) ==
      breakers[u].state = "Closed" /\ breakers'[u].state # "Closed" =>
          /\ breakers'[u].state = "Open"
          /\ streak'[u] >= FailureThreshold
<1>1. ASSUME Inv, [Next]_vars, NEW u \in Tools PROVE Trips(u)
  <2> SUFFICES ASSUME breakers[u].state = "Closed", breakers'[u].state # "Closed"
               PROVE  breakers'[u].state = "Open" /\ streak'[u] >= FailureThreshold
    OBVIOUS
  <2>0. /\ breakers[u] \in Breaker /\ streak[u] \in 0 .. CountCap
        /\ breakers[u].failure_count = streak[u]
        /\ streak[u] = 0 \/ streak[u] < FailureThreshold
    BY <1>1 DEF Inv, TypeOK, Coherent
  <2>1. breakers'[u] # breakers[u] /\ breakers'[u] # Acquired(breakers[u])
    BY <2>0 DEF Acquired
  <2>2. PICK ok \in BOOLEAN : /\ breakers'[u] = AfterCall(breakers[u], ok)
                              /\ streak'[u] = Streak(breakers[u], ok, streak[u])
    BY <1>1, <2>1, BreakerSteps DEF Inv
  <2>3. ok = FALSE
    BY <2>0, <2>2, ClosedSuccess
  <2>4. breakers'[u].state = "Open" /\ streak[u] + 1 >= FailureThreshold
    BY <2>0, <2>2, <2>3, ClosedFailure
  <2>5. streak'[u] = streak[u] + 1
    BY <2>0, <2>2, <2>3, ThresholdAssumption, CapAssumption DEF Streak
  <2> QED BY <2>4, <2>5
<1>2. Inv /\ [Next]_vars => [\A t \in Tools : Trips(t)]_vars
  BY <1>1
<1> QED BY <1>2, Invariance, PTL DEF Spec, TripsOnlyAfterRun

-----------------------------------------------------------------------------
(* Slots.                                                                  *)

\* The part of SlotsAccounted about one tool.
SlotsOf(t) ==
    /\ breakers[t].half_open_calls <= Cardinality(probes[t]) + lost[t]
    /\ \A c \in probes[t] : running[c] = t

\* Every taken slot belongs to a running probe of the current period, which
\* will give it back, or to one that was cancelled (release_probe).
THEOREM SlotsAccountedHolds ==
    ASSUME IsFiniteSet(Callers)
    PROVE  Spec => []SlotsAccounted
<1> USE DEF SlotsAccounted
<1>0. \A S \in SUBSET Callers : IsFiniteSet(S) /\ Cardinality(S) \in Nat
  BY FS_Subset, FS_CardinalityType
<1>1. Init => SlotsAccounted
  BY FS_EmptySet DEF Init, NewBreaker
<1>2. Inv /\ TypeOK' /\ Inv' /\ SlotsAccounted /\ [Next]_vars => SlotsAccounted'
  <2> SUFFICES ASSUME Inv, TypeOK', Inv', SlotsAccounted, [Next]_vars, NEW u \in Tools
               PROVE  SlotsOf(u)'
    BY DEF SlotsOf
  <2> DEFINE b == breakers[u]
  <2>0. /\ b \in Breaker /\ Cardinality(probes[u]) \in Nat
        /\ probes[u] \in SUBSET Callers /\ IsFiniteSet(probes[u])
        /\ lost[u] \in Nat
        /\ b.half_open_calls <= Cardinality(probes[u]) + lost[u]
        /\ \A c \in probes[u] : running[c] = u
        /\ b.state # "HalfOpen" => b.half_open_calls = 0 /\ probes[u] = {}
    BY <1>0 DEF Inv, TypeOK, Coherent
  <2>1. ASSUME NEW c \in Callers, NEW t \in Tools, Admit(c, t)
        PROVE  SlotsOf(u)'
    <3>1. c \notin probes[u]
      BY <2>0, <2>1, NoToolAssumption DEF Admit
    <3>2. CASE u # t
      BY <2>0, <2>1, <3>1, <3>2 DEF Admit, SlotsOf, Inv, TypeOK
    <3>3. CASE u = t /\ b.state = "Closed"
      BY <2>0, <2>1, <3>1, <3>3 DEF Admit, SlotsOf, Inv, TypeOK, Acquired
    <3>4. CASE u = t /\ b.state # "Closed"
      <4>1. /\ breakers'[u] = Acquired(b) /\ probes'[u] = probes[u] \cup {c}
            /\ running' = [running EXCEPT ![c] = u] /\ lost' = lost
        BY <2>1, <3>4 DEF Admit, Inv, TypeOK
      <4>2. Cardinality(probes'[u]) = Cardinality(probes[u]) + 1
        <5>1. Cardinality(probes[u] \cup {c}) = Cardinality(probes[u]) + 1
          BY <2>0, <3>1, FS_AddElement
        <5> QED BY <4>1, <5>1
      <4>3. Acquired(b).half_open_calls <= Cardinality(probes[u]) + 1 + lost[u]
        <5>1. CASE b.state = "HalfOpen"
          <6>1. Acquired(b) = [b EXCEPT !.half_open_calls = @ + 1]
            BY <5>1 DEF Acquired
          <6>2. Acquired(b).half_open_calls = b.half_open_calls + 1
            BY <2>0, <6>1 DEF Breaker
          <6>3. b.half_open_calls \in Nat
            BY <2>0 DEF Breaker
          <6> QED BY <2>0, <6>2, <6>3
        <5>2. CASE b.state = "Open"
          <6>1. Acquired(b) = [b EXCEPT !.state = "HalfOpen", !.half_open_calls = 1,
                                        !.success_count = 0]
            BY <5>2 DEF Acquired
          <6>2. Acquired(b).half_open_calls = 1
            BY <2>0, <6>1 DEF Breaker
          <6> QED BY <2>0, <6>2
        <5> QED BY <2>0, <3>4, <5>1, <5>2 DEF Breaker, CircuitState
      <4>4. \A d \in probes'[u] : running'[d] = u
        <5>1. running \in [Callers -> Tools \cup {NoTool}]
          BY DEF Inv, TypeOK
        <5> QED BY <2>0, <4>1, <5>1
      <4> QED BY <4>1, <4>2, <4>3, <4>4 DEF SlotsOf
    <3> QED BY <3>2, <3>3, <3>4
  <2>2. ASSUME NEW c \in Callers, NEW ok \in BOOLEAN, Complete(c, ok)
        PROVE  SlotsOf(u)'
    <3>1. CASE u # running[c]
      BY <2>0, <2>2, <3>1 DEF Complete, SlotsOf, Inv, TypeOK
    <3>2. CASE u = running[c]
      <4> DEFINE a == AfterCall(b, ok)
      <4>1. /\ breakers'[u] = a
            /\ probes'[u] = IF a.state = "HalfOpen" THEN probes[u] \ {c} ELSE {}
            /\ lost'[u] = IF a.state = "HalfOpen" THEN lost[u] ELSE 0
            /\ running' = [running EXCEPT ![c] = NoTool]
        BY <2>2, <3>2 DEF Complete, Inv, TypeOK
      <4>2. CASE a.state # "HalfOpen"
        <5>1. breakers'[u].half_open_calls = 0 /\ probes'[u] = {} /\ lost'[u] = 0
          BY <4>1, <4>2 DEF Inv, Coherent
        <5> QED BY <5>1, FS_EmptySet DEF SlotsOf
      <4>3. CASE a.state = "HalfOpen"
        <5>1. /\ b.state = "HalfOpen" /\ ok = TRUE
              /\ a.half_open_calls = IF b.half_open_calls > 0
                                     THEN b.half_open_calls - 1 ELSE 0
          <6>1. b.state # "Closed"
            BY <2>0, <4>3, ClosedSuccess, ClosedFailure
          <6>2. b.state # "Open"
            BY <2>0, <4>3, OpenStraggler
          <6>3. b.state = "HalfOpen"
            BY <2>0, <6>1, <6>2 DEF Breaker, CircuitState
          <6>4. ok = TRUE
            BY <2>0, <4>3, <6>3, HalfOpenFailure
          <6>5. a # NewBreaker
            BY <4>3 DEF NewBreaker
          <6> QED BY <2>0, <6>3, <6>4, <6>5, HalfOpenSuccess
        <5>2. /\ Cardinality(probes'[u]) \in Nat
              /\ Cardinality(probes'[u]) >= Cardinality(probes[u]) - 1
          BY <1>0, <2>0, <4>1, <4>3, FS_RemoveElement
        <5>3. a.half_open_calls <= Cardinality(probes'[u]) + lost[u]
          <6> b.half_open_calls \in Nat
            BY <2>0 DEF Breaker
          <6> QED BY <2>0, <5>1, <5>2
        <5>4. \A d \in probes'[u] : running'[d] = u
          BY <2>0, <4>1, <4>3 DEF Inv, TypeOK
        <5> QED BY <4>1, <4>3, <5>3, <5>4 DEF SlotsOf
      <4> QED BY <4>2, <4>3
    <3> QED BY <3>1, <3>2
  <2>3. ASSUME NEW c \in Callers, Cancel(c) PROVE SlotsOf(u)'
    <3>1. CASE running[c] # u
      BY <2>0, <2>3, <3>1 DEF Cancel, SlotsOf, Inv, TypeOK
    <3>2. CASE running[c] = u
      <4>1. /\ breakers' = breakers /\ probes'[u] = probes[u] \ {c}
            /\ lost'[u] = IF c \in probes[u] THEN lost[u] + 1 ELSE lost[u]
            /\ running' = [running EXCEPT ![c] = NoTool]
        BY <2>3, <3>2 DEF Cancel, Inv, TypeOK
      <4>2. Cardinality(probes[u] \ {c}) =
              IF c \in probes[u] THEN Cardinality(probes[u]) - 1
                                 ELSE Cardinality(probes[u])
        BY <2>0, FS_RemoveElement
      <4>3. b.half_open_calls <= Cardinality(probes'[u]) + lost'[u]
        <5> b.half_open_calls \in Nat
          BY <2>0 DEF Breaker
        <5> QED BY <2>0, <4>1, <4>2
      <4>4. \A d \in probes'[u] : running'[d] = u
        BY <2>0, <4>1 DEF Inv, TypeOK
      <4> QED BY <4>1, <4>3, <4>4 DEF SlotsOf
    <3> QED BY <3>1, <3>2
  <2>4. ASSUME Tick PROVE SlotsOf(u)'
    BY <2>0, <2>4 DEF Tick, SlotsOf, Breaker, Inv, TypeOK
  <2>5. ASSUME NEW t \in Tools, Heal(t) PROVE SlotsOf(u)'
    BY <2>0, <2>5 DEF Heal, SlotsOf
  <2>6. CASE UNCHANGED vars
    BY <2>0, <2>6 DEF vars, SlotsOf
  <2> QED BY <2>1, <2>2, <2>3, <2>4, <2>5, <2>6 DEF Next, Reject
<1> QED BY <1>1, <1>2, TypeCorrect, Invariance, PTL DEF Spec

-----------------------------------------------------------------------------
(* The layer implements the gate.                                          *)

\* The gate's variables, as functions of the layer's.
Mode == [t \in Tools |-> breakers[t].state]
Cooled == [t \in Tools |-> breakers[t].state = "Open" /\ ResetElapsed(breakers[t])]

\* A step that changes the breaker of one tool only changes its mode and
\* whether it has cooled.
LEMMA OneGate ==
    ASSUME TypeOK, NEW u \in Tools, NEW b \in Breaker,
           breakers' = [breakers EXCEPT ![u] = b]
    PROVE  /\ Mode' = [Mode EXCEPT ![u] = b.state]
           /\ Cooled' = [Cooled EXCEPT ![u] = b.state = "Open" /\ ResetElapsed(b)]
BY DEF TypeOK, Mode, Cooled, ResetElapsed

\* Every step of the layer is a step of BreakerGate or leaves it unchanged:
\* only leaving callers close or open the gate, and an open gate admits only
\* after its reset_timeout.
THEOREM ImplementsGateHolds == Spec => ImplementsGate
<1> USE DEF Gate!GateNext, Gate!gateVars
<1>1. Init => Gate!GateInit
  <2> SUFFICES ASSUME Init PROVE Gate!GateInit
    OBVIOUS
  <2>1. \A t \in Tools : breakers[t].state = "Closed"
    BY DEF Init, NewBreaker
  <2>2. \A t \in Tools : (breakers[t].state = "Open" /\ ResetElapsed(breakers[t])) = FALSE
    BY <2>1
  <2>3. Mode = [t \in Tools |-> "Closed"]
    BY <2>1 DEF Mode
  <2>4. Cooled = [t \in Tools |-> FALSE]
    BY <2>2 DEF Cooled
  <2> QED BY <2>3, <2>4 DEF Init, Gate!GateInit, Mode, Cooled
<1>2. Inv /\ TypeOK' /\ [Next]_vars => [Gate!GateNext]_(Gate!gateVars)
  <2> SUFFICES ASSUME Inv, TypeOK', [Next]_vars
               PROVE  Gate!GateNext \/ UNCHANGED Gate!gateVars
    OBVIOUS
  <2>0. TypeOK /\ breakers \in [Tools -> Breaker] /\ breakers' \in [Tools -> Breaker]
    BY DEF Inv, TypeOK
  <2>1. ASSUME NEW c \in Callers, NEW t \in Tools, Admit(c, t)
        PROVE  Gate!Pass(c, t) \/ Gate!Probe(c, t)
    <3> DEFINE b == breakers[t]
               a == Acquired(b)
    <3>1. a \in Breaker /\ breakers' = [breakers EXCEPT ![t] = a]
      BY <2>0, <2>1, AcquiredType DEF Admit
    <3>2. /\ Mode' = [Mode EXCEPT ![t] = a.state]
          /\ Cooled' = [Cooled EXCEPT ![t] = a.state = "Open" /\ ResetElapsed(a)]
      BY <2>0, <3>1, OneGate
    <3>3. running[c] = NoTool /\ running' = [running EXCEPT ![c] = t]
      BY <2>1 DEF Admit
    <3>4. CASE b.state \in {"Closed", "HalfOpen"}
      <4>1. a.state = b.state
        BY <2>0, <3>4 DEF Acquired, Breaker
      <4>2. Mode' = Mode /\ Cooled' = Cooled
        BY <2>0, <3>2, <3>4, <4>1 DEF Mode, Cooled
      <4>3. Gate!Pass(c, t)
        BY <3>3, <3>4, <4>2 DEF Gate!Pass, Mode, Cooled
      <4> QED BY <4>3
    <3>5. CASE b.state = "Open"
      <4>1. a.state = "HalfOpen" /\ ResetElapsed(b)
        BY <2>0, <2>1, <3>5 DEF Admit, Allowed, Acquired, Breaker
      <4>2. /\ Mode' = [Mode EXCEPT ![t] = "HalfOpen"]
            /\ Cooled' = [Cooled EXCEPT ![t] = FALSE]
        BY <3>2, <4>1
      <4>3. Gate!Probe(c, t)
        BY <3>3, <3>5, <4>1, <4>2 DEF Gate!Probe, Mode, Cooled
      <4> QED BY <4>3
    <3> QED BY <2>0, <3>4, <3>5 DEF Breaker, CircuitState
  <2>2. ASSUME NEW c \in Callers, NEW ok \in BOOLEAN, Complete(c, ok)
        PROVE  Gate!LeaveQuietly(c) \/ Gate!LeaveOpening(c) \/ Gate!LeaveClosing(c)
    <3> DEFINE t == running[c]
               b == breakers[t]
               a == AfterCall(b, ok)
    <3>1. /\ t \in Tools /\ t # NoTool /\ b \in Breaker
          /\ a \in Breaker /\ breakers' = [breakers EXCEPT ![t] = a]
      BY <2>0, <2>2, AfterCallType DEF Complete, TypeOK
    <3>2. /\ Mode' = [Mode EXCEPT ![t] = a.state]
          /\ Cooled' = [Cooled EXCEPT ![t] = a.state = "Open" /\ ResetElapsed(a)]
      BY <2>0, <3>1, OneGate
    <3>3. running[c] # NoTool /\ running' = [running EXCEPT ![c] = NoTool]
      BY <2>2 DEF Complete
    <3>4. \/ b.state = a.state /\ b.state = "Open" /\ a.opened_at = b.opened_at
          \/ b.state = a.state /\ b.state # "Open"
          \/ b.state \in {"Closed", "HalfOpen"} /\ a.state = "Open" /\ a.opened_at = 0
          \/ b.state = "HalfOpen" /\ a.state = "Closed"
      <4>1. CASE b.state = "Closed"
        BY <3>1, <4>1, ClosedSuccess, ClosedFailure
      <4>2. CASE b.state = "Open"
        BY <3>1, <4>2, OpenStraggler
      <4>3. CASE b.state = "HalfOpen"
        <5>1. NewBreaker.state = "Closed"
          BY DEF NewBreaker
        <5> QED BY <3>1, <4>3, <5>1, HalfOpenSuccess, HalfOpenFailure
      <4> QED BY <3>1, <4>1, <4>2, <4>3 DEF Breaker, CircuitState
    <3> HIDE DEF a
    <3>5. CASE b.state = a.state
      <4>1. (a.state = "Open" /\ ResetElapsed(a)) = (b.state = "Open" /\ ResetElapsed(b))
        BY <3>4, <3>5 DEF ResetElapsed
      <4>2. Mode' = Mode /\ Cooled' = Cooled
        BY <3>1, <3>2, <3>5, <4>1 DEF Mode, Cooled
      <4>3. Gate!LeaveQuietly(c)
        BY <3>3, <4>2 DEF Gate!LeaveQuietly, Mode, Cooled
      <4> QED BY <4>3
    <3>6. CASE b.state \in {"Closed", "HalfOpen"} /\ a.state = "Open" /\ a.opened_at = 0
      <4>1. ResetElapsed(a) = (ResetTimeout = 0)
        BY <3>6, ThresholdAssumption DEF ResetElapsed, NotOpened
      <4>2. /\ Mode' = [Mode EXCEPT ![t] = "Open"]
            /\ Cooled' = [Cooled EXCEPT ![t] = ResetTimeout = 0]
        BY <3>2, <3>6, <4>1
      <4>3. Gate!LeaveOpening(c)
        BY <3>1, <3>3, <3>6, <4>2 DEF Gate!LeaveOpening, Mode, Cooled
      <4> QED BY <4>3
    <3>7. CASE b.state = "HalfOpen" /\ a.state = "Closed"
      <4>1. Mode' = [Mode EXCEPT ![t] = "Closed"]
        BY <3>2, <3>7
      <4>2. Cooled' = Cooled
        BY <3>1, <3>2, <3>7 DEF Cooled
      <4>3. Gate!LeaveClosing(c)
        BY <3>1, <3>3, <3>7, <4>1, <4>2 DEF Gate!LeaveClosing, Mode, Cooled
      <4> QED BY <4>3
    <3> QED BY <3>4, <3>5, <3>6, <3>7
  <2>3. ASSUME NEW c \in Callers, Cancel(c) PROVE Gate!LeaveQuietly(c)
    BY <2>3 DEF Cancel, Gate!LeaveQuietly
  <2>4. ASSUME Tick PROVE Gate!Cool
    <3> DEFINE ready == {t \in Tools : Mode[t] = "Open" /\ Cooled'[t]}
    <3>1. ASSUME NEW t \in Tools
          PROVE  /\ breakers'[t].state = breakers[t].state
                 /\ Cooled'[t] = (Cooled[t] \/ t \in ready)
      <4>1. breakers[t] \in Breaker
        BY <2>0
      <4>2. /\ breakers'[t].state = breakers[t].state
            /\ ResetElapsed(breakers[t]) => ResetElapsed(breakers'[t])
        <5>1. CASE breakers'[t] = breakers[t]
          BY <5>1
        <5>2. CASE breakers'[t] = [breakers[t] EXCEPT !.opened_at = @ + 1]
                   /\ breakers[t].opened_at < ResetTimeout
          BY <4>1, <5>2, ThresholdAssumption DEF ResetElapsed, Breaker, NotOpened
        <5> QED BY <2>4, <5>1, <5>2 DEF Tick
      <4> QED BY <4>2 DEF Mode, Cooled
    <3>2. Mode' = Mode
      BY <3>1 DEF Mode
    <3>3. Cooled' = [t \in Tools |-> Cooled[t] \/ t \in ready]
      BY <3>1 DEF Cooled
    <3>4. ready \in SUBSET {t \in Tools : Mode[t] = "Open"}
      OBVIOUS
    <3>5. running' = running
      BY <2>4 DEF Tick
    <3> HIDE DEF ready
    <3> QED BY <3>2, <3>3, <3>4, <3>5 DEF Gate!Cool, Mode, Cooled
  <2>5. ASSUME NEW t \in Tools, Heal(t) PROVE UNCHANGED Gate!gateVars
    BY <2>5 DEF Heal
  <2>6. CASE UNCHANGED vars
    BY <2>6 DEF vars
  <2> QED BY <2>1, <2>2, <2>3, <2>4, <2>5, <2>6 DEF Next, Reject, vars
<1> QED BY <1>1, <1>2, TypeCorrect, Invariance, PTL
        DEF Spec, ImplementsGate, Gate!GateSpec
=============================================================================
