---------------------------- MODULE BreakerState ----------------------------
(***************************************************************************)
(* The breaker of one tool (struct Breaker in                              *)
(* crates/chuk-tool-runtime/src/layers/circuit_breaker.rs): what it holds  *)
(* and what its methods make of it.  The layer that calls them is module   *)
(* CircuitBreaker; the stack it is a part of is module Runtime.            *)
(***************************************************************************)
EXTENDS Integers

CONSTANTS
    FailureThreshold, \* CircuitBreakerConfig::failure_threshold
    SuccessThreshold, \* CircuitBreakerConfig::success_threshold
    ResetTimeout,     \* CircuitBreakerConfig::reset_timeout, in ticks
    HalfOpenMaxCalls, \* CircuitBreakerConfig::half_open_max_calls
    CountCap          \* where the model's failure_count saturates

ASSUME ThresholdAssumption ==
    /\ FailureThreshold \in Nat
    /\ SuccessThreshold \in Nat
    /\ ResetTimeout \in Nat
    /\ HalfOpenMaxCalls \in Nat

\* failure_count is compared with the threshold only, so a count that stops
\* growing above the threshold behaves as the u32 does below its overflow.
ASSUME CapAssumption == CountCap \in Nat /\ CountCap > FailureThreshold

CircuitState == {"Closed", "Open", "HalfOpen"}

\* `opened_at` is kept as the time since that instant, saturated at
\* ResetTimeout because elapsed() is only compared with it; -1 is None.
NotOpened == -1

Breaker == [state           : CircuitState,
            failure_count   : 0 .. CountCap,
            success_count   : Nat,
            half_open_calls : Nat,
            opened_at       : NotOpened .. ResetTimeout]

NewBreaker == [state           |-> "Closed",
               failure_count   |-> 0,
               success_count   |-> 0,
               half_open_calls |-> 0,
               opened_at       |-> NotOpened]

\* Slips each property is tried against: an open() that leaves opened_at, ...
OpenedWithoutInstant(b) == [b EXCEPT !.state = "Open"]

\* Breaker::open.
Opened(b) == [b EXCEPT !.state = "Open", !.opened_at = 0]

\* t.elapsed() >= cfg.reset_timeout, false when opened_at is None.
ResetElapsed(b) == b.opened_at # NotOpened /\ b.opened_at >= ResetTimeout

\* ... a record_success that closes an OPEN breaker too, or never clears, ...
RecordSuccessFromOpen(b) ==
    IF b.state = "HalfOpen" /\ b.success_count + 1 < SuccessThreshold
    THEN [b EXCEPT !.success_count = @ + 1]
    ELSE NewBreaker
RecordSuccessNoClear(b) ==
    IF b.state = "HalfOpen" /\ b.success_count + 1 >= SuccessThreshold
    THEN [NewBreaker EXCEPT !.failure_count = b.failure_count]
    ELSE IF b.state = "HalfOpen" THEN [b EXCEPT !.success_count = @ + 1]
    ELSE [b EXCEPT !.failure_count = 0]

\* ... a record_failure that trips one failure late, keeps the slots, or
\* restarts the window of an OPEN breaker, ...
RecordFailureLate(b) ==
    LET counted == [b EXCEPT !.failure_count = IF @ < CountCap THEN @ + 1 ELSE @]
    IN  IF \/ b.state = "Closed" /\ b.failure_count >= FailureThreshold
           \/ b.state = "HalfOpen"
        THEN Opened([counted EXCEPT !.success_count = 0, !.half_open_calls = 0])
        ELSE counted
RecordFailureKeepsSlots(b) ==
    LET counted == [b EXCEPT !.failure_count = IF @ < CountCap THEN @ + 1 ELSE @]
    IN  IF \/ b.state = "Closed" /\ counted.failure_count >= FailureThreshold
           \/ b.state = "HalfOpen"
        THEN Opened([counted EXCEPT !.success_count = 0])
        ELSE counted
RecordFailureRestarts(b) ==
    LET counted == [b EXCEPT !.failure_count = IF @ < CountCap THEN @ + 1 ELSE @]
    IN  IF b.state = "Closed" /\ counted.failure_count < FailureThreshold
        THEN counted
        ELSE Opened([counted EXCEPT !.success_count = 0, !.half_open_calls = 0])

\* ... a release_probe that is forgotten.
ReleaseProbeForgotten(b) == b

\* The verdict of Breaker::try_acquire.
Allowed(b) ==
    \/ b.state = "Closed"
    \/ b.state = "HalfOpen" /\ b.half_open_calls < HalfOpenMaxCalls
    \/ b.state = "Open" /\ ResetElapsed(b)

\* The breaker after a try_acquire that allowed the call.
Acquired(b) ==
    CASE b.state = "Closed"   -> b
      [] b.state = "HalfOpen" -> [b EXCEPT !.half_open_calls = @ + 1]
      [] b.state = "Open"     -> [b EXCEPT !.state = "HalfOpen",
                                           !.half_open_calls = 1,
                                           !.success_count = 0]

\* Breaker::record_success.
RecordSuccess(b) ==
    IF b.state # "HalfOpen"
    THEN [b EXCEPT !.failure_count = 0]
    ELSE IF b.success_count + 1 >= SuccessThreshold
         THEN NewBreaker
         ELSE [b EXCEPT !.success_count = @ + 1]

\* Breaker::record_failure.
RecordFailure(b) ==
    LET n       == b.failure_count + 1
        counted == [b EXCEPT !.failure_count = IF n > CountCap THEN @ ELSE n]
    IN  CASE b.state = "Closed"   -> IF n >= FailureThreshold
                                     THEN Opened(counted) ELSE counted
          [] b.state = "HalfOpen" -> Opened([counted EXCEPT
                                               !.success_count = 0,
                                               !.half_open_calls = 0])
          [] b.state = "Open"     -> counted

\* Breaker::release_probe, with its saturating subtraction.
ReleaseProbe(b) ==
    IF b.state = "HalfOpen" /\ b.half_open_calls > 0
    THEN [b EXCEPT !.half_open_calls = @ - 1]
    ELSE b

\* The second critical section of call_tool.
AfterCall(b, ok) ==
    ReleaseProbe(IF ok THEN RecordSuccess(b) ELSE RecordFailure(b))
=============================================================================
