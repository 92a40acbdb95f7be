----------------------------- MODULE RetryProofs -----------------------------
(***************************************************************************)
(* Proofs about Retry: type correctness, that the report is what happened, *)
(* that only retryable failures are retried, and that sleeps never go past *)
(* the deadline.                                                           *)
(***************************************************************************)
EXTENDS Retry, FiniteSetTheorems, TLAPS

-----------------------------------------------------------------------------
(* The policy.                                                             *)

\* The doubling of the delay stays a whole number of ticks: 2^n is the number
\* of subsets of a set of n elements (RetryConfig::base_backoff).
LEMMA PowerIsNat == ASSUME NEW n \in Nat PROVE 2^n \in Nat
<1>1. IsFiniteSet(1 .. n) /\ Cardinality(1 .. n) = n
  BY FS_Interval
<1>2. IsFiniteSet(SUBSET (1 .. n)) /\ Cardinality(SUBSET (1 .. n)) = 2^n
  BY <1>1, FS_SUBSET
<1> QED
  BY <1>2, FS_CardinalityType

\* Every backoff is a delay, jittered or not (RetryConfig::backoff).
LEMMA BackoffsAreDelays ==
    ASSUME base \in Nat, NEW n \in Nat PROVE Backoffs(n) \subseteq Nat
<1>1. base * 2^n \in Nat
  <2>1. 2^n \in Nat
    BY PowerIsNat
  <2>2. \A x, y \in Nat : x * y \in Nat
    OBVIOUS
  <2> QED
    BY <2>1, <2>2
<1>2. BaseBackoff(n) \in Nat
  BY <1>1, RetryAssumption DEF BaseBackoff, AtMost
<1>3. \A b \in Nat : 0 .. 2 * b \subseteq Nat
  OBVIOUS
<1> QED
  BY <1>2, <1>3 DEF Backoffs

\* The delay handed to the sleep is one too, and with a timeout no longer than
\* what is left of it (RetryLayer::call_tool).
LEMMA DelaysAreCapped ==
    ASSUME base \in Nat, attempt \in Nat, budget \in Int, NEW d \in Delays
    PROVE  /\ d \in Nat
           /\ timeout # NoTimeout => d <= Remaining
<1>1. Backoffs(attempt) \subseteq Nat
  BY BackoffsAreDelays
<1>2. PICK b \in Backoffs(attempt) :
          d = IF timeout = NoTimeout THEN b ELSE AtMost(b, Remaining)
  BY DEF Delays
<1>3. b \in Nat
  BY <1>1, <1>2
<1> QED
  BY <1>2, <1>3 DEF AtMost, Remaining

-----------------------------------------------------------------------------
(* Types and the number of attempts.                                       *)

\* A backoff is only entered when a retry is left.
RetryIsLeft == pc = "sleep" => attempt < MaxRetries

\* Nothing has happened before the call is made.
NewIsFresh ==
    pc = "new" => tries = <<>> /\ attempt = 0 /\ timeout = NoTimeout /\ spent = 0

CountInv == TypeOK /\ RetryIsLeft /\ NewIsFresh /\ ReportsAttempts

\* Both come with the first step of a call and stay (RetryLayer::call_tool).
LEMMA CountsInvariant == Spec => []CountInv
<1>1. Init => CountInv
  BY RetryAssumption DEF Init, CountInv, TypeOK, RetryIsLeft, NewIsFresh, ReportsAttempts
<1>2. CountInv /\ [Next]_vars => CountInv'
  <2> SUFFICES ASSUME CountInv, [Next]_vars PROVE CountInv'
    OBVIOUS
  <2> USE DEF CountInv, RetryIsLeft, NewIsFresh
  <2>1. ASSUME NEW t \in Timeouts, Start(t) PROVE CountInv'
    BY <2>1, RetryAssumption DEF TypeOK, ReportsAttempts, Start, NoTimeout
  <2>2. ASSUME NEW o \in Outcomes, Return(o) PROVE CountInv'
    <3>1. TypeOK'
      BY <2>2 DEF TypeOK, Return
    <3>2. tries \in Seq(Outcomes) /\ Len(tries) = attempt /\ attempt \in 0 .. MaxRetries
      BY <2>2 DEF TypeOK, ReportsAttempts, Return
    <3>3. Len(tries') = attempt + 1 /\ tries'[Len(tries')] = o
      BY <2>2, <3>2 DEF Return
    <3>4. ReportsAttempts'
      BY <2>2, <3>2, <3>3, RetryAssumption DEF ReportsAttempts, Return
    <3> QED
      BY <2>2, <3>1, <3>4 DEF Return
  <2>3. ASSUME NEW o \in Outcomes, RetryAtOnce(o) PROVE CountInv'
    <3>1. attempt' = attempt + 1 /\ attempt' \in 0 .. MaxRetries /\ pc = "inner" /\ pc' = pc
      BY <2>3, RetryAssumption DEF TypeOK, RetryAtOnce, GivesUp
    <3>2. TypeOK'
      BY <2>3, <3>1 DEF TypeOK, RetryAtOnce
    <3>3. tries \in Seq(Outcomes) /\ Len(tries) = attempt
      BY <3>1 DEF TypeOK, ReportsAttempts
    <3>4. Len(tries') = attempt + 1
      BY <2>3, <3>3 DEF RetryAtOnce
    <3>5. ReportsAttempts'
      BY <3>1, <3>4, RetryAssumption DEF ReportsAttempts
    <3> QED
      BY <3>1, <3>2, <3>5
  <2>4. ASSUME NEW o \in Outcomes, BackOff(o) PROVE CountInv'
    <3>1. base \in Nat /\ attempt \in Nat /\ budget \in Int
      BY RetryAssumption DEF TypeOK
    <3>2. left' \in Nat
      BY <2>4, <3>1, DelaysAreCapped DEF BackOff
    <3>3. TypeOK'
      BY <2>4, <3>2 DEF TypeOK, BackOff
    <3>4. pc = "inner" /\ pc' = "sleep" /\ attempt' = attempt /\ attempt < MaxRetries
      BY <2>4, <3>1, RetryAssumption DEF BackOff, GivesUp
    <3>5. tries \in Seq(Outcomes) /\ Len(tries) = attempt
      BY <3>4 DEF TypeOK, ReportsAttempts
    <3>6. Len(tries') = attempt + 1
      BY <2>4, <3>5 DEF BackOff
    <3>7. ReportsAttempts'
      BY <3>1, <3>4, <3>6, RetryAssumption DEF ReportsAttempts
    <3> QED
      BY <3>3, <3>4, <3>7
  <2>5. CASE WakeUp
    <3>1. attempt' \in 0 .. MaxRetries
      BY <2>5, RetryAssumption DEF TypeOK, WakeUp
    <3>2. TypeOK'
      BY <2>5, <3>1 DEF TypeOK, WakeUp
    <3> QED
      BY <2>5, <3>2 DEF TypeOK, ReportsAttempts, WakeUp
  <2>6. CASE Tick
    BY <2>6 DEF TypeOK, ReportsAttempts, Tick
  <2>7. CASE UNCHANGED vars
    BY <2>7 DEF TypeOK, ReportsAttempts, vars
  <2> QED
    BY <2>1, <2>2, <2>3, <2>4, <2>5, <2>6, <2>7 DEF Next
<1> QED
  BY <1>1, <1>2, PTL DEF Spec

\* Every variable of the call stays in its set, with any timeout, policy and
\* errors; there are never more retries than max_retries (retry.rs:43).
THEOREM TypeCorrect == Spec => []TypeOK
  BY CountsInvariant, PTL DEF CountInv

\* The caller learns how often the tool was called, and the outcome of the last
\* call (ToolOutcome::attempts).
THEOREM ReportsAttemptsHolds == Spec => []ReportsAttempts
  BY CountsInvariant, PTL DEF CountInv

-----------------------------------------------------------------------------
(* What is retried.                                                        *)

\* A failure that RetryConfig::should_retry accepts.
MayRetry(o) == ~o.success /\ ShouldRetry(o.error)

\* While the call lasts, everything tried so far was worth a retry.
TriedRetryable ==
    \A i \in 1 .. Len(tries) : i < Len(tries) \/ pc # "done" => MayRetry(tries[i])

\* The outcomes before the last one were worth a retry, and that one too unless
\* the call is over.
LEMMA TriedInvariant == Spec => []TriedRetryable
<1>1. Init => TriedRetryable
  BY DEF Init, TriedRetryable
<1>2. CountInv /\ TriedRetryable /\ [Next]_vars => TriedRetryable'
  <2> SUFFICES ASSUME CountInv, TriedRetryable, [Next]_vars PROVE TriedRetryable'
    OBVIOUS
  <2>1. tries \in Seq(Outcomes)
    BY DEF CountInv, TypeOK
  <2>2. ASSUME NEW o \in Outcomes, pc # "done", tries' = Append(tries, o),
               pc' = "done" \/ MayRetry(o)
        PROVE  TriedRetryable'
    <3> SUFFICES ASSUME NEW i \in 1 .. Len(tries'), i < Len(tries') \/ pc' # "done"
                 PROVE  MayRetry(tries'[i])
      BY DEF TriedRetryable
    <3>1. Len(tries') = Len(tries) + 1 /\ Len(tries) \in Nat
      BY <2>1, <2>2
    <3>2. CASE i = Len(tries) + 1
      BY <2>1, <2>2, <3>1, <3>2
    <3>3. CASE i \in 1 .. Len(tries)
      BY <2>1, <2>2, <3>3 DEF TriedRetryable
    <3> QED
      BY <3>1, <3>2, <3>3
  <2>3. ASSUME NEW o \in Outcomes, Return(o) PROVE TriedRetryable'
    BY <2>2, <2>3 DEF Return
  <2>4. ASSUME NEW o \in Outcomes, RetryAtOnce(o) PROVE TriedRetryable'
    BY <2>2, <2>4 DEF RetryAtOnce, GivesUp, MayRetry
  <2>5. ASSUME NEW o \in Outcomes, BackOff(o) PROVE TriedRetryable'
    BY <2>2, <2>5 DEF BackOff, GivesUp, MayRetry
  <2>6. ASSUME pc # "done", UNCHANGED tries PROVE TriedRetryable'
    BY <2>6 DEF TriedRetryable
  <2>7. ASSUME NEW t \in Timeouts, Start(t) PROVE TriedRetryable'
    BY <2>6, <2>7 DEF Start
  <2>8. CASE WakeUp
    BY <2>6, <2>8 DEF WakeUp
  <2>9. CASE Tick
    BY <2>6, <2>9 DEF Tick
  <2>10. CASE UNCHANGED vars
    BY <2>10 DEF vars, TriedRetryable
  <2> QED
    BY <2>3, <2>4, <2>5, <2>7, <2>8, <2>9, <2>10 DEF Next
<1> QED
  BY <1>1, <1>2, CountsInvariant, PTL DEF Spec

\* No tool is called again after a success or after an error the skip list
\* names, for any lists (config.rs:46).
THEOREM RetriesOnlyRetryableHolds == Spec => []RetriesOnlyRetryable
<1>1. TriedRetryable => RetriesOnlyRetryable
  BY DEF TriedRetryable, RetriesOnlyRetryable, MayRetry, ShouldRetry
<1> QED
  BY <1>1, TriedInvariant, PTL

-----------------------------------------------------------------------------
(* The deadline.                                                           *)

\* An attempt starts before the deadline or at it and lasts one timeout at most.
AttemptInTime ==
    pc = "inner" /\ timeout # NoTimeout => budget + spent >= 0 /\ spent <= timeout

BudgetInv == OverrunBounded /\ AttemptInTime

\* Only the attempt under way can pass the deadline (RetryLayer::call_tool,
\* McpInvoker::call_tool).
LEMMA BudgetInvariant == Spec => []BudgetInv
<1>1. Init => BudgetInv
  BY DEF Init, BudgetInv, OverrunBounded, AttemptInTime
<1>2. CountInv /\ BudgetInv /\ [Next]_vars => BudgetInv'
  <2> SUFFICES ASSUME CountInv, BudgetInv, [Next]_vars PROVE BudgetInv'
    OBVIOUS
  <2>1. /\ base \in Nat /\ attempt \in Nat /\ budget \in Int
        /\ left \in Nat /\ spent \in Nat
        /\ timeout \in Nat \cup {NoTimeout} /\ NoTimeout = -1
        /\ Timeouts \subseteq Nat \cup {NoTimeout}
        /\ pc = "new" => timeout = NoTimeout /\ spent = 0
    BY RetryAssumption DEF CountInv, NewIsFresh, TypeOK, NoTimeout
  <2> USE DEF BudgetInv, OverrunBounded, AttemptInTime
  <2>2. ASSUME NEW t \in Timeouts, Start(t) PROVE BudgetInv'
    BY <2>1, <2>2 DEF Start
  <2>3. ASSUME NEW o \in Outcomes, Return(o) PROVE BudgetInv'
    BY <2>1, <2>3 DEF Return
  <2>4. ASSUME NEW o \in Outcomes, RetryAtOnce(o) PROVE BudgetInv'
    <3>1. timeout # NoTimeout => budget > 0
      BY <2>1, <2>4 DEF RetryAtOnce, GivesUp, Remaining
    <3> QED
      BY <2>1, <2>4, <3>1 DEF RetryAtOnce
  <2>5. ASSUME NEW o \in Outcomes, BackOff(o) PROVE BudgetInv'
    <3>1. timeout # NoTimeout => budget > 0 /\ Remaining = budget
      BY <2>1, <2>5 DEF BackOff, GivesUp, Remaining
    <3>2. timeout # NoTimeout => left' <= Remaining
      BY <2>1, <2>5, DelaysAreCapped DEF BackOff
    <3> QED
      BY <2>1, <2>5, <3>1, <3>2 DEF BackOff
  <2>6. CASE WakeUp
    BY <2>1, <2>6 DEF WakeUp
  <2>7. CASE Tick
    BY <2>1, <2>7 DEF Tick
  <2>8. CASE UNCHANGED vars
    BY <2>8 DEF vars
  <2> QED
    BY <2>2, <2>3, <2>4, <2>5, <2>6, <2>7, <2>8 DEF Next
<1> QED
  BY <1>1, <1>2, CountsInvariant, PTL DEF Spec

\* A call is over at most one timeout after its deadline, and no sleep passes
\* it, for every timeout and backoff (retry.rs:15-16).
THEOREM OverrunBoundedHolds == Spec => []OverrunBounded
  BY BudgetInvariant, PTL DEF BudgetInv
=============================================================================
