-------------------------------- MODULE Retry --------------------------------
(***************************************************************************)
(* The retry layer (crates/chuk-tool-runtime/src/layers/retry.rs) and its  *)
(* policy (RetryConfig in config.rs).                                      *)
(*                                                                         *)
(* RetryLayer keeps no state between calls, so one call is modelled: its   *)
(* attempts on the inner invoker, its backoff sleeps, and the deadline     *)
(* that both race with.  An error message is the set of the patterns it    *)
(* contains, ignoring case.                                                *)
(***************************************************************************)
EXTENDS Integers, Sequences

CONSTANTS
    Timeouts,   \* the timeouts a call may be given, in ticks, or NoTimeout
    Errors,     \* error messages of the inner invoker: sets of patterns
    RetryOn,    \* RetryConfig::retry_on
    SkipOn,     \* RetryConfig::skip_on
    MaxRetries, \* RetryConfig::max_retries
    BaseDelays, \* the values RetryConfig::base_delay may have, in ticks
    MaxDelay,   \* RetryConfig::max_delay, in ticks
    Jitter      \* RetryConfig::jitter

NoTimeout == -1
Success == [success |-> TRUE, error |-> {}]
Outcomes == {Success} \cup {[success |-> FALSE, error |-> e] : e \in Errors}

ASSUME RetryAssumption ==
    /\ Timeouts \subseteq Nat \cup {NoTimeout}
    /\ MaxRetries \in Nat /\ BaseDelays \subseteq Nat /\ MaxDelay \in Nat
    /\ Jitter \in BOOLEAN

VARIABLES
    base,    \* RetryConfig::base_delay, never changed
    pc,      \* "new", "inner" (awaiting the inner invoker), "sleep", "done"
    timeout, \* the argument, NoTimeout for None
    budget,  \* deadline - now; it does not change without a timeout
    attempt, \* 0-based number of the attempt
    left,    \* what is left of the backoff sleep
    spent,   \* environment: how long the current attempt has run
    tries,   \* history: the outcomes of the attempts
    result   \* the outcome returned, with its `attempts`

vars == <<base, pc, timeout, budget, attempt, left, spent, tries, result>>

Init ==
    /\ base \in BaseDelays
    /\ pc = "new" /\ timeout = NoTimeout /\ budget = 0
    /\ attempt = 0 /\ left = 0 /\ spent = 0
    /\ tries = <<>> /\ result = <<>>

-----------------------------------------------------------------------------
(* RetryConfig.                                                            *)

AtMost(a, b) == IF a < b THEN a ELSE b

\* Slip: the allow-list is checked first.
ShouldRetryAllowFirst(e) == RetryOn = {} \/ RetryOn \cap e # {}

\* should_retry: the skip list wins; an empty allow-list allows everything.
ShouldRetry(e) ==
    /\ SkipOn \cap e = {}
    /\ RetryOn = {} \/ RetryOn \cap e # {}

\* base_backoff: min(base_delay * 2^n, max_delay).
BaseBackoff(n) == AtMost(base * 2^n, MaxDelay)

\* backoff: jitter multiplies it by a factor in [0.5, 1.5), after the cap.
Backoffs(n) ==
    LET b == BaseBackoff(n)
    IN  IF Jitter /\ b > 0 THEN {d \in 0 .. 2 * b : 2 * d >= b /\ 2 * d < 3 * b}
                           ELSE {b}

-----------------------------------------------------------------------------
(* RetryLayer::call_tool.                                                  *)

\* The call is made, its deadline fixed, the first attempt started.
Start(t) ==
    /\ pc = "new"
    /\ pc' = "inner"
    /\ timeout' = t
    /\ budget' = IF t = NoTimeout THEN 0 ELSE t
    /\ UNCHANGED <<base, attempt, left, spent, tries, result>>

Remaining == IF budget > 0 THEN budget ELSE 0

\* The layer hands outcome o back instead of trying again.
GivesUp(o) ==
    \/ o.success
    \/ attempt >= MaxRetries
    \/ ~ShouldRetry(o.error)
    \/ timeout # NoTimeout /\ Remaining = 0

\* The delay before the next attempt, capped to what is left of the deadline.
UncappedDelays == Backoffs(attempt)
Delays ==
    {IF timeout = NoTimeout THEN d ELSE AtMost(d, Remaining) : d \in Backoffs(attempt)}

\* The inner invoker answered o and the call returns it.
Return(o) ==
    /\ pc = "inner" /\ GivesUp(o)
    /\ pc' = "done"
    /\ tries' = Append(tries, o)
    /\ result' = <<[outcome |-> o, attempts |-> attempt + 1]>>
    /\ UNCHANGED <<base, timeout, budget, attempt, left, spent>>

\* It answered o and the next attempt starts without a sleep.
RetryAtOnce(o) ==
    /\ pc = "inner" /\ ~GivesUp(o) /\ 0 \in Delays
    /\ attempt' = attempt + 1
    /\ spent' = 0
    /\ tries' = Append(tries, o)
    /\ UNCHANGED <<base, pc, timeout, budget, left, result>>

\* It answered o and the layer backs off.
BackOff(o) ==
    /\ pc = "inner" /\ ~GivesUp(o)
    /\ \E d \in Delays \ {0} : left' = d
    /\ pc' = "sleep"
    /\ tries' = Append(tries, o)
    /\ UNCHANGED <<base, timeout, budget, attempt, spent, result>>

\* Slips: the attempt is not counted, or not made when time is up.
WakeUpUncounted ==
    /\ pc = "sleep" /\ left = 0
    /\ pc' = "inner"
    /\ spent' = 0
    /\ UNCHANGED <<base, timeout, budget, attempt, left, tries, result>>

WakeUpInTime ==
    /\ pc = "sleep" /\ left = 0
    /\ timeout # NoTimeout => budget > 0
    /\ pc' = "inner"
    /\ attempt' = attempt + 1
    /\ spent' = 0
    /\ UNCHANGED <<base, timeout, budget, left, tries, result>>

\* The sleep is over: the next attempt starts, with the whole timeout again.
WakeUp ==
    /\ pc = "sleep" /\ left = 0
    /\ pc' = "inner"
    /\ attempt' = attempt + 1
    /\ spent' = 0
    /\ UNCHANGED <<base, timeout, budget, left, tries, result>>

\* Time passes.  An attempt lasts at most the timeout it was given
\* (McpInvoker::call_tool), a sleep as long as it was meant to.
Tick ==
    /\ \/ pc = "inner" /\ timeout # NoTimeout /\ spent < timeout
       \/ pc = "sleep" /\ left > 0
    /\ spent' = IF pc = "inner" THEN spent + 1 ELSE spent
    /\ left' = IF pc = "sleep" THEN left - 1 ELSE left
    /\ budget' = IF timeout = NoTimeout THEN budget ELSE budget - 1
    /\ UNCHANGED <<base, pc, timeout, attempt, tries, result>>

Next ==
    \/ \E t \in Timeouts : Start(t)
    \/ \E o \in Outcomes : Return(o) \/ RetryAtOnce(o) \/ BackOff(o)
    \/ WakeUp
    \/ Tick

Spec == Init /\ [][Next]_vars

\* An attempt is answered and a sleep ends.
Fairness ==
    /\ WF_vars(Tick)
    /\ WF_vars(WakeUp)
    /\ WF_vars(\E o \in Outcomes : Return(o) \/ RetryAtOnce(o) \/ BackOff(o))

FairSpec == Spec /\ Fairness

-----------------------------------------------------------------------------
(* Properties.                                                             *)

TypeOK ==
    /\ base \in BaseDelays
    /\ pc \in {"new", "inner", "sleep", "done"}
    /\ timeout \in Timeouts \cup {NoTimeout}
    /\ budget \in Int
    /\ attempt \in 0 .. MaxRetries
    /\ left \in Nat /\ spent \in Nat
    /\ tries \in Seq(Outcomes)
    /\ pc # "done" => result = <<>>

\* What is reported is what happened: the caller gets the outcome of the last
\* attempt, and `attempts` is the number of times the tool was called, one
\* more than the retries and within the limit ("The number of attempts made is
\* recorded in [`ToolOutcome::attempts`]", retry.rs:14).
ReportsAttempts ==
    /\ pc = "done" =>
          /\ result[1].attempts = Len(tries)
          /\ result[1].outcome = tries[Len(tries)]
    /\ Len(tries) <= MaxRetries + 1
    /\ pc \in {"inner", "sleep"} => Len(tries) = attempt + (IF pc = "sleep" THEN 1 ELSE 0)

\* A tool is called again only after failures that may be retried: never after
\* a success, and never after an error on the skip list, whatever else the
\* message contains (should_retry, "takes precedence", config.rs:46).
RetriesOnlyRetryable ==
    \A i \in 1 .. Len(tries) :
        i < Len(tries) \/ pc = "sleep" =>
            /\ ~tries[i].success
            /\ tries[i].error \cap SkipOn = {}
            /\ RetryOn # {} => tries[i].error \cap RetryOn # {}

\* The call is over at most one timeout after its deadline: sleeps never go
\* past the deadline, so only the attempt under way can ("backoff sleeps are
\* capped to the remaining budget", retry.rs:15-16).
OverrunBounded ==
    timeout # NoTimeout =>
        /\ budget >= -timeout
        /\ pc = "sleep" => left <= budget

\* Every call is answered.
AlwaysReturns == pc = "inner" ~> pc = "done"

\* "no retry is started once it is exhausted" (retry.rs:16): an attempt after
\* the first one starts before the deadline.
NoRetryOnceExhausted ==
    [][attempt' > attempt /\ timeout # NoTimeout => budget > 0]_vars
=============================================================================
