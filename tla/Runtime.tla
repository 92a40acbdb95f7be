------------------------------- MODULE Runtime -------------------------------
(***************************************************************************)
(* The assembled runtime: the layers a RuntimeBuilder stacks over a router *)
(* or a transport (crates/chuk-tool-runtime/src/lib.rs), and calls on      *)
(* their way down through them and back up.                                *)
(*                                                                         *)
(* Modules Cache, RateLimit, CircuitBreaker, Retry and Routing have the    *)
(* layers one by one, each over an inner invoker that may do anything.     *)
(* Here they are the inner invokers of each other, with only as much of    *)
(* their state as a call of another layer can depend on.  A layer does its *)
(* work in one step when a call enters it and in one when the outcome      *)
(* comes back; a layer that is disabled hands everything on, as if it were *)
(* not there.                                                              *)
(***************************************************************************)
EXTENDS BreakerState, Sequences

CONSTANTS
    Calls,      \* the calls, each made once
    Tools,      \* tool names
    NoTool,
    Cacheable,  \* the tools in CacheConfig::cacheable_tools
    Retryable,  \* the messages RetryConfig::should_retry accepts
    Requests,   \* what may be called
    Ttl,        \* CacheConfig::default_ttl, in ticks
    Limit,      \* RateLimitConfig::global_limit
    Period,     \* RateLimitConfig::global_period, in ticks
    MaxRetries, \* RetryConfig::max_retries
    MaxDelay,   \* RetryConfig::max_delay, in ticks
    Routed      \* whether the stack is over a Router, as call_on needs

NoTimeout == -1
NotCached == -1

ASSUME RuntimeAssumption ==
    /\ Cacheable \subseteq Tools /\ NoTool \notin Tools
    /\ Requests \subseteq [tool    : Tools,
                           timeout : Nat \cup {NoTimeout}, \* in ticks
                           pinned  : BOOLEAN,  \* made with call_on
                           found   : BOOLEAN]  \* the tool's owner, or the pinned
                                               \* server, has a transport
    /\ Routed \/ \A r \in Requests : r.found
    /\ Ttl \in Nat /\ Limit \in Nat \ {0} /\ Period \in Nat
    /\ MaxRetries \in Nat /\ MaxDelay \in Nat
    /\ Routed \in BOOLEAN

VARIABLES
    layers,   \* the layers the builder has been given a config for
    stack,    \* the layers a call goes through, <<>> until build
    call,     \* the calls
    breakers, \* CircuitBreakerLayer::breakers
    stamps,   \* the stamps of the global window, as ages
    store,    \* CacheLayer::store: what is left of the entry of a tool
    used,     \* history: what a call did on its way
    earned    \* history: the tools that succeeded under the cache

vars == <<layers, stack, call, breakers, stamps, store, used, earned>>
shared == <<breakers, stamps, store, earned>>
built == <<layers, stack>>

-----------------------------------------------------------------------------
(* ToolOutcome, and the messages a failed one carries.                     *)

NoError == "none"
Refused == "connection refused"
BadArguments == "bad arguments"
TimedOut == "timed out"
NoServer == "no server found for tool"
CircuitOpen == "circuit breaker open"
NoRouter == "call_on requires a router-based runtime"

\* What a server can answer, when it fails a call.
ToolErrors == {Refused, BadArguments}
Messages == ToolErrors \cup {TimedOut, NoServer, CircuitOpen, NoRouter}

Outcome == [success : BOOLEAN, error : Messages \cup {NoError},
            attempts : Nat, from_cache : BOOLEAN]

Ok == [success |-> TRUE, error |-> NoError, attempts |-> 1, from_cache |-> FALSE]
Err(m) == [Ok EXCEPT !.success = FALSE, !.error = m]

-----------------------------------------------------------------------------
(* RuntimeBuilder.                                                         *)

\* RuntimeBuilder::wrap, the layers from the outermost to the innermost.
\* (Slips: retry above the breaker, the cache below the rate limit.)
Given(l, s) == IF l \in s THEN <<l>> ELSE <<>>
WrapRetryOutside(s) ==
    (Given("cache", s) \o Given("limit", s)) \o (Given("retry", s) \o Given("breaker", s))
WrapLimitOutside(s) ==
    (Given("limit", s) \o Given("cache", s)) \o (Given("breaker", s) \o Given("retry", s))
Wrap(s) ==
    (Given("cache", s) \o Given("limit", s)) \o (Given("breaker", s) \o Given("retry", s))

Layers == {"cache", "limit", "breaker", "retry"}
NoCall == [phase |-> "new", tool |-> NoTool, timeout |-> NoTimeout,
           found |-> FALSE, home |-> 0, pos |-> 0, out |-> Ok,
           attempt |-> 0, budget |-> 0, left |-> 0, spent |-> 0,
           waited |-> 0]

Init ==
    /\ layers = {} /\ stack = <<>>
    /\ call = [c \in Calls |-> NoCall]
    /\ breakers = [t \in Tools |-> NewBreaker]
    /\ stamps = <<>>
    /\ store = [t \in Tools |-> NotCached]
    /\ used = [c \in Calls |-> [slots |-> 0, admits |-> 0, records |-> 0, tries |-> 0]]
    /\ earned = {}

\* with_retry, with_circuit_breaker, with_rate_limit, with_cache.
With(l) ==
    /\ stack = <<>>
    /\ l \notin layers
    /\ layers' = layers \cup {l}
    /\ UNCHANGED <<stack, call, used, shared>>

\* build (over a transport) and build_router.
Build ==
    /\ stack = <<>>
    /\ stack' = Append(Wrap(layers), "server")
    /\ UNCHANGED <<layers, call, used, shared>>

\* build_runtime of the Python binding: all configs it is given, then build_router.
BuildRuntime(given) ==
    /\ stack = <<>> /\ layers = {} /\ Routed
    /\ layers' = given
    /\ stack' = Append(Wrap(given), "server")
    /\ UNCHANGED <<call, used, shared>>

-----------------------------------------------------------------------------
(* Moving through the stack.                                               *)

\* Call c is about to enter layer l, or its outcome is about to pass it.
Enters(c, l) == call[c].phase = "down" /\ stack[call[c].pos] = l
Leaves(c, l) == call[c].phase = "up" /\ stack[call[c].pos] = l

Becomes(c, k) == call' = [call EXCEPT ![c] = k]

\* It goes one layer down; its layer hands outcome o up.
Down(k) == [k EXCEPT !.phase = "down", !.pos = @ + 1]
Up(k, o) ==
    IF k.pos = k.home
    THEN [NoCall EXCEPT !.phase = "done", !.tool = k.tool, !.home = k.home, !.out = o]
    ELSE [k EXCEPT !.phase = "up", !.pos = @ - 1, !.out = o, !.spent = 0]

Uses(c, what) == used' = [used EXCEPT ![c][what] = @ + 1]

\* Runtime::call_tool enters the whole stack.
NewCall(r, p) ==
    [NoCall EXCEPT !.phase = "down", !.tool = r.tool, !.timeout = r.timeout,
                   !.found = r.found, !.home = p, !.pos = p]

Call(c, r) ==
    /\ stack # <<>> /\ call[c].phase = "new" /\ ~r.pinned
    /\ Becomes(c, NewCall(r, 1))
    /\ UNCHANGED <<built, used, shared>>

\* Runtime::call_on goes straight to the router, if there is one.
CallOn(c, r) ==
    /\ stack # <<>> /\ call[c].phase = "new" /\ r.pinned
    /\ LET k == NewCall(r, Len(stack))
       IN  Becomes(c, IF Routed THEN k ELSE Up(k, Err(NoRouter)))
    /\ UNCHANGED <<built, used, shared>>

-----------------------------------------------------------------------------
(* CacheLayer::call_tool.                                                  *)

\* A live entry answers the call ...
Hit(c) ==
    LET k == call[c]
    IN  /\ Enters(c, "cache") /\ k.tool \in Cacheable
        /\ store[k.tool] > 0
        /\ Becomes(c, Up(k, [Ok EXCEPT !.from_cache = TRUE]))
        /\ UNCHANGED <<built, used, shared>>

\* ... otherwise it goes on; an expired entry is evicted.
Miss(c) ==
    LET k == call[c]
    IN  /\ Enters(c, "cache")
        /\ k.tool \in Cacheable => store[k.tool] \in {NotCached, 0}
        /\ store' = IF k.tool \in Cacheable
                    THEN [store EXCEPT ![k.tool] = NotCached] ELSE store
        /\ Becomes(c, Down(k))
        /\ UNCHANGED <<built, breakers, stamps, used, earned>>

\* The outcome comes back; a success is stored.
Fill(c) ==
    LET k == call[c]
    IN  /\ Leaves(c, "cache")
        /\ store' = IF k.tool \in Cacheable /\ k.out.success
                    THEN [store EXCEPT ![k.tool] = Ttl] ELSE store
        /\ earned' = IF k.out.success THEN earned \cup {k.tool} ELSE earned
        /\ Becomes(c, Up(k, k.out))
        /\ UNCHANGED <<built, breakers, stamps, used>>

-----------------------------------------------------------------------------
(* RateLimitLayer::call_tool, with a global window.                        *)

\* The pruning loop stops at the first stamp that has not aged out.
Expired ==
    CHOOSE n \in 0 .. Len(stamps) :
        /\ \A i \in 1 .. n : stamps[i] >= Period
        /\ n < Len(stamps) => stamps[n + 1] < Period

Young == SubSeq(stamps, Expired + 1, Len(stamps))

\* The window has room (a call that finds none waits until it has).
Pass(c) ==
    /\ Enters(c, "limit")
    /\ Len(Young) < Limit
    /\ stamps' = Append(Young, 0)
    /\ Uses(c, "slots")
    /\ Becomes(c, Down(call[c]))
    /\ UNCHANGED <<built, breakers, store, earned>>

PassBack(c) ==
    /\ Leaves(c, "limit")
    /\ Becomes(c, Up(call[c], call[c].out))
    /\ UNCHANGED <<built, used, shared>>

-----------------------------------------------------------------------------
(* CircuitBreakerLayer::call_tool.                                         *)

Admit(c) ==
    LET k == call[c]
    IN  /\ Enters(c, "breaker")
        /\ Allowed(breakers[k.tool])
        /\ breakers' = [breakers EXCEPT ![k.tool] = Acquired(@)]
        /\ Uses(c, "admits")
        /\ Becomes(c, Down(k))
        /\ UNCHANGED <<built, stamps, store, earned>>

Reject(c) ==
    LET k == call[c]
    IN  /\ Enters(c, "breaker")
        /\ ~Allowed(breakers[k.tool])
        /\ Becomes(c, Up(k, Err(CircuitOpen)))
        /\ UNCHANGED <<built, used, shared>>

Record(c) ==
    LET k == call[c]
    IN  /\ Leaves(c, "breaker")
        /\ breakers' = [breakers EXCEPT ![k.tool] = AfterCall(@, k.out.success)]
        /\ Uses(c, "records")
        /\ Becomes(c, Up(k, k.out))
        /\ UNCHANGED <<built, stamps, store, earned>>

-----------------------------------------------------------------------------
(* RetryLayer::call_tool.                                                  *)

\* The deadline is fixed only here, below the wait for a window.
Start(c) ==
    LET k == call[c]
    IN  /\ Enters(c, "retry")
        /\ Becomes(c, [Down(k) EXCEPT !.attempt = 0,
                                      !.budget = IF k.timeout = NoTimeout THEN 0 ELSE k.timeout])
        /\ UNCHANGED <<built, used, shared>>

\* (Slips: one retry too many; the deadline only caps the backoff.)
GivesUpLate(k) ==
    \/ k.out.success
    \/ k.attempt > MaxRetries
    \/ k.out.error \notin Retryable
    \/ k.timeout # NoTimeout /\ k.budget = 0
GivesUpWithoutDeadline(k) ==
    \/ k.out.success
    \/ k.attempt >= MaxRetries
    \/ k.out.error \notin Retryable
GivesUp(k) ==
    \/ k.out.success
    \/ k.attempt >= MaxRetries
    \/ k.out.error \notin Retryable
    \/ k.timeout # NoTimeout /\ k.budget = 0

\* A slip: the number of retries is reported.
ReturnRetries(c) ==
    LET k == call[c]
    IN  /\ Leaves(c, "retry") /\ GivesUp(k)
        /\ Becomes(c, Up([k EXCEPT !.attempt = 0, !.budget = 0],
                         [k.out EXCEPT !.attempts = k.attempt]))
        /\ UNCHANGED <<built, used, shared>>
Return(c) ==
    LET k == call[c]
    IN  /\ Leaves(c, "retry") /\ GivesUp(k)
        /\ Becomes(c, Up([k EXCEPT !.attempt = 0, !.budget = 0],
                         [k.out EXCEPT !.attempts = k.attempt + 1]))
        /\ UNCHANGED <<built, used, shared>>

\* Back off for d, at most what is left of the deadline (a slip: for all of d).
BackOffUncapped(c, d) ==
    LET k == call[c]
    IN  /\ Leaves(c, "retry") /\ ~GivesUp(k)
        /\ Becomes(c, [k EXCEPT !.phase = "sleep", !.left = d])
        /\ UNCHANGED <<built, used, shared>>
BackOff(c, d) ==
    LET k == call[c]
    IN  /\ Leaves(c, "retry") /\ ~GivesUp(k)
        /\ k.timeout # NoTimeout => d <= k.budget
        /\ Becomes(c, [k EXCEPT !.phase = "sleep", !.left = d])
        /\ UNCHANGED <<built, used, shared>>

WakeUp(c) ==
    LET k == call[c]
    IN  /\ k.phase = "sleep" /\ k.left = 0
        /\ Becomes(c, [Down(k) EXCEPT !.attempt = @ + 1, !.out = Ok])
        /\ UNCHANGED <<built, used, shared>>

-----------------------------------------------------------------------------
(* Router::call_tool, Router::call_on and McpInvoker::call_tool.           *)

\* Nothing is connected for the tool: the router answers at once.
Unrouted(c) ==
    LET k == call[c]
    IN  /\ Enters(c, "server") /\ ~k.found
        /\ Uses(c, "tries")
        /\ Becomes(c, Up(k, Err(NoServer)))
        /\ UNCHANGED <<built, shared>>

Send(c) ==
    LET k == call[c]
    IN  /\ Enters(c, "server") /\ k.found
        /\ Uses(c, "tries")
        /\ Becomes(c, [k EXCEPT !.phase = "running", !.spent = 0])
        /\ UNCHANGED <<built, shared>>

Answer(c, o) ==
    /\ call[c].phase = "running"
    /\ Becomes(c, Up(call[c], o))
    /\ UNCHANGED <<built, used, shared>>

\* (A slip: only the first attempt has a timer.)
TimeOutOnce(c) ==
    LET k == call[c]
    IN  /\ k.phase = "running" /\ k.attempt = 0
        /\ k.timeout # NoTimeout /\ k.spent >= k.timeout
        /\ Becomes(c, Up(k, Err(TimedOut)))
        /\ UNCHANGED <<built, used, shared>>
TimeOut(c) ==
    LET k == call[c]
    IN  /\ k.phase = "running"
        /\ k.timeout # NoTimeout /\ k.spent >= k.timeout
        /\ Becomes(c, Up(k, Err(TimedOut)))
        /\ UNCHANGED <<built, used, shared>>

-----------------------------------------------------------------------------
(* The world around the calls.                                             *)

\* The future of a call is dropped where it awaits something.
Drop(c) ==
    /\ \/ call[c].phase \in {"running", "sleep"}
       \/ Enters(c, "limit") /\ Len(Young) >= Limit
    /\ Becomes(c, [NoCall EXCEPT !.phase = "dropped"])
    /\ UNCHANGED <<built, used, shared>>

Less(n) == IF n > 0 THEN n - 1 ELSE n
Awaits(k) == k.phase = "running" \/ (k.phase = "sleep" /\ k.left > 0)
Older(k) ==
    [k EXCEPT !.spent = IF k.phase = "running" /\ k.timeout # NoTimeout THEN @ + 1 ELSE @,
              !.left = Less(@),
              !.budget = Less(@),
              !.waited = IF Awaits(k) /\ k.timeout # NoTimeout THEN @ + 1 ELSE @]

\* One unit of time; the timer of a call that runs out of time is not late.
Tick ==
    /\ stack # <<>>
    /\ \A c \in Calls : call[c].phase = "running" /\ call[c].timeout # NoTimeout =>
          call[c].spent < call[c].timeout
    /\ call' = [c \in Calls |-> Older(call[c])]
    /\ breakers' = [t \in Tools |->
          IF breakers[t].state = "Open" /\ breakers[t].opened_at < ResetTimeout
          THEN [breakers[t] EXCEPT !.opened_at = @ + 1] ELSE breakers[t]]
    /\ stamps' = [i \in DOMAIN stamps |->
          IF stamps[i] < Period THEN stamps[i] + 1 ELSE stamps[i]]
    /\ store' = [t \in Tools |-> Less(store[t])]
    /\ UNCHANGED <<built, used, earned>>

\* What the layers do of themselves, once they have the call.
Layer(c) ==
    \/ Hit(c) \/ Miss(c) \/ Fill(c)
    \/ Pass(c) \/ PassBack(c)
    \/ Admit(c) \/ Reject(c) \/ Record(c)
    \/ Start(c) \/ Return(c) \/ WakeUp(c)
    \/ \E d \in 0 .. MaxDelay : BackOff(c, d)
    \/ Unrouted(c) \/ Send(c) \/ TimeOut(c)

Next ==
    \/ \E l \in Layers : With(l)
    \/ Build
    \/ \E given \in SUBSET Layers : BuildRuntime(given)
    \/ \E c \in Calls, r \in Requests : Call(c, r) \/ CallOn(c, r)
    \/ \E c \in Calls : Layer(c) \/ Drop(c)
    \/ \E c \in Calls, o \in {Ok} \cup {Err(m) : m \in ToolErrors} : Answer(c, o)
    \/ Tick

Spec == Init /\ [][Next]_vars

\* Time passes and a call that can go on does.  Nothing is assumed of servers.
Fairness == WF_vars(Tick) /\ \A c \in Calls : WF_vars(Layer(c))

FairSpec == Spec /\ Fairness

-----------------------------------------------------------------------------
(* Properties.                                                             *)

RuntimeTypeOK ==
    /\ layers \subseteq Layers
    /\ stack \in Seq(Layers \cup {"server"})
    /\ call \in [Calls -> [phase : {"new", "down", "running", "up", "sleep", "done", "dropped"},
                           tool : Tools \cup {NoTool}, timeout : Nat \cup {NoTimeout},
                           found : BOOLEAN, home : 0 .. Len(stack), pos : 0 .. Len(stack), out : Outcome,
                           attempt : 0 .. MaxRetries, budget : Nat, left : 0 .. MaxDelay,
                           spent : Nat, waited : Nat]]
    /\ \A c \in Calls : call[c].phase \in {"down", "running", "up", "sleep"} =>
          call[c].pos \in call[c].home .. Len(stack)
    /\ breakers \in [Tools -> Breaker]
    /\ stamps \in Seq(0 .. Period) /\ Len(stamps) <= Limit
    /\ store \in [Tools -> NotCached .. Ttl]
    /\ earned \subseteq Tools

Pinned(c) == call[c].home = Len(stack) /\ Len(stack) > 1
Answered == {c \in Calls : call[c].phase = "done"}

\* "a fully-retried failure counts once" (lib.rs:179): however often a call is
\* retried, the breaker of its tool lets it in at most once and hears of it at
\* most once, and hears of every call it let in that was answered.
FailureCountsOnce ==
    \A c \in Calls :
        /\ used[c].admits <= 1
        /\ used[c].records <= used[c].admits
        /\ c \in Answered => used[c].records = used[c].admits

\* An answer costs nothing below the layer that gives it (lib.rs:77-80, 140-141):
\* a call answered from the cache took no slot, reached no breaker and no tool,
\* and its tool has succeeded before; one that a breaker turned away reached no
\* tool; a pinned one met no layer at all.
ShortCircuits ==
    \A c \in Answered :
        /\ call[c].out.from_cache =>
              /\ used[c].slots + used[c].admits + used[c].tries = 0
              /\ call[c].tool \in earned
        /\ call[c].out.error = CircuitOpen => used[c].admits + used[c].tries = 0
        /\ Pinned(c) => /\ used[c].slots + used[c].admits = 0
                        /\ ~call[c].out.from_cache
                        /\ used[c].tries <= 1

\* "Number of invocation attempts made (>= 1)" (outcome.rs:21): through whatever
\* layers it came, an answer reports how often the server side was called for
\* it, or 1 when it never was.
ReportsWhatRan ==
    \A c \in Answered :
        call[c].out.attempts = IF used[c].tries = 0 THEN 1 ELSE used[c].tries

\* An attempt that ran into the timeout is the last one, whether or not its
\* message is one worth a retry: each attempt is given the whole timeout, so it
\* cannot run out before the deadline of the call does (mcp lib.rs:79,
\* retry.rs:36-57).
TimedOutIsFinal ==
    \A c \in Calls : ~(call[c].phase = "sleep" /\ call[c].out.error = TimedOut)

\* The breaker layer keeps the promise of BreakerGate in every stack: a call is
\* inside the gate while it is below that layer, during backoffs too.
Inside(c) ==
    LET k == call[c]
    IN  /\ k.home = 1
        /\ k.phase \in {"down", "running", "sleep", "up"}
        /\ \E b \in 1 .. Len(stack) :
              /\ stack[b] = "breaker"
              /\ k.pos > b \/ (k.pos = b /\ k.phase = "up")

Gate == INSTANCE BreakerGate WITH
    Callers   <- Calls,
    mode      <- [t \in Tools |-> breakers[t].state],
    cooled    <- [t \in Tools |-> breakers[t].state = "Open" /\ ResetElapsed(breakers[t])],
    inside    <- [c \in Calls |-> IF Inside(c) THEN call[c].tool ELSE NoTool],
    NoCooling <- ResetTimeout = 0

ImplementsGate == Gate!GateSpec

\* What the timeout of a call bounds (retry.rs:36-58, mcp lib.rs:79): without a
\* retry layer on its way, the time it awaits a server; with one, the attempts and
\* backoffs up to the start of the last attempt, which may take as long again.  The
\* wait for a window is on top of that, whatever its length (rate_limit.rs:99-109),
\* so a call is not "bounded by `timeout`" (invoker.rs:21).
RetryInWay(k) == \E i \in k.home .. Len(stack) : stack[i] = "retry"
OnTheClock(k) == k.phase \in {"down", "running", "up", "sleep"} /\ k.timeout # NoTimeout

TimedCallsBounded ==
    \A c \in Calls : OnTheClock(call[c]) =>
        LET k == call[c]
        IN  /\ k.phase \in {"down", "sleep"} => k.waited <= k.timeout
            /\ k.waited <= k.timeout + (IF RetryInWay(k) THEN k.timeout ELSE 0)

\* A call with a timeout that has been sent to a server is answered even when no
\* server ever answers, through all its attempts and backoffs: every attempt has
\* its timer.  (One that waits for a window may wait for ever.)
TimedCallsReturn ==
    \A c \in Calls :
        call[c].phase = "running" /\ call[c].timeout # NoTimeout
            ~> call[c].phase \in {"done", "dropped"}
=============================================================================
