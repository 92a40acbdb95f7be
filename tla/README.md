# A TLA+ model of chuk-tool-runtime

This directory holds TLA+ modules that model the tool runtime of this repository, TLC
configurations that check them on small instances, and TLAPS proofs of the
properties that matter most. `PROJECT.json` lists the runs, says which lines of
the source every definition models, and lists the hazards the properties are
aimed at. Paths below are relative to `crates/`.

## 1. The system

A call of a tool goes through nested invokers, all of them implementations of the
trait `ToolInvoker` (`invoker.rs`): `cache → rate limiting → circuit breaker → retry
→ router → MCP transport`, assembled by `RuntimeBuilder::wrap` (`lib.rs:174`). Each
layer holds its own state behind `tokio` mutexes; calls are concurrent tasks, an
`.await` on the inner invoker is a point where any other call can run, and a future
can be dropped at every such point. Beside that stack stands the isolation crate:
a runner that executes untrusted Python in a sandboxed process and answers its
requests for tools over a unix socket.

| component | state it keeps | operations | interacts with | what is hard | correct when |
|---|---|---|---|---|---|
| circuit breaker (`layers/circuit_breaker.rs`) | per tool: state, failure and success counts, taken slots, `opened_at` | admit or reject a call, record its outcome, release the slot | awaits the inner invoker between two critical sections | stragglers that complete in a later state, dropped probes, time | counts only what belongs to the current period, trips on an unbroken run, waits out the reset, loses no slot, closes again |
| rate limiter (`layers/rate_limit.rs`) | per window: instants of recent acquisitions | acquire the global window, then the tool's | sleeps, then calls the inner invoker | many sleepers woken together, dropped sleepers, a limit of zero | never more than `limit` per period, no needless wait, nobody held up but by others that get slots |
| retry (`layers/retry.rs`, `RetryConfig`) | one call: attempt, deadline | attempt, classify, back off | the inner invoker is given the whole timeout every time | deadline against sleeps and slow attempts | retries only what may be retried, reports what happened, ends in time |
| cache (`layers/cache.rs`) | map of entries with expiry | look up, store | awaits the inner invoker between the two | overlapping misses, expiry | bounded staleness, convergence |
| registry and router (`routing/`) | owners, providers, connection per server | register, add, call, pinned call | filled by MCP discovery, called by the retry layer | same tool on several servers, a server added twice, failing discovery | first server wins for good |
| runtime and Python binding (`lib.rs`, `-python/src/lib.rs`) | shared handle, list of tools | build, call, pinned call, close | owns the layers and the router | close against calls in flight, with and without a timeout | connections live as long as their users |
| MCP transport (`-mcp/src/lib.rs`) | a client | connect, discover, call with timeout | fills the router | timeouts, failing discovery | an attempt is bounded by its timeout |
| broker and wire (`-isolation/src/broker.rs`, `wire.rs`) | one session: authorized, call count, result | handshake, `call_tool`, `result`, `list_tools` | calls tools for the guest | any client behaviour, replies that cannot be sent, limits | only permitted work, successes counted, answers in order and with their ids, nothing after the result |
| runner and guest (`runner.rs`, `limits.rs`, `resources/guest.py`) | child process, socket file, output pipes | launch, serve, collect, time out | broker, operating system | process death, full pipes, wall clock, concurrent calls of the guest, processes it forks | returns, reports the truth, keeps what fits of the whole output, kills what it spawned |
| sandbox backends (`local.rs`, `bubblewrap.rs`, `seatbelt.rs`) | none | build argument vectors and profiles | used by the runner | directories that lie in each other, the order of mounts and rules | the guest sees its files and writes only where the wrapper lets it |
| outcome and error types (`outcome.rs`, `error.rs`, `invoker.rs`) | none | make an outcome, delegate | everywhere | - | - |

## 2. The modules

| module | models | checked by | proved in |
|---|---|---|---|
| `BreakerState` | the breaker of one tool and its methods | through the two below | `CircuitBreakerProofs` |
| `CircuitBreaker` | the breaker layer | `breaker`, `breaker_cancelled`, `breaker_probes` | `CircuitBreakerProofs` |
| `BreakerGate` | what the breaker promises, without counters (abstract) | as `ImplementsGate` of `breaker` and of `runtime` | `CircuitBreakerProofs`, `RuntimeProofs` |
| `RateLimit` | the rate-limit layer | `rate_limit` | `RateLimitProofs` |
| `Retry` | one call in the retry layer | `retry`, `retry_deadline` | `RetryProofs` |
| `Cache` | the cache layer | `cache` | `CacheProofs` |
| `Routing` | registry, router, discovery, shared runtime, close | `routing` | `RoutingProofs` |
| `Runtime` | the builder, and calls through the layers it stacks | `runtime` | `RuntimeProofs` |
| `Broker` | one broker session against any client | `broker` | `BrokerProofs` |
| `Launch` | what a guest sees and may write under each backend, and the cap of its output | through `Sandbox` | `SandboxProofs` |
| `Sandbox` | the runner, a guest and what it forks, extends `Broker` and `Launch` | `sandbox`, `sandbox_output` | `SandboxProofs` |

Every `MC*` module gives the constants of its module values for TLC.

**BreakerState, CircuitBreaker.** The record `Breaker` is the struct of the same name;
`opened_at` is kept as its age, because only its age is compared. `BreakerState` has its
methods as functions of such a record, so that the layer alone and the whole stack
use the same ones. `call_tool` locks a breaker
twice, so it is two actions: `Admit`/`Reject` is `breaker_for` and `try_acquire`,
`Complete` is `record_*` and `release_probe`. `Cancel` is the future dropped at the
await between them. `Heal` and `healthy` are the environment: a server that fails no
more. `probes`, `lost` and `streak` are history and influence nothing.

**RateLimit.** One pass of the loop of `Window::acquire` runs under the lock and is
one step: `Pass`, `Sleep` or `Panic` (the `expect`, reachable with `limit = 0`). Between
two passes the call sleeps, `Drop` drops it. Each caller makes one call after another, of
any tool and without end (`Arrive`), so that newcomers always meet those that wait.
Instants are ages, saturated at the period, and `log`, which is history, keeps the last
`limit + 1` acquisitions of a window: neither time nor the number of calls needs a bound.

**Retry.** The layer has no state of its own, so one call is the whole of it. An error
message is the set of patterns it contains. `Tick` moves the clock; an attempt lasts
at most its timeout, which is what `McpInvoker::call_tool` ensures.

**Cache.** `Hit`/`Miss` is the lookup with its eviction, `Finish` the store after the
await, `Run` the tool reading the current version of its data. A lifetime is a number
of ticks or `Forever`. `Update` changes the data. `seen` and `raced` are history.

**Routing.** `Connect`, `DiscoveryFails` and `Register` are one server joining through
`add_mcp_*` or the Python `connect()`; `RegisterByHand` and `AddByHand` are the public
methods of `Router`. A connection is an identity that is open or closed; it is closed
when its last owner is dropped, which is `add_server` replacing it, `GiveUp` dropping
a half-filled router, or `Close` and `End` as the last holders of the runtime. A call is
`bounded` if it has a timeout or no connection to wait for; the others end when a server
answers, which it need not do.

**Runtime.** `With`, `Build` and `BuildRuntime` are the builder (and the `build_runtime`
of the Python binding): they decide on `stack`, the layers from the outermost to the
transport. `Given` is one layer if there is a config for it, `Wrap` the four in
their order. A call is a record that moves `Down` and `Up` through it. `Call` enters at
the top, `CallOn` at the router. A layer is one action on the way down and
one on the way up: `Hit`/`Miss` and `Fill`, `Pass` and `PassBack`, `Admit`/`Reject` and
`Record`, `Start` and `Return`/`BackOff`/`WakeUp`; `Unrouted`, `Send`, `Answer` and
`TimeOut` are the router with the MCP transport. Against the modules of the single layers it
keeps less: the limiter has its global window only and a call that finds it full waits
without a timer, delays are any up to the maximum, entries carry no versions.
What it adds is what one layer does to another: the deadline is fixed below the
limiter, every attempt has the whole timeout, a retry happens inside one admission.
`used`, `earned` and the field `waited` of a call, the time it has awaited a server or a
backoff, are history.

**Broker.** The socket is two queues of frames. `Hello`, `CallRefused`, `CallTool`,
`ToolAnswers`, `Result`, `OtherRequest` and `ReadFails` are the branches of `serve_one`;
`Reply` is `wire::send` with its failures, which `?` turns into the end of the session: the
client has gone, or the reply is longer than a frame, which any reply may be that repeats
an id (`BulkyIds`), a name or a namespace of the client (`Repeats`), and any answer of a tool.
The client is arbitrary: it sends any frame, under any id and twice the same if it likes,
with or without the names a call needs, reads or not, and hangs up at any time. A name is the
sequence of its parts between dots, so that `IsAllowed` compares what the code does, the
joined strings: an entry can be met by a namespace and a name split at another dot.

**Launch.** A backend is the list of what its wrapper says, mounts or rules in
the order of the source, and the last entry that covers a path decides. `ComesUp` is
whether the guest sees its interpreter, its staging directory and the socket.
`Truncated` is `truncate_utf8`, of a text that is the sequence of the widths of its characters.

**Sandbox.** `Serve` is any step of the broker, taken only while the runner polls
it. The guest is `guest.py` and the code it executes, which may call a tool
while another call is under way (`GuestOverlaps`): the next frame is taken for the
reply, whatever its id. It may fork (`GuestForks`), and what it forked (`kin`) may hold the
output pipe and the socket open (`held`), write (`KinPrints`) and let go (`KinLetGo`) at
any time, also after the guest has gone. `Collected`, `ServeFailed` and
`Timeout` are the three ways out of `run()` once launched; all are `Return`, which
removes the socket and kills the spawned process with its handle, and only that one: what it
forked goes with it under bubblewrap, whose `--unshare-pid` and `--die-with-parent` make an end
of the whole namespace (`KinFollow`), and stays elsewhere. `wait_with_output` returns when
the process has exited and nobody holds the pipe (`Collected`), so a forked process
that holds it lets the run time out.

## 3. What the runs check

| run | result | what it shows |
|---|---|---|
| `breaker` | holds | counters and slots stay coherent under every interleaving; the layer implements `BreakerGate`; HALF_OPEN ends and a healthy tool's breaker closes, unless a probe was dropped |
| `breaker_cancelled` | violated | a dropped probe keeps its slot, and the breaker stays HALF_OPEN for ever |
| `breaker_probes` | violated | a straggler frees a slot it never took, and one probe too many runs |
| `rate_limit` | holds | the sliding window, exact sleeping; a call is held up for ever only while others get slots of its window for ever |
| `retry` | holds | classification, counting, the bound on the overrun, termination |
| `retry_deadline` | violated | an attempt is started exactly at the deadline |
| `cache` | holds | bounded staleness; older data only comes back when fills overlapped; convergence |
| `routing` | holds | the first server keeps a tool; a connection lives exactly as long as its users; listed tools are offered; a closed runtime disconnects once every call still under way has a timeout |
| `runtime` | holds | in every stack a retried failure counts once at the breaker, hits and rejections and pinned calls cost nothing in the layers they pass by, an outcome reports the attempts made, a timeout is final and bounds what is awaited of servers and backoffs, the breaker implements `BreakerGate`, and a call with a timeout that has reached a server is answered whatever servers do |
| `broker` | holds | one answer per frame, in order and with its id; only permitted tools; counted successes; the result is final |
| `sandbox` | holds | under every backend the guest sees its files and writes where the wrapper says; every run returns, faithfully and with the output that fits; the spawned process is gone, and under bubblewrap what it forked |
| `sandbox_output` | violated | output is not collected while the guest is served: a full pipe blocks both |

The four violated properties state what a comment of the source says; `findings` in
`PROJECT.json` quotes it. Seven more findings are attached to properties that hold,
because these state what the code does where a comment says more:

| what the code does | what is written | the property that holds |
|---|---|---|
| a call woken in the rate limiter competes again and can lose every time (`rate_limit.rs:64`) | it "then proceeds" (`rate_limit.rs:4`) | `HeldUpOnlyByOthers` |
| a window with limit zero panics (`rate_limit.rs:57`) | "must not panic" (`invoker.rs:17`) | `HeldUpOnlyByOthers`, which leaves such windows out |
| a failing tool call spends nothing of the limit and is not reported (`broker.rs:133`) | "Maximum tool calls", "How many tool calls" (`limits.rs:34`, `broker.rs:52`) | `CallsCounted` |
| bubblewrap binds the host's `/tmp`, where the socket lies, writable over all the rest (`bubblewrap.rs:75`, `runner.rs:109`) | "private `/tmp` tmpfs", "Staging dir read-only" (`bubblewrap.rs:3`, `:66`) | `GuestSeesItsFiles` |
| processes the guest forked outlive the run, except under bubblewrap (`runner.rs:158`) | "the runner kills the guest" (`limits.rs:26`) | `NothingLeftBehind` |
| the wait for a window does not count against the timeout, and the last attempt has all of it again (`rate_limit.rs:99`) | a call is "bounded by `timeout`" (`invoker.rs:21`) | `TimedCallsBounded` |
| after `close()` a call without a timeout keeps every connection open (`-python/src/lib.rs:301`) | "deterministic shutdown" (`-python/src/lib.rs:229`) | `ConnectionsHeld` |

The stronger formulas were tried. TLC refutes, on the instances of these runs or smaller ones, that a call always leaves a
window of the limiter (`at[c] = w ~> at[c] # w`: other callers take every slot that comes
free) and that every closed runtime disconnects (one call without a timeout is
enough). All type invariants are proved, and no run spends time on those of the layers, the
router and the broker.

More was seen and is no run of its own. The global window is stamped before the wait for
the window of the tool (`rate_limit.rs:101`), so calls held up there can be sent in
a bunch: the limits are on slots granted, not on requests sent. A breaker with
`half_open_max_calls = 0` and a `success_threshold` of two or more admits the one probe that
leaves OPEN and no other, and stays HALF_OPEN (`circuit_breaker.rs:75`). "timed out"
(`-mcp/src/lib.rs:79`) does not contain the default
pattern "timeout" (`config.rs:16`); `TimedOutIsFinal` shows that this makes no difference
to a call, because the deadline has passed as well. A code that leaves a reply unread can
take it for the reply to its result and exit before the broker has that:
`ReportIsFaithful` promises the value only to codes that have read their replies.
With two entries of one name, the Python `connect()` lists tools of the
connection it has replaced (`ToolsAvailable` excepts reused names). A ceiling of zero
is passed on but read as no ceiling by `guest.py` (lines 39, 43, 46), where `limits.rs:28-36` has
`None` for that.

### Bounds, and why they are enough

- `breaker`: one tool, because breakers of different tools share only the map; three
  callers, so that two probes and a straggler are in flight at once; a threshold of
  two, two slots and three successes, so that a HALF_OPEN period has a first, a middle and a
  last probe. `CountCap` is above the threshold: larger counts behave alike.
- `rate_limit`: three callers, one of them always too many for the global window of two,
  each of which calls any tool as often as it likes;
  a tool with a window of one, one without, and one with a window of zero for the panic.
- `retry`: every timeout up to four ticks and none, two retries and delays that are
  zero, below and above the cap and the budget.
- `cache`: two callers give the race of two fills; a finite, an infinite and no
  lifetime; two versions of the data. `Latency` bounds how long an answer is under
  way; without a bound there is no bound on staleness either.
- `routing`: two server names and three connections, so that one name is replaced and
  one shared; two callers, so that close can meet a call that ends last, and one with a timeout
  can stand beside one without.
- `runtime`: two calls are enough for one that fills the window, opens the breaker or fills
  the cache, and one that meets it; a cacheable tool and one that nobody offers;
  limits, periods, lifetimes and thresholds of one, so that each is reached, exceeded and
  left within a call, and delays of up to two, longer than the timeout; every subset of the layers as the stack. `Routed` is
  TRUE: `build` is there too, but pinned calls find a router.
- `broker`: three frames after the hello reach a limit of one call, a result, and what
  comes after each; two ids, one of which makes replies that may be too long, so that ids repeat
  and differ; one entry of two parts, which one name meets and another does not.
- `sandbox`: four frames, which are a hello, two calls and a result; a pipe that holds one
  character, so that it is full at once. Characters take one byte or three and two bytes are kept,
  so that a cut falls after a character, before one and at the very beginning; after two
  characters no print starts. Seven setups are every backend, with the staging directory in
  and out of `/tmp`, an interpreter in and out of the mounted roots, and the backend without
  isolation, permitted and not.

### Fairness

`breaker` assumes that time passes, that an admitted call is answered
(`McpInvoker` bounds it by the timeout; a call without one must have a tool that
answers) and that somebody keeps calling. `rate_limit` assumes that time passes and that
a woken call gets the lock (tokio's mutex is fair), but no order in which calls that wake
together get a slot. `retry` and `cache` assume time
and answers. `routing` assumes that a call ends once the runtime is closed if it has a timeout
or nothing to wait for, and nothing of the others. `runtime` assumes that time passes and that a
call which can go on does so (its task is polled): nothing of the servers, whose
answers may never come. `sandbox` assumes that the runner polls its
futures and that the wall clock runs: nothing about the guest or the tools, except that
a write goes on when there is room. No safety property depends on fairness.

CHECK_DEADLOCK is off for `retry`, `routing`, `runtime`, `broker` and `sandbox`, which really
stop: a returned call, a closed runtime, calls that are all answered, an ended session, a run
that has returned.

## 4. What is proved

For all values of the constants that satisfy the named assumptions:

- **CircuitBreakerProofs**, from `ThresholdAssumption` and `CapAssumption`: `TypeOK`;
  `Invariance`, the inductive invariant `Inv` = type correctness and, per breaker, `Coherent`: while
  CLOSED the failure count equals `streak` and is below the threshold, outside
  HALF_OPEN no success, slot or probe is left, and inside it successes are below their
  threshold. It is needed because `ClosedBelowThreshold` says nothing of what the counters
  are when HALF_OPEN closes. From it follow `ClosedBelowThreshold`,
  `ProbePeriodsAreFresh` and the action properties `OpenWaitsOutReset` and
  `TripsOnlyAfterRun`; `SlotsAccounted` for any finite set of callers; and
  `ImplementsGate`, step by step against `BreakerGate`.
- **RateLimitProofs**, from `WindowAssumption` and `NameAssumption`: `TypeOK`;
  `RemembersRecent`, which is inductive: the stamps are a suffix of the log, and what is
  missing has aged out; from it `SlidingWindow` and `SleepsOnlyWhenFull`. The lemmas
  about pruning and ageing stand at the head of the module.
- **RetryProofs**, from `RetryAssumption`: `TypeOK` with `CountInv` (a call that is new has
  done nothing, one that sleeps has a retry left, and the attempts are as many as the
  history is long); from it `ReportsAttempts`;
  `RetriesOnlyRetryable`, because every outcome in the history but the
  last passed the test of the lists; and `OverrunBounded`, with `AttemptInTime` added: an attempt
  starts at the deadline at the latest, which is what the cap on the delay is for. That
  the delays are numbers at all needs 2^n to be one.
- **CacheProofs**, from `CacheAssumption`: `TypeOK`, which says that entries belong to
  cacheable tools and that their lifetimes only shrink; `AnswersFit` is added: what a caller
  holds is a version of the key it asked for, or its store could put a foreign one in.
  `BoundedStaleness` follows from `StalenessInv`: an answer under way has been out of date for at
  most the time since its tool ran, and the time an entry has been out of date and what is left
  of its lifetime together never exceed the lifetime and one latency; the property alone says nothing about the answer
  that is about to be stored. `GoesBackOnlyByRace` needs `OneFill`: while a key whose fills have not
  overlapped has a call under way, it is the only one and nothing is stored.
- **RoutingProofs**, from `RoutingAssumption`: `TypeOK`; `RoutedToFirst`, with `FirstOwns`
  (the owner of a tool is its first provider) added to make it inductive; and
  `ConnectionsHeld`, with `OneOwner` added: no two servers, and no server and the one
  joining, share a connection. Without it, replacing one server could close the
  connection of another. Both use that nobody calls while the router is being filled.
  `ToolsAvailable` is the part of `Backed` that concerns listed tools: whatever a server
  owns is offered by its connection, unless its name was used twice; a server that
  has no connection yet therefore owns nothing, which is why registering it can promise its tools.
- **BrokerProofs**, from `BrokerAssumption`, for any client and number of frames: the types
  together with `LoopState` (in the request loop the client is authorized; while a tool runs
  it is the only one, there is no result and the count is below the limit). `LoopState` is
  what carries the checks of `CallTool` over the await to `ToolAnswers`: from it follow
  `ResultIsFinal`, `RunsOnlyPermitted` and `CallsCounted`. `AnsweredInOrder` is made
  inductive by `InOrder`: the ids of the frames answered, running and waiting, in this order,
  are those of the frames sent, and all of them while the session lasts. A step of the
  session either answers the frame it takes, starts a tool with its id, answers
  under the id of that tool, or loses the rest and is over (`OrderStep`).
- **SandboxProofs**, from `LaunchAssumption`, `SandboxAssumption` and `BrokerAssumption`, for any
  guest, any lists of roots and of denied paths, any texts and number of frames.
  `RunIsASession` is a refinement: every step of runner and guest is a step of
  the broker's session or leaves it alone, so all of `BrokerProofs` holds of a run.
  On it rests `ReportInv`, the invariant of a run: the connection stands while the guest does, the
  handshake comes first, there is no result while the code runs, and a guest that has read
  every reply has its result on its way, recorded, or lost with the session (`Reports`,
  `Settled`); what the guest forked can only keep the connection open (`KinKeeps`). From it
  follow `ReportIsFaithful` and `SandboxTypeOK`. `NothingLeftBehind` adds `KinWithGuest`: under
  bubblewrap forked processes live only while the guest does. `GuestSeesItsFiles` is about `Launch`: the lemmas give
  the list of mounts or rules of each backend and find the last entry that covers
  a path. It has a hypothesis, `DenialsSpareFiles`: no path in `deny_read_paths` covers
  the staging directory or the socket, because the code hides from a seatbelt guest whatever it is told to.
  The instance that `sandbox` checks satisfies it with a list that is not empty.
  `OutputKept` has two halves. `Texts`: what was written is what was read and what the
  pipe still holds, so that a run that collected has read all of it, since nobody is left to write.
  And `TruncationKeeps`: the cut is at a boundary, and the next one would not fit. That needs
  the recursive functions `Bytes` to be what they say for texts
  of any length, which `BytesAdd` proves by a least counterexample.
- **RuntimeProofs**, from `RuntimeAssumption`, `ThresholdAssumption` and `CapAssumption`, for every
  set of layers and any number of calls, tools, retries and limits. `WrapStacks` says what every
  stack looks like: no layer twice, the cache on top, retry just above the server.
  `RuntimeInv` is the inductive invariant, a conjunction per call on its way (`Placed`, where
  it can be; `Gated`, that a breaker has let it in and not heard of it exactly while it is below
  the breaker; `Tried`, that the retry layer's count is that of the attempts; `Timed`, that an attempt
  never has more time than the deadline leaves; `Charged`, what it has used so far) and one per
  answered call (`Settled`). `UpSound` and `DownSound` say once what passing a layer
  keeps; every action has a lemma of its own. From it follow `RuntimeTypeOK`,
  `FailureCountsOnce`, `ShortCircuits`, `ReportsWhatRan` and `TimedOutIsFinal`;
  `TimedCallsBounded`, from `Waits` in addition: what a call has waited and what is left of its
  deadline never exceed the timeout, and no attempt starts after the deadline; and
  `ImplementsGate`: a call holds the gate of its tool from `Admit` to `Record` or `Drop`, over
  backoffs and retries, and no other layer touches it.

Assumptions on constants are what the code's types give (unsigned numbers, paths made of names),
that reserved model values are not members of the sets they stand beside, and that the
frames of a session have a bound, which only the model has.

Only model-checked: the liveness properties (`HalfOpenResolves`, `ClosesUnlessCancelled`,
`HeldUpOnlyByOthers`, `AlwaysReturns`, `Converges`, `CloseDisconnects`, `RunReturns`,
`TimedCallsReturn`), because fairness and ENABLED are out of the prover's reach, and the
four that are violated. Every invariant and action property that a passing run checks is proved.
Induction with the library's induction theorems is out of reach too, because they take an
operator as a parameter; where a recursive function had to be reasoned about, a least
counterexample took its place.

## 5. What is not modelled, and why

Layers that are disabled by their config hand everything on; getters, snapshots and
`is_available` change no state. `f64` overflow in `base_backoff`, the canonical rendering of
arguments, JSON, result mapping and the conversions of the Python binding are data.
`RuntimeError` is constructed nowhere in the runtime crate. `run_sandboxed` is a
helper that runs a wrapper without a broker. Namespaces and the network switch of the backends
are the operating system's to enforce; the models end with the argument vector's
effect on files, and with the end of the pid namespace of bubblewrap, which is made one step with
the end of the guest.

The resource ceilings that `guest.py` sets with `setrlimit` are not modelled. They are best effort by
its own words: without the `resource` module, or when `getrlimit` or `setrlimit` fails, a ceiling
is not set and nothing is reported, so no property holds of them in general; where they are set,
the operating system enforces them (`GuestDies` is a guest that ran into one).

Assumed rather than shown: a dropped future makes no further step, so no tool is polled for a
run that has returned; `stdout` and `stderr`, which `wait_with_output` reads side by side, are one pipe
of characters as they are after the lossy decoding; and what a guest forked does not speak on
the socket, as the client of `Broker` may do in any way it likes.

## 6. Plan

Done: models of the layers (breaker, rate limiter, retry, cache), routing, broker, sandbox, launch and
the assembled runtime; proofs of every safety property the passing runs check, and of the
refinements `ImplementsGate` (twice) and `RunIsASession`. Left:

1. An abstract session, a log of permitted calls and one result, that `Broker` implements
   and so, by `RunIsASession`, does every run.
2. The rate limiter of `Runtime` against the window of `RateLimit`.
3. Lemmas about how far a call can be from its answer, which the liveness properties rest on.

## 7. Running

    tlc -config CircuitBreaker.cfg MCCircuitBreaker.tla
    tlapm CircuitBreakerProofs.tla

and likewise for the other runs in `PROJECT.json` and for `RateLimitProofs`,
`RetryProofs`, `CacheProofs`, `RoutingProofs`, `BrokerProofs`, `SandboxProofs` and
`RuntimeProofs`.
