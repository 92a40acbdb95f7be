------------------------------- MODULE Sandbox -------------------------------
(***************************************************************************)
(* One isolated run: IsolatedRunner::run                                   *)
(* (crates/chuk-tool-runtime-isolation/src/runner.rs) with the broker of   *)
(* module Broker and the guest process of resources/guest.py.              *)
(*                                                                         *)
(* The runner first awaits serve_one and then wait_with_output, both under *)
(* the wall-clock timeout.  The guest writes its output to a pipe of the   *)
(* operating system, which only wait_with_output reads.  The code it runs  *)
(* may print, call tools, also several at a time, catch or not catch what  *)
(* a call raises, fork, run for ever, return, or take the process down at  *)
(* any point.  What it forks may keep the pipe and the socket open, and    *)
(* print, for as long as it lives; it does not speak on the socket (one    *)
(* that does is a client like any other: module Broker).  Whether the      *)
(* process gets as far as its code depends on what it sees from inside the *)
(* backend: module Launch.                                                 *)
(***************************************************************************)
EXTENDS Broker, Launch

CONSTANTS
    Widths,     \* the widths of the characters it prints
    MaxOutput,  \* max_output_bytes
    PipeCap,    \* what the output pipe holds, in characters
    MaxPrinted, \* bound: after how many characters no print starts
    WallClock   \* whether wall_timeout can be reached

ASSUME SandboxAssumption ==
    /\ Widths \subseteq Nat /\ MaxOutput \in Nat
    /\ PipeCap \in Nat \ {0} /\ WallClock \in BOOLEAN
    /\ Namespace \in Namespaces
    /\ MaxRequests \in Nat /\ 1 .. MaxRequests \subseteq Ids \ BulkyIds

VARIABLES
    setup,    \* the IsolatedRunner and its host
    runner,   \* "new", "serving", "collecting", "done"
    outcome,  \* what run() returned: Err, or an IsolatedResult
    socket,   \* whether the file of the socket exists
    guest,    \* where the guest process is
    exit_ok,  \* whether it exited with status zero
    kin,      \* whether processes that it forked live
    held,     \* what of its own these hold open: "output", "socket"
    pipe,     \* output written and not yet read
    output,   \* output read
    written,  \* history: all output written, in order
    returned, \* history: the value the guest's code returned
    unheard   \* history: how many replies it had not read when it ended

runVars == <<setup, runner, outcome, socket>>
kinVars == <<kin, held>>
textVars == <<pipe, output, written>>
endVars == <<returned, unheard>>
sandboxVars == <<runVars, guest, exit_ok, kinVars, textVars, endVars>>
vars == <<brokerVars, sandboxVars>>

Err == [err |-> TRUE, timed_out |-> FALSE, value |-> NoValue, tool_calls |-> 0,
        kept |-> 0, exit_ok |-> FALSE]
TimedOut == [Err EXCEPT !.err = FALSE, !.timed_out = TRUE]

Init ==
    /\ BrokerInit
    /\ setup \in Setups
    /\ runner = "new" /\ outcome = <<>> /\ socket = FALSE
    /\ guest = "none" /\ exit_ok = FALSE /\ kin = FALSE /\ held = {}
    /\ pipe = <<>> /\ output = <<>> /\ written = <<>>
    /\ returned = NoValue /\ unheard = 0

-----------------------------------------------------------------------------
(* The guest: guest.py and the code it executes.                           *)

Awaiting == {"hello", "call", "result"}
Alive == {"starting", "connected", "code", "printing", "closing", "flushing"} \cup Awaiting

\* The proxies bound in the globals of the code: one per entry, and none if
\* allowed_tools is None.
Proxies == IF AnyTool THEN {} ELSE Tools \cap AllowedTools

GuestConnect ==
    /\ guest = "starting" /\ ComesUp(setup) /\ Connect
    /\ guest' = "connected"
    /\ UNCHANGED <<runVars, exit_ok, kinVars, textVars, endVars>>

\* rpc: a request is sent, with the next number for its id, and its reply
\* awaited.
NextId == Len(sent) + 1
Rpc(r, state) ==
    /\ ~Over /\ Send(r)
    /\ guest' = state
    /\ UNCHANGED <<runVars, exit_ok, kinVars, textVars>>

GuestHello ==
    /\ guest = "connected"
    /\ Rpc([method |-> "hello", id |-> NextId, token |-> TRUE], "hello")
    /\ UNCHANGED endVars

\* A call of proxy t, and a frame longer than the broker reads.
CallOf(t) == [method |-> "call_tool", id |-> NextId, ns |-> Namespace, tool |-> t]
TooLong == [method |-> "malformed", id |-> NextId]

\* The code calls a proxy, with arguments that fit a frame or not.
GuestCalls ==
    /\ guest = "code"
    /\ \E t \in Proxies : Rpc(CallOf(t), "call") \/ Rpc(TooLong, "call")
    /\ UNCHANGED endVars

\* It calls another one while the first is awaited.  Its reply may be awaited
\* too or not: who is already reading the stream makes the second read raise.
GuestOverlaps ==
    /\ guest = "call"
    /\ \E t \in Proxies : Rpc(CallOf(t), "call")
    /\ UNCHANGED endVars

\* How many requests have replies that the guest has not read.
Unheard == Len(sent) - (Len(replies) - Len(down))

\* The code returns; its value is reported, if it fits a frame (a slip: the
\* reply is not awaited).
ReportOf(v) == [method |-> "result", id |-> NextId, value |-> v]
GuestReturnsUnheard ==
    /\ guest = "code"
    /\ \E v \in Values :
          /\ Rpc(ReportOf(v), "closing") \/ Rpc(TooLong, "closing")
          /\ returned' = v /\ unheard' = Unheard
GuestReturns ==
    /\ guest = "code"
    /\ \E v \in Values :
          /\ Rpc(ReportOf(v), "result") \/ Rpc(TooLong, "result")
          /\ returned' = v /\ unheard' = Unheard

\* The next frame is taken for the reply, whatever its id.  A positive one: go
\* on.  (A negative one, or the end of the stream, raises.)
GuestReceives ==
    /\ guest \in Awaiting /\ Receive
    /\ CASE guest = "call" -> guest' \in {"code"} \cup (IF Unheard > 1 THEN {"call"} ELSE {})
         [] guest = "hello" -> guest' = IF Head(down).ok THEN "code" ELSE "raised"
         [] guest = "result" -> guest' = IF Head(down).ok THEN "closing" ELSE "raised"
    /\ UNCHANGED <<runVars, exit_ok, kinVars, textVars, endVars>>

\* The broker has closed the connection; the code may catch what that raises.
GuestSeesEnd ==
    /\ guest \in Awaiting /\ down = <<>> /\ Over
    /\ guest' = IF guest = "call" THEN "code" ELSE "raised"
    /\ UNCHANGED <<brokerVars, runVars, exit_ok, kinVars, textVars, endVars>>

\* A character goes into the pipe, which has room for it.
HasRoom == Len(pipe) < PipeCap
Prints(w) == pipe' = Append(pipe, w) /\ written' = Append(written, w) /\ UNCHANGED output

\* The code writes a character; the write blocks while the pipe is full.
GuestPrints ==
    /\ \/ guest = "code" /\ Len(written) < MaxPrinted
       \/ guest = "printing" /\ HasRoom
    /\ IF HasRoom THEN guest' = "code" /\ \E w \in Widths : Prints(w)
                  ELSE guest' = "printing" /\ UNCHANGED textVars
    /\ UNCHANGED <<brokerVars, runVars, exit_ok, kinVars, endVars>>

\* The code forks; the child inherits what is not closed for it.
GuestForks ==
    /\ guest = "code"
    /\ kin' = TRUE
    /\ \E h \in SUBSET {"output", "socket"} : held' = held \cup h
    /\ UNCHANGED <<brokerVars, runVars, guest, exit_ok, textVars, endVars>>

\* What becomes of these processes as the guest goes: under bubblewrap they share
\* a pid namespace that ends with the process of the runner (--unshare-pid,
\* --die-with-parent).  (A slip: without these flags they live on.)
KinLiveOn == UNCHANGED kinVars
KinFollow ==
    IF setup.backend = "bubblewrap" /\ guest' \in {"exited", "killed"}
    THEN kin' = FALSE /\ held' = {}
    ELSE UNCHANGED kinVars

\* The client's end of the socket closes with the last process that holds it.
HasSocket == {"connected", "code", "printing", "closing", "raised"} \cup Awaiting
SocketFollows ==
    /\ link' = IF link = "open" /\ guest' \notin HasSocket /\ "socket" \notin held'
               THEN "closed" ELSE link
    /\ UNCHANGED <<up, down, phase, job, session, sent, replies, ran>>

\* After the reply to the result: the connection is closed, buffered output
\* (if any) flushed as soon as there is room (a slip: at once), and the process
\* exits.
GuestCloses ==
    /\ guest = "closing"
    /\ guest' \in {"flushing", "exited"}
    /\ KinFollow /\ SocketFollows
    /\ exit_ok' = (guest' = "exited")
    /\ UNCHANGED <<runVars, textVars, endVars>>

GuestFlushesRegardless ==
    /\ guest = "flushing"
    /\ \E w \in Widths : Prints(w)
    /\ guest' = "exited" /\ exit_ok' = TRUE
    /\ KinFollow /\ SocketFollows
    /\ UNCHANGED <<runVars, endVars>>
GuestFlushes ==
    /\ guest = "flushing" /\ HasRoom
    /\ \E w \in Widths : Prints(w)
    /\ guest' = "exited" /\ exit_ok' = TRUE
    /\ KinFollow /\ SocketFollows
    /\ UNCHANGED <<runVars, endVars>>

\* The code ends the process with status zero before it returns (sys.exit(0));
\* what is buffered it has printed before.
GuestExits ==
    /\ guest = "code"
    /\ guest' = "exited" /\ exit_ok' = TRUE
    /\ KinFollow /\ SocketFollows
    /\ unheard' = Unheard
    /\ UNCHANGED <<runVars, textVars, returned>>

\* The process dies: an uncaught exception, a resource limit, a failing exit.
GuestDies ==
    /\ guest \in Alive \cup {"raised"}
    /\ guest' = "exited"
    /\ KinFollow /\ SocketFollows
    /\ UNCHANGED <<runVars, exit_ok, textVars, endVars>>

\* The processes it forked print, as long as someone reads; they end or let go
\* of what they hold.
KinPrints ==
    /\ "output" \in held /\ runner # "done"
    /\ Len(written) < MaxPrinted /\ HasRoom
    /\ \E w \in Widths : Prints(w)
    /\ UNCHANGED <<brokerVars, runVars, guest, exit_ok, kinVars, endVars>>

KinLetGo ==
    /\ kin
    /\ held' \in SUBSET held
    /\ kin' \in {TRUE, held' # {}}
    /\ UNCHANGED guest /\ SocketFollows
    /\ UNCHANGED <<runVars, exit_ok, textVars, endVars>>

GuestStep ==
    \/ GuestConnect \/ GuestHello \/ GuestCalls \/ GuestOverlaps \/ GuestReturns
    \/ GuestReceives \/ GuestSeesEnd \/ GuestPrints \/ GuestForks \/ GuestCloses
    \/ GuestFlushes \/ GuestExits \/ GuestDies
KinStep == KinPrints \/ KinLetGo

-----------------------------------------------------------------------------
(* IsolatedRunner::run.                                                    *)

\* A backend without isolation is refused unless it was permitted.
MayRun == Isolates(setup) \/ setup.allow_no_isolation

Refuse ==
    /\ runner = "new" /\ ~MayRun
    /\ runner' = "done" /\ outcome' = Err
    /\ UNCHANGED <<brokerVars, setup, socket, guest, exit_ok, kinVars, textVars, endVars>>

\* The staging directory cannot be made or filled, or the socket not be bound.
PrepareFails ==
    /\ runner = "new" /\ MayRun
    /\ runner' = "done" /\ outcome' = Err
    /\ UNCHANGED <<brokerVars, setup, socket, guest, exit_ok, kinVars, textVars, endVars>>

\* The socket is bound and the guest spawned, without a look at is_available; if
\* that fails, `?` returns at once and the file of the socket stays.
Spawn(spawned) ==
    /\ runner = "new" /\ MayRun
    /\ socket' = TRUE
    /\ IF spawned THEN runner' = "serving" /\ guest' = "starting" /\ UNCHANGED outcome
                  ELSE runner' = "done" /\ outcome' = Err /\ UNCHANGED guest
    /\ UNCHANGED <<brokerVars, setup, exit_ok, kinVars, textVars, endVars>>

\* The runner polls serve_one.
Serve ==
    /\ runner = "serving" /\ BrokerStep
    /\ UNCHANGED sandboxVars

\* serve_one returned a session: now the output is read, to its end.
StartCollecting ==
    /\ runner = "serving" /\ phase = "ended"
    /\ runner' = "collecting"
    /\ UNCHANGED <<brokerVars, setup, outcome, socket, guest, exit_ok, kinVars, textVars, endVars>>

Drain ==
    /\ runner = "collecting" /\ pipe # <<>>
    /\ pipe' = <<>> /\ output' = output \o pipe
    /\ UNCHANGED <<brokerVars, runVars, guest, exit_ok, kinVars, written, endVars>>

\* run() is over: what it awaited is dropped where it is and never polled again,
\* a running tool included; the file is removed; the guest, if it still runs, is
\* killed because its handle is dropped (kill_on_drop), but not what it forked.
Return(o) ==
    /\ runner' = "done" /\ outcome' = o /\ socket' = FALSE
    /\ guest' = IF guest \in Alive \cup {"raised"} THEN "killed" ELSE guest
    /\ KinFollow /\ SocketFollows
    /\ UNCHANGED <<setup, exit_ok, textVars, endVars>>

\* What is reported of a guest that has been served and has exited.
Report == [err |-> FALSE, timed_out |-> FALSE, value |-> session.result,
           tool_calls |-> session.tool_calls, kept |-> Truncated(output, MaxOutput),
           exit_ok |-> exit_ok]

\* The guest has exited and its output ended: nobody holds the pipe for writing
\* (a slip: the exit is enough).
CollectedAtExit ==
    /\ runner = "collecting" /\ guest = "exited"
    /\ Return(Report)
Collected ==
    /\ runner = "collecting" /\ guest = "exited"
    /\ pipe = <<>> /\ "output" \notin held
    /\ Return(Report)

\* serve_one failed: so does the run.
ServeFailed ==
    /\ runner = "serving" /\ phase = "failed"
    /\ Return(Err)

\* The wall clock (a slip: only serve_one is bounded).
TimeoutServing ==
    /\ WallClock /\ runner = "serving"
    /\ Return(TimedOut)
Timeout ==
    /\ WallClock /\ runner \in {"serving", "collecting"}
    /\ Return(TimedOut)

RunnerStep ==
    \/ Refuse \/ PrepareFails \/ \E spawned \in BOOLEAN : Spawn(spawned)
    \/ StartCollecting \/ Drain \/ Collected \/ ServeFailed \/ Timeout

Next == GuestStep \/ KinStep \/ Serve \/ RunnerStep
Spec == Init /\ [][Next]_vars

\* The runner polls its futures, and the wall clock runs.  Neither the guest
\* nor a tool has to get anywhere, but a write goes on when there is room.
Fairness ==
    /\ WF_vars(StartCollecting) /\ WF_vars(Drain) /\ WF_vars(Collected)
    /\ WF_vars(ServeFailed) /\ WF_vars(Timeout)
    /\ WF_vars(guest = "printing" /\ GuestPrints)

FairSpec == Spec /\ Fairness

-----------------------------------------------------------------------------
(* Properties.                                                             *)

SandboxTypeOK ==
    /\ BrokerTypeOK
    /\ runner \in {"new", "serving", "collecting", "done"}
    /\ runner = "done" => outcome \in [err : BOOLEAN, timed_out : BOOLEAN,
                              value : Values \cup {NoValue}, tool_calls : 0 .. MaxToolCalls,
                              kept : 0 .. MaxOutput, exit_ok : BOOLEAN]
    /\ runner # "done" => outcome = <<>>
    /\ setup \in Setups
    /\ socket \in BOOLEAN /\ exit_ok \in BOOLEAN
    /\ guest \in Alive \cup {"none", "raised", "exited", "killed"}
    /\ kin \in BOOLEAN /\ held \in SUBSET {"output", "socket"}
    /\ \A text \in {pipe, output, written} : text \in Seq(Widths)
    /\ Len(pipe) <= PipeCap
    /\ returned \in Values \cup {NoValue}
    /\ unheard \in 0 .. MaxRequests

\* A run reports the truth.  Of a guest that exited with status zero, and whose
\* code had read every reply when it ended, it reports the value the code returned, or
\* none if the code ended the process before; never an error (the reply to
\* `result` is awaited before the exit, guest.py:101-102, and sent after it is
\* recorded, broker.rs:140-149).  A code that left a reply unread takes that one
\* for the reply to its result, and may exit too early.  The number of tool
\* calls is that of the tools that succeeded, in any case.
ReportIsFaithful ==
    runner = "done" /\ exit_ok /\ ~outcome.timed_out =>
        /\ unheard = 0 => outcome.value = returned /\ ~outcome.err
        /\ ~outcome.err =>
              outcome.tool_calls = Cardinality({i \in 1 .. Len(ran) : ran[i].ok})

\* A guest that is launched finds what it needs to come up, and writes where
\* module Launch says and nowhere else, in whatever order the backend names what
\* overlaps: the socket lies in /tmp, as the staging directory may.
GuestSeesItsFiles ==
    guest # "none" => MayRun /\ SeesItsFiles(setup)

\* Of the output a run that is not cut short keeps as many whole characters as
\* fit in max_output_bytes, from the beginning (limits.rs:32, 86), of all that was
\* written, by the guest or what it forked, before, during and after the session:
\* it is read to its end (runner.rs:169).
OutputKept ==
    runner = "done" /\ ~outcome.err /\ ~outcome.timed_out =>
        /\ outcome.kept \in Boundaries(written) /\ outcome.kept <= MaxOutput
        /\ \A b \in Boundaries(written) : b <= MaxOutput => b <= outcome.kept

\* What is left when run() has returned.  The process it spawned is gone, and no
\* process it forked can add to the output of a run that collected it.  No more is
\* promised: kill_on_drop (runner.rs:158) kills one process, so what the guest
\* forked may live on unless the backend is bubblewrap, and "the runner kills the
\* guest when exceeded" (limits.rs:26) is true of that one.  The file of the
\* socket is left if the guest could not be spawned.
NothingLeftBehind ==
    runner = "done" =>
        /\ guest \notin Alive \cup {"raised"}
        /\ kin => setup.backend # "bubblewrap"
        /\ ~outcome.err /\ ~outcome.timed_out => "output" \notin held
        /\ socket => guest = "none"

\* Every run returns, whatever the guest and the tools do: the wall clock bounds
\* both the session and the collection of the output.
RunReturns == runner \in {"serving", "collecting"} ~> runner = "done"

\* "Serve the guest and collect its output concurrently" (runner.rs:166): a
\* guest that writes output gets to write it.
OutputIsCollected == guest = "printing" ~> guest # "printing"
=============================================================================
