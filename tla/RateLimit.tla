------------------------------ MODULE RateLimit ------------------------------
(***************************************************************************)
(* The sliding-window rate-limit layer                                     *)
(* (crates/chuk-tool-runtime/src/layers/rate_limit.rs).                    *)
(*                                                                         *)
(* A call first acquires the global window, then the window of its tool,   *)
(* where these are configured, and is then handed to the inner invoker.    *)
(* One pass of the loop of Window::acquire runs under the window's lock    *)
(* and is one step here: it takes a slot (Pass), decides how long to sleep *)
(* (Sleep), or panics (Panic).  Between two steps other calls run, time    *)
(* passes, or the future of the call is dropped.                           *)
(*                                                                         *)
(* An instant is kept as its age, saturated at the window's period: the    *)
(* code only asks whether a stamp is a period old, and how long until it   *)
(* is.  Neither time nor the number of calls needs a bound.                *)
(***************************************************************************)
EXTENDS Integers, Sequences

CONSTANTS
    Callers, \* tasks that call tools, each one call after another
    Tools,   \* tool names
    Global,  \* names the global window
    Windows, \* the configured windows: Global or not, and some of the tools
    Limit,   \* Window::limit
    Period,  \* Window::period, in ticks
    NoTool, Outside, Inner, Dropped, Panicked \* where the call of a caller can be

Places == Windows \cup {Outside, Inner, Dropped, Panicked}

ASSUME WindowAssumption ==
    /\ Global \notin Tools
    /\ Windows \subseteq Tools \cup {Global}
    /\ Limit \in [Windows -> Nat]
    /\ Period \in [Windows -> Nat]

ASSUME NameAssumption ==
    /\ NoTool \notin Tools
    /\ {Outside, Inner, Dropped, Panicked} \cap (Tools \cup {Global}) = {}
    /\ Inner \notin {Outside, Dropped, Panicked}
    /\ Outside \notin {Dropped, Panicked}
    /\ Dropped # Panicked

VARIABLES
    stamps, \* Window::stamps: the ages of the remembered acquisitions
    tool,   \* the tool of a call, NoTool before it is made
    at,     \* the window a call is acquiring, or where it is otherwise
    wait,   \* what is left of its tokio::time::sleep
    log     \* history: the ages of the last acquisitions of a window, in
            \* order, one more than its limit

vars == <<stamps, tool, at, wait, log>>

Init ==
    /\ stamps = [w \in Windows |-> <<>>]
    /\ tool = [c \in Callers |-> NoTool]
    /\ at = [c \in Callers |-> Outside]
    /\ wait = [c \in Callers |-> 0]
    /\ log = [w \in Windows |-> <<>>]

-----------------------------------------------------------------------------
(* Window::acquire and RateLimitLayer::call_tool.                          *)

\* A slip the properties are tried against: a loop that never prunes.
ExpiredNever(w) == 0

\* How many stamps the pruning loop pops: it stops at the first one that has
\* not aged out.
Expired(w) ==
    LET s == stamps[w]
    IN  CHOOSE k \in 0 .. Len(s) :
            /\ \A i \in 1 .. k : s[i] >= Period[w]
            /\ k < Len(s) => s[k + 1] < Period[w]

\* The stamps that stay.
Pruned(w) == SubSeq(stamps[w], Expired(w) + 1, Len(stamps[w]))

\* Where a call goes when it has a slot of window w: global before per-tool.
After(w, t) == IF w = Global /\ t \in Windows THEN t ELSE Inner
First(t) == IF Global \in Windows THEN Global ELSE After(Global, t)

\* call_tool is entered, by a caller that has no call in the limiter.
Arrive(c, t) ==
    /\ at[c] \notin Windows
    /\ tool' = [tool EXCEPT ![c] = t]
    /\ at' = [at EXCEPT ![c] = First(t)]
    /\ UNCHANGED <<stamps, wait, log>>

\* A call at window w runs one pass of the loop, asleep no longer.
Ready(c, w) == at[c] = w /\ wait[c] = 0

\* The history after one more acquisition.
Logged(w) ==
    LET l == Append(log[w], 0)
    IN  IF Len(l) > Limit[w] + 1 THEN Tail(l) ELSE l

\* A slip: one slot too many.
PassOneMore(c, w) ==
    /\ Ready(c, w)
    /\ Len(Pruned(w)) <= Limit[w]
    /\ stamps' = [stamps EXCEPT ![w] = Append(Pruned(w), 0)]
    /\ log' = [log EXCEPT ![w] = Logged(w)]
    /\ at' = [at EXCEPT ![c] = After(w, tool[c])]
    /\ UNCHANGED <<tool, wait>>

\* There is room: record the acquisition and go on.
Pass(c, w) ==
    /\ Ready(c, w)
    /\ Len(Pruned(w)) < Limit[w]
    /\ stamps' = [stamps EXCEPT ![w] = Append(Pruned(w), 0)]
    /\ log' = [log EXCEPT ![w] = Logged(w)]
    /\ at' = [at EXCEPT ![c] = After(w, tool[c])]
    /\ UNCHANGED <<tool, wait>>

\* The window is full and not empty: the call sleeps for d, ...
SleepFor(c, w, d) ==
    /\ Ready(c, w)
    /\ Len(Pruned(w)) >= Limit[w]
    /\ Pruned(w) # <<>>
    /\ stamps' = [stamps EXCEPT ![w] = Pruned(w)]
    /\ wait' = [wait EXCEPT ![c] = d]
    /\ UNCHANGED <<tool, at, log>>

\* (a slip: a whole period)
SleepWholePeriod(c, w) == SleepFor(c, w, Period[w])

\* ... until the oldest stamp leaves the window.
Sleep(c, w) == SleepFor(c, w, Period[w] - Head(Pruned(w)))

\* The window is full and empty, limit = 0: the `expect` on its front panics.
Panic(c, w) ==
    /\ Ready(c, w)
    /\ Len(Pruned(w)) >= Limit[w]
    /\ Pruned(w) = <<>>
    /\ stamps' = [stamps EXCEPT ![w] = <<>>]
    /\ at' = [at EXCEPT ![c] = Panicked]
    /\ UNCHANGED <<tool, wait, log>>

\* The future of a waiting call is dropped; a slot it has stays taken.
Drop(c) ==
    /\ at[c] \in Windows
    /\ at' = [at EXCEPT ![c] = Dropped]
    /\ wait' = [wait EXCEPT ![c] = 0]
    /\ UNCHANGED <<stamps, tool, log>>

\* Ages grow, up to the period; sleeps shrink.
Older(s, p) == [i \in DOMAIN s |-> IF s[i] < p THEN s[i] + 1 ELSE s[i]]

Tick ==
    /\ stamps' = [w \in Windows |-> Older(stamps[w], Period[w])]
    /\ log' = [w \in Windows |-> Older(log[w], Period[w])]
    /\ wait' = [c \in Callers |-> IF wait[c] > 0 THEN wait[c] - 1 ELSE 0]
    /\ UNCHANGED <<tool, at>>

Next ==
    \/ \E c \in Callers, t \in Tools : Arrive(c, t)
    \/ \E c \in Callers, w \in Windows : Pass(c, w) \/ Sleep(c, w) \/ Panic(c, w)
    \/ \E c \in Callers : Drop(c)
    \/ Tick

Spec == Init /\ [][Next]_vars

\* Time passes, and a call that is awake gets the lock and runs (the tokio
\* mutex is fair).
Fairness ==
    /\ WF_vars(Tick)
    /\ \A c \in Callers :
          WF_vars(\E w \in Windows : Pass(c, w) \/ Sleep(c, w) \/ Panic(c, w))

FairSpec == Spec /\ Fairness

-----------------------------------------------------------------------------
(* Properties.                                                             *)

TypeOK ==
    /\ \A w \in Windows : stamps[w] \in Seq(0 .. Period[w])
    /\ \A w \in Windows : log[w] \in Seq(0 .. Period[w])
    /\ DOMAIN stamps = Windows /\ DOMAIN log = Windows
    /\ tool \in [Callers -> Tools \cup {NoTool}]
    /\ at \in [Callers -> Places]
    /\ wait \in [Callers -> Nat]

\* In any stretch of one period a window grants at most `limit` slots, however
\* calls interleave, sleep and are dropped ("at most `limit` acquisitions per
\* `period`", rate_limit.rs:19): an acquisition that has `limit` later ones is
\* a period old.
SlidingWindow ==
    \A w \in Windows : \A i \in 1 .. Len(log[w]) - Limit[w] :
        log[w][i] >= Period[w]

\* What a window forgets has aged out and what it remembers is the rest, oldest
\* first, no more than `limit` of it (the pruning loop, rate_limit.rs:42-54).
RemembersRecent ==
    \A w \in Windows :
        LET s == stamps[w]
            n == Len(log[w]) - Len(s)
        IN  /\ Len(s) <= Limit[w] /\ n >= 0
            /\ \A i \in 1 .. Len(s) : s[i] = log[w][n + i]
            /\ \A i \in 1 .. n : log[w][i] >= Period[w]
            /\ \A i, j \in 1 .. Len(log[w]) : i <= j => log[w][i] >= log[w][j]

\* A call that has to sleep found `limit` acquisitions younger than a period,
\* and sleeps exactly until the oldest of them is a period old: never zero,
\* never longer (no call is held back by a window that has room).
SleepsOnlyWhenFull ==
    [][\A c \in Callers : wait[c] = 0 /\ wait'[c] > 0 =>
          LET l     == log[at[c]]
              young == {i \in 1 .. Len(l) : l[i] < Period[at[c]]}
              first == Len(l) - Limit[at[c]] + 1
          IN  young = first .. Len(l)
              /\ wait'[c] = Period[at[c]] - l[first]]_vars

\* A call waits for no other reason than that others are granted slots: it is
\* through in the end (or dropped), or other calls get the slots of its window
\* again and again.  No wake-up is lost, no window seizes up, and a call dropped
\* while it waits leaves nothing behind.  This is as much as the code ensures of
\* "then proceeds" (rate_limit.rs:4-5): what a sleeper wakes up for, a call that
\* comes at that moment may take (rate_limit.rs:64), for ever.  A window of limit
\* zero is left out: there the call panics.
HeldUpOnlyByOthers ==
    \A c \in Callers, w \in Windows :
        Limit[w] > 0 => \/ []<>(at[c] # w)
                        \/ []<><<\E d \in Callers \ {c} : Pass(d, w)>>_vars
=============================================================================
