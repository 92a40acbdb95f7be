-------------------------------- MODULE Cache --------------------------------
(***************************************************************************)
(* The result-cache layer (crates/chuk-tool-runtime/src/layers/cache.rs).  *)
(*                                                                         *)
(* The map of entries is locked twice per call: for the lookup, and to     *)
(* store a successful result.  Between the two the call awaits the inner   *)
(* invoker, and nothing keeps other calls of the same key from doing so    *)
(* too.  What the tools return changes with time, so a result is the       *)
(* version of the data that the tool saw when it ran.                      *)
(***************************************************************************)
EXTENDS Integers

CONSTANTS
    Callers,    \* tasks; each one makes calls one after the other
    Keys,       \* pairs of a tool and the canonical form of its arguments
    Cacheable,  \* the keys whose tool is in CacheConfig::cacheable_tools
    Ttl,        \* CacheConfig::ttl_for, in ticks, or Forever
    Latency,    \* how long the answer of a tool takes at most, in ticks
    MaxVersion, \* bound: how often the data behind each key changes
    NoKey

Forever == -1
NoVersion == -1

ASSUME CacheAssumption ==
    /\ Cacheable \subseteq Keys /\ NoKey \notin Keys
    /\ Ttl \in [Keys -> Nat \cup {Forever}]
    /\ Latency \in Nat /\ MaxVersion \in [Keys -> Nat]

Versions(k) == 0 .. MaxVersion[k]
AllVersions == UNION {Versions(k) : k \in Keys}

VARIABLES
    store,  \* the map of entries
    world,  \* environment: the current version of the data behind a key
    gone,   \* environment: how long a version has been out of date
    key,    \* the key of the call a caller makes, or NoKey
    answer, \* the version its tool returned, NoVersion before (or on failure)
    ran,    \* how long ago the tool ran, NoVersion if it has not
    seen,   \* history: the newest version any caller got for a key
    raced   \* history: whether fills of a key have overlapped

vars == <<store, world, gone, key, answer, ran, seen, raced>>

\* An entry: its version, and what is left of its lifetime.
NoEntry == [version |-> NoVersion, left |-> 0]

\* A version older than this is no longer distinguished.
Horizon(k) == IF Ttl[k] = Forever THEN 0 ELSE Ttl[k] + Latency + 1

Init ==
    /\ store = [k \in Keys |-> NoEntry]
    /\ world = [k \in Keys |-> 0]
    /\ gone = [k \in Keys |-> [v \in Versions(k) |-> 0]]
    /\ key = [c \in Callers |-> NoKey]
    /\ answer = [c \in Callers |-> NoVersion]
    /\ ran = [c \in Callers |-> NoVersion]
    /\ seen = [k \in Keys |-> NoVersion]
    /\ raced = [k \in Keys |-> FALSE]

-----------------------------------------------------------------------------
(* CacheLayer::call_tool.                                                  *)

\* The entry is there and has not expired (a slip: its age is not looked at).
LiveUnlessAbsent(k) == store[k] # NoEntry
Live(k) == store[k] # NoEntry /\ store[k].left # 0

AtLeast(a, b) == IF a > b THEN a ELSE b

InFlight(k) == \E c \in Callers : key[c] = k

\* The lookup finds a live entry: it is returned, no inner layer is entered.
Hit(c, k) ==
    /\ key[c] = NoKey /\ k \in Cacheable
    /\ Live(k)
    /\ seen' = [seen EXCEPT ![k] = AtLeast(@, store[k].version)]
    /\ UNCHANGED <<store, world, gone, key, answer, ran, raced>>

\* It finds none, or an expired one that it evicts.
Miss(c, k) ==
    /\ key[c] = NoKey /\ k \in Cacheable
    /\ ~Live(k)
    /\ store' = [store EXCEPT ![k] = NoEntry]
    /\ key' = [key EXCEPT ![c] = k]
    /\ raced' = [raced EXCEPT ![k] = InFlight(k)]
    /\ UNCHANGED <<world, gone, answer, ran, seen>>

\* The tool is not cacheable: no lookup.
Bypass(c, k) ==
    /\ key[c] = NoKey /\ k \notin Cacheable
    /\ key' = [key EXCEPT ![c] = k]
    /\ UNCHANGED <<store, world, gone, answer, ran, seen, raced>>

\* The tool runs: it sees the current data, or fails (or returns nothing).
Run(c, ok) ==
    /\ key[c] # NoKey /\ ran[c] = NoVersion
    /\ answer' = [answer EXCEPT ![c] = IF ok THEN world[key[c]] ELSE NoVersion]
    /\ ran' = [ran EXCEPT ![c] = 0]
    /\ UNCHANGED <<store, world, gone, key, seen, raced>>

\* Slips: a failure is stored as well, or the lifetime is forgotten.
StoredAlways(k, v) == [store EXCEPT ![k] = [version |-> v, left |-> Ttl[k]]]
StoredForever(k, v) ==
    IF v = NoVersion \/ k \notin Cacheable THEN store
    ELSE [store EXCEPT ![k] = [version |-> v, left |-> Forever]]

\* What an answer does to the map: only a result is stored.
Stored(k, v) ==
    IF v = NoVersion \/ k \notin Cacheable THEN store
    ELSE [store EXCEPT ![k] = [version |-> v, left |-> Ttl[k]]]

\* The answer arrives: a result is stored, whatever is there now.
Finish(c) ==
    LET k == key[c]
    IN  /\ k # NoKey /\ ran[c] # NoVersion
        /\ store' = Stored(k, answer[c])
        /\ key' = [key EXCEPT ![c] = NoKey]
        /\ answer' = [answer EXCEPT ![c] = NoVersion]
        /\ ran' = [ran EXCEPT ![c] = NoVersion]
        /\ seen' = [seen EXCEPT ![k] = AtLeast(@, answer[c])]
        /\ UNCHANGED <<world, gone, raced>>

\* The future is dropped while it awaits the inner invoker.
Drop(c) ==
    /\ key[c] # NoKey
    /\ key' = [key EXCEPT ![c] = NoKey]
    /\ answer' = [answer EXCEPT ![c] = NoVersion]
    /\ ran' = [ran EXCEPT ![c] = NoVersion]
    /\ UNCHANGED <<store, world, gone, seen, raced>>

\* The data behind a key changes.
Update(k) ==
    /\ world[k] < MaxVersion[k]
    /\ world' = [world EXCEPT ![k] = @ + 1]
    /\ UNCHANGED <<store, gone, key, answer, ran, seen, raced>>

\* Time passes; no answer is under way for longer than Latency.
Tick ==
    /\ \A c \in Callers : ran[c] < Latency
    /\ store' = [k \in Keys |->
                   IF store[k].left > 0 THEN [store[k] EXCEPT !.left = @ - 1]
                                        ELSE store[k]]
    /\ gone' = [k \in Keys |-> [v \in Versions(k) |->
                   IF v < world[k] /\ gone[k][v] < Horizon(k)
                   THEN gone[k][v] + 1 ELSE gone[k][v]]]
    /\ ran' = [c \in Callers |-> IF ran[c] = NoVersion THEN NoVersion ELSE ran[c] + 1]
    /\ UNCHANGED <<world, key, answer, seen, raced>>

Next ==
    \/ \E c \in Callers, k \in Keys : Hit(c, k) \/ Miss(c, k) \/ Bypass(c, k)
    \/ \E c \in Callers, ok \in BOOLEAN : Run(c, ok)
    \/ \E c \in Callers : Finish(c) \/ Drop(c)
    \/ \E k \in Keys : Update(k)
    \/ Tick

Spec == Init /\ [][Next]_vars

\* Time passes, a tool runs sooner or later and its answer arrives.
Fairness ==
    /\ WF_vars(Tick)
    /\ \A c \in Callers : WF_vars(\E ok \in BOOLEAN : Run(c, ok)) /\ WF_vars(Finish(c))

FairSpec == Spec /\ Fairness

-----------------------------------------------------------------------------
(* Properties.                                                             *)

TypeOK ==
    /\ store \in [Keys -> [version : AllVersions \cup {NoVersion}, left : Int]]
    /\ \A k \in Keys : store[k] # NoEntry =>
          /\ k \in Cacheable /\ store[k].version \in Versions(k)
          /\ IF Ttl[k] = Forever THEN store[k].left = Forever
                                 ELSE store[k].left \in 0 .. Ttl[k]
    /\ \A k \in Keys : world[k] \in Versions(k) /\ gone[k] \in [Versions(k) -> Nat]
    /\ key \in [Callers -> Keys \cup {NoKey}]
    /\ answer \in [Callers -> AllVersions \cup {NoVersion}]
    /\ ran \in [Callers -> NoVersion .. Latency]
    /\ seen \in [Keys -> AllVersions \cup {NoVersion}]
    /\ raced \in [Keys -> BOOLEAN]

\* What a hit can return went out of date less than its lifetime and the
\* latency of one answer ago, also when slow fills overwrite newer entries
\* (the lookup and the insertion, cache.rs:76-103).
BoundedStaleness ==
    \A k \in Keys : Live(k) /\ Ttl[k] # Forever =>
        gone[k][store[k].version] < Ttl[k] + Latency

\* A live entry is as new as anything a caller has seen, unless two misses of
\* the key overlapped: only then can the slower, older answer replace the newer
\* one (the await between the two locks, cache.rs:89).
GoesBackOnlyByRace ==
    \A k \in Keys : Live(k) /\ ~raced[k] => store[k].version >= seen[k]

\* When the data stops changing, the cache ends up with nothing but its last
\* version, however fills raced before (entries with a lifetime).
Converges ==
    \A k \in Keys : Ttl[k] # Forever =>
        <>[](Live(k) => store[k].version = world[k])
=============================================================================
