------------------------------- MODULE Routing -------------------------------
(***************************************************************************)
(* The tool registry and the router                                        *)
(* (crates/chuk-tool-runtime/src/routing/), filled from MCP servers        *)
(* (crates/chuk-tool-runtime-mcp/src/lib.rs) and used through a runtime    *)
(* that calls share and close() lets go of                                 *)
(* (crates/chuk-tool-runtime-python/src/lib.rs).                           *)
(*                                                                         *)
(* A router is filled by one task and does not change once it is built     *)
(* into a runtime.  A connection is closed when its last owner is dropped: *)
(* the task that opened it, the router, or whatever still holds the        *)
(* runtime, its handle or a call.                                          *)
(***************************************************************************)
EXTENDS Naturals, Sequences

CONSTANTS
    Servers, \* names under which servers are added
    Conns,   \* connections to MCP servers
    Tools,   \* tool names, the empty one included
    Empty,   \* the empty tool name
    Offers,  \* the tools the server behind a connection advertises
    Callers, \* tasks that call through the runtime
    NoServer, NoConn

ASSUME RoutingAssumption ==
    /\ NoServer \notin Servers /\ NoConn \notin Conns
    /\ Empty \in Tools
    /\ Offers \in [Conns -> SUBSET Tools]

VARIABLES
    owners,    \* ToolRegistry::owners
    providers, \* ToolRegistry::providers
    servers,   \* Router::servers
    conns,     \* "unused", "open", "closed"
    joining,   \* the connection that is being discovered
    phase,     \* "building", "built", "closed" (or given up)
    tools,     \* the Python Runtime's tool_names
    call,      \* the calls in flight
    reused     \* history: servers registered more than once, or by hand

vars == <<owners, providers, servers, conns, joining, phase, tools, call, reused>>
registry == <<owners, providers>>

NoCall == [tool |-> Empty, pinned |-> NoServer, conn |-> NoConn, bounded |-> FALSE,
           busy |-> FALSE]

Init ==
    /\ owners = [t \in Tools |-> NoServer]
    /\ providers = [t \in Tools |-> <<>>]
    /\ servers = [s \in Servers |-> NoConn]
    /\ conns = [c \in Conns |-> "unused"]
    /\ joining = NoConn
    /\ phase = "building"
    /\ tools = {}
    /\ call = [k \in Callers |-> NoCall]
    /\ reused = {}

-----------------------------------------------------------------------------
(* ToolRegistry::register and Router::add_server.                          *)

Provides(s, t) == \E i \in 1 .. Len(providers[t]) : providers[t][i] = s

\* The first server to advertise a name owns it (a slip: the last one does).
OwnersLastWins(s, T) ==
    [t \in Tools |-> IF t \in T \ {Empty} THEN s ELSE owners[t]]
Owners(s, T) ==
    [t \in Tools |-> IF t \in T \ {Empty} /\ owners[t] = NoServer THEN s ELSE owners[t]]

Providers(s, T) ==
    [t \in Tools |-> IF t \in T \ {Empty} /\ ~Provides(s, t)
                     THEN Append(providers[t], s) ELSE providers[t]]

RegisterTools(s, T) ==
    /\ owners' = Owners(s, T)
    /\ providers' = Providers(s, T)

\* The connection a server had before is dropped.
AddServer(s, c) ==
    /\ servers' = [servers EXCEPT ![s] = c]
    /\ conns' = [d \in Conns |-> IF d = servers[s] THEN "closed" ELSE conns[d]]

-----------------------------------------------------------------------------
(* Filling a router.                                                       *)

Connect(c) ==
    /\ phase = "building" /\ joining = NoConn
    /\ conns[c] = "unused"
    /\ conns' = [conns EXCEPT ![c] = "open"]
    /\ joining' = c
    /\ UNCHANGED <<registry, servers, phase, tools, call, reused>>

\* Discovery fails: the connection is dropped, the router untouched (a slip: the
\* tools are on record before the connection is).
DiscoveryFailsLate ==
    /\ phase = "building" /\ joining # NoConn
    /\ \E s \in Servers : RegisterTools(s, Offers[joining])
    /\ conns' = [conns EXCEPT ![joining] = "closed"]
    /\ joining' = NoConn
    /\ UNCHANGED <<servers, phase, tools, call, reused>>
DiscoveryFails ==
    /\ phase = "building" /\ joining # NoConn
    /\ conns' = [conns EXCEPT ![joining] = "closed"]
    /\ joining' = NoConn
    /\ UNCHANGED <<registry, servers, phase, tools, call, reused>>

\* Discovery succeeds: register() records the tools, then adds the connection.
Register(s) ==
    /\ phase = "building" /\ joining # NoConn
    /\ RegisterTools(s, Offers[joining])
    /\ AddServer(s, joining)
    /\ tools' = tools \cup Offers[joining]
    /\ reused' = IF servers[s] # NoConn THEN reused \cup {s} ELSE reused
    /\ joining' = NoConn
    /\ UNCHANGED <<phase, call>>

\* A Rust client may also call register_tools and add_server as it likes.
RegisterByHand(s, T) ==
    /\ phase = "building"
    /\ RegisterTools(s, T)
    /\ reused' = reused \cup {s}
    /\ UNCHANGED <<servers, conns, joining, phase, tools, call>>

AddByHand(s) ==
    /\ phase = "building" /\ joining # NoConn
    /\ AddServer(s, joining)
    /\ reused' = reused \cup {s}
    /\ joining' = NoConn
    /\ UNCHANGED <<registry, phase, tools, call>>

\* A later server cannot be connected, or the future is dropped: with the
\* router go all connections made so far.
GiveUp ==
    /\ phase = "building"
    /\ phase' = "closed"
    /\ conns' = [c \in Conns |-> IF conns[c] = "open" THEN "closed" ELSE conns[c]]
    /\ joining' = NoConn
    /\ UNCHANGED <<registry, servers, tools, call, reused>>

Build ==
    /\ phase = "building" /\ joining = NoConn
    /\ phase' = "built"
    /\ UNCHANGED <<registry, servers, conns, joining, tools, call, reused>>

-----------------------------------------------------------------------------
(* Calls through the runtime.                                              *)

InFlight == {k \in Callers : call[k].busy}

\* The connection of a server, NoConn if it has none or is no server.
Transport(s) == IF s \in Servers THEN servers[s] ELSE NoConn

\* Router::call_tool, and Router::call_on for a pinned server; without a
\* connection the answer is an error at once, and with one McpInvoker bounds the
\* wait for an answer only if it is given a timeout.  The call holds the runtime.
Target(t) == Transport(owners[t])

Starts(k, s, t, c, timed) ==
    /\ phase = "built" /\ ~call[k].busy
    /\ call' = [call EXCEPT ![k] = [tool |-> t, pinned |-> s, conn |-> c,
                                   bounded |-> timed \/ c = NoConn, busy |-> TRUE]]
    /\ UNCHANGED <<registry, servers, conns, joining, phase, tools, reused>>

Call(k, t, timed) == Starts(k, NoServer, t, Target(t), timed)

CallOn(k, s, t, timed) == Starts(k, s, t, Transport(s), timed)

\* What becomes of the connections when nothing holds the runtime any more.
Freed == [c \in Conns |-> IF \E s \in Servers : servers[s] = c THEN "closed" ELSE conns[c]]

\* The call ends, answered or dropped; it may be the last to hold the runtime
\* (a slip: only close() looks at that).
EndForgetting(k) ==
    /\ call[k].busy
    /\ call' = [call EXCEPT ![k] = NoCall]
    /\ UNCHANGED <<registry, servers, conns, joining, phase, tools, reused>>
End(k) ==
    /\ call[k].busy
    /\ call' = [call EXCEPT ![k] = NoCall]
    /\ conns' = IF phase = "closed" /\ InFlight = {k} THEN Freed ELSE conns
    /\ UNCHANGED <<registry, servers, joining, phase, tools, reused>>

\* close(): the handle lets go of the runtime (a slip: whoever still uses it).
CloseAtOnce ==
    /\ phase = "built"
    /\ phase' = "closed"
    /\ conns' = Freed
    /\ UNCHANGED <<registry, servers, joining, tools, call, reused>>
Close ==
    /\ phase = "built"
    /\ phase' = "closed"
    /\ conns' = IF InFlight = {} THEN Freed ELSE conns
    /\ UNCHANGED <<registry, servers, joining, tools, call, reused>>

Fill ==
    \/ \E c \in Conns : Connect(c)
    \/ DiscoveryFails
    \/ \E s \in Servers : Register(s) \/ AddByHand(s)
    \/ \E s \in Servers, T \in SUBSET Tools : RegisterByHand(s, T)
    \/ GiveUp \/ Build

Use ==
    \/ \E k \in Callers, t \in Tools, timed \in BOOLEAN : Call(k, t, timed)
    \/ \E k \in Callers, s \in Servers, t \in Tools, timed \in BOOLEAN : CallOn(k, s, t, timed)
    \/ \E k \in Callers : End(k)
    \/ Close

Next == Fill \/ Use
Spec == Init /\ [][Next]_vars

\* A call that has a timeout, or no server to wait for, comes to an end once no
\* new calls are made that could overtake it.  Nothing is assumed of the others:
\* a server need not answer, nor a caller drop the future.
Fairness == \A k \in Callers : WF_vars(phase = "closed" /\ call[k].bounded /\ End(k))
FairSpec == Spec /\ Fairness

-----------------------------------------------------------------------------
(* Properties.                                                             *)

Phases == {"building", "built", "closed"}

TypeOK ==
    /\ owners \in [Tools -> Servers \cup {NoServer}]
    /\ providers \in [Tools -> Seq(Servers)]
    /\ servers \in [Servers -> Conns \cup {NoConn}]
    /\ conns \in [Conns -> {"unused", "open", "closed"}]
    /\ joining \in Conns \cup {NoConn} /\ (phase # "building" => joining = NoConn)
    /\ phase \in Phases
    /\ tools \subseteq Tools
    /\ call \in [Callers -> [tool : Tools, pinned : Servers \cup {NoServer},
                             conn : Conns \cup {NoConn}, bounded : BOOLEAN,
                             busy : BOOLEAN]]
    /\ reused \subseteq Servers

\* "A second server must not be able to hijack a name an earlier one already
\* owns" (registry.rs:6-7): however servers are registered, replaced and used, a
\* call that is not pinned runs on the connection of the first server that ever
\* advertised its tool, and a pinned one on that of its server.
RoutedToFirst ==
    \A k \in InFlight :
        LET by == providers[call[k].tool]
        IN  call[k].conn = IF call[k].pinned # NoServer THEN servers[call[k].pinned]
                           ELSE IF by = <<>> THEN NoConn ELSE servers[by[1]]

\* A connection is open exactly as long as something can use it: a call in flight
\* never loses it, neither to close() nor to another call that ends, and nothing
\* stays connected when the last user is gone (lib.rs:61-64).  So close() is not a
\* shutdown at a known time ("deterministic shutdown", python lib.rs:229-230): a
\* call with no timeout, to a server that does not answer, keeps all of them open.
ConnectionsHeld ==
    \A c \in Conns :
        conns[c] = "open" <=>
            \/ c = joining
            \/ /\ \E s \in Servers : servers[s] = c
               /\ phase # "closed" \/ InFlight # {}

\* "The names of the tools available through this runtime" (python lib.rs:247):
\* each listed tool is routed to a connection that offers it, also when several
\* servers offer it and some of them failed to be discovered, as long as no name
\* of a server was used twice.
ToolsAvailable ==
    \A t \in tools \ {Empty} :
        /\ owners[t] \in Servers
        /\ owners[t] \notin reused =>
              \E c \in Conns : servers[owners[t]] = c /\ t \in Offers[c]

\* A closed runtime disconnects from all its servers when every call in flight has
\* a timeout or none to wait for, however they end, and once those without one
\* have ended (python lib.rs:299-301).
CloseDisconnects ==
    phase = "closed" /\ (\A k \in InFlight : call[k].bounded)
        ~> \A c \in Conns : conns[c] # "open"
=============================================================================
