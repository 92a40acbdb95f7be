--------------------------- MODULE RoutingProofs ---------------------------
(***************************************************************************)
(* Proofs about Routing: type correctness, that calls are routed to the    *)
(* first server that advertised their tool, that a connection lives        *)
(* exactly as long as something can use it, and that every listed tool is  *)
(* routed to a connection that offers it.                                  *)
(***************************************************************************)
EXTENDS Routing, TLAPS

-----------------------------------------------------------------------------
(* Type correctness.                                                       *)

\* The registry keeps its types, whatever is registered
\* (ToolRegistry::register).
LEMMA RegisterType ==
    ASSUME TypeOK, NEW s \in Servers, NEW T
    PROVE  /\ Owners(s, T) \in [Tools -> Servers \cup {NoServer}]
           /\ Providers(s, T) \in [Tools -> Seq(Servers)]
  BY DEF TypeOK, Owners, Providers

\* Replacing a connection keeps the types of the maps (Router::add_server).
LEMMA AddServerType ==
    ASSUME TypeOK, NEW s \in Servers, NEW c \in Conns, AddServer(s, c)
    PROVE  /\ servers' \in [Servers -> Conns \cup {NoConn}]
           /\ conns' \in [Conns -> {"unused", "open", "closed"}]
  BY DEF TypeOK, AddServer

\* A server's connection is a connection or none (Router::call_on).
LEMMA TransportType ==
    ASSUME TypeOK, NEW s \in Servers \cup {NoServer}
    PROVE  Transport(s) \in Conns \cup {NoConn}
  BY DEF TypeOK, Transport

\* Every variable of the router and the runtime stays in its set.
THEOREM TypeCorrect == Spec => []TypeOK
<1>1. Init => TypeOK
  BY RoutingAssumption DEF Init, TypeOK, NoCall, Phases
<1>2. TypeOK /\ [Next]_vars => TypeOK'
  <2> SUFFICES ASSUME TypeOK, [Next]_vars PROVE TypeOK'
    OBVIOUS
  <2>1. ASSUME NEW c \in Conns, Connect(c) PROVE TypeOK'
    BY <2>1 DEF TypeOK, Connect, registry
  <2>2. CASE DiscoveryFails
    BY <2>2 DEF TypeOK, DiscoveryFails, registry
  <2>3. ASSUME NEW s \in Servers, Register(s) PROVE TypeOK'
    <3>1. joining \in Conns /\ joining' = NoConn
      BY <2>3 DEF Register, TypeOK
    <3>2. /\ servers' \in [Servers -> Conns \cup {NoConn}]
          /\ conns' \in [Conns -> {"unused", "open", "closed"}]
      BY <2>3, <3>1, AddServerType DEF Register
    <3>3. /\ owners' \in [Tools -> Servers \cup {NoServer}]
          /\ providers' \in [Tools -> Seq(Servers)]
      BY <2>3, RegisterType DEF Register, RegisterTools
    <3>4. tools' \subseteq Tools
      BY <2>3, <3>1, RoutingAssumption DEF Register, TypeOK
    <3> QED
      BY <2>3, <3>1, <3>2, <3>3, <3>4 DEF Register, TypeOK
  <2>4. ASSUME NEW s \in Servers, AddByHand(s) PROVE TypeOK'
    <3>1. joining \in Conns /\ joining' = NoConn
      BY <2>4 DEF AddByHand, TypeOK
    <3>2. /\ servers' \in [Servers -> Conns \cup {NoConn}]
          /\ conns' \in [Conns -> {"unused", "open", "closed"}]
      BY <2>4, <3>1, AddServerType DEF AddByHand
    <3> QED
      BY <2>4, <3>1, <3>2 DEF AddByHand, TypeOK, registry
  <2>5. ASSUME NEW s \in Servers, NEW T \in SUBSET Tools, RegisterByHand(s, T)
        PROVE  TypeOK'
    <3>1. /\ owners' \in [Tools -> Servers \cup {NoServer}]
          /\ providers' \in [Tools -> Seq(Servers)]
      BY <2>5, RegisterType DEF RegisterByHand, RegisterTools
    <3> QED
      BY <2>5, <3>1 DEF RegisterByHand, TypeOK
  <2>6. CASE GiveUp
    BY <2>6 DEF TypeOK, GiveUp, registry, Phases
  <2>7. CASE Build
    BY <2>7 DEF TypeOK, Build, registry, Phases
  <2>8. ASSUME NEW k \in Callers, NEW t \in Tools, NEW timed \in BOOLEAN, Call(k, t, timed)
        PROVE  TypeOK'
    <3>1. Target(t) \in Conns \cup {NoConn}
      BY TransportType DEF Target, TypeOK
    <3> QED
      BY <2>8, <3>1 DEF TypeOK, Call, Starts, registry
  <2>9. ASSUME NEW k \in Callers, NEW s \in Servers, NEW t \in Tools,
               NEW timed \in BOOLEAN, CallOn(k, s, t, timed)
        PROVE  TypeOK'
    <3>1. Transport(s) \in Conns \cup {NoConn}
      BY TransportType
    <3> QED
      BY <2>9, <3>1 DEF TypeOK, CallOn, Starts, registry
  <2>10. ASSUME NEW k \in Callers, End(k) PROVE TypeOK'
    BY <2>10, RoutingAssumption DEF TypeOK, End, registry, Freed, NoCall
  <2>11. CASE Close
    BY <2>11 DEF TypeOK, Close, registry, Freed, Phases
  <2>12. CASE UNCHANGED vars
    BY <2>12 DEF TypeOK, vars
  <2> QED
    BY <2>1, <2>2, <2>3, <2>4, <2>5, <2>6, <2>7, <2>8, <2>9, <2>10, <2>11, <2>12
       DEF Next, Fill, Use
<1> QED
  BY <1>1, <1>2, PTL DEF Spec

-----------------------------------------------------------------------------
(* Routing to the first server.                                            *)

\* The owner of a tool is its first provider, none if it has no provider.
FirstOwns ==
    \A t \in Tools :
        owners[t] = IF providers[t] = <<>> THEN NoServer ELSE providers[t][1]

\* No call is made before the router is built.
IdleWhileBuilding == phase = "building" => InFlight = {}

RoutingInv == TypeOK /\ FirstOwns /\ IdleWhileBuilding /\ RoutedToFirst

\* register() keeps the owner the first provider: a tool that has a provider
\* keeps both, and one that has none gets the server as both
\* (ToolRegistry::register).
LEMMA RegisterFirstOwns ==
    ASSUME TypeOK, FirstOwns, NEW s \in Servers, NEW T, RegisterTools(s, T)
    PROVE  FirstOwns'
<1> SUFFICES ASSUME NEW t \in Tools
             PROVE  owners'[t] = IF providers'[t] = <<>> THEN NoServer ELSE providers'[t][1]
  BY DEF FirstOwns
<1>1. providers[t] \in Seq(Servers)
  BY DEF TypeOK
<1>2. owners[t] = IF providers[t] = <<>> THEN NoServer ELSE providers[t][1]
  BY DEF FirstOwns
<1>3. owners'[t] = IF t \in T \ {Empty} /\ owners[t] = NoServer THEN s ELSE owners[t]
  BY DEF RegisterTools, Owners
<1>4. providers'[t] = IF t \in T \ {Empty} /\ ~Provides(s, t)
                      THEN Append(providers[t], s) ELSE providers[t]
  BY DEF RegisterTools, Providers
<1>5. CASE providers[t] = <<>>
  <2>1. ~Provides(s, t)
    BY <1>5 DEF Provides
  <2>2. Append(providers[t], s) # <<>> /\ Append(providers[t], s)[1] = s
    BY <1>5
  <2> QED
    BY <1>2, <1>3, <1>4, <1>5, <2>1, <2>2
<1>6. CASE providers[t] # <<>>
  <2>1. /\ Append(providers[t], s) # <<>>
        /\ Append(providers[t], s)[1] = providers[t][1]
    BY <1>1, <1>6
  <2>2. owners[t] \in Servers
    BY <1>1, <1>2, <1>6
  <2>3. owners[t] # NoServer
    BY <2>2, RoutingAssumption
  <2> QED
    BY <1>2, <1>3, <1>4, <1>6, <2>1, <2>3
<1> QED
  BY <1>5, <1>6

\* The transport of the owner is that of the first provider
\* (Router::call_tool).
LEMMA TargetIsFirst ==
    ASSUME TypeOK, FirstOwns, NEW t \in Tools
    PROVE  Target(t) = IF providers[t] = <<>> THEN NoConn ELSE servers[providers[t][1]]
<1>1. providers[t] # <<>> => providers[t][1] \in Servers
  BY DEF TypeOK
<1> QED
  BY <1>1, RoutingAssumption DEF FirstOwns, Target, Transport

\* The invariant behind RoutedToFirst: ownership and dispatch agree.
THEOREM RoutingInvariance == Spec => []RoutingInv
<1>1. Init => RoutingInv
  <2> SUFFICES ASSUME Init PROVE FirstOwns /\ IdleWhileBuilding /\ RoutedToFirst /\ TypeOK
    BY DEF RoutingInv
  <2>1. InFlight = {}
    BY DEF Init, InFlight, NoCall
  <2>2. TypeOK
    BY RoutingAssumption DEF Init, TypeOK, NoCall, Phases
  <2>3. FirstOwns
    BY DEF Init, FirstOwns
  <2> QED
    BY <2>1, <2>2, <2>3 DEF IdleWhileBuilding, RoutedToFirst
<1>2. RoutingInv /\ TypeOK' /\ [Next]_vars => RoutingInv'
  <2> SUFFICES ASSUME RoutingInv, TypeOK', [Next]_vars
               PROVE  FirstOwns' /\ IdleWhileBuilding' /\ RoutedToFirst'
    BY DEF RoutingInv
  <2> USE DEF RoutingInv
  <2>1. ASSUME phase = "building", call' = call, FirstOwns'
        PROVE  FirstOwns' /\ IdleWhileBuilding' /\ RoutedToFirst'
    BY <2>1 DEF IdleWhileBuilding, RoutedToFirst, InFlight
  <2>2. CASE Fill
    <3>1. phase = "building" /\ call' = call
      BY <2>2 DEF Fill, Connect, DiscoveryFails, Register, AddByHand, RegisterByHand,
                  GiveUp, Build
    <3>2. CASE UNCHANGED registry
      BY <2>1, <3>1, <3>2 DEF FirstOwns, registry
    <3>3. ASSUME NEW s \in Servers, NEW T, RegisterTools(s, T)
          PROVE  FirstOwns' /\ IdleWhileBuilding' /\ RoutedToFirst'
      BY <2>1, <3>1, <3>3, RegisterFirstOwns
    <3> QED
      BY <2>2, <3>2, <3>3 DEF Fill, Connect, DiscoveryFails, Register, AddByHand,
                              RegisterByHand, GiveUp, Build
  <2>3. ASSUME UNCHANGED <<registry, servers>>,
               phase' # "building",
               \A k \in InFlight' : \/ k \in InFlight /\ call'[k] = call[k]
                                    \/ /\ call'[k].pinned = NoServer
                                       /\ call'[k].tool \in Tools
                                       /\ call'[k].conn = Target(call'[k].tool)
                                    \/ /\ call'[k].pinned # NoServer
                                       /\ call'[k].conn = servers[call'[k].pinned]
        PROVE  FirstOwns' /\ IdleWhileBuilding' /\ RoutedToFirst'
    BY <2>3, TargetIsFirst DEF FirstOwns, IdleWhileBuilding, RoutedToFirst, registry
  <2>4. ASSUME NEW k \in Callers, NEW t \in Tools, NEW timed \in BOOLEAN, Call(k, t, timed)
        PROVE  FirstOwns' /\ IdleWhileBuilding' /\ RoutedToFirst'
    BY <2>3, <2>4 DEF Call, Starts, InFlight, TypeOK
  <2>5. ASSUME NEW k \in Callers, NEW s \in Servers, NEW t \in Tools,
               NEW timed \in BOOLEAN, CallOn(k, s, t, timed)
        PROVE  FirstOwns' /\ IdleWhileBuilding' /\ RoutedToFirst'
    BY <2>3, <2>5, RoutingAssumption DEF CallOn, Starts, InFlight, TypeOK, Transport
  <2>6. ASSUME NEW k \in Callers, End(k)
        PROVE  FirstOwns' /\ IdleWhileBuilding' /\ RoutedToFirst'
    <3>1. phase # "building"
      BY <2>6 DEF IdleWhileBuilding, InFlight, End
    <3> QED
      BY <2>3, <2>6, <3>1 DEF End, InFlight, TypeOK, NoCall
  <2>7. CASE Close
    BY <2>3, <2>7 DEF Close, InFlight
  <2>8. CASE UNCHANGED vars
    BY <2>8 DEF vars, FirstOwns, IdleWhileBuilding, RoutedToFirst, InFlight
  <2> QED
    BY <2>2, <2>4, <2>5, <2>6, <2>7, <2>8 DEF Next, Use
<1> QED
  BY <1>1, <1>2, TypeCorrect, PTL DEF Spec

\* A call that is not pinned runs on the connection of the first server that
\* advertised its tool.
THEOREM RoutedToFirstHolds == Spec => []RoutedToFirst
<1>1. RoutingInv => RoutedToFirst
  BY DEF RoutingInv
<1> QED
  BY <1>1, RoutingInvariance, PTL

-----------------------------------------------------------------------------
(* The lifetime of a connection.                                           *)

\* A connection belongs to one server at most, or to the task that opened it.
OneOwner ==
    /\ \A s, r \in Servers : servers[s] = servers[r] /\ servers[s] # NoConn => s = r
    /\ \A s \in Servers : servers[s] # NoConn =>
          servers[s] # joining /\ conns[servers[s]] # "unused"

Lifetimes == TypeOK /\ IdleWhileBuilding /\ OneOwner /\ ConnectionsHeld

\* add_server drops the connection it replaces and nothing else
\* (Router::add_server).
LEMMA AddServerLifetimes ==
    ASSUME Lifetimes, phase = "building", joining # NoConn,
           NEW s \in Servers, AddServer(s, joining),
           joining' = NoConn, phase' = phase, call' = call
    PROVE  OneOwner' /\ ConnectionsHeld'
<1> USE RoutingAssumption DEF Lifetimes
<1>1. joining \in Conns /\ conns[joining] = "open"
  BY DEF TypeOK, ConnectionsHeld
<1>2. /\ servers' = [servers EXCEPT ![s] = joining]
      /\ conns' = [d \in Conns |-> IF d = servers[s] THEN "closed" ELSE conns[d]]
  BY DEF AddServer
<1>3. \A r \in Servers : servers[r] # joining
  BY <1>1 DEF OneOwner
<1>4. OneOwner'
  <2>1. ASSUME NEW r \in Servers, NEW q \in Servers,
               servers'[r] = servers'[q], servers'[r] # NoConn
        PROVE  r = q
    BY <1>2, <1>3, <2>1 DEF OneOwner, TypeOK
  <2>2. ASSUME NEW r \in Servers, servers'[r] # NoConn
        PROVE  servers'[r] # joining' /\ conns'[servers'[r]] # "unused"
    <3>1. servers'[r] \in Conns
      BY <1>1, <1>2, <2>2 DEF TypeOK
    <3>2. CASE r = s
      BY <1>1, <1>2, <1>3, <3>1, <3>2 DEF TypeOK
    <3>3. CASE r # s
      <4>1. servers'[r] = servers[r] /\ conns[servers[r]] # "unused"
        BY <1>2, <2>2, <3>3 DEF OneOwner, TypeOK
      <4> QED
        BY <1>2, <3>1, <4>1
    <3> QED
      BY <3>2, <3>3
  <2> QED
    BY <2>1, <2>2 DEF OneOwner
<1>5. ConnectionsHeld'
  <2> SUFFICES ASSUME NEW c \in Conns
               PROVE  conns'[c] = "open" <=> \E r \in Servers : servers'[r] = c
    BY <1>1 DEF ConnectionsHeld, InFlight
  <2>1. CASE c = joining
    BY <1>1, <1>2, <1>3, <2>1 DEF TypeOK
  <2>2. CASE c = servers[s]
    BY <1>2, <1>3, <2>2 DEF OneOwner, TypeOK
  <2>3. CASE c # joining /\ c # servers[s]
    <3>1. conns[c] = "open" <=> \E r \in Servers : servers[r] = c
      BY <2>3 DEF ConnectionsHeld
    <3>2. (\E r \in Servers : servers[r] = c) <=> (\E r \in Servers : servers'[r] = c)
      BY <1>2, <2>3 DEF TypeOK
    <3> QED
      BY <1>2, <2>3, <3>1, <3>2
  <2> QED
    BY <2>1, <2>2, <2>3
<1> QED
  BY <1>4, <1>5

\* The last holder of the runtime takes all connections of the router with it
\* (Runtime, dropped).
LEMMA FreedLifetimes ==
    ASSUME Lifetimes, phase # "building", conns' = Freed,
           phase' = "closed", InFlight' = {}, UNCHANGED <<servers, joining>>
    PROVE  OneOwner' /\ ConnectionsHeld'
<1>1. joining = NoConn
  BY DEF Lifetimes, TypeOK
<1>2. \A c \in Conns : conns'[c] # "open"
  BY <1>1, RoutingAssumption DEF Lifetimes, ConnectionsHeld, Freed
<1>3. OneOwner'
  <2>1. ASSUME NEW s \in Servers, servers[s] # NoConn
        PROVE  conns'[servers[s]] # "unused"
    BY <2>1 DEF Lifetimes, TypeOK, Freed
  <2> QED
    BY <2>1 DEF Lifetimes, OneOwner
<1> QED
  BY <1>1, <1>2, <1>3, RoutingAssumption DEF ConnectionsHeld

\* The invariant behind ConnectionsHeld: no two owners share a connection.
THEOREM LifetimesInvariance == Spec => []Lifetimes
<1>1. Init => Lifetimes
  <2> SUFFICES ASSUME Init PROVE TypeOK /\ IdleWhileBuilding /\ OneOwner /\ ConnectionsHeld
    BY DEF Lifetimes
  <2>1. TypeOK
    BY RoutingAssumption DEF Init, TypeOK, NoCall, Phases
  <2>2. IdleWhileBuilding
    BY DEF Init, IdleWhileBuilding, InFlight, NoCall
  <2> QED
    BY <2>1, <2>2, RoutingAssumption DEF Init, OneOwner, ConnectionsHeld
<1>2. Lifetimes /\ RoutingInv' /\ [Next]_vars => Lifetimes'
  <2> SUFFICES ASSUME Lifetimes, RoutingInv', [Next]_vars
               PROVE  OneOwner' /\ ConnectionsHeld'
    BY DEF Lifetimes, RoutingInv
  <2> USE RoutingAssumption DEF Lifetimes
  <2>1. ASSUME NEW c \in Conns, Connect(c) PROVE OneOwner' /\ ConnectionsHeld'
    <3>1. \A s \in Servers : servers[s] # c
      BY <2>1 DEF Connect, OneOwner
    <3> QED
      BY <2>1, <3>1 DEF Connect, OneOwner, ConnectionsHeld, TypeOK, InFlight
  <2>2. CASE DiscoveryFails
    BY <2>2 DEF DiscoveryFails, OneOwner, ConnectionsHeld, TypeOK, InFlight
  <2>3. ASSUME NEW s \in Servers, Register(s) \/ AddByHand(s)
        PROVE  OneOwner' /\ ConnectionsHeld'
    BY <2>3, AddServerLifetimes DEF Register, AddByHand
  <2>4. ASSUME NEW s \in Servers, NEW T, RegisterByHand(s, T)
        PROVE  OneOwner' /\ ConnectionsHeld'
    BY <2>4 DEF RegisterByHand, OneOwner, ConnectionsHeld, InFlight
  <2>5. CASE GiveUp
    <3>1. InFlight' = {}
      BY <2>5 DEF GiveUp, IdleWhileBuilding, InFlight
    <3>2. \A c \in Conns : conns'[c] # "open" /\ (conns[c] # "unused" => conns'[c] # "unused")
      BY <2>5 DEF GiveUp, TypeOK
    <3>3. OneOwner'
      BY <2>5, <3>2 DEF GiveUp, OneOwner, TypeOK
    <3> QED
      BY <2>5, <3>1, <3>2, <3>3 DEF GiveUp, ConnectionsHeld
  <2>6. CASE Build
    BY <2>6 DEF Build, OneOwner, ConnectionsHeld, InFlight
  <2>7. ASSUME NEW k \in Callers, NEW t \in Tools, NEW timed \in BOOLEAN, Call(k, t, timed)
        PROVE  OneOwner' /\ ConnectionsHeld'
    BY <2>7 DEF Call, Starts, OneOwner, ConnectionsHeld, InFlight
  <2>8. ASSUME NEW k \in Callers, NEW s \in Servers, NEW t \in Tools,
               NEW timed \in BOOLEAN, CallOn(k, s, t, timed)
        PROVE  OneOwner' /\ ConnectionsHeld'
    BY <2>8 DEF CallOn, Starts, OneOwner, ConnectionsHeld, InFlight
  <2>9. ASSUME NEW k \in Callers, End(k) PROVE OneOwner' /\ ConnectionsHeld'
    <3>1. InFlight' = InFlight \ {k} /\ k \in InFlight
      BY <2>9 DEF End, InFlight, TypeOK, NoCall
    <3>2. CASE phase = "closed" /\ InFlight = {k}
      BY <2>9, <3>1, <3>2, FreedLifetimes DEF End
    <3>3. CASE ~(phase = "closed" /\ InFlight = {k})
      <4>1. phase # "closed" \/ (InFlight # {} /\ InFlight' # {})
        BY <3>1, <3>3
      <4>2. UNCHANGED <<servers, conns, joining, phase>>
        BY <2>9, <3>3 DEF End
      <4> QED
        BY <4>1, <4>2 DEF OneOwner, ConnectionsHeld
    <3> QED
      BY <3>2, <3>3
  <2>10. CASE Close
    <3>1. InFlight' = InFlight
      BY <2>10 DEF Close, InFlight
    <3>2. CASE InFlight = {}
      BY <2>10, <3>1, <3>2, FreedLifetimes DEF Close
    <3>3. CASE InFlight # {}
      BY <2>10, <3>1, <3>3 DEF Close, OneOwner, ConnectionsHeld
    <3> QED
      BY <3>2, <3>3
  <2>11. CASE UNCHANGED vars
    BY <2>11 DEF vars, OneOwner, ConnectionsHeld, InFlight
  <2> QED
    BY <2>1, <2>2, <2>3, <2>4, <2>5, <2>6, <2>7, <2>8, <2>9, <2>10, <2>11
       DEF Next, Fill, Use
<1> QED
  BY <1>1, <1>2, RoutingInvariance, PTL DEF Spec

\* A connection is open exactly as long as something can use it: a call in
\* flight keeps its connection, and the last user takes it along.
THEOREM ConnectionsHeldHolds == Spec => []ConnectionsHeld
<1>1. Lifetimes => ConnectionsHeld
  BY DEF Lifetimes
<1> QED
  BY <1>1, LifetimesInvariance, PTL

-----------------------------------------------------------------------------
(* What the runtime says it can do.                                        *)

\* What a server owns is offered by its connection, unless its name was used
\* twice, and what is listed has an owner.
Backed ==
    /\ \A t \in Tools : owners[t] \in Servers \ reused =>
          servers[owners[t]] \in Conns /\ t \in Offers[servers[owners[t]]]
    /\ \A t \in tools \ {Empty} : owners[t] \in Servers

\* Server s is registered with connection c, whose tools are T: an earlier owner
\* keeps what it has, and what s owns is offered by c (ToolRegistry::register,
\* Router::add_server).
LEMMA RegisterBacked ==
    ASSUME TypeOK, Backed, NEW s \in Servers, NEW c \in Conns,
           RegisterTools(s, Offers[c]), servers' = [servers EXCEPT ![s] = c],
           tools' = tools \cup Offers[c],
           reused' = IF servers[s] # NoConn THEN reused \cup {s} ELSE reused
    PROVE  Backed'
<1> USE RoutingAssumption
<1>1. \A t \in Tools :
         owners'[t] = IF t \in Offers[c] \ {Empty} /\ owners[t] = NoServer THEN s ELSE owners[t]
  BY DEF RegisterTools, Owners
<1>2. owners \in [Tools -> Servers \cup {NoServer}] /\ servers \in [Servers -> Conns \cup {NoConn}]
  BY DEF TypeOK
<1>3. ASSUME NEW t \in Tools, owners'[t] \in Servers \ reused'
      PROVE  servers'[owners'[t]] \in Conns /\ t \in Offers[servers'[owners'[t]]]
  <2>1. owners'[t] \in Servers \ reused
    BY <1>3
  <2>2. CASE owners'[t] = owners[t]
    <3>1. servers[owners[t]] \in Conns /\ t \in Offers[servers[owners[t]]]
      BY <2>1, <2>2 DEF Backed
    <3>2. owners[t] # s
      BY <1>3, <2>2, <3>1
    <3> QED
      BY <1>2, <2>1, <2>2, <3>1, <3>2
  <2>3. CASE owners'[t] # owners[t]
    BY <1>1, <1>2, <2>3
  <2> QED
    BY <2>2, <2>3
<1>4. ASSUME NEW t \in tools' \ {Empty} PROVE owners'[t] \in Servers
  <2>1. t \in Tools
    BY <1>4 DEF TypeOK
  <2>2. CASE t \in tools
    <3>1. owners[t] \in Servers
      BY <1>4, <2>2 DEF Backed
    <3> QED
      BY <1>1, <2>1, <3>1
  <2>3. CASE t \in Offers[c]
    BY <1>1, <1>2, <1>4, <2>1, <2>3
  <2> QED
    BY <1>4, <2>2, <2>3
<1> QED
  BY <1>3, <1>4 DEF Backed

\* A client that registers by hand vouches for what it registers
\* (Router::register_tools).
LEMMA RegisterByHandBacked ==
    ASSUME TypeOK, Backed, NEW s \in Servers, NEW T, RegisterByHand(s, T)
    PROVE  Backed'
<1> USE RoutingAssumption
<1>1. \A t \in Tools :
         owners'[t] = IF t \in T \ {Empty} /\ owners[t] = NoServer THEN s ELSE owners[t]
  BY DEF RegisterByHand, RegisterTools, Owners
<1>2. servers' = servers /\ tools' = tools /\ tools \subseteq Tools /\ reused' = reused \cup {s}
  BY DEF RegisterByHand, TypeOK
<1>3. ASSUME NEW t \in Tools, owners'[t] \in Servers \ reused'
      PROVE  servers'[owners'[t]] \in Conns /\ t \in Offers[servers'[owners'[t]]]
  <2>1. owners'[t] = owners[t] /\ owners[t] \in Servers \ reused
    BY <1>1, <1>2, <1>3
  <2> QED
    BY <1>2, <2>1 DEF Backed
<1>4. ASSUME NEW t \in tools' \ {Empty} PROVE owners'[t] \in Servers
  BY <1>1, <1>2, <1>4 DEF Backed
<1> QED
  BY <1>3, <1>4 DEF Backed

\* Each tool the Python runtime lists is routed to a connection that offers it,
\* as long as no name of a server was used twice (python lib.rs:247).
THEOREM ToolsAvailableHolds == Spec => []ToolsAvailable
<1>1. Init => Backed
  BY RoutingAssumption DEF Init, Backed
<1>2. TypeOK /\ Backed /\ [Next]_vars => Backed'
  <2> SUFFICES ASSUME TypeOK, Backed, [Next]_vars PROVE Backed'
    OBVIOUS
  <2>1. ASSUME NEW s \in Servers, Register(s) PROVE Backed'
    <3>1. joining \in Conns
      BY <2>1 DEF Register, TypeOK
    <3> QED
      BY <2>1, <3>1, RegisterBacked DEF Register, AddServer
  <2>2. ASSUME NEW s \in Servers, AddByHand(s) PROVE Backed'
    <3>1. /\ UNCHANGED <<owners, tools>> /\ reused' = reused \cup {s}
          /\ \A r \in Servers \ {s} : servers'[r] = servers[r]
      BY <2>2 DEF AddByHand, AddServer, registry, TypeOK
    <3> QED
      BY <3>1 DEF Backed
  <2>3. ASSUME NEW s \in Servers, NEW T, RegisterByHand(s, T) PROVE Backed'
    BY <2>3, RegisterByHandBacked
  <2>4. CASE UNCHANGED <<owners, servers, tools, reused>>
    BY <2>4 DEF Backed
  <2> QED
    BY <2>1, <2>2, <2>3, <2>4
       DEF Next, Fill, Use, Connect, DiscoveryFails, GiveUp, Build, Call, CallOn, Starts, End, Close,
           registry, vars
<1>3. TypeOK /\ Backed => ToolsAvailable
  BY DEF TypeOK, Backed, ToolsAvailable
<1> QED
  BY <1>1, <1>2, <1>3, TypeCorrect, PTL DEF Spec
=============================================================================
