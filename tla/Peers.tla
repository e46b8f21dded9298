-------------------------------- MODULE Peers --------------------------------
(***************************************************************************)
(* The nodes of a peer-to-peer network (P2P, PowP2P): each asks its        *)
(* discovery services for addresses, connects to them one by one,          *)
(* introduces itself (version, verack), asks for more addresses (getaddr,  *)
(* addr), and pings its peers for ever (ping, pong).                       *)
(*                                                                         *)
(* A connection is <<from, to, 1>>, the socket at either end; <<from, to,  *)
(* 0>> is a socket opened for an address heard of and never connected.     *)
(* AppBase accepts every connection (Stack); TCP, name resolution and the  *)
(* DNS database are external.                                              *)
(***************************************************************************)
EXTENDS Naturals, Sequences, FiniteSets, FiniteSetsExt, Functions

CONSTANTS Node,            \* the nodes, by address
          Absent,          \* an address nobody listens at
          Setups,
          NoTimer, Running

ASSUME PeersConstants ==
  /\ Node \subseteq Nat /\ Absent \in Nat \ Node
  /\ \A s \in Setups :
       /\ s.joining \subseteq Node /\ s.addressList \subseteq Node \cup {Absent}
       /\ s.discoveryAttempts \in Nat
       /\ NoTimer \notin {s.kind.EXEC_START, s.kind.PEER_DISCOVERY, s.kind.PEER_CONNECTION}
       /\ s.kind.PEER_CONNECTION \notin {s.kind.EXEC_START, s.kind.PEER_DISCOVERY}

VARIABLES setup,           \* who joins, kinds of timers, services, attempts, threshold
          registering,     \* nodes whose registration is on its way
          registered,      \* addresses of the seed
          timer,           \* node -> the kind its timer is scheduled with
          discovering,     \* node -> services that have not answered
          resolutionList,  \* node -> addresses to connect to
          discoveryAttempts,
          tried,           \* connections that were started
          peers,           \* node -> addresses of active peers
          powPeers,        \* node -> socket -> address of the peer
          peerConnection,  \* node -> socket -> what its timer is scheduled for
          inbox,           \* node -> socket -> what TCP brings
          failed

discoveryVars == <<registering, registered>>
P2PVars == <<timer, discovering, resolutionList, discoveryAttempts, tried>>
PowVars == <<peers, powPeers, peerConnection>>
vars == <<setup, discoveryVars, P2PVars, PowVars, inbox, failed>>

Address == Node \cup {Absent}
Socket == Node \X Address \X {0, 1}
OtherEnd(p, c) == IF c[1] = p THEN c[2] ELSE c[1]
isClient(p, c) == c[1] = p
kind == setup.kind          \* the values of the enumerators

PowInit ==
  /\ powPeers = [p \in Node |-> <<>>]
  /\ peerConnection = [p \in Node |-> <<>>]

Init ==
  /\ setup \in Setups
  /\ registering = {} /\ registered = {}
  /\ timer = [p \in Node |-> IF p \in setup.joining THEN kind.EXEC_START ELSE NoTimer]
  /\ discovering = [p \in Node |-> {}]
  /\ resolutionList = [p \in Node |-> {}]
  /\ discoveryAttempts = [p \in Node |-> setup.discoveryAttempts]
  /\ tried = {}
  /\ peers = [p \in Node |-> {}]
  /\ PowInit
  /\ inbox = [p \in Node |-> [c \in Socket |-> <<>>]]
  /\ failed = Running

Without(f, k) == Restrict(f, DOMAIN f \ {k})
With(f, k, v) == [x \in DOMAIN f \cup {k} |-> IF x = k THEN v ELSE f[x]]
Message(type, addresses) == [type |-> type, addresses |-> addresses]
Plain(type) == Message(type, {})
Bring(boxes, p, c, messages) == [boxes EXCEPT ![p][c] = @ \o messages]
Fails(reason) == failed' = reason /\ UNCHANGED <<setup, discoveryVars, P2PVars, PowVars, inbox>>

(* ---- discovery services ------------------------------------------------- *)

(* A node's DNS service registers its address as it connects.              *)
serviceConnects(p) ==
  /\ failed = Running
  /\ p \in setup.joining /\ "dns" \in setup.services /\ p \notin registering \cup registered
  /\ IF setup.dnsReachable
       THEN /\ registering' = registering \cup {p}
            /\ UNCHANGED <<setup, registered, P2PVars, PowVars, inbox, failed>>
       ELSE Fails("cannot connect to DNS")

processRequest(p) ==
  /\ failed = Running
  /\ p \in registering
  /\ registering' = registering \ {p}
  /\ registered' = registered \cup {p}
  /\ UNCHANGED <<setup, P2PVars, PowVars, inbox, failed>>

(* A service's answer; the last one starts connecting.                     *)
answered(p, service, addresses) ==
  /\ service \in discovering[p]
  /\ discovering' = [discovering EXCEPT ![p] = @ \ {service}]
  /\ resolutionList' = [resolutionList EXCEPT ![p] = @ \cup addresses]
  /\ timer' = [timer EXCEPT ![p] =
                 IF discovering[p] = {service} THEN kind.PEER_CONNECTION ELSE @]
  /\ UNCHANGED <<setup, discoveryVars, discoveryAttempts, tried, PowVars, inbox, failed>>

hardcodedAnswers(p) ==
  failed = Running /\ answered(p, "hardcoded", setup.addressList)

dnsAnswers(p) ==
  /\ failed = Running
  /\ IF registered = {}
       THEN /\ "dns" \in discovering[p] /\ failed' = "no peers on the seed"
            /\ UNCHANGED <<setup, discoveryVars, P2PVars, PowVars, inbox>>
       ELSE answered(p, "dns", registered)

(* ---- P2P: the timer of a node ------------------------------------------- *)

Fires(p, k) == failed = Running /\ timer[p] = k
SetTimer(p, k) == timer' = [timer EXCEPT ![p] = k]

joins(p) ==
  /\ Fires(p, kind.EXEC_START)
  /\ SetTimer(p, kind.PEER_DISCOVERY)
  /\ UNCHANGED <<setup, discoveryVars, discovering, resolutionList, discoveryAttempts, tried,
                 PowVars, inbox, failed>>

(* With no attempt left a node waits for others to connect, for ever.      *)
discovers(p) ==
  /\ Fires(p, kind.PEER_DISCOVERY) /\ kind.PEER_DISCOVERY # kind.EXEC_START
  /\ SetTimer(p, NoTimer)
  /\ discovering' = [discovering EXCEPT ![p] = IF discoveryAttempts[p] > 0 THEN setup.services ELSE @]
  /\ UNCHANGED <<setup, discoveryVars, resolutionList, discoveryAttempts, tried, PowVars,
                 inbox, failed>>

(* One address a second, the lowest first; not its own nor an active peer. *)
(* The port -1 is 65535 for every socket: TCP takes a second connection to *)
(* the same peer for the first one.                                        *)
connectToPeer(p) ==
  LET destIp == Min(resolutionList[p])
      c == <<p, destIp, 1>>
      taken == [resolutionList EXCEPT ![p] = @ \ {destIp}]
  IN /\ Fires(p, kind.PEER_CONNECTION) /\ resolutionList[p] # {}
     /\ CASE destIp \in peers[p] \cup {p} ->
               resolutionList' = taken /\ UNCHANGED <<tried, inbox, failed>>
          [] destIp \notin peers[p] \cup {p} /\ c \in tried ->
               failed' = "address already in use" /\ UNCHANGED <<resolutionList, tried, inbox>>
          [] OTHER ->
               /\ resolutionList' = taken
               /\ tried' = tried \cup {c}
               /\ inbox' = IF destIp = Absent
                             THEN Bring(inbox, p, c, <<Plain("FAILURE")>>)
                             ELSE Bring(Bring(inbox, p, c, <<Plain("ESTABLISHED")>>),
                                        destIp, c, <<Plain("ESTABLISHED")>>)
               /\ UNCHANGED failed
     /\ UNCHANGED <<setup, discoveryVars, timer, discovering, discoveryAttempts, PowVars>>

triedAll(p) ==
  /\ Fires(p, kind.PEER_CONNECTION) /\ resolutionList[p] = {}
  /\ IF Cardinality(peers[p]) < setup.discoveryThreshold
       THEN /\ SetTimer(p, kind.PEER_DISCOVERY)
            /\ discoveryAttempts' = [discoveryAttempts EXCEPT ![p] = @ - 1]
       ELSE SetTimer(p, NoTimer) /\ UNCHANGED discoveryAttempts
  /\ UNCHANGED <<setup, discoveryVars, discovering, resolutionList, tried, PowVars, inbox, failed>>

(* ---- PowP2P: a connection ----------------------------------------------- *)

getSockFd(p, address) == {c \in DOMAIN powPeers[p] : powPeers[p][c] = address}
Arrives(p, c, types) ==
  failed = Running /\ inbox[p][c] # <<>> /\ Head(inbox[p][c]).type \in types
Taken(p, c) == [inbox EXCEPT ![p][c] = Tail(@)]

(* Only a peer that answered has an entry: what fails has none to release. *)
handleConnectFailure(p, c) ==
  Arrives(p, c, {"FAILURE"}) /\ Fails("no peer for a failed connection")

(* A peer heard of moves to the socket it is connected by.                 *)
stays(entries, heardOf, c, address) == IF heardOf = {} THEN With(entries, c, address) ELSE entries
moves(entries, heardOf, c, address) ==
  With(Restrict(entries, DOMAIN entries \ heardOf), c, address)

(* A second connection to the same peer stays open, unused.                *)
handleConnectReturn(p, c) ==
  LET address == OtherEnd(p, c)
      heardOf == getSockFd(p, address)
  IN /\ Arrives(p, c, {"ESTABLISHED"})
     /\ IF address \in peers[p]
          THEN inbox' = Taken(p, c) /\ UNCHANGED PowVars
          ELSE /\ peers' = [peers EXCEPT ![p] = @ \cup {address}]
               /\ powPeers' = [powPeers EXCEPT ![p] = moves(@, heardOf, c, address)]
               /\ peerConnection' = [peerConnection EXCEPT ![p] = With(@, c, "idle")]
               /\ inbox' = Bring(Taken(p, c), address, c, <<Plain("version")>>)
     /\ UNCHANGED <<setup, discoveryVars, P2PVars, failed>>

(* TCP may hand over several messages as one packet.  Those that look at   *)
(* what follows their header take all that is left of the packet for one   *)
(* message, which it is not; the others read nothing, and the rest of the  *)
(* packet is lost.                                                         *)
Looking == {"version", "addr", "ping"}
Sends(boxes, p, c, messages) == inbox' = Bring(boxes, OtherEnd(p, c), c, messages)
readWhole(p, c, messages) == Sends(Taken(p, c), p, c, messages)
readFirst(p, c, messages) ==
  \E k \in IF setup.coalescing THEN 1..Len(inbox[p][c]) ELSE {1} :
    Sends([inbox EXCEPT ![p][c] = SubSeq(@, k + 1, Len(@))], p, c, messages)
wrongChunk(p, c) ==
  /\ Arrives(p, c, Looking) /\ setup.coalescing /\ Len(inbox[p][c]) > 1
  /\ Fails("wrong chunk")

(* From a peer whose connection is not the one this node keeps there is    *)
(* nothing to introduce.                                                   *)
version(p, c) ==
  /\ Arrives(p, c, {"version"})
  /\ IF c \in DOMAIN powPeers[p]
       THEN /\ readWhole(p, c, <<Plain("verack")>>)
            /\ UNCHANGED <<setup, discoveryVars, P2PVars, PowVars, failed>>
       ELSE Fails("no peer for a connection")

(* The ping of a peer is scheduled once it knows this node.                *)
verack(p, c) ==
  /\ Arrives(p, c, {"verack"})
  /\ CASE c \notin DOMAIN peerConnection[p] -> Fails("no timer for a connection")
       [] c \in DOMAIN peerConnection[p] /\ peerConnection[p][c] # "idle" ->
            Fails("already scheduled")
       [] OTHER ->
            /\ peerConnection' = [peerConnection EXCEPT ![p][c] = "SEND_PING"]
            /\ readFirst(p, c, IF isClient(p, c) THEN <<Plain("getaddr")>> ELSE <<>>)
            /\ UNCHANGED <<setup, discoveryVars, P2PVars, peers, powPeers, failed>>

getaddr(p, c) ==
  /\ Arrives(p, c, {"getaddr"})
  /\ readFirst(p, c, <<Message("addr", Range(powPeers[p]))>>)
  /\ UNCHANGED <<setup, discoveryVars, P2PVars, PowVars, failed>>

(* Every address not heard of is given a socket, never connected.          *)
newPeersAll(p, addresses) == addresses \ Range(powPeers[p])
newPeers(p, addresses) == addresses \ (Range(powPeers[p]) \cup {p})
hears(entries, sockets) ==
  [c \in DOMAIN entries \cup sockets |-> IF c \in sockets THEN c[2] ELSE entries[c]]
addr(p, c) ==
  /\ Arrives(p, c, {"addr"})
  /\ LET new == newPeers(p, Head(inbox[p][c]).addresses)
     IN powPeers' = [powPeers EXCEPT ![p] = hears(@, {<<p, a, 0>> : a \in new})]
  /\ readWhole(p, c, <<>>)
  /\ UNCHANGED <<setup, discoveryVars, P2PVars, peers, peerConnection, failed>>

ping(p, c) ==
  /\ Arrives(p, c, {"ping"})
  /\ readWhole(p, c, <<Plain("pong")>>)
  /\ UNCHANGED <<setup, discoveryVars, P2PVars, PowVars, failed>>

(* The timeout, over or not, gives way to the next ping.                   *)
afterPongIdle(status) == "idle"
afterPong(status) == "SEND_PING"
pong(p, c) ==
  /\ Arrives(p, c, {"pong"})
  /\ peerConnection' = [peerConnection EXCEPT ![p][c] = afterPong(@)]
  /\ readFirst(p, c, <<>>)
  /\ UNCHANGED <<setup, discoveryVars, P2PVars, peers, powPeers, failed>>

(* Its timers: a ping is due, a minute later or more (bound: a setup may   *)
(* end before); nothing is done about a peer that does not answer.         *)
sendPing(p, c) ==
  /\ failed = Running /\ setup.pinging
  /\ c \in DOMAIN peerConnection[p] /\ peerConnection[p][c] = "SEND_PING"
  /\ IF c \in DOMAIN powPeers[p]
       THEN /\ peerConnection' = [peerConnection EXCEPT ![p][c] = "AWAITING_POLL"]
            /\ inbox' = Bring(inbox, OtherEnd(p, c), c, <<Plain("ping")>>)
       ELSE peerConnection' = [peerConnection EXCEPT ![p] = Without(@, c)] /\ UNCHANGED inbox
  /\ UNCHANGED <<setup, discoveryVars, P2PVars, peers, powPeers, failed>>

pongTimeout(p, c) ==
  /\ failed = Running
  /\ c \in DOMAIN peerConnection[p] /\ peerConnection[p][c] = "AWAITING_POLL"
  /\ peerConnection' = [peerConnection EXCEPT ![p][c] = "idle"]
  /\ UNCHANGED <<setup, discoveryVars, P2PVars, peers, powPeers, inbox, failed>>

(* ---- the network -------------------------------------------------------- *)

handleDataArrived(p, c) ==
  \/ version(p, c) \/ verack(p, c) \/ getaddr(p, c) \/ addr(p, c) \/ ping(p, c) \/ pong(p, c)
  \/ wrongChunk(p, c)
FromTcp(p, c) ==
  /\ inbox[p][c] # <<>>
  /\ handleConnectFailure(p, c) \/ handleConnectReturn(p, c) \/ handleDataArrived(p, c)
processSelfMessage(p) == joins(p) \/ discovers(p) \/ connectToPeer(p) \/ triedAll(p)
Service(p) ==
  serviceConnects(p) \/ processRequest(p) \/ hardcodedAnswers(p) \/ dnsAnswers(p)

Next ==
  \E p \in Node :
    \/ Service(p) \/ processSelfMessage(p)
    \/ \E c \in Socket : FromTcp(p, c) \/ sendPing(p, c) \/ pongTimeout(p, c)

(* Timers fire, services answer and TCP delivers.                          *)
Fairness ==
  \A p \in Node :
    /\ WF_vars(Service(p) \/ processSelfMessage(p))
    /\ WF_vars(\E c \in Socket : FromTcp(p, c))
    /\ WF_vars(\E c \in Socket : sendPing(p, c))
Spec == Init /\ [][Next]_vars /\ Fairness

(* ---- what is true of every state ---------------------------------------- *)

(* Both connected to each other.                                           *)
ConnectedTwice(p, q) == {<<p, q, 1>>, <<q, p, 1>>} \subseteq tried
Kept(p, c) == c \in DOMAIN peerConnection[p]

(* The three tables of a node agree: its entries have one address each and *)
(* never its own, the active peers are those with a timer, and a timer has *)
(* its entry.  And the two ends agree: a node is introduced on the very    *)
(* connection its peer keeps, unless there is a second one between the     *)
(* two.                                                                    *)
PeersAgree ==
  /\ \A p \in Node :
       /\ IsInjective(powPeers[p]) /\ p \notin Range(powPeers[p])
       /\ DOMAIN peerConnection[p] \subseteq DOMAIN powPeers[p]
       /\ peers[p] = {powPeers[p][c] : c \in DOMAIN peerConnection[p]}
       /\ peers[p] \subseteq Address /\ discoveryAttempts[p] \in 0..setup.discoveryAttempts
  /\ \A c \in tried :
       Kept(c[1], c) /\ c[2] \in Node => 
         \/ Kept(c[2], c) \/ Plain("ESTABLISHED") \in Range(inbox[c[2]][c])
         \/ ConnectedTwice(c[1], c[2])

(* The simulation stops only when the DNS server or an address does not    *)
(* answer, when a node asks before any is registered, when a node looks    *)
(* for peers again and its first connection to one is not established yet, *)
(* when TCP put several messages in a packet, or when two nodes connected  *)
(* to each other and each kept its own connection.  With one attempt to    *)
(* find peers, nobody is connected to twice; no timer of a connection is   *)
(* ever scheduled twice.                                                   *)
StopsExplained ==
  failed # Running =>
    \/ failed = "cannot connect to DNS" /\ ~setup.dnsReachable
    \/ failed = "no peer for a failed connection" /\ Absent \in setup.addressList
    \/ failed = "no peers on the seed" /\ "dns" \in setup.services
    \/ failed = "address already in use" /\ setup.discoveryAttempts > 1
    \/ failed = "wrong chunk" /\ setup.coalescing
    \/ failed = "no peer for a connection" /\ \E p, q \in Node : p # q /\ ConnectedTwice(p, q)

(* Once two nodes keep a connection they are introduced and ping each      *)
(* other on it for ever, even when a timeout beats the answer: unless      *)
(* packets were read as one.                                               *)
PeersPing ==
  \A c \in {d \in Node \X Node \X {1} : d[1] # d[2]} :
    (Kept(c[1], c) /\ Kept(c[2], c)) ~>
      (\/ Kept(c[1], c) /\ peerConnection[c[1]][c] = "SEND_PING"
       \/ failed # Running \/ setup.coalescing)
=============================================================================
