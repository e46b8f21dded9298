-------------------------------- MODULE Stack --------------------------------
(***************************************************************************)
(* The sockets of the applications and the proxy (AppProxy) most of them   *)
(* reach TCP through.                                                      *)
(*                                                                         *)
(* The applications of a fog node or data centre share one address.  Each  *)
(* opens the port it likes; the proxy keeps what they listen to for itself *)
(* (an EDGE connection), listens alone, and binds an accepted connection   *)
(* (a session) to an application when its first request names a service.   *)
(* Until the application has accepted, requests wait in the session.       *)
(*                                                                         *)
(* TCP itself is external: it opens connections and delivers in order.     *)
(* A socket is <<app, number>>, the end its peer accepts Peer(socket).     *)
(***************************************************************************)
EXTENDS Naturals, Sequences, FiniteSets, SequencesExt, FiniteSetsExt, TLC

CONSTANTS App, Node,
          nodeOf,            \* app -> its node
          proxied,           \* the nodes whose applications are behind a proxy
          MaxSockets,        \* bound: sockets opened by an application
          Running            \* no error so far

VARIABLES socketMap,         \* app -> the sockets it knows
          opened,            \* app -> how many it has opened
          connected,         \* the sockets of clients that are established
          socketToConnectionMap, \* node -> socket -> application behind it
          socketToSessionMap,    \* node -> accepted socket -> session
          serviceTable,      \* node -> service -> the applications that offer it
          toProxy,           \* app -> what it sends
          toApp,             \* app -> what is sent to it
          arriving,          \* end of a connection -> what TCP brings to it
          finished,          \* the ends that were closed
          connections,       \* client socket TCP was told of -> the node it connects to
          failed             \* why the simulation stopped, or Running

socketVars == <<socketMap, opened, connected>>
proxyVars == <<socketToConnectionMap, socketToSessionMap, serviceTable>>
tcpVars == <<finished, connections>>

ASSUME StackConstants ==
  /\ nodeOf \in [App -> Node] /\ proxied \subseteq Node
  /\ MaxSockets \in Nat \ {0}

Socket == App \X (1..MaxSockets)
Peer(s) == Append(s, "peer")
ServerSocket(n) == <<n>>
End == Socket \cup {Peer(s) : s \in Socket} \cup {ServerSocket(n) : n \in Node}
OtherEnd(e) == IF Len(e) = 2 THEN Peer(e) ELSE SubSeq(e, 1, 2)

Command(op, socket, body) == [op |-> op, socket |-> socket, body |-> body]
Indication(kind, socket, body) == [kind |-> kind, socket |-> socket, body |-> body]

StackInit ==
  /\ socketMap = [a \in App |-> {}]
  /\ opened = [a \in App |-> 0]
  /\ connected = {}
  /\ socketToConnectionMap = [n \in Node |-> <<>>]
  /\ socketToSessionMap = [n \in Node |-> <<>>]
  /\ serviceTable = [n \in Node |-> <<>>]
  /\ toProxy = [a \in App |-> <<>>]
  /\ toApp = [a \in App |-> <<>>]
  /\ arriving = [e \in End |-> <<>>]
  /\ finished = {}
  /\ connections = <<>>
  /\ failed = Running

(* An entry a map has is kept.                                             *)
Emplaced(map, k, new) ==
  [x \in DOMAIN map \cup {k} |-> IF x \in DOMAIN map THEN map[x] ELSE new]

Stops(reason) == failed' = reason /\ UNCHANGED <<proxyVars, toApp, arriving, tcpVars>>

(* ---- the calls of an application ---------------------------------------- *)

open(a) ==
  /\ opened[a] < MaxSockets
  /\ opened' = [opened EXCEPT ![a] = @ + 1]
  /\ socketMap' = [socketMap EXCEPT ![a] = @ \cup {<<a, opened[a] + 1>>}]

listen(s) == <<Command("OPEN_PASSIVE", s, "none")>>
connect(s, node) == <<Command("OPEN_ACTIVE", s, node)>>
_send(s, packets) == [i \in DOMAIN packets |-> Command("SEND", s, packets[i])]
registerService(s, service) == <<Command("REGISTER", s, service)>>
Calls(a, commands) == toProxy' = [toProxy EXCEPT ![a] = @ \o commands]

(* ---- TCP ---------------------------------------------------------------- *)

(* The sockets of clients are opened with port -1, 65535 for all of them:  *)
(* TCP takes two connections of a node to another for the same one.  A     *)
(* connection both ends have closed may linger.                            *)
Ended(s) == {s, Peer(s)} \subseteq finished
Same(m) ==
  {s \in DOMAIN connections : nodeOf[s[1]] = nodeOf[m.socket[1]] /\ connections[s] = m.body}
inUse(m) == m.op = "OPEN_ACTIVE" /\ Same(m) # {}
available(m) == m.op = "OPEN_ACTIVE" => \A s \in Same(m) : Ended(s)

(* What a command makes arrive at the two ends of its connection.  A node  *)
(* without a proxy has nobody listening and refuses.  Both ends are told   *)
(* when the second has closed.                                             *)
transport(m) ==
  LET s == m.socket
      There == OtherEnd(s)
      Bring(arrivals, e, kind, body) == [arrivals EXCEPT ![e] = Append(@, Indication(kind, e, body))]
      Closing == Bring(arriving, There, "PEER_CLOSED", "none")
  IN /\ available(m)
     /\ arriving' =
          CASE m.op = "OPEN_ACTIVE" /\ m.body \in proxied ->
                 Bring(Bring(Bring(arriving, ServerSocket(m.body), "AVAILABLE", There),
                             s, "ESTABLISHED", "none"),
                       There, "ESTABLISHED", "none")
            [] m.op = "OPEN_ACTIVE" /\ m.body \notin proxied -> Bring(arriving, s, "FAILURE", "none")
            [] m.op = "SEND" -> Bring(arriving, There, "DATA", m.body)
            [] m.op = "CLOSE" /\ There \notin finished -> Closing
            [] m.op = "CLOSE" /\ There \in finished ->
                 Bring(Bring(Closing, s, "CLOSED", "none"), There, "CLOSED", "none")
     /\ finished' = IF m.op = "CLOSE" THEN finished \cup {s} ELSE finished
     /\ connections' = IF m.op = "OPEN_ACTIVE" THEN Emplaced(connections, s, m.body)
                                               ELSE connections

(* ---- AppProxy: what the applications send ------------------------------- *)

Takes(a, op) ==
  /\ failed = Running
  /\ toProxy[a] # <<>> /\ Head(toProxy[a]).op = op
  /\ toProxy' = [toProxy EXCEPT ![a] = Tail(@)]
  /\ UNCHANGED socketVars

(* The commands of an application with no proxy go to TCP.                 *)
handOver(a) ==
  /\ nodeOf[a] \notin proxied
  /\ \E op \in {"OPEN_ACTIVE", "SEND", "CLOSE"} : Takes(a, op)
  /\ transport(Head(toProxy[a]))
  /\ UNCHANGED <<proxyVars, toApp, failed>>

addressInUse(a) ==
  /\ Takes(a, "OPEN_ACTIVE") /\ inUse(Head(toProxy[a]))
  /\ Head(toProxy[a]).socket \notin DOMAIN socketToConnectionMap[nodeOf[a]]
  /\ Stops("address already in use")

connectionTo(a, type) == [app |-> a, type |-> type, bound |-> FALSE]
Unbound(connection) == connection
Bound(connection) == [connection EXCEPT !.bound = TRUE]

(* Only a connection of a client is made known to TCP.                     *)
openSocket(a) ==
  LET m == Head(toProxy[a])
      type == IF m.op = "OPEN_PASSIVE" THEN "EDGE" ELSE "PASSTHROUGH"
  IN /\ nodeOf[a] \in proxied
     /\ \E op \in {"OPEN_ACTIVE", "OPEN_PASSIVE"} : Takes(a, op)
     /\ IF m.socket \in DOMAIN socketToConnectionMap[nodeOf[a]]
          THEN Stops("already registered")
          ELSE /\ socketToConnectionMap' = [socketToConnectionMap EXCEPT ![nodeOf[a]] =
                    Emplaced(@, m.socket, connectionTo(a, type))]
               /\ IF type = "PASSTHROUGH" THEN transport(m) ELSE UNCHANGED <<arriving, tcpVars>>
               /\ UNCHANGED <<socketToSessionMap, serviceTable, toApp, failed>>

handleAppPacket(a) ==
  /\ nodeOf[a] \in proxied /\ Takes(a, "SEND")
  /\ transport(Head(toProxy[a]))
  /\ UNCHANGED <<proxyVars, toApp, failed>>

Registered(table, service, a) ==
  IF service \in DOMAIN table
    THEN [table EXCEPT ![service] = Append(@, a)]
    ELSE Emplaced(table, service, <<a>>)

handleServiceRequest(a) ==
  LET m == Head(toProxy[a])
  IN /\ nodeOf[a] \in proxied /\ Takes(a, "REGISTER")
     /\ serviceTable' = [serviceTable EXCEPT ![nodeOf[a]] = Registered(@, m.body, a)]
     /\ socketToConnectionMap' =
          [socketToConnectionMap EXCEPT ![nodeOf[a]][m.socket] = Bound(@)]
     /\ UNCHANGED <<socketToSessionMap, toApp, arriving, tcpVars, failed>>

(* The requests that waited for the application are delivered first.       *)
setSessionEstablished(session) == [session EXCEPT !.state = "ESTABLISHED", !.queue = <<>>]
flushedAfterFirst(session) == SubSeq(session.queue, 2, Len(session.queue))
flushed(session) == session.queue

acceptSession(a) ==
  LET m == Head(toProxy[a])
      sessions == socketToSessionMap[nodeOf[a]]
      session == sessions[m.socket]
  IN /\ nodeOf[a] \in proxied /\ Takes(a, "ACCEPT")
     /\ IF m.socket \notin DOMAIN sessions
          THEN Stops("session not found")
          ELSE /\ socketToSessionMap' = [socketToSessionMap EXCEPT ![nodeOf[a]][m.socket] =
                    setSessionEstablished(@)]
               /\ toApp' = [toApp EXCEPT ![session.app] = @ \o flushed(session)]
               /\ UNCHANGED <<socketToConnectionMap, serviceTable, arriving, tcpVars, failed>>

Without(map, k) == [x \in DOMAIN map \ {k} |-> map[x]]

(* A client's CLOSE never leaves the proxy: TCP, and the peer, are not     *)
(* told.  That of a listening socket does, to a TCP that was never told of *)
(* it.                                                                     *)
closeSocket(a) ==
  LET m == Head(toProxy[a])
      n == nodeOf[a]
  IN /\ n \in proxied /\ Takes(a, "CLOSE")
     /\ CASE m.socket \in DOMAIN socketToConnectionMap[n]
               /\ socketToConnectionMap[n][m.socket].type = "EDGE" ->
               Stops("TCP: connection not open")
          [] m.socket \in DOMAIN socketToConnectionMap[n]
               /\ socketToConnectionMap[n][m.socket].type = "PASSTHROUGH" ->
               /\ socketToConnectionMap' = [socketToConnectionMap EXCEPT ![n] =
                    Without(@, m.socket)]
               /\ UNCHANGED <<socketToSessionMap, serviceTable, arriving, tcpVars, toApp, failed>>
          [] m.socket \in DOMAIN socketToSessionMap[n] ->
               /\ transport(m)
               /\ socketToSessionMap' = [socketToSessionMap EXCEPT ![n] = Without(@, m.socket)]
               /\ UNCHANGED <<socketToConnectionMap, serviceTable, toApp, failed>>
          [] OTHER -> Stops("connection not found on CLOSE")

(* ---- AppProxy: what TCP brings ------------------------------------------ *)

(* What arrives at an end is taken from it, and may be answered.           *)
Arrives(e, kinds) ==
  failed = Running /\ arriving[e] # <<>> /\ Head(arriving[e]).kind \in kinds
Taken(e) == [arriving EXCEPT ![e] = Tail(@)]
Forwarded(a, m) == toApp' = [toApp EXCEPT ![a] = Append(@, m)]

(* An application with no proxy is given it all.                           *)
handUp(a, e) ==
  /\ nodeOf[a] \notin proxied
  /\ e \in Socket /\ e[1] = a
  /\ Arrives(e, {"ESTABLISHED", "FAILURE", "DATA", "PEER_CLOSED", "CLOSED"})
  /\ Forwarded(a, Head(arriving[e]))
  /\ arriving' = Taken(e)
  /\ UNCHANGED <<socketVars, tcpVars, proxyVars, toProxy, failed>>

NewSession == [state |-> "INIT", app |-> "none", queue |-> <<>>]

(* The main socket: the connection is accepted at once.                    *)
accept(n) ==
  LET e == ServerSocket(n)
  IN /\ Arrives(e, {"AVAILABLE"})
     /\ socketToSessionMap' = [socketToSessionMap EXCEPT ![n] =
          Emplaced(@, Head(arriving[e]).body, NewSession)]
     /\ arriving' = Taken(e)
     /\ UNCHANGED <<socketVars, tcpVars, socketToConnectionMap, serviceTable, toProxy, toApp, failed>>

(* For a connection of an application, indications and packets alike.      *)
forwardToConnection(a, e) ==
  /\ nodeOf[a] \in proxied
  /\ e \in Socket /\ e[1] = a
  /\ Arrives(e, {"ESTABLISHED", "FAILURE", "DATA", "PEER_CLOSED", "CLOSED"})
  /\ IF e \in DOMAIN socketToConnectionMap[nodeOf[a]]
       THEN /\ Forwarded(socketToConnectionMap[nodeOf[a]][e].app, Head(arriving[e]))
            /\ arriving' = Taken(e)
            /\ UNCHANGED <<proxyVars, failed>>
       ELSE failed' = "no connection for socket" /\ UNCHANGED <<proxyVars, toApp, arriving>>
  /\ UNCHANGED <<socketVars, tcpVars, toProxy>>

(* TCP holds back what it has for a connection until it is accepted.       *)
Session(n, e) == socketToSessionMap[n][e]
ArrivesInSession(n, e, kinds) == e \in DOMAIN socketToSessionMap[n] /\ Arrives(e, kinds)

handleSessionIndication(n, e) ==
  LET m == Head(arriving[e])
  IN /\ ArrivesInSession(n, e, {"ESTABLISHED", "PEER_CLOSED", "CLOSED"})
     /\ CASE Session(n, e).state = "ESTABLISHED" ->
               /\ Forwarded(Session(n, e).app, m)
               /\ arriving' = Taken(e) /\ UNCHANGED failed
          [] Session(n, e).state # "ESTABLISHED" /\ m.kind = "ESTABLISHED" ->
               arriving' = Taken(e) /\ UNCHANGED <<toApp, failed>>
          [] OTHER -> failed' = "TBD handle TCP_CLOSED" /\ UNCHANGED <<toApp, arriving>>
     /\ UNCHANGED <<socketVars, tcpVars, proxyVars, toProxy>>

setSessionPending(session, a, packet) ==
  [session EXCEPT !.state = "PENDING", !.app = a, !.queue = <<packet>>]

(* The applications whose connection is registered under the address and   *)
(* the port (the same for all) of an entry.                                *)
findConnectionByPort(n, a) ==
  {s \in DOMAIN socketToConnectionMap[n] : socketToConnectionMap[n][s].bound}
findConnection(n, a) ==
  {s \in findConnectionByPort(n, a) : socketToConnectionMap[n][s].app = a}

(* The service a REST request names, "none" when there is no such request. *)
getServiceName(packet) == packet.body.host

(* The first request of a session: its service chooses the application.    *)
handleSessionInitialize(n, e) ==
  LET packet == Head(arriving[e])
      service == getServiceName(packet)
      connectionOf(a) == findConnection(n, a)
      Bind(a) ==
        IF connectionOf(a) = {}
          THEN failed' = "endpoint not found" /\ UNCHANGED <<socketToSessionMap, toApp, arriving>>
          ELSE \E s \in connectionOf(a) :
                 LET b == socketToConnectionMap[n][s].app
                 IN /\ socketToSessionMap' = [socketToSessionMap EXCEPT ![n][e] =
                         setSessionPending(@, b, packet)]
                    /\ Forwarded(b, Indication("AVAILABLE", s, e))
                    /\ arriving' = Taken(e) /\ UNCHANGED failed
  IN /\ ArrivesInSession(n, e, {"DATA"})
     /\ Session(n, e).state = "INIT" /\ service \in DOMAIN serviceTable[n]
     /\ \E i \in DOMAIN serviceTable[n][service] : Bind(serviceTable[n][service][i])
     /\ UNCHANGED <<socketVars, tcpVars, socketToConnectionMap, serviceTable, toProxy>>

unavailable == [code |-> "INTERNAL_ERROR"]

(* The answer goes to the other end, and the session stays as it is.  The  *)
(* name of a request without one is read past its end: that is undefined,  *)
(* and either stops the program or finds no such service.                  *)
sendServiceUnavailable(n, e) ==
  LET host == getServiceName(Head(arriving[e]))
  IN /\ ArrivesInSession(n, e, {"DATA"})
     /\ Session(n, e).state = "INIT" /\ host \notin DOMAIN serviceTable[n]
     /\ \E stops \in IF host = "none" THEN BOOLEAN ELSE {FALSE} :
          IF stops
            THEN failed' = "undefined" /\ UNCHANGED arriving
            ELSE /\ arriving' = [Taken(e) EXCEPT ![OtherEnd(e)] =
                                  Append(@, Indication("DATA", OtherEnd(e), unavailable))]
                 /\ UNCHANGED failed
     /\ UNCHANGED <<socketVars, tcpVars, proxyVars, toProxy, toApp>>

(* A later request waits until the application accepts, or is forwarded.   *)
handleTransportPacket(n, e) ==
  LET m == Head(arriving[e])
  IN /\ ArrivesInSession(n, e, {"DATA"})
     /\ Session(n, e).state # "INIT"
     /\ IF Session(n, e).state = "PENDING"
          THEN /\ socketToSessionMap' = [socketToSessionMap EXCEPT ![n][e].queue = Append(@, m)]
               /\ UNCHANGED toApp
          ELSE Forwarded(Session(n, e).app, m) /\ UNCHANGED socketToSessionMap
     /\ arriving' = Taken(e)
     /\ UNCHANGED <<socketVars, tcpVars, socketToConnectionMap, serviceTable, toProxy, failed>>

(* What TCP brings to a session that was closed: there is no such socket.  *)
arrivesLate(e) ==
  /\ e \notin Socket /\ Arrives(e, {"DATA", "PEER_CLOSED", "CLOSED"})
  /\ \A n \in Node : e \notin DOMAIN socketToSessionMap[n]
  /\ e \in finished
  /\ failed' = "unknown socket"
  /\ UNCHANGED <<socketVars, tcpVars, proxyVars, toProxy, toApp, arriving>>

(* What a message of an application, or one TCP brings to an end, causes.  *)
FromApp(a) ==
  /\ toProxy[a] # <<>>
  /\ \/ handOver(a) \/ openSocket(a) \/ addressInUse(a) \/ handleAppPacket(a)
     \/ handleServiceRequest(a) \/ acceptSession(a) \/ closeSocket(a)
FromTcp(e) ==
  /\ arriving[e] # <<>>
  /\ \/ \E a \in App : handUp(a, e) \/ forwardToConnection(a, e)
     \/ \E n \in Node :
          \/ e = ServerSocket(n) /\ accept(n)
          \/ handleSessionIndication(n, e) \/ handleSessionInitialize(n, e)
          \/ sendServiceUnavailable(n, e) \/ handleTransportPacket(n, e)
     \/ arrivesLate(e)
=============================================================================
