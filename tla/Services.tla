------------------------------- MODULE Services ------------------------------
(***************************************************************************)
(* The network of a scenario: applications behind proxies or on nodes of   *)
(* their own (Endpoints), and the message queue of the actors above them   *)
(* (MessageQueue).  They share nothing but the fate of the simulation: an  *)
(* error of one stops all.  A setup says which of them are installed.      *)
(***************************************************************************)
EXTENDS Endpoints

CONSTANTS Setups, Topic, MaxPushed

ASSUME ServicesConstants ==
  /\ MaxPushed \in Nat /\ Running # "topic has no consumers"
  /\ "none" \notin App
  /\ \A s \in Setups :
       /\ s.usesQueue \subseteq Topic /\ s.straddling \in BOOLEAN
       /\ \A a \in App : s.kind[a] \in {"ServerEndpoint", "IotService"} => s.service[a] # "none"

VARIABLES preemptiveAlloc, usesQueue, straddling, cut, started, pushed, pushing, acks, pulling, topicToQueueMap,
          topicToConsumerMap, handed

Queue == INSTANCE MessageQueue

endpointVars == <<socketVars, networkVars, toProxy, toApp, clientVars, controllerVars,
                  serverVars, tileVars>>
brokerVars == <<preemptiveAlloc, usesQueue, straddling, cut, started, pushed, pushing, acks, pulling,
                topicToQueueMap, topicToConsumerMap, handed>>
vars == <<setup, brokerVars, endpointVars, failed>>

Init ==
  /\ setup \in Setups
  /\ preemptiveAlloc = setup.preemptiveQueueAllocation
  /\ usesQueue = setup.usesQueue
  /\ straddling = setup.straddling
  /\ EndpointsInit
  /\ Queue!QueueInit

AppAnswers(a) == (Handles(a) \/ Acts(a)) /\ UNCHANGED brokerVars
ProxyTakes(a) ==
  FromApp(a) /\ UNCHANGED <<brokerVars, setup, clientVars, controllerVars, serverVars, tileVars>>
TcpDelivers(e) ==
  FromTcp(e) /\ UNCHANGED <<brokerVars, setup, clientVars, controllerVars, serverVars, tileVars>>
QueueDelivers(t) ==
  /\ \/ Queue!pullClientStarts(t) \/ Queue!pullClientHands(t)
     \/ Queue!messagesPushed(t) \/ Queue!handleIncomingMessage(t)
  /\ UNCHANGED <<setup, endpointVars>>

Next ==
  \/ \E a \in App :
       \/ AppAnswers(a) \/ ProxyTakes(a)
       \/ ((TileStep(a) \/ Requested(a)) /\ UNCHANGED brokerVars)
  \/ \E e \in End : TcpDelivers(e)
  \/ \E t \in Topic :
       QueueDelivers(t) \/ (Queue!push(t) /\ UNCHANGED <<setup, endpointVars>>)

(* The kernel handles events in the order of their times, so nothing an    *)
(* application or its connections have to do is put off for ever while     *)
(* others are served.  Nothing is assumed of what is asked from outside    *)
(* (naming a service, closing, pushing a message) nor of sensors.          *)
Served(a) ==
  \/ AppAnswers(a) \/ ProxyTakes(a)
  \/ \E k \in 1..MaxSockets : TcpDelivers(<<a, k>>) \/ TcpDelivers(Peer(<<a, k>>))
Fairness ==
  /\ \A a \in App : WF_vars(Served(a))
  /\ WF_vars(\E n \in Node : TcpDelivers(ServerSocket(n)))
  /\ \A t \in Topic : WF_vars(QueueDelivers(t))
Spec == Init /\ [][Next]_vars /\ Fairness

(* ---- why the simulation may stop ---------------------------------------- *)

Closing == setup.closing # {}
Connecting == {"ClientEndpoint", "ProbingClient", "IotApplication"}
RenamedController ==
  \E a \in App : kindOf(a) = "IotApplication" /\ serviceName[a] > 1
TwoClients ==
  \E a, b \in App : a # b /\ {kindOf(a), kindOf(b)} \subseteq Connecting /\ nodeOf[a] = nodeOf[b]
NoActuator == \E a \in App : kindOf(a) = "IotApplication" /\ ~setup.actuators
EndpointForController ==
  \E a, b \in App : kindOf(a) = "IotApplication" /\ kindOf(b) = "ServerEndpoint"
Causes ==
  [reason \in {"unexpected unavailability", "unable to connect", "unregistered socket",
               "peer closed", "send on a closed socket", "already scheduled",
               "address already in use", "null pointer",
               "sensor timer already scheduled", "TCP: connection not open",
               "no connection for socket", "TBD handle TCP_CLOSED",
               "unknown socket", "topic has no consumers"} |->
     CASE reason = "unexpected unavailability" -> ~setup.resolved
       [] reason = "unable to connect" -> setup.serverNode \notin proxied
       [] reason = "sensor timer already scheduled" -> setup.stopTime
       [] reason = "already scheduled" -> RenamedController
       [] reason = "address already in use" -> RenamedController \/ TwoClients
       [] reason = "null pointer" -> NoActuator \/ EndpointForController
       [] reason = "topic has no consumers" -> ~setup.preemptiveQueueAllocation
       [] OTHER -> Closing]

(* The simulation only stops for a reason the scenario gives: a service    *)
(* that is not resolved or not there, a topic nobody consumes, a socket    *)
(* that was closed, a second connection from a node to the same server (of *)
(* another client, or of a controller whose service is named again), a     *)
(* controller without actuators or whose server reads whole requests only. *)
(* That two services race for a port, that a request comes before its      *)
(* service or while a session is being accepted never stops it: the other  *)
(* errors of AppProxy, AppBase and their callers are not reached.          *)
ErrorsExplained == failed # Running => failed \in DOMAIN Causes /\ Causes[failed]

(* ---- the requests of a client ------------------------------------------- *)

DataOf(messages, s) ==
  Cardinality({i \in DOMAIN messages : messages[i].socket \in {s, Peer(s)}
                                          /\ messages[i].kind = "DATA"})
Sent(messages, s) ==
  Cardinality({i \in DOMAIN messages : messages[i].socket \in {s, Peer(s)}
                                          /\ messages[i].op = "SEND"})
Owed(s, a) == IF BagIn(s, delayed[a]) THEN delayed[a][s] ELSE 0
Count(s) ==
  LET ofApp(a) == Sent(toProxy[a], s) + DataOf(toApp[a], s) + Owed(Peer(s), a)
      ofNode(n) == IF Peer(s) \in DOMAIN socketToSessionMap[n]
                     THEN Len(socketToSessionMap[n][Peer(s)].queue) ELSE 0
  IN MapThenSumSet(ofApp, App) + MapThenSumSet(ofNode, Node)
       + DataOf(arriving[s], s) + DataOf(arriving[Peer(s)], s)

(* A client that keeps asking has exactly one question or answer under way *)
(* on its connection, wherever it is: on its way, held by the proxy until  *)
(* a service accepts, owed by a slow service, or waiting for the timer of  *)
(* the next probe.  None is lost and none is sent twice.                   *)
OneRequestAtATime ==
  failed = Running /\ ~Closing =>
    \A s \in connected :
      LET a == s[1] IN
      \/ kindOf(a) \in {"ClientEndpoint", "ProbingClient"} /\ Count(s) + probeTimers[a] = 1
      \/ kindOf(a) = "IotApplication"
           /\ (serviceName[a] = 1 /\ ~serviceUp[a] =>
                 Count(s) + (IF event[a] = "POLL" THEN 1 ELSE 0) = 1)

(* A request for a service reaches an application that offers it, whatever *)
(* else is registered at the proxy under the same port.                    *)
RightService ==
  \A a \in App : \A i \in DOMAIN toApp[a] :
    IsServer(a) /\ toApp[a][i].kind = "DATA" /\ toApp[a][i].body.host # "none" =>
      toApp[a][i].body.host = serviceOf(a)

(* ---- the message queue -------------------------------------------------- *)

FromTo(messages, p, q) ==
  LET picked[i \in 0..Len(messages)] ==
        IF i = 0 THEN <<>>
        ELSE IF messages[i].by = p /\ messages[i].to = q THEN Append(picked[i - 1], messages[i])
        ELSE picked[i - 1]
  IN picked[Len(messages)]
QueueOf(q) == IF q \in DOMAIN topicToQueueMap THEN topicToQueueMap[q] ELSE <<>>
Mail == INSTANCE Mailboxes WITH
  Participant <- Topic,
  Mail <- {m \in [by : Topic, id : 1..MaxPushed, to : Topic] : m.by # m.to},
  AtOnce <- MaxPushed,
  box <- [p \in Topic |-> [q \in Topic |->
           FromTo(pulling[q], p, q) \o FromTo(QueueOf(q), p, q) \o FromTo(pushing[p], p, q)]],
  lossy <- straddling,
  received <- [p \in Topic |-> [q \in Topic |-> FromTo(handed[q], p, q)]],
  stopped <- failed # Running

(* The broker, its streams and the queue clients deliver what a node       *)
(* pushes to another in order and never twice, whenever the consumer       *)
(* registers and however its messages and acknowledgements are put in      *)
(* packets; and where packets hold whole messages, none is lost or stays   *)
(* in a queue for ever.                                                    *)
MailDelivered == Mail!Spec

Messages ==
  UNION {Range(pushing[t]) \cup Range(QueueOf(t)) \cup Range(pulling[t]) \cup Range(handed[t])
         : t \in Topic}

(* "Queue that reassembles TCP packages": a message that was pushed is on  *)
(* its way, waits in its queue or was handed over, even if TCP brings it   *)
(* in two packets.                                                         *)
PackagesReassembled ==
  failed = Running =>
    \A t \in Topic : \A id \in 1..pushed[t] :
      \E m \in Messages : m.by = t /\ m.id = id

(* ---- what must happen --------------------------------------------------- *)

(* A client whose probe finds no service keeps probing: once the service   *)
(* it asks for is registered where it connected, it is answered that the   *)
(* service is there.                                                       *)
Answered(a) == \E i \in DOMAIN toApp[a] : toApp[a][i].kind = "DATA" /\ toApp[a][i].body = ok
ProbesAnswered ==
  \A a \in App :
    (/\ kindOf(a) = "ProbingClient" /\ <<a, 1>> \in connected
     /\ serviceOf(a) \in DOMAIN serviceTable[setup.serverNode]) ~>
      (Answered(a) \/ failed # Running \/ Closing)
=============================================================================
