------------------------------ MODULE Endpoints ------------------------------
(***************************************************************************)
(* The applications that talk through sockets: services that answer        *)
(* (ServerEndpoint at once, IotService after a delay), a client that asks  *)
(* again on every answer (ClientEndpoint), one that probes until the       *)
(* service is there (ProbingClient), and the controllers of an IoT tile    *)
(* (IotApplication, LocalIotApplication) with its sensors and actuators.   *)
(*                                                                         *)
(* What an application does with a message is told from what it calls.     *)
(* Name resolution, the processor and UDP are external.                    *)
(***************************************************************************)
EXTENDS Stack, BagsExt

CONSTANTS Segments,          \* segments of what a controller sends its service
          pingsThreshold

ASSUME EndpointsConstants == Segments \in Nat \ {0}

VARIABLES setup,             \* what is installed, and what may go wrong
          event,             \* app -> the kind its timer is scheduled with, or "none"
          probeTimers,       \* app -> probes scheduled
          state,             \* app -> INIT, ENDPOINT_AVAILABLE, RUNNING
          serviceName,       \* app -> times its service was named; 0: it has no name
          resolving,         \* app -> resolutions under way
          tcpSocket,         \* app -> its last TCP socket
          serviceUp, numPings,
          executing,         \* app -> system calls under way
          connectionQueue,   \* app -> session -> segments of an incomplete request
          delayed,           \* app -> the sessions it owes an answer to
          samples,           \* app -> samples its sensors have sent
          datagrams,         \* app -> samples on their way to it
          commands,          \* app -> commands on their way to its actuators
          powerState,        \* app -> whether its actuator is on
          transitions        \* app -> power states its actuator is to change to

clientVars == <<event, probeTimers, state, serviceName, resolving, tcpSocket>>
controllerVars == <<serviceUp, numPings, executing>>
serverVars == <<connectionQueue, delayed>>
tileVars == <<samples, datagrams, commands, powerState, transitions>>
networkVars == <<proxyVars, arriving, tcpVars>>

Endpoint == {"ServerEndpoint", "IotService", "ClientEndpoint", "ProbingClient",
             "IotApplication", "LocalIotApplication"}
kindOf(a) == setup.kind[a]          \* the program an application is, or "none"
serviceOf(a) == setup.service[a]    \* the service it offers or asks for
installed(a) == kindOf(a) \in Endpoint
IsServer(a) == kindOf(a) \in {"ServerEndpoint", "IotService"}
IsLocal(a) == kindOf(a) = "LocalIotApplication"
NoSocket == <<>>

(* A sensor of the controller's tile: nothing measured yet.                *)
SensorInit ==
  /\ samples = [a \in App |-> 0]
  /\ datagrams = [a \in App |-> 0]

(* The actuator listens from the start, in the state it is configured for. *)
ActuatorInit ==
  /\ commands = [a \in App |-> EmptyBag]
  /\ powerState = [a \in App |-> setup.poweredOnStart]
  /\ transitions = [a \in App |-> EmptyBag]

EndpointsInit ==
  /\ StackInit
  /\ event = [a \in App |-> IF installed(a) THEN "EXEC_START" ELSE "none"]
  /\ probeTimers = [a \in App |-> 0]
  /\ state = [a \in App |-> "INIT"]
  /\ serviceName = [a \in App |-> IF kindOf(a) \in {"ProbingClient", "IotApplication"} THEN 0 ELSE 1]
  /\ resolving = [a \in App |-> 0]
  /\ tcpSocket = [a \in App |-> NoSocket]
  /\ serviceUp = [a \in App |-> FALSE]
  /\ numPings = [a \in App |-> 0]
  /\ executing = [a \in App |-> 0]
  /\ connectionQueue = [a \in App |-> <<>>]
  /\ delayed = [a \in App |-> EmptyBag]
  /\ SensorInit /\ ActuatorInit

Request(verb, a) == [verb |-> verb, host |-> serviceOf(a)]
Segment == [verb |-> "DATA", host |-> "none"]
ok == [code |-> "OK"]

sendProbe(a, s) == _send(s, <<Request("HEAD", a)>>)
sendRequest(a, s) == _send(s, <<Request("GET", a)>>)
sendServer(a, s) == _send(s, [i \in 1..Segments |-> Segment])

Fails(reason) == failed' = reason

(* ---- starting ----------------------------------------------------------- *)

(* Every TCP program but the IoT controller opens its socket as it is      *)
(* built; a server listens at once.                                        *)
initialize(a) ==
  /\ failed = Running
  /\ installed(a) /\ opened[a] = 0
  /\ kindOf(a) \notin {"IotApplication", "LocalIotApplication"}
  /\ open(a)
  /\ tcpSocket' = [tcpSocket EXCEPT ![a] = <<a, 1>>]
  /\ Calls(a, IF IsServer(a) THEN listen(<<a, 1>>) ELSE <<>>)
  /\ UNCHANGED <<setup, connected, event, probeTimers, state, serviceName, resolving,
                 controllerVars, serverVars, tileVars, networkVars, toApp, failed>>

(* A controller looks for its actuators, and is lost without one.          *)
HasActuators(a) == setup.actuators \/ kindOf(a) # "IotApplication"
initializeAlone(a) ==
  /\ failed = Running /\ ~HasActuators(a)
  /\ Fails("null pointer")
  /\ UNCHANGED <<setup, socketVars, clientVars, controllerVars, serverVars, tileVars,
                 networkVars, toProxy, toApp>>

resolve(a) == resolving' = [resolving EXCEPT ![a] = @ + 1]

(* A client with an address connects; one with a name asks for it, unless  *)
(* it has none yet; a controller opens its UDP port.                       *)
execStart(a) ==
  /\ failed = Running /\ event[a] = "EXEC_START" /\ HasActuators(a)
  /\ opened[a] > 0 \/ kindOf(a) \in {"IotApplication", "LocalIotApplication"}
  /\ event' = [event EXCEPT ![a] = "none"]
  /\ CASE IsServer(a) ->
            /\ Calls(a, registerService(tcpSocket[a], serviceOf(a)))
            /\ UNCHANGED <<state, resolving>>
       [] kindOf(a) = "ClientEndpoint" /\ setup.numericHost ->
            /\ Calls(a, connect(tcpSocket[a], setup.serverNode))
            /\ UNCHANGED <<state, resolving>>
       [] kindOf(a) = "ClientEndpoint" /\ ~setup.numericHost ->
            resolve(a) /\ UNCHANGED <<toProxy, state>>
       [] kindOf(a) = "ProbingClient" ->
            /\ IF serviceName[a] = 0 \/ state[a] = "RUNNING"
                 THEN UNCHANGED <<state, resolving>>
                 ELSE resolve(a) /\ state' = [state EXCEPT ![a] = "RUNNING"]
            /\ UNCHANGED toProxy
       [] kindOf(a) = "IotApplication" ->
            /\ IF state[a] = "ENDPOINT_AVAILABLE"
                 THEN resolve(a) /\ UNCHANGED state
                 ELSE state' = [state EXCEPT ![a] = "RUNNING"] /\ UNCHANGED resolving
            /\ UNCHANGED toProxy
       [] IsLocal(a) ->
            state' = [state EXCEPT ![a] = "RUNNING"] /\ UNCHANGED <<toProxy, resolving>>
  /\ UNCHANGED <<setup, socketVars, probeTimers, serviceName, tcpSocket,
                 controllerVars, serverVars, tileVars, networkVars, toApp, failed>>

(* The service's name is a parameter set from outside, when it is deployed. *)
handleParameterChange(a) ==
  /\ failed = Running
  /\ installed(a) /\ kindOf(a) \in {"ProbingClient", "IotApplication"}
  /\ serviceName[a] < setup.names /\ HasActuators(a)
  /\ kindOf(a) = "ProbingClient" => opened[a] > 0
  /\ serviceName' = [serviceName EXCEPT ![a] = @ + 1]
  /\ CASE kindOf(a) = "ProbingClient" /\ state[a] = "INIT" ->
            resolve(a) /\ state' = [state EXCEPT ![a] = "RUNNING"]
       [] kindOf(a) = "IotApplication" /\ ~serviceUp[a] /\ state[a] # "INIT" ->
            resolve(a) /\ UNCHANGED state
       [] kindOf(a) = "IotApplication" /\ ~serviceUp[a] /\ state[a] = "INIT" ->
            state' = [state EXCEPT ![a] = "ENDPOINT_AVAILABLE"] /\ UNCHANGED resolving
       [] OTHER -> UNCHANGED <<state, resolving>>
  /\ UNCHANGED <<setup, socketVars, event, probeTimers, tcpSocket, controllerVars, serverVars,
                 tileVars, networkVars, toProxy, toApp, failed>>

(* A controller opens a new socket for every answer.                       *)
handleResolutionFinished(a) ==
  /\ failed = Running /\ resolving[a] > 0
  /\ resolving' = [resolving EXCEPT ![a] = @ - 1]
  /\ \/ /\ setup.resolved
        /\ IF kindOf(a) = "IotApplication"
             THEN /\ open(a)
                  /\ tcpSocket' = [tcpSocket EXCEPT ![a] = <<a, opened[a] + 1>>]
                  /\ Calls(a, connect(<<a, opened[a] + 1>>, setup.serverNode))
             ELSE /\ Calls(a, connect(tcpSocket[a], setup.serverNode))
                  /\ UNCHANGED <<opened, socketMap, tcpSocket>>
        /\ UNCHANGED <<connected, failed>>
     \/ /\ ~setup.resolved
        /\ Fails("unexpected unavailability")
        /\ UNCHANGED <<socketVars, tcpSocket, toProxy>>
  /\ UNCHANGED <<setup, event, probeTimers, state, serviceName, controllerVars, serverVars,
                 tileVars, networkVars, toApp>>

(* ---- what is sent to an application ------------------------------------- *)

(* A message for a socket the application does not know stops it.          *)
Receives(a, kind) ==
  /\ failed = Running
  /\ toApp[a] # <<>> /\ Head(toApp[a]).kind = kind
  /\ Head(toApp[a]).socket \in socketMap[a]
  /\ toApp' = [toApp EXCEPT ![a] = Tail(@)]

unregisteredSocket(a) ==
  /\ failed = Running
  /\ toApp[a] # <<>> /\ Head(toApp[a]).socket \notin socketMap[a]
  /\ Fails("unregistered socket")
  /\ UNCHANGED <<setup, socketVars, clientVars, controllerVars, serverVars, tileVars,
                 networkVars, toProxy, toApp>>

socketAvailable(a) ==
  LET newSocket == Head(toApp[a]).body
  IN /\ Receives(a, "AVAILABLE")
     /\ socketMap' = [socketMap EXCEPT ![a] = @ \cup {newSocket}]
     /\ connectionQueue' = [connectionQueue EXCEPT ![a] = Emplaced(@, newSocket, 0)]
     /\ Calls(a, <<Command("ACCEPT", newSocket, "none")>>)
     /\ UNCHANGED <<setup, opened, connected, clientVars, controllerVars, delayed, tileVars,
                    networkVars, failed>>

(* A controller only polls on the last socket it opened.                   *)
socketEstablished(a) ==
  LET s == Head(toApp[a]).socket
  IN /\ Receives(a, "ESTABLISHED")
     /\ connected' = connected \cup {s}
     /\ Calls(a, CASE kindOf(a) = "ClientEndpoint" -> sendRequest(a, s)
                   [] kindOf(a) = "ProbingClient" -> sendProbe(a, s)
                   [] kindOf(a) = "IotApplication" /\ s = tcpSocket[a] -> sendProbe(a, s)
                   [] OTHER -> <<>>)
     /\ UNCHANGED <<setup, socketMap, opened, clientVars, controllerVars, serverVars, tileVars,
                    networkVars, failed>>

socketFailure(a) ==
  /\ Receives(a, "FAILURE")
  /\ Fails("unable to connect")
  /\ UNCHANGED <<setup, socketVars, clientVars, controllerVars, serverVars, tileVars,
                 networkVars, toProxy>>

(* AppBase closes its side too, unless the program takes it as an error.   *)
socketPeerClosed(a) ==
  LET s == Head(toApp[a]).socket
  IN /\ Receives(a, "PEER_CLOSED")
     /\ IF kindOf(a) = "IotApplication"
          THEN Fails("peer closed") /\ UNCHANGED <<socketMap, connectionQueue, toProxy>>
          ELSE /\ connectionQueue' = [connectionQueue EXCEPT ![a] = Without(@, s)]
               /\ socketMap' = [socketMap EXCEPT ![a] = @ \ {s}]
               /\ Calls(a, <<Command("CLOSE", s, "none")>>)
               /\ UNCHANGED failed
     /\ UNCHANGED <<setup, opened, connected, clientVars, controllerVars, delayed, tileVars,
                    networkVars>>

(* close() of an application of a user, at any time.                       *)
close(a) ==
  /\ failed = Running
  /\ a \in setup.closing
  /\ \E s \in socketMap[a] :
       /\ s \in connected \/ IsServer(a)
       /\ socketMap' = [socketMap EXCEPT ![a] = @ \ {s}]
       /\ Calls(a, <<Command("CLOSE", s, "none")>>)
  /\ UNCHANGED <<setup, opened, connected, clientVars, controllerVars, serverVars, tileVars,
                 networkVars, toApp, failed>>

(* ---- data --------------------------------------------------------------- *)

Data(a) == Head(toApp[a]).body
ReceivesData(a, kinds) == Receives(a, "DATA") /\ kindOf(a) \in kinds

(* Answers what is a request.  A segment of one is not, nor are two that   *)
(* arrive together: that is a null pointer.                                *)
readAsRequest(body) == IF body.verb = "DATA" /\ Segments > 1 THEN {FALSE}
                   ELSE IF body.verb = "DATA" THEN BOOLEAN ELSE {TRUE}
serverReplies(a) ==
  /\ ReceivesData(a, {"ServerEndpoint"})
  /\ \E request \in readAsRequest(Data(a)) :
       IF request
         THEN Calls(a, _send(Head(toApp[a]).socket, <<ok>>)) /\ UNCHANGED failed
         ELSE Fails("null pointer") /\ UNCHANGED toProxy
  /\ UNCHANGED <<setup, socketVars, clientVars, controllerVars, serverVars, tileVars,
                 networkVars>>

(* The segments of a request are put together; every whole one is owed a   *)
(* delayed answer.                                                         *)
serviceReassembles(a) ==
  LET s == Head(toApp[a]).socket
      whole == Data(a).verb # "DATA" \/ connectionQueue[a][s] + 1 = Segments
  IN /\ ReceivesData(a, {"IotService"})
     /\ connectionQueue' = [connectionQueue EXCEPT ![a][s] = IF whole THEN 0 ELSE @ + 1]
     /\ delayed' = [delayed EXCEPT ![a] = IF whole THEN @ (+) SetToBag({s}) ELSE @]
     /\ UNCHANGED <<setup, socketVars, clientVars, controllerVars, tileVars, networkVars,
                    toProxy, failed>>

(* The answer to a session closed meanwhile has no socket to go to.        *)
sendDelayed(a) ==
  \E s \in BagToSet(delayed[a]) :
    /\ failed = Running
    /\ IF s \in socketMap[a]
         THEN /\ Calls(a, _send(s, <<ok>>))
              /\ delayed' = [delayed EXCEPT ![a] = @ (-) SetToBag({s})]
              /\ UNCHANGED failed
         ELSE Fails("send on a closed socket") /\ UNCHANGED <<toProxy, delayed>>
    /\ UNCHANGED <<setup, socketVars, clientVars, controllerVars, connectionQueue, tileVars,
                   networkVars, toApp>>

clientAsksAgain(a) ==
  /\ ReceivesData(a, {"ClientEndpoint"})
  /\ Calls(a, sendRequest(a, tcpSocket[a]))
  /\ UNCHANGED <<setup, socketVars, clientVars, controllerVars, serverVars, tileVars,
                 networkVars, failed>>

(* A service that is not there is probed again later.                      *)
probeAnsweredOnce(a) ==
  /\ ReceivesData(a, {"ProbingClient"})
  /\ Calls(a, IF Data(a) = ok THEN sendRequest(a, tcpSocket[a]) ELSE <<>>)
  /\ UNCHANGED <<setup, socketVars, clientVars, controllerVars, serverVars, tileVars,
                 networkVars, failed>>
probeAnswered(a) ==
  /\ ReceivesData(a, {"ProbingClient"})
  /\ IF Data(a) = ok
       THEN Calls(a, sendRequest(a, tcpSocket[a])) /\ UNCHANGED probeTimers
       ELSE probeTimers' = [probeTimers EXCEPT ![a] = @ + 1] /\ UNCHANGED toProxy
  /\ UNCHANGED <<setup, socketVars, event, state, serviceName, resolving, tcpSocket,
                 controllerVars, serverVars, tileVars, networkVars, failed>>

probeTimer(a) ==
  /\ failed = Running /\ probeTimers[a] > 0
  /\ probeTimers' = [probeTimers EXCEPT ![a] = @ - 1]
  /\ Calls(a, sendProbe(a, tcpSocket[a]))
  /\ UNCHANGED <<setup, socketVars, event, state, serviceName, resolving, tcpSocket,
                 controllerVars, serverVars, tileVars, networkVars, toApp, failed>>

(* ---- the controller of an IoT tile -------------------------------------- *)

Command_(a, on) == [format |-> IF IsLocal(a) THEN "IotCommand" ELSE "IotPayload", on |-> on]
sendActuator(a) ==
  \E on \in BOOLEAN : commands' = [commands EXCEPT ![a] = @ (+) SetToBag({Command_(a, on)})]

(* The answers on a socket that was replaced are ignored.  The one timer   *)
(* of the application is scheduled for the next poll: scheduling it twice  *)
(* is an error.                                                            *)
controllerAnswered(a) ==
  LET last == Head(toApp[a]).socket = tcpSocket[a]
  IN /\ ReceivesData(a, {"IotApplication"})
     /\ CASE ~last -> UNCHANGED <<serviceUp, event, commands, failed>>
          [] last /\ serviceUp[a] ->
               sendActuator(a) /\ UNCHANGED <<serviceUp, event, failed>>
          [] last /\ ~serviceUp[a] /\ Data(a) = ok ->
               /\ serviceUp' = [serviceUp EXCEPT ![a] = TRUE]
               /\ event' = [event EXCEPT ![a] = "none"]
               /\ UNCHANGED <<commands, failed>>
          [] last /\ ~serviceUp[a] /\ Data(a) # ok /\ event[a] = "none" ->
               event' = [event EXCEPT ![a] = "POLL"] /\ UNCHANGED <<serviceUp, commands, failed>>
          [] OTHER -> Fails("already scheduled") /\ UNCHANGED <<serviceUp, event, commands>>
     /\ UNCHANGED <<setup, socketVars, probeTimers, state, serviceName, resolving, tcpSocket,
                    numPings, executing, serverVars, samples, datagrams, powerState, transitions,
                    networkVars, toProxy>>

poll(a) ==
  /\ failed = Running /\ event[a] = "POLL"
  /\ event' = [event EXCEPT ![a] = "none"]
  /\ Calls(a, sendProbe(a, tcpSocket[a]))
  /\ UNCHANGED <<setup, socketVars, probeTimers, state, serviceName, resolving, tcpSocket,
                 controllerVars, serverVars, tileVars, networkVars, toApp, failed>>

(* The samples above the threshold are processed, once the service is up.  *)
sampleArrives(a) ==
  LET enough == numPings[a] + 1 > pingsThreshold /\ (serviceUp[a] \/ IsLocal(a))
  IN /\ failed = Running /\ datagrams[a] > 0 /\ state[a] # "INIT" /\ event[a] # "EXEC_START"
     /\ datagrams' = [datagrams EXCEPT ![a] = @ - 1]
     /\ numPings' = [numPings EXCEPT ![a] = IF enough THEN 0 ELSE @ + 1]
     /\ executing' = [executing EXCEPT ![a] = IF enough THEN @ + 1 ELSE @]
     /\ UNCHANGED <<setup, socketVars, clientVars, serviceUp, serverVars, samples, commands,
                    powerState, transitions, networkVars, toProxy, toApp, failed>>

returnExec(a) ==
  /\ failed = Running /\ executing[a] > 0
  /\ executing' = [executing EXCEPT ![a] = @ - 1]
  /\ IF IsLocal(a)
       THEN sendActuator(a) /\ UNCHANGED toProxy
       ELSE Calls(a, sendServer(a, tcpSocket[a])) /\ UNCHANGED commands
  /\ UNCHANGED <<setup, socketVars, clientVars, serviceUp, numPings, serverVars, samples,
                 datagrams, powerState, transitions, networkVars, toApp, failed>>

(* ---- its sensors and actuators ------------------------------------------ *)

(* A sensor with a stop time schedules its only timer twice as it starts.  *)
processSend(a) ==
  /\ failed = Running
  /\ installed(a) /\ kindOf(a) \in {"IotApplication", "LocalIotApplication"}
  /\ samples[a] < setup.samples /\ HasActuators(a)
  /\ samples' = [samples EXCEPT ![a] = @ + 1]
  /\ datagrams' = [datagrams EXCEPT ![a] = @ + 1]
  /\ failed' = IF setup.stopTime THEN "sensor timer already scheduled" ELSE failed
  /\ UNCHANGED <<setup, socketVars, clientVars, controllerVars, serverVars, commands, powerState,
                 transitions, networkVars, toProxy, toApp>>

(* A sample that comes before the controller's port is open is lost.       *)
sampleLost(a) ==
  /\ failed = Running /\ datagrams[a] > 0
  /\ event[a] = "EXEC_START"
  /\ datagrams' = [datagrams EXCEPT ![a] = @ - 1]
  /\ UNCHANGED <<setup, socketVars, clientVars, controllerVars, serverVars, samples, commands,
                 powerState, transitions, networkVars, toProxy, toApp, failed>>

(* Only an IotCommand is understood; one for the state it is in is         *)
(* ignored, whatever transition is scheduled.                              *)
commandArrives(a) ==
  \E c \in BagToSet(commands[a]) :
    /\ failed = Running
    /\ commands' = [commands EXCEPT ![a] = @ (-) SetToBag({c})]
    /\ transitions' = [transitions EXCEPT ![a] =
         IF c.format = "IotCommand" /\ c.on # powerState[a] THEN @ (+) SetToBag({c.on}) ELSE @]
    /\ UNCHANGED <<setup, socketVars, clientVars, controllerVars, serverVars, samples,
                   datagrams, powerState, networkVars, toProxy, toApp, failed>>

changePowerState(a) ==
  \E on \in BagToSet(transitions[a]) :
    /\ failed = Running
    /\ powerState' = [powerState EXCEPT ![a] = on]
    /\ transitions' = [transitions EXCEPT ![a] = @ (-) SetToBag({on})]
    /\ UNCHANGED <<setup, socketVars, clientVars, controllerVars, serverVars, samples,
                   datagrams, commands, networkVars, toProxy, toApp, failed>>

(* What an application does with what is sent to it, what its own timers   *)
(* and calls cause, and what must be asked for from outside.               *)
Handles(a) ==
  /\ toApp[a] # <<>>
  /\ \/ unregisteredSocket(a) \/ socketAvailable(a) \/ socketEstablished(a)
     \/ socketFailure(a) \/ socketPeerClosed(a)
     \/ serverReplies(a) \/ serviceReassembles(a) \/ clientAsksAgain(a)
     \/ probeAnswered(a) \/ controllerAnswered(a)
Acts(a) ==
  /\ installed(a)
  /\ \/ initialize(a) \/ initializeAlone(a) \/ execStart(a) \/ handleResolutionFinished(a)
     \/ sendDelayed(a) \/ probeTimer(a) \/ poll(a) \/ returnExec(a)
TileStep(a) ==
  /\ installed(a)
  /\ \/ sampleArrives(a) \/ processSend(a) \/ sampleLost(a)
     \/ commandArrives(a) \/ changePowerState(a)
Requested(a) == handleParameterChange(a) \/ close(a)
=============================================================================
