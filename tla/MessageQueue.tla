---------------------------- MODULE MessageQueue -----------------------------
(***************************************************************************)
(* The message queue all actors talk through: the broker's two servers     *)
(* (MessageQueueIn, pushed to; MessageQueueOut, pulled from) and the two   *)
(* clients of every node (PushClient, PullClient), over TCP.               *)
(*                                                                         *)
(* A node consumes the topic it is named after.  The first acknowledgement *)
(* of a topic, sent unasked, registers its consumer; a queue that exists   *)
(* already gives one message to its consumer for every message pushed and  *)
(* for every acknowledgement, whether the last one was acknowledged or     *)
(* not.  TCP is external: a stream may deliver several messages as one     *)
(* packet, and where it has more of them than a segment holds, a packet    *)
(* ends inside a message and the next one begins there.                    *)
(***************************************************************************)
EXTENDS Naturals, Sequences, FiniteSets, SequencesExt, FiniteSetsExt, TLC

CONSTANTS Topic,               \* the nodes, and the topics they consume
          MaxPushed,           \* bound: messages pushed by a node
          Running

VARIABLES preemptiveAlloc,     \* whether a queue is made for a topic without consumer
          usesQueue,           \* the nodes with a queue client
          straddling,          \* whether packets may end inside a message
          cut,                 \* the streams whose next packet begins inside one
          started,             \* those whose pull client has started
          pushed,              \* node -> messages it has pushed
          pushing,             \* node -> its stream to the broker
          acks,                \* node -> acknowledgements on their way to the broker
          pulling,             \* node -> the stream of messages to it
          topicToQueueMap,     \* topic -> messages waiting
          topicToConsumerMap,  \* topic -> its consumer
          handed,              \* node -> messages its pull client has handed over
          failed

scenarioVars == <<preemptiveAlloc, usesQueue, straddling>>
queueVars == <<cut, started, pushed, pushing, acks, pulling, topicToQueueMap,
               topicToConsumerMap, handed>>

QueueInit ==
  /\ cut = {}
  /\ started = {}
  /\ pushed = [t \in Topic |-> 0]
  /\ pushing = [t \in Topic |-> <<>>]
  /\ acks = [t \in Topic |-> 0]
  /\ pulling = [t \in Topic |-> <<>>]
  /\ topicToQueueMap = <<>>
  /\ topicToConsumerMap = <<>>
  /\ handed = [t \in Topic |-> <<>>]

(* ---- TCP ---------------------------------------------------------------- *)

(* A packet ends k messages on, and a part of the next one may be in it.   *)
Packet(length) ==
  {packet \in (1..length) \X BOOLEAN : packet[2] => straddling /\ packet[1] < length}

(* Every packet is read with an empty queue, from its start.  Of one that  *)
(* begins inside a message nothing is read, and the part of a message at   *)
(* its end is thrown away.                                                 *)
read(stream, packet) == IF stream \in cut THEN 0 ELSE packet[1]
Cut(stream, packet) ==
  cut' = IF packet[2] THEN cut \cup {stream} ELSE cut \ {stream}

(* ---- the nodes ---------------------------------------------------------- *)

Message(t, to) == [by |-> t, id |-> pushed[t] + 1, to |-> to]

push(t) ==
  /\ failed = Running
  /\ t \in usesQueue /\ pushed[t] < MaxPushed
  /\ \E to \in usesQueue \ {t} : pushing' = [pushing EXCEPT ![t] = Append(@, Message(t, to))]
  /\ pushed' = [pushed EXCEPT ![t] = @ + 1]
  /\ UNCHANGED <<scenarioVars, cut, started, acks, pulling, topicToQueueMap,
                 topicToConsumerMap, handed, failed>>

(* The acknowledgement a pull client starts with.                          *)
pullClientStarts(t) ==
  /\ failed = Running
  /\ t \in usesQueue \ started
  /\ started' = started \cup {t}
  /\ acks' = [acks EXCEPT ![t] = @ + 1]
  /\ UNCHANGED <<scenarioVars, cut, pushed, pushing, pulling, topicToQueueMap,
                 topicToConsumerMap, handed, failed>>

(* A packet is acknowledged once, whatever was read of it.                 *)
pullClientHands(t) ==
  \E packet \in Packet(Len(pulling[t])) :
    /\ failed = Running
    /\ handed' = [handed EXCEPT ![t] = @ \o SubSeq(pulling[t], 1, read(<<"pull", t>>, packet))]
    /\ pulling' = [pulling EXCEPT ![t] = SubSeq(@, packet[1] + 1, Len(@))]
    /\ acks' = [acks EXCEPT ![t] = @ + 1]
    /\ Cut(<<"pull", t>>, packet)
    /\ UNCHANGED <<scenarioVars, started, pushed, pushing, topicToQueueMap,
                   topicToConsumerMap, failed>>

(* ---- the broker --------------------------------------------------------- *)

Consumer(socket) == [socketId |-> socket, ready |-> TRUE]
queueOf(queues, t) == IF t \in DOMAIN queues THEN queues[t] ELSE <<>>
With(map, t, new) == [x \in DOMAIN map \cup {t} |-> IF x = t THEN new ELSE map[x]]

(* The oldest message goes to the consumer, if there are both.             *)
attemptToSendLatest(b, t) ==
  LET q == b.queues[t] IN
  IF t \in DOMAIN b.consumers /\ q # <<>>
    THEN [b EXCEPT !.queues[t] = Front(q), !.consumers[t].ready = FALSE,
                   !.pulling[b.consumers[t].socketId] = Append(@, Last(q))]
    ELSE b
attemptToSend(b, t) ==
  LET q == b.queues[t] IN
  IF t \in DOMAIN b.consumers /\ q # <<>>
    THEN [b EXCEPT !.queues[t] = Tail(q), !.consumers[t].ready = FALSE,
                   !.pulling[b.consumers[t].socketId] = Append(@, Head(q))]
    ELSE b

Broker == [queues |-> topicToQueueMap, consumers |-> topicToConsumerMap, pulling |-> pulling,
           failed |-> failed]
Becomes(b) ==
  /\ topicToQueueMap' = b.queues
  /\ topicToConsumerMap' = b.consumers
  /\ pulling' = b.pulling
  /\ failed' = b.failed

pushIncomingMessage(b, m) ==
  LET queued == [b EXCEPT !.queues = With(@, m.to, Append(queueOf(b.queues, m.to), m))]
  IN CASE b.failed # Running -> b
       [] b.failed = Running /\ m.to \in DOMAIN b.queues -> attemptToSend(queued, m.to)
       [] b.failed = Running /\ m.to \notin DOMAIN b.queues /\ preemptiveAlloc -> queued
       [] OTHER -> [b EXCEPT !.failed = "topic has no consumers"]

(* MessageQueueIn: the messages of a packet, one after the other.          *)
messagesPushed(t) ==
  \E packet \in Packet(Len(pushing[t])) :
    LET k == read(<<"push", t>>, packet)
        after[i \in 0..k] ==
          IF i = 0 THEN Broker ELSE pushIncomingMessage(after[i - 1], pushing[t][i])
    IN /\ failed = Running
       /\ Becomes(after[k])
       /\ pushing' = [pushing EXCEPT ![t] = SubSeq(@, packet[1] + 1, Len(@))]
       /\ Cut(<<"push", t>>, packet)
       /\ UNCHANGED <<scenarioVars, started, pushed, acks, handed>>

(* MessageQueueOut: an acknowledgement of a topic.                         *)
registerConsumerToTopic(b, t) == [b EXCEPT !.consumers = With(@, t, Consumer(t))]

acknowledged(b, t) ==
  IF t \in DOMAIN b.consumers
    THEN attemptToSend([b EXCEPT !.queues = With(@, t, queueOf(@, t)),
                                 !.consumers[t].ready = TRUE], t)
    ELSE attemptToSend([registerConsumerToTopic(b, t) EXCEPT
                          !.queues = With(@, t, queueOf(@, t))], t)

handleIncomingMessage(t) ==
  \E packet \in Packet(acks[t]) :
    LET k == read(<<"ack", t>>, packet)
        after[i \in 0..k] == IF i = 0 THEN Broker ELSE acknowledged(after[i - 1], t)
    IN /\ failed = Running
       /\ Becomes(after[k])
       /\ acks' = [acks EXCEPT ![t] = @ - packet[1]]
       /\ Cut(<<"ack", t>>, packet)
       /\ UNCHANGED <<scenarioVars, started, pushed, pushing, handed>>
=============================================================================
