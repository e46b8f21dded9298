---------------------------- MODULE CloudProvider ----------------------------
(***************************************************************************)
(* The cloud provider (CloudProvider.cc): it forwards each VM request to a *)
(* node that should have room for it, rejects it, or, once the user        *)
(* subscribed, keeps it in a queue until a node reports room or the        *)
(* subscription times out.                                                 *)
(*                                                                         *)
(* One action per handler.  A handler runs to its end without interleaving *)
(* (a simulation event), so what it sends is part of the same step: the    *)
(* messages put on the gate queueOut during the last event are "emitted".  *)
(*                                                                         *)
(* The environment is any set of users that each make one request, and     *)
(* subscribe at most once after it was answered or forwarded, and any node *)
(* that reports any number of cores at any time.  A data centre that       *)
(* answers a request writes its own zone on it, so the zone a subscription *)
(* names need not be the one the request named.  Module Cloud replaces     *)
(* this environment by the users and the data centres of the source.       *)
(***************************************************************************)
EXTENDS NodeTable, SequencesExt

CONSTANTS Request,            \* the SM_UserVM objects, one per user
          Cores,              \* Request -> cores of all the VMs it asks for
          RequestZone,        \* Request -> the zone its user asks for
          NodeZone,           \* Topic -> the zone the node reports
          DefaultZone,        \* parameter defaultZone
          Priority,           \* requests of users of the type Priority
          dispatchPriority,   \* parameter dispatchPriority
          Reports             \* core counts a node may report (a bound)

ASSUME ProviderConstants ==
  /\ Cores \in [Request -> Nat]
  /\ RequestZone \in [Request -> Zone]
  /\ NodeZone \in [Topic -> Zone]
  /\ DefaultZone \in Zone
  /\ Priority \subseteq Request
  /\ dispatchPriority \in BOOLEAN
  /\ Reports \subseteq Nat

VARIABLES table,     \* NodeDb
          queue,     \* RequestQueue, in subscription order
          timers,    \* requests whose time-out event is scheduled
          emitted,   \* messages sent during the last event, in order
          halted,    \* error() stopped the simulation
          stage,     \* environment: what each user has asked so far
          zone       \* environment: the zone written on each request

providerVars == <<table, queue, timers, emitted, halted>>
vars == <<table, queue, timers, emitted, halted, stage, zone>>

Queued == {queue[i] : i \in DOMAIN queue}

-----------------------------------------------------------------------------
(* Messages the provider sends *)

UserTopic == 0    \* stands for the return topic of the request

Forward(r, topic) == [req |-> r, to |-> topic, result |-> "forwarded"]
Reply(r, result)  == [req |-> r, to |-> UserTopic, result |-> result]

Message == [req : Request, to : Topic \cup {UserTopic},
            result : {"forwarded", "rejected", "timeout"}]

-----------------------------------------------------------------------------
(* Node selection *)

\* Mutant: any node with a core left.
FittingIgnoringSize(tbl, r, ids) == {id \in ids : tbl.nodes[id].cores > 0}

Fitting(tbl, r, ids) ==
  {id \in ids : tbl.nodes[id].cores >= Cores[r] /\ tbl.nodes[id].cores > 0}

\* The scan over the ids in ascending order keeps the first node that has
\* strictly more cores than the best one before it.
Best(tbl, ids) ==
  CHOOSE id \in ids : \A other \in ids :
    \/ tbl.nodes[other].cores < tbl.nodes[id].cores
    \/ tbl.nodes[other].cores = tbl.nodes[id].cores /\ id <= other

FittingInZone(tbl, r, name) ==
  IF HasZone(tbl, name) THEN Fitting(tbl, r, findNodesByZone(tbl, name)) ELSE {}

\* The nodes selectNode chooses among: the default zone only when the
\* requested zone offers nothing.
Candidates(tbl, r) ==
  IF FittingInZone(tbl, r, zone[r]) # {}
  THEN FittingInZone(tbl, r, zone[r])
  ELSE FittingInZone(tbl, r, DefaultZone)

Selectable(tbl, r) == Candidates(tbl, r) # {}
selectNode(tbl, r) == Best(tbl, Candidates(tbl, r))

\* The look-up that ends in error(): the default zone is consulted and has
\* never been registered.
SelectionFails(tbl, r) ==
  /\ FittingInZone(tbl, r, zone[r]) = {}
  /\ ~HasZone(tbl, DefaultZone)

\* Mutant: the estimate is not updated.
ChargeNothing(tbl, r) == tbl

\* Selecting a node also takes the cores off the provider's estimate.
Charge(tbl, r) ==
  IF Selectable(tbl, r)
  THEN [tbl EXCEPT !.nodes[selectNode(tbl, r)].cores = @ - Cores[r]]
  ELSE tbl

ForwardTo(tbl, r) == Forward(r, getTopicForNode(tbl, selectNode(tbl, r)))

Halt ==
  /\ halted' = TRUE
  /\ emitted' = <<>>
  /\ UNCHANGED <<table, queue, timers>>

-----------------------------------------------------------------------------
(* Handlers *)

SkipsQueue(r) == dispatchPriority /\ r \in Priority

\* Mutant: with dispatchPriority every request skips the queue.
MustWaitUnlessPriorityDispatch(r) == queue # <<>> /\ ~dispatchPriority

MustWait(r) == queue # <<>> /\ ~SkipsQueue(r)

handleVmRequest(r) ==
  /\ ~halted
  /\ \/ /\ MustWait(r) \/ (~Selectable(table, r) /\ ~SelectionFails(table, r))
        /\ emitted' = <<Reply(r, "rejected")>>
        /\ UNCHANGED <<table, queue, timers, halted>>
     \/ /\ ~MustWait(r) /\ Selectable(table, r)
        /\ table' = Charge(table, r)
        /\ emitted' = <<ForwardTo(table, r)>>
        /\ UNCHANGED <<queue, timers, halted>>
     \/ /\ ~MustWait(r) /\ SelectionFails(table, r)
        /\ Halt

\* Mutant: the time-out is not scheduled.
handleVmSubscriptionUntimed(r) ==
  /\ ~halted
  /\ queue' = Append(queue, r)
  /\ emitted' = <<>>
  /\ UNCHANGED <<table, timers, halted>>

handleVmSubscription(r) ==
  /\ ~halted
  /\ queue' = Append(queue, r)
  /\ timers' = timers \cup {r}
  /\ emitted' = <<>>
  /\ UNCHANGED <<table, halted>>

\* Mutant: the expired subscription is erased and its user never told.
handleSubscriptionTimeoutSilently(r) ==
  /\ ~halted
  /\ r \in timers
  /\ timers' = timers \ {r}
  /\ queue' = RemoveFirst(queue, r)
  /\ emitted' = <<>>
  /\ UNCHANGED <<table, halted>>

\* The time-out of r fires.  The first queue element that holds r is erased;
\* the handler stops the simulation when there is none.
handleSubscriptionTimeout(r) ==
  /\ ~halted
  /\ r \in timers
  /\ \/ \E i \in DOMAIN queue :
          /\ queue[i] = r /\ \A j \in 1..(i - 1) : queue[j] # r
          /\ timers' = timers \ {r}
          /\ queue' = RemoveAt(queue, i)
          /\ emitted' = <<Reply(r, "timeout")>>
          /\ UNCHANGED <<table, halted>>
     \/ r \notin Queued /\ Halt

\* The table after the first k requests of the queue were dispatched in turn.
AfterDispatching(tbl) ==
  LET after[k \in 0..Len(queue)] ==
        IF k = 0 THEN tbl ELSE Charge(after[k - 1], queue[k])
  IN  after

\* Mutant: one request per update.
StopsAfterOne(after, k) ==
  k = IF queue # <<>> /\ Selectable(after[0], queue[1]) THEN 1 ELSE 0

\* The loop serves the queue from its front and stops at the first request
\* that no node can take.
StopsAfter(after, k) ==
  /\ \A i \in 1..k : Selectable(after[i - 1], queue[i])
  /\ k < Len(queue) => ~Selectable(after[k], queue[k + 1])

\* Mutant: the time-outs of the dispatched requests stay scheduled.
TimersKept(k) == timers

\* cancelAndDelete for each of the first k requests.
TimersCancelled(k) == timers \ {queue[i] : i \in 1..k}

attemptDispatching(tbl) ==
  LET after == AfterDispatching(tbl)
  IN  \E k \in 0..Len(queue) :
        /\ StopsAfter(after, k)
        /\ IF k < Len(queue) /\ SelectionFails(after[k], queue[k + 1])
           THEN Halt
           ELSE /\ table' = after[k]
                /\ queue' = SubSeq(queue, k + 1, Len(queue))
                /\ timers' = TimersCancelled(k)
                /\ emitted' = [i \in 1..k |-> ForwardTo(after[i - 1], queue[i])]
                /\ UNCHANGED halted

handleNodeUpdate(topic, cores) ==
  /\ ~halted
  /\ attemptDispatching(addOrUpdateNode(table, topic, NodeZone[topic], cores))

-----------------------------------------------------------------------------
(* The open system: provider and any environment *)

Init ==
  /\ table = EmptyTable
  /\ queue = <<>>
  /\ timers = {}
  /\ emitted = <<>>
  /\ halted = FALSE
  /\ stage = [r \in Request |-> "new"]
  /\ zone = RequestZone

Requests(r) ==
  /\ stage[r] = "new"
  /\ stage' = [stage EXCEPT ![r] = "requested"]
  /\ handleVmRequest(r)
  /\ UNCHANGED zone

Subscribes(r) ==
  /\ stage[r] = "requested"
  /\ stage' = [stage EXCEPT ![r] = "subscribed"]
  /\ \E name \in {zone[r]} \cup {NodeZone[topic] : topic \in Topic} :
       zone' = [zone EXCEPT ![r] = name]
  /\ handleVmSubscription(r)

TimesOut(r) == handleSubscriptionTimeout(r) /\ UNCHANGED <<stage, zone>>

NodeReports(topic, cores) == handleNodeUpdate(topic, cores) /\ UNCHANGED <<stage, zone>>

Next ==
  \/ \E r \in Request : Requests(r) \/ Subscribes(r) \/ TimesOut(r)
  \/ \E topic \in Topic, cores \in Reports : NodeReports(topic, cores)

\* A scheduled event is delivered: nothing removes it but cancelAndDelete.
Spec == Init /\ [][Next]_vars /\ \A r \in Request : WF_vars(TimesOut(r))

-----------------------------------------------------------------------------
(* Properties *)

\* Types of the provider's state.
TypeOK ==
  /\ table.nodes \in Seq(NodeEntry)
  /\ table.topics \in [DOMAIN table.topics -> 1..Len(table.nodes)]
  /\ DOMAIN table.topics \subseteq Topic /\ DOMAIN table.zones \subseteq Zone
  /\ queue \in Seq(Request)
  /\ timers \subseteq Request
  /\ emitted \in Seq(Message)
  /\ halted \in BOOLEAN
  /\ stage \in [Request -> {"new", "requested", "subscribed"}]
  /\ zone \in [Request -> Zone]

\* A subscription waits in the queue if and only if its time-out is
\* scheduled, and it waits once: a time-out never finds its request gone
\* (the error() of handleSubscriptionTimeout), no request waits for ever
\* unguarded, and no time-out is left behind by a dispatch.
TimerPerSubscription ==
  /\ timers = Queued
  /\ \A i, j \in DOMAIN queue : queue[i] = queue[j] => i = j

\* The node table stays a bijection between topics and ids however the
\* registrations are ordered, and every id is in exactly one zone, the one
\* its node reported: what findNodesByZone relies on.
TableConsistent ==
  /\ \A id \in DOMAIN table.nodes :
       \E topic \in DOMAIN table.topics :
         /\ \A other \in DOMAIN table.topics :
              table.topics[other] = id <=> other = topic
         /\ \A name \in DOMAIN table.zones :
              id \in table.zones[name] <=> name = NodeZone[topic]
         /\ NodeZone[topic] \in DOMAIN table.zones
  /\ \A name \in DOMAIN table.zones : table.zones[name] \subseteq DOMAIN table.nodes

\* "Update the pointer for the node" (NodeTable.cc:38): the index a node
\* keeps leads back to its own topic.
TopicPointers ==
  \A topic \in DOMAIN table.topics :
    getTopicForNode(table, table.topics[topic]) = topic

-----------------------------------------------------------------------------

Answers(r) == {i \in DOMAIN emitted : emitted[i].req = r}

\* Conservation of requests.  A request object that arrives, or that was
\* waiting, is afterwards either waiting or sent out, and sent out once: none
\* is dropped, none is answered twice, none is sent out unasked.
ExactlyOneAnswer ==
  [][~halted' => \A r \in Request :
       LET held == r \in Queued \/ stage'[r] # stage[r]
       IN  /\ held  => (r \in Queued' <=> Answers(r)' = {})
           /\ ~held => r \notin Queued' /\ Answers(r)' = {}
           /\ \A i, j \in Answers(r)' : i = j]_vars

Forwarded(r) == \E i \in DOMAIN emitted : emitted[i].req = r /\ emitted[i].result = "forwarded"

Before(r, s) == \E i, j \in DOMAIN queue : i < j /\ queue[i] = r /\ queue[j] = s

\* First come, first served: while a request keeps waiting, the only ones
\* forwarded past it subscribed earlier, or belong to priority users.
NoOvertaking ==
  [][\A r, s \in Request :
       (/\ r \in Queued /\ r \in Queued'
        /\ r # s /\ Forwarded(s)')
         => Before(s, r) \/ SkipsQueue(s)]_vars

\* Dispatching is greedy: after a node update the queue is empty or its head
\* fits nowhere in the estimates the update left behind.
UpdateServesQueue ==
  [][(\E topic \in Topic, cores \in Reports : handleNodeUpdate(topic, cores))
       => halted' \/ queue' = <<>> \/ ~Selectable(table', queue'[1])]_vars

\* Conservation of cores.  What the estimates lose in a step is what the
\* requests forwarded in it ask for, no more and no less; a report replaces
\* one estimate first.  A wrap below zero of the unsigned counters, a charge
\* for a request that was not sent or a request sent without a charge break it.
Estimate(tbl) ==
  FoldFunction(LAMBDA entry, sum : entry.cores + sum, 0, tbl.nodes)

ForwardedCores ==
  FoldFunction(LAMBDA m, sum : (IF m.result = "forwarded" THEN Cores[m.req] ELSE 0) + sum,
               0, emitted)

CoresConserved ==
  [][\/ halted'
     \/ Estimate(table) = Estimate(table') + ForwardedCores'
     \/ \E topic \in Topic, cores \in Reports :
          Estimate(addOrUpdateNode(table, topic, NodeZone[topic], cores))
            = Estimate(table') + ForwardedCores' /\ queue' = SubSeq(queue, Len(emitted') + 1, Len(queue))]_vars

\* Every subscription ends, dispatched or timed out.
SubscriptionEnds == \A r \in Request : r \in Queued ~> (r \notin Queued \/ halted)

=============================================================================
