----------------------------- MODULE Cloud_proofs -----------------------------
(***************************************************************************)
(* The deployment path for any users, data centres, VMs and capacities.    *)
(*                                                                         *)
(* Every step of the cloud is a step of the provider's open system or      *)
(* leaves the provider alone, so what is proved of CloudProvider for any   *)
(* environment holds here; and with it, that a request object is never     *)
(* lost and never in two places.                                           *)
(***************************************************************************)
EXTENDS Cloud, NodePool_proofs

\* The provider with what is proved of it.
Proved == INSTANCE CloudProvider_proofs
  WITH Cores <- calculateRequestedCores,
       Reports <- {getAvailableCores(d) : d \in Topic}

-----------------------------------------------------------------------------
(* Provider and Proved are the same system *)

LEMMA SameSelection ==
  /\ \A t, r : Provider!Selectable(t, r) <=> Proved!Selectable(t, r)
  /\ \A t, r : Provider!SelectionFails(t, r) <=> Proved!SelectionFails(t, r)
  /\ \A t, r : Provider!Charge(t, r) = Proved!Charge(t, r)
  /\ \A t, r : Provider!ForwardTo(t, r) = Proved!ForwardTo(t, r)
<1>1. \A t, z : Provider!HasZone(t, z) <=> Proved!HasZone(t, z)
  BY DEF Provider!HasZone, Proved!HasZone
<1>2. \A t, r, z : Provider!FittingInZone(t, r, z) = Proved!FittingInZone(t, r, z)
  BY <1>1 DEF Provider!FittingInZone, Proved!FittingInZone, Provider!Fitting, Proved!Fitting,
       Provider!findNodesByZone, Proved!findNodesByZone
<1>3. \A t, r : Provider!Candidates(t, r) = Proved!Candidates(t, r)
  BY <1>2 DEF Provider!Candidates, Proved!Candidates
<1>4. \A t, r : Provider!Selectable(t, r) <=> Proved!Selectable(t, r)
  BY <1>3 DEF Provider!Selectable, Proved!Selectable
<1>5. \A t, r : Provider!SelectionFails(t, r) <=> Proved!SelectionFails(t, r)
  BY <1>1, <1>2 DEF Provider!SelectionFails, Proved!SelectionFails
<1>6. \A t, r : Provider!selectNode(t, r) = Proved!selectNode(t, r)
  BY <1>3 DEF Provider!selectNode, Proved!selectNode, Provider!Best, Proved!Best
<1>7. \A t, r : Provider!Charge(t, r) = Proved!Charge(t, r)
  BY <1>4, <1>6 DEF Provider!Charge, Proved!Charge
<1>8. \A t, r : Provider!ForwardTo(t, r) = Proved!ForwardTo(t, r)
  <2>1. \A i, S : Provider!AtPosition(i, S) = Proved!AtPosition(i, S)
    BY DEF Provider!AtPosition, Proved!AtPosition, Provider!Position, Proved!Position,
         Provider!Cardinality, Proved!Cardinality
  <2>2. \A t, id : Provider!getTopicForNode(t, id) = Proved!getTopicForNode(t, id)
    BY <2>1 DEF Provider!getTopicForNode, Proved!getTopicForNode
  <2>3. \A r, topic : Provider!Forward(r, topic) = Proved!Forward(r, topic)
    BY DEF Provider!Forward, Proved!Forward
  <2>. QED  BY <1>6, <2>2, <2>3 DEF Provider!ForwardTo, Proved!ForwardTo
<1>. QED  BY <1>4, <1>5, <1>7, <1>8

LEMMA SameTable ==
  \A t, d, z, cores :
    Provider!addOrUpdateNode(t, d, z, cores) = Proved!addOrUpdateNode(t, d, z, cores)
<1>1. \A t, d : Provider!Known(t, d) <=> Proved!Known(t, d)
  BY DEF Provider!Known, Proved!Known
<1>2. \A f, x, y : Provider!Extended(f, x, y) = Proved!Extended(f, x, y)
  BY DEF Provider!Extended, Proved!Extended
<1>3. \A x, S : Provider!Position(x, S) = Proved!Position(x, S)
  BY DEF Provider!Position, Proved!Position, Provider!Cardinality, Proved!Cardinality
<1>4. \A zones, z, id : Provider!ZonesWith(zones, z, id) = Proved!ZonesWith(zones, z, id)
  BY <1>2 DEF Provider!ZonesWith, Proved!ZonesWith
<1>5. \A t, d, cores : Provider!updateNode(t, d, cores) = Proved!updateNode(t, d, cores)
  BY DEF Provider!updateNode, Proved!updateNode
<1>6. \A t, d, z, cores : Provider!insertNode(t, d, z, cores) = Proved!insertNode(t, d, z, cores)
  BY <1>2, <1>3, <1>4 DEF Provider!insertNode, Proved!insertNode,
       Provider!Cardinality, Proved!Cardinality
<1>. QED
  BY <1>1, <1>5, <1>6 DEF Provider!addOrUpdateNode, Proved!addOrUpdateNode

LEMMA SameHandlers ==
  /\ \A r : Provider!handleVmRequest(r) => Proved!handleVmRequest(r)
  /\ \A r : Provider!handleVmSubscription(r) => Proved!handleVmSubscription(r)
  /\ \A r : Provider!handleSubscriptionTimeout(r) => Proved!handleSubscriptionTimeout(r)
  /\ \A d, cores : Provider!handleNodeUpdate(d, cores) => Proved!handleNodeUpdate(d, cores)
<1>1. Provider!Halt <=> Proved!Halt
  BY DEF Provider!Halt, Proved!Halt
<1>2. \A r, x : Provider!Reply(r, x) = Proved!Reply(r, x)
  BY DEF Provider!Reply, Proved!Reply, Provider!UserTopic, Proved!UserTopic
<1>3. \A r : Provider!handleVmRequest(r) => Proved!handleVmRequest(r)
  <2>1. \A r : Provider!MustWait(r) <=> Proved!MustWait(r)
    BY DEF Provider!MustWait, Proved!MustWait, Provider!SkipsQueue, Proved!SkipsQueue
  <2>. QED
    BY <1>1, <1>2, <2>1, SameSelection DEF Provider!handleVmRequest, Proved!handleVmRequest
<1>4. \A r : Provider!handleVmSubscription(r) => Proved!handleVmSubscription(r)
  BY DEF Provider!handleVmSubscription, Proved!handleVmSubscription
<1>5. \A r : Provider!handleSubscriptionTimeout(r) => Proved!handleSubscriptionTimeout(r)
  <2>1. Provider!Queued = Proved!Queued
    BY DEF Provider!Queued, Proved!Queued
  <2>. QED
    BY <1>1, <1>2, <2>1 DEF Provider!handleSubscriptionTimeout,
         Proved!handleSubscriptionTimeout, Provider!RemoveAt, Proved!RemoveAt
<1>6. \A d, cores : Provider!handleNodeUpdate(d, cores) => Proved!handleNodeUpdate(d, cores)
  <2>1. \A t : Provider!AfterDispatching(t) = Proved!AfterDispatching(t)
    BY SameSelection DEF Provider!AfterDispatching, Proved!AfterDispatching
  <2>2. \A after, k : Provider!StopsAfter(after, k) <=> Proved!StopsAfter(after, k)
    BY SameSelection DEF Provider!StopsAfter, Proved!StopsAfter
  <2>3. \A k : Provider!TimersCancelled(k) = Proved!TimersCancelled(k)
    BY DEF Provider!TimersCancelled, Proved!TimersCancelled
  <2>4. \A t : Provider!attemptDispatching(t) => Proved!attemptDispatching(t)
    BY <1>1, <2>1, <2>2, <2>3, SameSelection
       DEF Provider!attemptDispatching, Proved!attemptDispatching
  <2>. QED  BY <2>4, SameTable DEF Provider!handleNodeUpdate, Proved!handleNodeUpdate
<1>. QED  BY <1>3, <1>4, <1>5, <1>6

LEMMA SameInit == Provider!Init => Proved!Init
BY DEF Provider!Init, Proved!Init, Provider!EmptyTable, Proved!EmptyTable

LEMMA SameNext == Provider!Next => Proved!Next
<1>1. \A r : Provider!Requests(r) => Proved!Requests(r)
  BY SameHandlers DEF Provider!Requests, Proved!Requests
<1>2. \A r : Provider!Subscribes(r) => Proved!Subscribes(r)
  BY SameHandlers DEF Provider!Subscribes, Proved!Subscribes
<1>3. \A r : Provider!TimesOut(r) => Proved!TimesOut(r)
  BY SameHandlers DEF Provider!TimesOut, Proved!TimesOut
<1>4. \A d, cores : Provider!NodeReports(d, cores) => Proved!NodeReports(d, cores)
  BY SameHandlers DEF Provider!NodeReports, Proved!NodeReports
<1>. QED  BY <1>1, <1>2, <1>3, <1>4 DEF Provider!Next, Proved!Next

-----------------------------------------------------------------------------
(* The parameters are those the provider was verified for *)

LEMMA Naturals == Topic \subseteq Nat \ {0} /\ Zone \subseteq Nat
BY CloudConstants

LEMMA CoresAreNaturals ==
  /\ calculateRequestedCores \in [Request -> Nat]
  /\ \A d \in Topic : getAvailableCores(d) \in Nat
<1>1. ASSUME NEW r \in Request
      PROVE  SumOver(DOMAIN Vms[r], LAMBDA i : Needs[Vms[r][i]].cores) \in Nat
  <2>. DEFINE f == [i \in DOMAIN Vms[r] |-> Needs[Vms[r][i]].cores]
  <2>1. /\ Vms[r] \in Seq(VmType) /\ Len(Vms[r]) \in Nat /\ DOMAIN Vms[r] = 1..Len(Vms[r])
        /\ \A i \in DOMAIN Vms[r] : Vms[r][i] \in VmType
    BY CloudConstants
  <2>2. \A type \in VmType : Needs[type].cores \in Nat
    BY PoolConstants
  <2>3. f \in [DOMAIN Vms[r] -> Nat]
    BY <2>1, <2>2
  <2>4. IsFiniteSet(DOMAIN Vms[r])
    BY <2>1, FS_Interval
  <2>5. SumFunction(f) \in Nat
    <3>. HIDE DEF f
    <3>. QED  BY <2>3, <2>4, SumType
  <2>. QED  BY <2>5 DEF SumOver
<1>2. ASSUME NEW d \in Topic
      PROVE  SumOver(Node(d), LAMBDA n : Capacity[d][n].cores) \in Nat
  <2>. DEFINE f == [n \in Node(d) |-> Capacity[d][n].cores]
  <2>1. /\ Len(Capacity[d]) \in Nat /\ Node(d) = 1..Len(Capacity[d])
        /\ \A n \in Node(d) : Capacity[d][n] \in Counters
    BY CloudConstants DEF Node
  <2>2. \A x \in Counters : x.cores \in Nat
    BY PoolConstants DEF Counters
  <2>3. f \in [Node(d) -> Nat]
    BY <2>1, <2>2
  <2>4. IsFiniteSet(Node(d))
    BY <2>1, FS_Interval
  <2>5. SumFunction(f) \in Nat
    <3>. HIDE DEF f
    <3>. QED  BY <2>3, <2>4, SumType
  <2>. QED  BY <2>5 DEF SumOver
<1>. QED  BY <1>1, <1>2 DEF calculateRequestedCores, getAvailableCores

\* The assumptions of CloudProvider, of these parameters.
LEMMA ProviderFits ==
  /\ calculateRequestedCores \in [Request -> Nat]
  /\ RequestZone \in [Request -> Zone]
  /\ NodeZone \in [Topic -> Zone]
  /\ DefaultZone \in Zone
  /\ Priority \subseteq Request
  /\ dispatchPriority \in BOOLEAN
  /\ {getAvailableCores(d) : d \in Topic} \subseteq Nat
  /\ Topic \subseteq Nat \ {0} /\ Zone \subseteq Nat
BY CloudConstants, CoresAreNaturals

LEMMA ProviderStep ==
  Proved!TypeInv /\ [Provider!Next]_Proved!vars => Proved!TypeInv'
<1>1. [Provider!Next]_Proved!vars => [Proved!Next]_Proved!vars
  BY SameNext
<1>. QED  BY <1>1, ProviderFits, Proved!TypeInvNext

-----------------------------------------------------------------------------
(* What an event of the provider does to the request objects it holds *)

\* Each message is about a request held before or received in this event,
\* each of these is in one message or waits, and none that was not asked for
\* leaves: what ExactlyOneAnswer says, as sets.
AnswersHeld(held, messages, waiting) ==
  /\ messages \in Seq(Proved!Message)
  /\ \A i \in DOMAIN messages : messages[i].req \in held
  /\ \A i, j \in DOMAIN messages : messages[i].req = messages[j].req => i = j
  /\ waiting = held \ {messages[i].req : i \in DOMAIN messages}

Held == Proved!Queued \cup {r \in Request : stage'[r] # stage[r]}

LEMMA ProviderAnswers ==
  ASSUME Proved!TypeInv, Proved!TypeInv', Provider!Next, ~halted'
  PROVE  AnswersHeld(Held, emitted', Proved!Queued')
<1>1. Proved!Next
  BY SameNext
<1>2. /\ Proved!QueueInv /\ Proved!QueueInv' /\ emitted' \in Seq(Proved!Message)
      /\ Proved!Queued \subseteq Request /\ Proved!Queued' \subseteq Request
  <2>1. /\ Proved!QueueInv /\ Proved!QueueInv' /\ emitted' \in Seq(Proved!Message)
        /\ queue \in Seq(Request) /\ queue' \in Seq(Request)
    BY DEF Proved!TypeInv, Proved!QueueInv
  <2>. QED  BY <2>1 DEF Proved!Queued
<1>3. \A r \in Request : Proved!OneAnswer(r)
  BY <1>1, <1>2, ProviderFits, Proved!OneAnswerStep
<1>4. \A r \in Request : Proved!Answers(r)' = {i \in DOMAIN emitted' : emitted'[i].req = r}
  BY DEF Proved!Answers
<1>5. \A r \in Request :
        LET answers == {i \in DOMAIN emitted' : emitted'[i].req = r}
        IN  /\ r \in Held  => (r \in Proved!Queued' <=> answers = {})
            /\ r \notin Held => r \notin Proved!Queued' /\ answers = {}
            /\ \A i, j \in answers : i = j
  BY <1>3, <1>4 DEF Proved!OneAnswer, Held
<1>6. \A i \in DOMAIN emitted' : emitted'[i].req \in Request
  <2>1. \A i \in DOMAIN emitted' : emitted'[i] \in Proved!Message
    BY <1>2
  <2>. QED  BY <2>1 DEF Proved!Message
<1>7. Held \subseteq Request
  BY <1>2 DEF Held
<1>. DEFINE q == Proved!Queued'
            m == emitted'
<1>8. m \in Seq(Proved!Message) /\ q \subseteq Request
  BY <1>2
<1>. HIDE DEF q, m
<1>9. \A r \in Request :
        LET answers == {i \in DOMAIN m : m[i].req = r}
        IN  /\ r \in Held  => (r \in q <=> answers = {})
            /\ r \notin Held => r \notin q /\ answers = {}
            /\ \A i, j \in answers : i = j
  BY <1>5 DEF q, m
<1>10. \A i \in DOMAIN m : m[i].req \in Request
  BY <1>6 DEF m
<1>11. AnswersHeld(Held, m, q)
  BY <1>7, <1>8, <1>9, <1>10 DEF AnswersHeld
<1>. QED  BY <1>11 DEF q, m

-----------------------------------------------------------------------------
(* What is on the wire *)

Operation == {"VM_Req", "VM_Sub"}

Wire ==
  [op : Operation, req : Request, result : {"none", "forwarded", "rejected", "timeout"}]
    \cup [op : Operation, req : Request, result : {"accepted"}, nodes : Seq(Nat)]
    \cup [op : {"APP_Req"}, req : Request, node : Nat]
    \cup [op : {"Node_Update"}, cores : Nat]

Channel == [Channels -> Seq(Wire)]

\* What each channel carries: reports and forwarded requests, the request of
\* a user and the answers to it, its applications.
Shape(c, m) ==
  /\ c[1] \in Topic /\ c[2] = CloudProviderTopic => m = NodeUpdate(c[1])
  /\ c[1] \in Request /\ c[2] = CloudProviderTopic => Carries(m, c[1])
  /\ c[1] = CloudProviderTopic /\ c[2] \in Topic => m.op \in Operation
  /\ c[1] = CloudProviderTopic /\ c[2] \in Request => Carries(m, c[2]) /\ m.result # "accepted"
  /\ c[1] \in Topic /\ c[2] \in Request =>
       /\ Carries(m, c[2])
       /\ m.result = "accepted" => m.nodes \in [1..Len(Vms[c[2]]) -> Node(c[1])]
  /\ c[1] \in Request /\ c[2] \in Topic =>
       /\ m.op = "APP_Req" /\ m.req = c[1] /\ m.node \in Node(c[2]) \cup {0}
       /\ c[1] \in Generated => m.node = 0

NetTypes(n) ==
  n \in Channel /\ \A c \in Channels : \A i \in DOMAIN n[c] : Shape(c, n[c][i])

\* How far the user of a request had got when a message with it was sent.
StageOf(c, m) ==
  IF m.op = "VM_Req" THEN IF c[1] \in Request THEN "new" ELSE "requested"
                     ELSE IF c[1] \in Request THEN "requested" ELSE "subscribed"

OnStage(c, m, asked) == m.op \in Operation => asked[m.req] = StageOf(c, m)

Stages(n, asked) ==
  \A c \in Channels : \A i \in DOMAIN n[c] : OnStage(c, n[c][i], asked)

LEMMA ChannelsAre ==
  /\ \A x \in Topic \cup Request :
       <<CloudProviderTopic, x>> \in Channels /\ <<x, CloudProviderTopic>> \in Channels
  /\ \A d \in Topic, r \in Request : <<d, r>> \in Channels /\ <<r, d>> \in Channels
<1>. DEFINE both(x) == {<<CloudProviderTopic, x>>, <<x, CloudProviderTopic>>}
            S == {both(x) : x \in Topic \cup Request}
<1>1. ASSUME NEW x \in Topic \cup Request
      PROVE  <<CloudProviderTopic, x>> \in UNION S /\ <<x, CloudProviderTopic>> \in UNION S
  <2>1. both(x) \in S
    OBVIOUS
  <2>2. <<CloudProviderTopic, x>> \in both(x) /\ <<x, CloudProviderTopic>> \in both(x)
    OBVIOUS
  <2>. HIDE DEF S, both
  <2>. QED  BY <2>1, <2>2
<1>. DEFINE U == UNION S
            A == Topic \X Request
            B == Request \X Topic
<1>2. Channels = A \cup B \cup U
  BY DEF Channels
<1>3. \A d \in Topic, r \in Request : <<d, r>> \in A /\ <<r, d>> \in B
  OBVIOUS
<1>. HIDE DEF U, A, B
<1>4. \A c : c \in U \/ c \in A \/ c \in B => c \in Channels
  BY <1>2
<1>5. \A d \in Topic, r \in Request : <<d, r>> \in Channels /\ <<r, d>> \in Channels
  BY <1>3, <1>4
<1>6. \A x \in Topic \cup Request :
        <<CloudProviderTopic, x>> \in Channels /\ <<x, CloudProviderTopic>> \in Channels
  BY <1>1, <1>4 DEF U
<1>. QED  BY <1>5, <1>6

\* The i-th message of channel c carries the request of r.
At(n, c, i, r) == c \in Channels /\ i \in DOMAIN n[c] /\ Carries(n[c][i], r)

Somewhere(n, r) == \E c, i : At(n, c, i, r)

\* Every request object that is wanted is held or in one message, and no
\* other is anywhere.
Once(n, held, wanted) ==
  \A r \in Request :
    /\ \A c, d, i, j : At(n, c, i, r) /\ At(n, d, j, r) => c = d /\ i = j
    /\ r \in held => ~Somewhere(n, r)
    /\ r \in wanted <=> r \in held \/ Somewhere(n, r)

\* A message is appended to its channel.
LEMMA SentIs ==
  ASSUME NEW n \in Channel, NEW from, NEW to, <<from, to>> \in Channels, NEW m \in Wire
  PROVE  LET c == <<from, to>>
             s == Sent(n, from, to, m)
         IN  /\ s \in Channel
             /\ Len(n[c]) \in Nat /\ DOMAIN n[c] = 1..Len(n[c])
             /\ DOMAIN s[c] = 1..(Len(n[c]) + 1) /\ s[c][Len(n[c]) + 1] = m
             /\ \A i \in DOMAIN n[c] : s[c][i] = n[c][i]
             /\ \A d \in Channels : d # c => s[d] = n[d]
<1>. DEFINE c == <<from, to>>
            q == n[c]
<1>1. q \in Seq(Wire)
  BY DEF Channel
<1>2. Sent(n, from, to, m) = [n EXCEPT ![c] = Append(q, m)]
  BY DEF Sent
<1>3. /\ Append(q, m) \in Seq(Wire) /\ Len(q) \in Nat /\ DOMAIN q = 1..Len(q)
      /\ DOMAIN Append(q, m) = 1..(Len(q) + 1) /\ Append(q, m)[Len(q) + 1] = m
      /\ \A i \in DOMAIN q : Append(q, m)[i] = q[i]
  <2>. HIDE DEF q
  <2>. QED  BY <1>1
<1>4. c \in Channels
  OBVIOUS
<1>. DEFINE s == [n EXCEPT ![c] = Append(q, m)]
<1>5. s \in Channel /\ s[c] = Append(q, m) /\ \A d \in Channels : d # c => s[d] = n[d]
  <2>. HIDE DEF q, c
  <2>. QED  BY <1>3, <1>4 DEF Channel
<1>. HIDE DEF s, q, c
<1>6. Sent(n, from, to, m) = s
  BY <1>2 DEF s
<1>. QED  BY <1>3, <1>5, <1>6 DEF c, q

\* The first message leaves its channel.
LEMMA ReceivedIs ==
  ASSUME NEW n \in Channel, NEW c \in Channels, n[c] # <<>>
  PROVE  LET s == [n EXCEPT ![c] = Tail(@)]
         IN  /\ s \in Channel /\ Head(n[c]) = n[c][1] /\ Head(n[c]) \in Wire
             /\ 1 \in DOMAIN n[c]
             /\ \A i : i \in DOMAIN s[c] <=> i \in Nat \ {0} /\ i + 1 \in DOMAIN n[c]
             /\ \A i \in DOMAIN s[c] : s[c][i] = n[c][i + 1]
             /\ \A i \in DOMAIN n[c] : i # 1 => i - 1 \in DOMAIN s[c]
             /\ \A d \in Channels : d # c => s[d] = n[d]
<1>. DEFINE q == n[c]
            s == [n EXCEPT ![c] = Tail(q)]
<1>1. q \in Seq(Wire)
  BY DEF Channel
<1>2. /\ Tail(q) \in Seq(Wire) /\ Head(q) = q[1] /\ Head(q) \in Wire
      /\ 1 \in DOMAIN q
      /\ Len(q) \in Nat /\ DOMAIN q = 1..Len(q)
      /\ DOMAIN Tail(q) = 1..(Len(q) - 1)
      /\ \A i \in DOMAIN Tail(q) : Tail(q)[i] = q[i + 1]
  <2>. HIDE DEF q
  <2>. QED  BY <1>1 DEF q
<1>3. s \in Channel /\ s[c] = Tail(q) /\ \A d \in Channels : d # c => s[d] = n[d]
  <2>. HIDE DEF q
  <2>. QED  BY <1>2 DEF Channel
<1>4. [n EXCEPT ![c] = Tail(@)] = s
  OBVIOUS
<1>. HIDE DEF s
<1>5. /\ \A i : i \in DOMAIN Tail(q) <=> i \in Nat \ {0} /\ i + 1 \in DOMAIN q
      /\ \A i \in DOMAIN q : i # 1 => i - 1 \in DOMAIN Tail(q)
  <2>. HIDE DEF q
  <2>. QED  BY <1>2
<1>. QED  BY <1>2, <1>3, <1>4, <1>5

LEMMA SentAt ==
  ASSUME NEW n \in Channel, NEW from, NEW to, <<from, to>> \in Channels, NEW m \in Wire
  PROVE  \A d, i, r :
           At(Sent(n, from, to, m), d, i, r)
             <=> \/ At(n, d, i, r)
                 \/ d = <<from, to>> /\ i = Len(n[<<from, to>>]) + 1 /\ Carries(m, r)
<1>. DEFINE c == <<from, to>>
            s == Sent(n, from, to, m)
            k == Len(n[c]) + 1
<1>1. /\ c \in Channels /\ Len(n[c]) \in Nat /\ DOMAIN n[c] = 1..Len(n[c])
      /\ DOMAIN s[c] = 1..k /\ s[c][k] = m
      /\ \A i \in DOMAIN n[c] : s[c][i] = n[c][i]
      /\ \A d \in Channels : d # c => s[d] = n[d]
  BY SentIs
<1>2. DOMAIN s[c] = DOMAIN n[c] \cup {k} /\ k \notin DOMAIN n[c]
  <2>. HIDE DEF s
  <2>. QED  BY <1>1
<1>. HIDE DEF s, c, k
<1>. QED  BY <1>1, <1>2 DEF At, s, c, k

LEMMA ReceivedAt ==
  ASSUME NEW n \in Channel, NEW c \in Channels, n[c] # <<>>
  PROVE  LET s == [n EXCEPT ![c] = Tail(@)]
         IN  /\ \A r : At(n, c, 1, r) <=> Carries(Head(n[c]), r)
             /\ \A d, i, r : At(s, d, i, r) => At(n, d, IF d = c THEN i + 1 ELSE i, r)
             /\ \A d, i, r : At(n, d, i, r) /\ ~(d = c /\ i = 1) =>
                  At(s, d, IF d = c THEN i - 1 ELSE i, r)
             /\ \A i, r : ~At(s, c, 0, r) /\ (At(s, c, i, r) => i \in Nat \ {0})
<1>. DEFINE s == [n EXCEPT ![c] = Tail(@)]
<1>1. /\ Head(n[c]) = n[c][1] /\ 1 \in DOMAIN n[c]
      /\ \A i : i \in DOMAIN s[c] <=> i \in Nat \ {0} /\ i + 1 \in DOMAIN n[c]
      /\ \A i \in DOMAIN s[c] : s[c][i] = n[c][i + 1]
      /\ \A i \in DOMAIN n[c] : i # 1 => i - 1 \in DOMAIN s[c]
      /\ \A d \in Channels : d # c => s[d] = n[d]
  BY ReceivedIs
<1>2. DOMAIN n[c] \subseteq Nat
  BY DEF Channel
<1>. HIDE DEF s
<1>3. \A r : At(n, c, 1, r) <=> Carries(Head(n[c]), r)
  BY <1>1 DEF At
<1>4. \A d, i, r : At(s, d, i, r) => At(n, d, IF d = c THEN i + 1 ELSE i, r)
  BY <1>1 DEF At
<1>5. \A d, i, r : At(n, d, i, r) /\ ~(d = c /\ i = 1) => At(s, d, IF d = c THEN i - 1 ELSE i, r)
  <2>. SUFFICES ASSUME NEW d, NEW i, NEW r, At(n, d, i, r), ~(d = c /\ i = 1)
                PROVE  At(s, d, IF d = c THEN i - 1 ELSE i, r)
    OBVIOUS
  <2>1. CASE d = c
    <3>1. i \in DOMAIN n[c] /\ Carries(n[c][i], r) /\ i \in Nat /\ i # 1
      BY <1>2, <2>1 DEF At
    <3>2. i - 1 \in DOMAIN s[c] /\ (i - 1) + 1 = i
      BY <1>1, <3>1
    <3>. QED  BY <1>1, <2>1, <3>1, <3>2 DEF At
  <2>2. CASE d # c
    BY <1>1, <2>2 DEF At
  <2>. QED  BY <2>1, <2>2
<1>6. \A i, r : ~At(s, c, 0, r) /\ (At(s, c, i, r) => i \in Nat \ {0})
  BY <1>1 DEF At
<1>. QED  BY <1>3, <1>4, <1>5, <1>6 DEF s

-----------------------------------------------------------------------------
(* The path of a request object *)

\* A request is handed over by whoever holds it, in one message.
LEMMA SentOnce ==
  ASSUME NEW n \in Channel, NEW from, NEW to, <<from, to>> \in Channels, NEW m \in Wire,
         NEW held, NEW wanted, Once(n, held, wanted),
         NEW r \in held, Carries(m, r)
  PROVE  Once(Sent(n, from, to, m), held \ {r}, wanted)
<1>. DEFINE s == Sent(n, from, to, m)
            c == <<from, to>>
            k == Len(n[c]) + 1
<1>1. \A d, i, q : At(s, d, i, q) <=> At(n, d, i, q) \/ (d = c /\ i = k /\ q = r)
  <2>1. \A q : Carries(m, q) <=> q = r
    BY DEF Carries
  <2>. QED  BY <2>1, SentAt
<1>. HIDE DEF s, c, k
<1>. QED  BY <1>1 DEF Once, Somewhere, s

\* A message that carries no request changes nothing.
LEMMA SentOther ==
  ASSUME NEW n \in Channel, NEW from, NEW to, <<from, to>> \in Channels, NEW m \in Wire,
         NEW held, NEW wanted, Once(n, held, wanted),
         m.op \notin Operation
  PROVE  Once(Sent(n, from, to, m), held, wanted)
<1>. DEFINE s == Sent(n, from, to, m)
<1>1. \A d, i, q : At(s, d, i, q) <=> At(n, d, i, q)
  <2>1. \A q : ~Carries(m, q)
    BY DEF Carries, Operation
  <2>. QED  BY <2>1, SentAt
<1>. HIDE DEF s
<1>. QED  BY <1>1 DEF Once, Somewhere, s

\* Whoever receives a request holds it.
LEMMA ReceivedOnce ==
  ASSUME NEW n \in Channel, NEW c \in Channels, n[c] # <<>>,
         NEW held, NEW wanted, Once(n, held, wanted),
         NEW r \in Request, Carries(Head(n[c]), r)
  PROVE  /\ r \notin held /\ r \in wanted
         /\ Once([n EXCEPT ![c] = Tail(@)], held \cup {r}, wanted)
<1>. DEFINE s == [n EXCEPT ![c] = Tail(@)]
<1>1. /\ \A q : At(n, c, 1, q) <=> q = r
      /\ \A d, i, q : At(s, d, i, q) => At(n, d, IF d = c THEN i + 1 ELSE i, q)
      /\ \A d, i, q : At(n, d, i, q) /\ ~(d = c /\ i = 1) =>
           At(s, d, IF d = c THEN i - 1 ELSE i, q)
      /\ \A i, q : ~At(s, c, 0, q) /\ (At(s, c, i, q) => i \in Nat \ {0})
  <2>1. \A q : Carries(Head(n[c]), q) <=> q = r
    BY DEF Carries
  <2>. QED  BY <2>1, ReceivedAt
<1>. HIDE DEF s
<1>2. At(n, c, 1, r)
  BY <1>1
<1>3. r \notin held /\ r \in wanted
  BY <1>2 DEF Once, Somewhere
<1>4. ~Somewhere(s, r)
  <2>. SUFFICES ASSUME NEW d, NEW i, At(s, d, i, r) PROVE FALSE
    BY DEF Somewhere
  <2>1. At(n, d, IF d = c THEN i + 1 ELSE i, r)
    BY <1>1
  <2>2. d = c /\ i + 1 = 1
    BY <1>2, <2>1 DEF Once
  <2>. QED  BY <1>1, <2>2
<1>5. ASSUME NEW q \in Request
      PROVE  \A d, e, i, j : At(s, d, i, q) /\ At(s, e, j, q) => d = e /\ i = j
  <2>. SUFFICES ASSUME NEW d, NEW e, NEW i, NEW j, At(s, d, i, q), At(s, e, j, q)
                PROVE  d = e /\ i = j
    OBVIOUS
  <2>1. /\ At(n, d, IF d = c THEN i + 1 ELSE i, q)
        /\ At(n, e, IF e = c THEN j + 1 ELSE j, q)
    BY <1>1
  <2>2. d = e /\ (IF d = c THEN i + 1 ELSE i) = (IF e = c THEN j + 1 ELSE j)
    BY <2>1 DEF Once
  <2>3. d = c => i \in Nat /\ j \in Nat
    BY <1>1, <2>2
  <2>. QED  BY <2>2, <2>3
<1>6. ASSUME NEW q \in Request, q # r
      PROVE  Somewhere(s, q) <=> Somewhere(n, q)
  <2>1. Somewhere(s, q) => Somewhere(n, q)
    BY <1>1 DEF Somewhere
  <2>2. ASSUME NEW d, NEW i, At(n, d, i, q) PROVE Somewhere(s, q)
    <3>1. ~(d = c /\ i = 1)
      BY <1>1, <1>6, <2>2
    <3>. QED  BY <1>1, <2>2, <3>1 DEF Somewhere
  <2>. QED  BY <2>1, <2>2 DEF Somewhere
<1>7. Once(s, held \cup {r}, wanted)
  <2>. SUFFICES ASSUME NEW q \in Request
                PROVE  /\ \A d, e, i, j : At(s, d, i, q) /\ At(s, e, j, q) => d = e /\ i = j
                       /\ q \in held \cup {r} => ~Somewhere(s, q)
                       /\ q \in wanted <=> q \in held \cup {r} \/ Somewhere(s, q)
    BY DEF Once
  <2>1. CASE q = r
    BY <1>3, <1>4, <1>5, <2>1
  <2>2. CASE q # r
    BY <1>5, <1>6, <2>2 DEF Once
  <2>. QED  BY <2>1, <2>2
<1>. QED  BY <1>3, <1>7 DEF s

LEMMA ReceivedOther ==
  ASSUME NEW n \in Channel, NEW c \in Channels, n[c] # <<>>,
         NEW held, NEW wanted, Once(n, held, wanted),
         Head(n[c]).op \notin Operation
  PROVE  Once([n EXCEPT ![c] = Tail(@)], held, wanted)
<1>. DEFINE s == [n EXCEPT ![c] = Tail(@)]
<1>1. /\ \A q : ~At(n, c, 1, q)
      /\ \A d, i, q : At(s, d, i, q) => At(n, d, IF d = c THEN i + 1 ELSE i, q)
      /\ \A d, i, q : At(n, d, i, q) /\ ~(d = c /\ i = 1) =>
           At(s, d, IF d = c THEN i - 1 ELSE i, q)
      /\ \A i, q : ~At(s, c, 0, q) /\ (At(s, c, i, q) => i \in Nat \ {0})
  <2>1. \A q : ~Carries(Head(n[c]), q)
    BY DEF Carries, Operation
  <2>. QED  BY <2>1, ReceivedAt
<1>. HIDE DEF s
<1>2. ASSUME NEW q \in Request
      PROVE  \A d, e, i, j : At(s, d, i, q) /\ At(s, e, j, q) => d = e /\ i = j
  <2>. SUFFICES ASSUME NEW d, NEW e, NEW i, NEW j, At(s, d, i, q), At(s, e, j, q)
                PROVE  d = e /\ i = j
    OBVIOUS
  <2>1. /\ At(n, d, IF d = c THEN i + 1 ELSE i, q)
        /\ At(n, e, IF e = c THEN j + 1 ELSE j, q)
    BY <1>1
  <2>2. d = e /\ (IF d = c THEN i + 1 ELSE i) = (IF e = c THEN j + 1 ELSE j)
    BY <2>1 DEF Once
  <2>3. d = c => i \in Nat /\ j \in Nat
    BY <1>1, <2>2
  <2>. QED  BY <2>2, <2>3
<1>3. ASSUME NEW q \in Request
      PROVE  Somewhere(s, q) <=> Somewhere(n, q)
  <2>1. Somewhere(s, q) => Somewhere(n, q)
    BY <1>1 DEF Somewhere
  <2>2. ASSUME NEW d, NEW i, At(n, d, i, q) PROVE Somewhere(s, q)
    <3>1. ~(d = c /\ i = 1)
      BY <1>1, <2>2
    <3>. QED  BY <1>1, <2>2, <3>1 DEF Somewhere
  <2>. QED  BY <2>1, <2>2 DEF Somewhere
<1>4. Once(s, held, wanted)
  BY <1>2, <1>3 DEF Once
<1>. QED  BY <1>4 DEF s

\* A user that makes a request holds it; one that gets its answer wants no more.
LEMMA NewOnce ==
  ASSUME NEW n, NEW held, NEW wanted, Once(n, held, wanted), NEW r \in Request, r \notin wanted
  PROVE  Once(n, held \cup {r}, wanted \cup {r})
BY DEF Once

LEMMA EndedOnce ==
  ASSUME NEW n, NEW held, NEW wanted, Once(n, held, wanted), NEW r \in held
  PROVE  Once(n, held \ {r}, wanted \ {r})
BY DEF Once

-----------------------------------------------------------------------------
(* Types and stages of what is on the wire *)

LEMMA SentTypes ==
  ASSUME NEW n, NetTypes(n), NEW from, NEW to, <<from, to>> \in Channels, NEW m \in Wire,
         Shape(<<from, to>>, m)
  PROVE  NetTypes(Sent(n, from, to, m))
<1>. DEFINE c == <<from, to>>
            s == Sent(n, from, to, m)
            k == Len(n[c]) + 1
<1>1. n \in Channel /\ \A d \in Channels : \A i \in DOMAIN n[d] : Shape(d, n[d][i])
  BY DEF NetTypes
<1>2. /\ s \in Channel /\ Len(n[c]) \in Nat /\ DOMAIN n[c] = 1..Len(n[c])
      /\ DOMAIN s[c] = 1..k /\ s[c][k] = m
      /\ \A i \in DOMAIN n[c] : s[c][i] = n[c][i]
      /\ \A d \in Channels : d # c => s[d] = n[d]
  BY <1>1, SentIs
<1>3. DOMAIN s[c] = DOMAIN n[c] \cup {k}
  <2>. HIDE DEF s
  <2>. QED  BY <1>2
<1>4. Shape(c, m)
  OBVIOUS
<1>. HIDE DEF s, c, k
<1>5. \A d \in Channels : \A i \in DOMAIN s[d] : Shape(d, s[d][i])
  BY <1>1, <1>2, <1>3, <1>4
<1>. QED  BY <1>2, <1>5 DEF NetTypes, s

LEMMA SentStages ==
  ASSUME NEW n \in Channel, NEW asked, Stages(n, asked),
         NEW from, NEW to, <<from, to>> \in Channels, NEW m \in Wire,
         OnStage(<<from, to>>, m, asked)
  PROVE  Stages(Sent(n, from, to, m), asked)
<1>. DEFINE c == <<from, to>>
            s == Sent(n, from, to, m)
            k == Len(n[c]) + 1
<1>1. /\ Len(n[c]) \in Nat /\ DOMAIN n[c] = 1..Len(n[c])
      /\ DOMAIN s[c] = 1..k /\ s[c][k] = m
      /\ \A i \in DOMAIN n[c] : s[c][i] = n[c][i]
      /\ \A d \in Channels : d # c => s[d] = n[d]
  BY SentIs
<1>2. DOMAIN s[c] = DOMAIN n[c] \cup {k}
  <2>. HIDE DEF s
  <2>. QED  BY <1>1
<1>3. OnStage(c, m, asked)
  OBVIOUS
<1>. HIDE DEF s, c, k
<1>. QED  BY <1>1, <1>2, <1>3 DEF Stages, s

LEMMA ReceivedTypes ==
  ASSUME NEW n, NetTypes(n), NEW c \in Channels, n[c] # <<>>
  PROVE  /\ NetTypes([n EXCEPT ![c] = Tail(@)])
         /\ Head(n[c]) \in Wire /\ Shape(c, Head(n[c]))
<1>. DEFINE s == [n EXCEPT ![c] = Tail(@)]
<1>1. n \in Channel /\ \A d \in Channels : \A i \in DOMAIN n[d] : Shape(d, n[d][i])
  BY DEF NetTypes
<1>2. /\ s \in Channel /\ Head(n[c]) = n[c][1] /\ Head(n[c]) \in Wire /\ 1 \in DOMAIN n[c]
      /\ \A i \in DOMAIN s[c] : i + 1 \in DOMAIN n[c] /\ s[c][i] = n[c][i + 1]
      /\ \A d \in Channels : d # c => s[d] = n[d]
  BY <1>1, ReceivedIs
<1>. HIDE DEF s
<1>3. \A d \in Channels : \A i \in DOMAIN s[d] : Shape(d, s[d][i])
  BY <1>1, <1>2
<1>4. NetTypes(s) /\ Head(n[c]) \in Wire /\ Shape(c, Head(n[c]))
  BY <1>1, <1>2, <1>3 DEF NetTypes
<1>. QED  BY <1>4 DEF s

LEMMA ReceivedStages ==
  ASSUME NEW n \in Channel, NEW asked, Stages(n, asked), NEW c \in Channels, n[c] # <<>>
  PROVE  Stages([n EXCEPT ![c] = Tail(@)], asked) /\ OnStage(c, Head(n[c]), asked)
<1>. DEFINE s == [n EXCEPT ![c] = Tail(@)]
<1>1. /\ s \in Channel /\ Head(n[c]) = n[c][1] /\ Head(n[c]) \in Wire /\ 1 \in DOMAIN n[c]
      /\ \A i \in DOMAIN s[c] : i + 1 \in DOMAIN n[c] /\ s[c][i] = n[c][i + 1]
      /\ \A d \in Channels : d # c => s[d] = n[d]
  BY ReceivedIs
<1>. HIDE DEF s
<1>2. Stages(s, asked) /\ OnStage(c, Head(n[c]), asked)
  BY <1>1 DEF Stages
<1>. QED  BY <1>2 DEF s

\* The stage of a request that no message carries may change.
LEMMA StagesMove ==
  ASSUME NEW n \in Channel, NEW asked, Stages(n, asked), NEW r, ~Somewhere(n, r), NEW now,
         \A q \in Request : q # r => now[q] = asked[q],
         \A c \in Channels : \A i \in DOMAIN n[c] : n[c][i].op \in Operation => n[c][i].req \in Request
  PROVE  Stages(n, now)
<1>1. ASSUME NEW c \in Channels, NEW i \in DOMAIN n[c], n[c][i].op \in Operation
      PROVE  n[c][i].req # r
  <2>1. Carries(n[c][i], n[c][i].req)
    BY <1>1 DEF Carries, Operation
  <2>. QED  BY <2>1 DEF Somewhere, At
<1>. QED  BY <1>1 DEF Stages, OnStage

LEMMA WireRequests ==
  ASSUME NEW m \in Wire, m.op \in Operation
  PROVE  m.req \in Request
BY DEF Wire, Operation

LEMMA NetRequests ==
  ASSUME NEW n \in Channel
  PROVE  \A c \in Channels : \A i \in DOMAIN n[c] :
           n[c][i] \in Wire /\ (n[c][i].op \in Operation => n[c][i].req \in Request)
<1>1. \A c \in Channels : \A i \in DOMAIN n[c] : n[c][i] \in Wire
  BY DEF Channel
<1>. QED  BY <1>1, WireRequests

\* What the provider puts on the wire goes out message by message.
Receiver(m) == IF m.to = Provider!UserTopic THEN m.req ELSE m.to

IsEmission(f, n, messages, asked) ==
  /\ f \in [0..Len(messages) -> Channel]
  /\ f[0] = n
  /\ \A k \in 1..Len(messages) :
       f[k] = Sent(f[k - 1], CloudProviderTopic, Receiver(messages[k]),
                   OnTheWire(messages[k], asked))
  /\ Emitted(n, messages, asked) = f[Len(messages)]

LEMMA ProviderMessage ==
  ASSUME NEW m \in Proved!Message, NEW asked
  PROVE  /\ OnTheWire(m, asked) \in Wire
         /\ OnTheWire(m, asked).op = IF asked[m.req] = "subscribed" THEN "VM_Sub" ELSE "VM_Req"
         /\ Carries(OnTheWire(m, asked), m.req)
         /\ OnTheWire(m, asked).result # "accepted"
         /\ m.req \in Request
         /\ Receiver(m) \in Topic \/ Receiver(m) = m.req
         /\ <<CloudProviderTopic, Receiver(m)>> \in Channels
<1>1. /\ m.req \in Request /\ m.to \in Topic \cup {0}
      /\ m.result \in {"forwarded", "rejected", "timeout"}
  BY DEF Proved!Message, Proved!UserTopic
<1>2. Receiver(m) \in Topic \/ Receiver(m) = m.req
  BY <1>1 DEF Receiver, Provider!UserTopic
<1>3. <<CloudProviderTopic, Receiver(m)>> \in Channels
  BY <1>1, <1>2, ChannelsAre
<1>. QED
  BY <1>1, <1>2, <1>3 DEF OnTheWire, VmMessage, Wire, Carries, Operation

LEMMA EmittedIs ==
  ASSUME NEW n \in Channel, NEW messages \in Seq(Proved!Message), NEW asked
  PROVE  \E f : IsEmission(f, n, messages, asked)
<1>. DEFINE l == Len(messages)
            sent(p, i) == Sent(p, CloudProviderTopic, Receiver(messages[i]),
                               OnTheWire(messages[i], asked))
            step == [i \in 1..l |-> [p \in Channel |-> sent(p, i)]]
<1>0. l \in Nat
  OBVIOUS
<1>1. \A i \in 1..l : messages[i] \in Proved!Message
  OBVIOUS
<1>2. \A i \in 1..l, p \in Channel : sent(p, i) \in Channel
  BY <1>1, ProviderMessage, SentIs
<1>3. step \in [1..l -> [Channel -> Channel]]
  <2>. HIDE DEF l, sent
  <2>. QED  BY <1>2
<1>4. PICK f \in [0..l -> Channel] : IsIteration(f, l, n, step)
  <2>. HIDE DEF step, l
  <2>. QED  BY <1>0, <1>3, IterationExists
<1>5. \A i \in 0..l : f[i] = IF i = 0 THEN n ELSE sent(f[i - 1], i)
  <2>. TAKE i \in 0..l
  <2>1. f[i] = IF i = 0 THEN n ELSE step[i][f[i - 1]]
    BY <1>4 DEF IsIteration
  <2>2. CASE i # 0
    <3>1. i \in 1..l /\ i - 1 \in 0..l
      BY <1>0, <2>2
    <3>2. f[i - 1] \in Channel
      BY <3>1
    <3>3. step[i][f[i - 1]] = sent(f[i - 1], i)
      <4>. HIDE DEF sent, l
      <4>. QED  BY <3>1, <3>2
    <3>. HIDE DEF step
    <3>. QED  BY <2>1, <2>2, <3>3
  <2>3. CASE i = 0
    BY <2>1, <2>3
  <2>. QED  BY <2>2, <2>3
<1>. DEFINE unfolds(g) == g = [k \in 0..l |-> IF k = 0 THEN n ELSE sent(g[k - 1], k)]
            g == CHOOSE g : unfolds(g)
<1>6. Emitted(n, messages, asked) = g[l]
  BY DEF Emitted, Receiver
<1>7. unfolds(f)
  <2>. HIDE DEF sent, l
  <2>. QED  BY <1>5
<1>8. unfolds(g)
  <2>. HIDE DEF unfolds
  <2>. QED  BY <1>7
<1>. HIDE DEF step
<1>9. g = f
  <2>. HIDE DEF g
  <2>. DEFINE Good == {i \in 0..l : g[i] = f[i]}
  <2>1. /\ \A i \in 0..l : g[i] = IF i = 0 THEN n ELSE sent(g[i - 1], i)
        /\ g = [i \in 0..l |-> g[i]]
    <3>. HIDE DEF sent, l
    <3>. QED  BY <1>8
  <2>. HIDE DEF sent, l, unfolds
  <2>2. 0 \in Good
    <3>1. 0 \in 0..l
      BY <1>0
    <3>. QED  BY <3>1, <1>5, <2>1
  <2>3. \A i \in 1..l : i - 1 \in Good => i \in Good
    <3>1. \A i \in 1..l : i \in 0..l /\ i # 0
      BY <1>0
    <3>. QED  BY <3>1, <1>5, <2>1
  <2>4. 0..l \subseteq Good
    <3>. HIDE DEF Good
    <3>. QED  BY <1>0, <2>2, <2>3, BoundedInduction
  <2>. QED  BY <2>1, <2>4
<1>10. f[0] = n /\ \A k \in 1..l : f[k] = sent(f[k - 1], k)
  <2>. HIDE DEF sent, l
  <2>. QED  BY <1>0, <1>5
<1>. HIDE DEF g
<1>. QED  BY <1>6, <1>9, <1>10 DEF IsEmission

\* What the provider sends is well typed, whatever becomes of the event.
LEMMA EmittedTypes ==
  ASSUME NEW n, NetTypes(n), NEW messages \in Seq(Proved!Message), NEW asked
  PROVE  NetTypes(Emitted(n, messages, asked))
<1>. DEFINE l == Len(messages)
<1>0. n \in Channel /\ l \in Nat /\ \A i \in 1..l : messages[i] \in Proved!Message
  BY DEF NetTypes
<1>1. PICK f : IsEmission(f, n, messages, asked)
  BY <1>0, EmittedIs
<1>. DEFINE Good == {k \in 0..l : NetTypes(f[k])}
<1>2. 0 \in Good
  BY <1>0, <1>1 DEF IsEmission
<1>3. \A k \in 1..l : k - 1 \in Good => k \in Good
  <2>. SUFFICES ASSUME NEW k \in 1..l, NetTypes(f[k - 1]) PROVE NetTypes(f[k])
    BY <1>0
  <2>. DEFINE m == messages[k]
              w == OnTheWire(m, asked)
              c == <<CloudProviderTopic, Receiver(m)>>
  <2>1. f[k] = Sent(f[k - 1], CloudProviderTopic, Receiver(m), w)
    BY <1>1 DEF IsEmission
  <2>2. /\ w \in Wire /\ w.op \in Operation /\ Carries(w, m.req) /\ w.result # "accepted"
        /\ m.req \in Request /\ (Receiver(m) \in Topic \/ Receiver(m) = m.req)
        /\ c \in Channels
    BY <1>0, ProviderMessage DEF Operation
  <2>. HIDE DEF w, m
  <2>3. Shape(c, w)
    <3>1. c[1] = 0 /\ c[2] = Receiver(m) /\ 0 \notin Topic \cup Request /\ Topic \cap Request = {}
      BY CloudConstants DEF Sender, CloudProviderTopic
    <3>. HIDE DEF c
    <3>. QED  BY <2>2, <3>1 DEF Shape, CloudProviderTopic
  <2>. QED  BY <2>1, <2>2, <2>3, SentTypes
<1>4. l \in Good
  <2>1. 0..l \subseteq Good
    <3>. HIDE DEF Good, l
    <3>. QED  BY <1>0, <1>2, <1>3, BoundedInduction
  <2>. QED  BY <1>0, <2>1
<1>. QED  BY <1>1, <1>4 DEF IsEmission

\* What the provider holds goes out, each request in one message.
LEMMA EmittedOnce ==
  ASSUME NEW n \in Channel, NEW asked, Stages(n, asked),
         NEW held, NEW messages, NEW waiting, AnswersHeld(held, messages, waiting),
         NEW wanted, Once(n, held, wanted),
         \A i \in DOMAIN messages : asked[messages[i].req] \in {"requested", "subscribed"}
  PROVE  /\ Stages(Emitted(n, messages, asked), asked)
         /\ Once(Emitted(n, messages, asked), waiting, wanted)
<1>. DEFINE l == Len(messages)
            sofar(k) == {messages[i].req : i \in 1..k}
<1>0. /\ messages \in Seq(Proved!Message)
      /\ l \in Nat /\ DOMAIN messages = 1..l /\ \A i \in 1..l : messages[i] \in Proved!Message
  BY DEF AnswersHeld
<1>1. PICK f : IsEmission(f, n, messages, asked)
  BY <1>0, EmittedIs
<1>. DEFINE Good == {k \in 0..l : Stages(f[k], asked) /\ Once(f[k], held \ sofar(k), wanted)}
<1>2. 0 \in Good
  <2>1. held \ sofar(0) = held
    OBVIOUS
  <2>2. f[0] = n /\ 0 \in 0..l
    BY <1>0, <1>1 DEF IsEmission
  <2>. HIDE DEF sofar
  <2>. QED  BY <2>1, <2>2
<1>3. \A k \in 1..l : k - 1 \in Good => k \in Good
  <2>. SUFFICES ASSUME NEW k \in 1..l, Stages(f[k - 1], asked),
                       Once(f[k - 1], held \ sofar(k - 1), wanted)
                PROVE  Stages(f[k], asked) /\ Once(f[k], held \ sofar(k), wanted)
    <3>1. \A k \in 1..l : k \in 0..l
      BY <1>0
    <3>. HIDE DEF sofar, l
    <3>. QED  BY <3>1
  <2>. DEFINE m == messages[k]
              w == OnTheWire(m, asked)
              c == <<CloudProviderTopic, Receiver(m)>>
  <2>1. f[k] = Sent(f[k - 1], CloudProviderTopic, Receiver(m), w) /\ f[k - 1] \in Channel
    <3>1. k - 1 \in 0..Len(messages)
      BY <1>0
    <3>. QED  BY <1>1, <3>1 DEF IsEmission
  <2>2. /\ w \in Wire /\ Carries(w, m.req) /\ c \in Channels
        /\ w.op = IF asked[m.req] = "subscribed" THEN "VM_Sub" ELSE "VM_Req"
    BY <1>0, ProviderMessage
  <2>3. m.req \in held \ sofar(k - 1)
    <3>1. m.req \in held
      BY <1>0 DEF AnswersHeld
    <3>2. ASSUME NEW i \in 1..(k - 1), messages[i].req = m.req PROVE FALSE
      <4>1. i \in DOMAIN messages /\ k \in DOMAIN messages /\ i # k
        BY <1>0
      <4>. QED  BY <3>2, <4>1 DEF AnswersHeld
    <3>. QED  BY <3>1, <3>2
  <2>4. held \ sofar(k) = (held \ sofar(k - 1)) \ {m.req}
    <3>1. 1..k = (1..(k - 1)) \cup {k}
      BY <1>0
    <3>. QED  BY <3>1
  <2>5. OnStage(c, w, asked)
    <3>1. asked[m.req] \in {"requested", "subscribed"} /\ w.req = m.req
      BY <1>0, <2>2 DEF Carries
    <3>2. c[1] \notin Request
      BY CloudConstants DEF Sender, CloudProviderTopic
    <3>. HIDE DEF w, m, c
    <3>. QED  BY <2>2, <3>1, <3>2 DEF OnStage, StageOf
  <2>. HIDE DEF w, m, sofar
  <2>. QED  BY <2>1, <2>2, <2>3, <2>4, <2>5, SentStages, SentOnce
<1>4. l \in Good
  <2>1. 0..l \subseteq Good
    <3>. HIDE DEF Good, l
    <3>. QED  BY <1>0, <1>2, <1>3, BoundedInduction
  <2>2. l \in 0..l
    BY <1>0
  <2>. HIDE DEF Good
  <2>. QED  BY <2>1, <2>2
<1>5. held \ sofar(l) = waiting
  BY <1>0 DEF AnswersHeld
<1>. QED  BY <1>1, <1>4, <1>5 DEF IsEmission

-----------------------------------------------------------------------------
(* The inductive invariant *)

Waits == {r \in Request : user[r] \in {"asking", "subscribing"}}

\* The generator asks for its users in turn, each once.
Turns ==
  /\ par \in Setups
  /\ generatorTimer = "WaitToExecute" =>
       nUserIndex = 0 /\ \A r \in Generated : user[r] = "idle"
  /\ generatorTimer # "WaitToExecute" =>
       /\ userInstances \in SetToSeqs(par.users)
       /\ nUserIndex \in 0..Len(userInstances)
       /\ {userInstances[i] : i \in 1..nUserIndex} = {r \in Generated : user[r] # "idle"}
  /\ generatorTimer = "USER_REQ_GEN" => nUserIndex < Len(userInstances)

IdleNew == \A r \in Request : user[r] = "idle" => stage[r] = "new"

Paths ==
  Once(net, Proved!Queued, Waits) /\ Stages(net, stage) /\ Turns /\ IdleNew

UserTypes == user \in [Request -> {"idle", "asking", "subscribing", "up", "refused"}]

PathInv ==
  /\ Proved!TypeInv /\ NetTypes(net) /\ UserTypes
  /\ Running => Paths

\* The provider does nothing; a data centre may write its zone on a request.
LEMMA ProviderRests ==
  ASSUME Proved!TypeInv, UNCHANGED providerVars, zone' \in [Request -> Zone]
  PROVE  Proved!TypeInv' /\ Proved!Queued' = Proved!Queued
<1>1. Proved!Queued' = Proved!Queued
  BY DEF providerVars, Proved!Queued
<1>2. Proved!QueueInv'
  BY <1>1 DEF providerVars, Proved!TypeInv, Proved!QueueInv, Proved!TimerPerSubscription
<1>. QED  BY <1>1, <1>2 DEF providerVars, Proved!TypeInv

\* An event of the provider, once the message that caused it is received.
LEMMA ProviderMoves ==
  ASSUME Proved!TypeInv, Provider!Next, zone' \in [Request -> Zone],
         NEW n, NetTypes(n), NEW wanted,
         ~halted' => Stages(n, stage') /\ Once(n, Held, wanted),
         net' = Emitted(n, emitted', stage')
  PROVE  /\ Proved!TypeInv' /\ NetTypes(net')
         /\ ~halted' => Stages(net', stage') /\ Once(net', Proved!Queued', wanted)
<1>1. Proved!TypeInv'
  BY ProviderStep
<1>2. n \in Channel /\ emitted' \in Seq(Proved!Message)
  BY <1>1 DEF NetTypes, Proved!TypeInv
<1>3. NetTypes(net')
  BY <1>2, EmittedTypes
<1>4. ASSUME ~halted'
      PROVE  Stages(net', stage') /\ Once(net', Proved!Queued', wanted)
  <2>1. AnswersHeld(Held, emitted', Proved!Queued')
    BY <1>1, <1>4, ProviderAnswers
  <2>2. \A r \in Held : stage'[r] \in {"requested", "subscribed"}
    <3>. SUFFICES ASSUME NEW r \in Held PROVE stage'[r] \in {"requested", "subscribed"}
      OBVIOUS
    <3>. stage \in [Request -> {"new", "requested", "subscribed"}]
      BY DEF Proved!TypeInv, Proved!QueueInv
    <3>1. CASE r \in Proved!Queued
      <4>1. stage[r] = "subscribed" /\ r \in Request
        BY <3>1 DEF Proved!TypeInv, Proved!QueueInv, Proved!Queued
      <4>2. stage'[r] = "subscribed"
        BY <4>1 DEF Provider!Next, Provider!Requests, Provider!Subscribes, Provider!TimesOut,
             Provider!NodeReports
      <4>. QED  BY <4>2
    <3>2. CASE r \in Request /\ stage'[r] # stage[r]
      BY <3>2 DEF Provider!Next, Provider!Requests, Provider!Subscribes, Provider!TimesOut,
             Provider!NodeReports
    <3>. QED  BY <3>1, <3>2 DEF Held
  <2>3. \A i \in DOMAIN emitted' : stage'[emitted'[i].req] \in {"requested", "subscribed"}
    BY <2>1, <2>2 DEF AnswersHeld
  <2>. QED  BY <1>2, <1>4, <2>1, <2>3, EmittedOnce
<1>. QED  BY <1>1, <1>3, <1>4

\* Users and generator do nothing while the provider moves.
LEMMA ProviderPaths ==
  ASSUME PathInv, Paths, Provider!Next, UNCHANGED <<zone, userVars, generatorVars, stopped>>,
         NEW n, NetTypes(n),
         ~halted' => Stages(n, stage') /\ Once(n, Held, Waits),
         net' = Emitted(n, emitted', stage'),
         \A r \in Request : stage[r] = "new" /\ stage'[r] # "new" => r \in Waits
  PROVE  PathInv'
<1>0. zone' \in [Request -> Zone]
  BY DEF PathInv, Proved!TypeInv
<1>1. /\ Proved!TypeInv' /\ NetTypes(net')
      /\ ~halted' => Stages(net', stage') /\ Once(net', Proved!Queued', Waits)
  BY <1>0, ProviderMoves DEF PathInv
<1>2. UserTypes' /\ Waits' = Waits /\ Turns'
  BY DEF PathInv, Paths, UserTypes, Waits, Turns, userVars, generatorVars
<1>3. IdleNew'
  BY DEF Paths, IdleNew, Waits, userVars
<1>4. Running' => Paths'
  BY <1>1, <1>2, <1>3 DEF Running, Paths
<1>. QED  BY <1>1, <1>2, <1>4 DEF PathInv

LEMMA PathProviderReceives ==
  ASSUME PathInv, NEW from \in Topic \cup Request, ProviderReceives(from)
  PROVE  PathInv' /\ Provider!Next
<1>. DEFINE c == <<from, CloudProviderTopic>>
            m == Head(net[c])
            n == [net EXCEPT ![c] = Tail(@)]
<1>1. /\ ~halted /\ stopped = "no" /\ net[c] # <<>>
      /\ net' = Emitted(n, emitted', stage')
      /\ UNCHANGED <<zone, userVars, generatorVars, stopped>>
      /\ \/ /\ m.op = "VM_Req" /\ Provider!handleVmRequest(m.req)
            /\ stage' = [stage EXCEPT ![m.req] = "requested"]
         \/ /\ m.op = "VM_Sub" /\ Provider!handleVmSubscription(m.req)
            /\ stage' = [stage EXCEPT ![m.req] = "subscribed"]
         \/ /\ m.op = "Node_Update" /\ Provider!handleNodeUpdate(from, m.cores)
            /\ UNCHANGED stage
  BY DEF ProviderReceives, Arrived, First, Received, Provider!handleVmRequest,
     Provider!handleVmSubscription, Provider!handleNodeUpdate
<1>2. Paths
  BY <1>1 DEF PathInv, Running
<1>3. /\ c \in Channels
      /\ c[1] = from /\ c[2] = CloudProviderTopic /\ CloudProviderTopic \notin Topic \cup Request
  BY ChannelsAre, CloudConstants DEF Sender, CloudProviderTopic
<1>4. /\ net \in Channel /\ stage \in [Request -> {"new", "requested", "subscribed"}]
      /\ zone \in [Request -> Zone] /\ Topic \cap Request = {}
  BY CloudConstants DEF PathInv, NetTypes, Proved!TypeInv, Proved!QueueInv, Sender
<1>. HIDE DEF c
<1>5. /\ NetTypes(n) /\ m \in Wire /\ Shape(c, m) /\ n \in Channel
      /\ Stages(n, stage) /\ OnStage(c, m, stage)
  BY <1>1, <1>2, <1>3, <1>4, ReceivedTypes, ReceivedStages DEF PathInv, Paths, NetTypes
<1>. HIDE DEF m, n
<1>6. CASE from \in Topic
  <2>1. m = NodeUpdate(from)
    BY <1>3, <1>5, <1>6 DEF Shape
  <2>2. m.op = "Node_Update" /\ m.cores = getAvailableCores(from)
    BY <2>1 DEF NodeUpdate
  <2>3. Provider!NodeReports(from, getAvailableCores(from)) /\ UNCHANGED stage
    BY <1>1, <2>2 DEF Provider!NodeReports
  <2>4. Provider!Next
    BY <1>6, <2>3 DEF Provider!Next
  <2>5. Once(n, Proved!Queued, Waits)
    BY <1>1, <1>2, <1>3, <1>4, <2>2, ReceivedOther DEF Paths, Operation, n, m
  <2>6. Held = Proved!Queued
    BY <2>3 DEF Held
  <2>. QED  BY <1>1, <1>2, <1>5, <2>3, <2>4, <2>5, <2>6, ProviderPaths
<1>7. CASE from \in Request
  <2>1. Carries(m, from) /\ m.req = from /\ m.op \in Operation
    BY <1>3, <1>5, <1>7 DEF Shape, Carries, Operation
  <2>2. from \notin Proved!Queued /\ from \in Waits /\ Once(n, Proved!Queued \cup {from}, Waits)
    BY <1>1, <1>2, <1>3, <1>4, <1>7, <2>1, ReceivedOnce DEF Paths, n, m
  <2>3. ~Somewhere(n, from)
    BY <1>7, <2>2 DEF Once
  <2>4. \/ /\ stage[from] = "new" /\ stage' = [stage EXCEPT ![from] = "requested"]
           /\ Provider!Requests(from)
        \/ /\ stage[from] = "requested" /\ stage' = [stage EXCEPT ![from] = "subscribed"]
           /\ Provider!Subscribes(from)
    <3>1. stage[from] = IF m.op = "VM_Req" THEN "new" ELSE "requested"
      BY <1>3, <1>5, <1>7, <2>1 DEF OnStage, StageOf
    <3>2. zone' = [zone EXCEPT ![from] = zone[from]] /\ zone' = zone
      BY <1>1, <1>4
    <3>3. CASE m.op = "VM_Req"
      BY <1>1, <2>1, <3>1, <3>2, <3>3 DEF Provider!Requests
    <3>4. CASE m.op = "VM_Sub"
      BY <1>1, <2>1, <3>1, <3>2, <3>4 DEF Provider!Subscribes
    <3>. QED  BY <2>1, <3>3, <3>4 DEF Operation
  <2>5. Provider!Next
    BY <1>7, <2>4 DEF Provider!Next
  <2>6. /\ \A q \in Request : q # from => stage'[q] = stage[q]
        /\ stage'[from] # stage[from]
    BY <1>4, <1>7, <2>4
  <2>7. Held = Proved!Queued \cup {from}
    BY <1>7, <2>6 DEF Held
  <2>8. Stages(n, stage')
    BY <1>5, <2>3, <2>6, NetRequests, StagesMove
  <2>. QED  BY <1>1, <1>2, <1>5, <2>2, <2>5, <2>6, <2>7, <2>8, ProviderPaths
<1>. QED  BY <1>6, <1>7

LEMMA PathProviderTimesOut ==
  ASSUME PathInv, NEW r \in Request, ProviderTimesOut(r)
  PROVE  PathInv'
<1>1. /\ ~halted /\ stopped = "no" /\ stage' = stage
      /\ net' = Emitted(net, emitted', stage')
      /\ UNCHANGED <<zone, userVars, generatorVars, stopped>>
      /\ Provider!TimesOut(r)
  BY DEF ProviderTimesOut, Provider!handleSubscriptionTimeout, Provider!TimesOut
<1>2. Paths
  BY <1>1 DEF PathInv, Running
<1>3. Provider!Next
  BY <1>1 DEF Provider!Next
<1>4. Held = Proved!Queued
  BY <1>1 DEF Held
<1>. QED  BY <1>1, <1>2, <1>3, <1>4, ProviderPaths DEF PathInv, Paths

-----------------------------------------------------------------------------
(* The data centres *)

BladeCommand == [op : {"VM_Req", "VM_Sub", "APP_Req", "none"}, req : Request]

CentreTypes ==
  /\ pool = [d \in Topic |-> pool[d]] /\ \A d \in Topic : pool[d] \in [Node(d) -> Counters]
  /\ lan = [d \in Topic |-> lan[d]] /\ \A d \in Topic : lan[d] \in [Node(d) -> Seq(BladeCommand)]
  /\ vms = [d \in Topic |-> vms[d]] /\ \A d \in Topic : vms[d] \in [Node(d) -> SUBSET Request]
  /\ apps \subseteq Request

LEMMA VmsAre ==
  ASSUME NEW r \in Request
  PROVE  /\ Len(Vms[r]) \in Nat \ {0} /\ DOMAIN Vms[r] = 1..Len(Vms[r])
         /\ \A i \in 1..Len(Vms[r]) : Vms[r][i] \in VmType
<1>. DEFINE s == Vms[r]
<1>1. s \in Seq(VmType) /\ s # <<>>
  BY CloudConstants
<1>2. Len(s) \in Nat \ {0} /\ DOMAIN s = 1..Len(s) /\ \A i \in 1..Len(s) : s[i] \in VmType
  <2>. HIDE DEF s
  <2>. QED  BY <1>1
<1>. QED  BY <1>2

\* A request that is granted goes to nodes of the pool, one per VM, whose
\* pools are those of the placement.
LEMMA SuccessIs ==
  ASSUME NEW d \in Topic, NEW p \in [Node(d) -> Counters], NEW r \in Request,
         NEW nodes \in Successes(p, Vms[r])
  PROVE  /\ IsChoice(Vms[r], nodes, Len(Vms[r]), Node(d))
         /\ Placing(p, Vms[r], nodes)[Len(Vms[r])] \in [Node(d) -> Counters]
<1>. DEFINE l == Len(Vms[r])
<1>1. l \in Nat /\ l \in 0..l /\ \A i \in 1..l : Vms[r][i] \in VmType
  BY VmsAre
<1>2. DOMAIN p = Node(d)
  OBVIOUS
<1>3. IsChoice(Vms[r], nodes, l, Node(d))
  BY <1>1, <1>2 DEF IsChoice, Successes, Placements
<1>4. IsPlacement(Placing(p, Vms[r], nodes), Node(d), p, Vms[r], nodes, l)
  BY <1>3, PlacingIs
<1>. QED  BY <1>1, <1>3, <1>4 DEF IsPlacement

\* A request that is not granted gives back all it got.
LEMMA FailureIs ==
  ASSUME NEW d \in Topic, pool[d] \in [Node(d) -> Counters], NEW r \in Request,
         NEW nodes \in Failures(pool[d], Vms[r])
  PROVE  GivenBack(d, r, nodes) = pool[d]
<1>. DEFINE p == pool[d]
            l == Len(Vms[r])
<1>1. l \in Nat /\ \A i \in 1..l : Vms[r][i] \in VmType
  BY VmsAre
<1>2. PICK k \in 0..(l - 1) : nodes \in Placements(p, Vms[r], k)
  <2>. HIDE DEF p, l
  <2>. QED  BY DEF Failures, l, p
<1>3. k \in Nat /\ 1..k \subseteq 1..l /\ nodes \in [1..k -> Node(d)]
  BY <1>1, <1>2 DEF Placements
<1>4. IsChoice(Vms[r], nodes, k, Node(d))
  BY <1>1, <1>3 DEF IsChoice
<1>5. Len(nodes) = k
  BY <1>3, NodesLen
<1>. QED  BY <1>4, <1>5, RollBackRestores DEF GivenBack

\* What becomes of an entry of a table of data centres.
LEMMA EntryOf ==
  ASSUME NEW f, f = [d \in Topic |-> f[d]], NEW d \in Topic, NEW x
  PROVE  LET g == [f EXCEPT ![d] = x]
         IN  /\ g = [e \in Topic |-> g[e]] /\ g[d] = x
             /\ \A e \in Topic : e # d => g[e] = f[e]
OBVIOUS

LEMMA DispatchedType ==
  ASSUME NEW N, NEW commands \in [N -> Seq(BladeCommand)], NEW nodes, NEW c \in BladeCommand
  PROVE  Dispatched(commands, nodes, c) \in [N -> Seq(BladeCommand)]
<1>1. \A n \in N : Append(commands[n], c) \in Seq(BladeCommand)
  <2>. SUFFICES ASSUME NEW n \in N PROVE Append(commands[n], c) \in Seq(BladeCommand)
    OBVIOUS
  <2>1. commands[n] \in Seq(BladeCommand)
    OBVIOUS
  <2>. QED  BY <2>1
<1>. QED  BY <1>1 DEF Dispatched

\* Everybody but the provider: what an action has to keep.
LEMMA OthersMove ==
  ASSUME PathInv, UNCHANGED providerVars, zone' \in [Request -> Zone],
         NetTypes(net'), UserTypes',
         Running' => /\ Stages(net', stage) /\ Once(net', Proved!Queued, Waits')
                     /\ Turns' /\ IdleNew'
  PROVE  PathInv'
<1>1. Proved!TypeInv' /\ Proved!Queued' = Proved!Queued /\ stage' = stage
  BY ProviderRests DEF PathInv, providerVars
<1>2. Running' => Paths'
  BY <1>1 DEF Paths
<1>. QED  BY <1>1, <1>2 DEF PathInv

\* A data centre does not disturb the users.
LEMMA CentrePaths ==
  ASSUME PathInv, UNCHANGED <<providerVars, user, generatorVars>>, zone' \in [Request -> Zone],
         NetTypes(net'),
         Running' => Stages(net', stage) /\ Once(net', Proved!Queued, Waits),
         Running' => Running
  PROVE  PathInv'
<1>1. UserTypes' /\ Waits' = Waits
  BY DEF PathInv, UserTypes, Waits
<1>2. Running => Turns' /\ IdleNew'
  BY DEF PathInv, Paths, Turns, IdleNew, generatorVars, providerVars
<1>. QED  BY <1>1, <1>2, OthersMove

LEMMA ZoneKept == PathInv => zone \in [Request -> Zone]
BY DEF PathInv, Proved!TypeInv

\* The answer to the first message that came from the provider.
LEMMA AnswerPaths ==
  ASSUME PathInv, Paths, NEW d \in Topic, net[<<CloudProviderTopic, d>>] # <<>>,
         NEW answer \in Wire,
         LET m == Head(net[<<CloudProviderTopic, d>>])
         IN  /\ answer.op = m.op /\ Carries(answer, m.req) /\ Shape(<<d, m.req>>, answer)
             /\ \/ net' = Sent(Received(CloudProviderTopic, d), d, m.req, answer)
                \/ net' = Sent(Sent(Received(CloudProviderTopic, d), d, CloudProviderTopic,
                                    NodeUpdate(d)),
                               d, m.req, answer)
  PROVE  NetTypes(net') /\ Stages(net', stage) /\ Once(net', Proved!Queued, Waits)
<1>. DEFINE c == <<CloudProviderTopic, d>>
            m == Head(net[c])
            r == m.req
            n == [net EXCEPT ![c] = Tail(@)]
            u == Sent(n, d, CloudProviderTopic, NodeUpdate(d))
<1>1. c \in Channels /\ c[1] = CloudProviderTopic /\ c[2] = d /\ net[c] # <<>> /\ net \in Channel
  BY ChannelsAre DEF PathInv, NetTypes
<1>2. net' = Sent(n, d, r, answer) \/ net' = Sent(u, d, r, answer)
  BY DEF Received
<1>3. answer.op = m.op /\ Carries(answer, r) /\ Shape(<<d, r>>, answer)
  OBVIOUS
<1>. HIDE DEF c
<1>4. /\ NetTypes(n) /\ n \in Channel /\ m \in Wire /\ Shape(c, m)
      /\ Stages(n, stage) /\ OnStage(c, m, stage)
  BY <1>1, ReceivedTypes, ReceivedStages DEF PathInv, Paths, NetTypes
<1>5. CloudProviderTopic \notin Topic \cup Request /\ Topic \cap Request = {}
  BY CloudConstants DEF Sender, CloudProviderTopic
<1>6. r \in Request /\ Carries(m, r) /\ m.op \in Operation
  <2>1. m.op \in Operation
    BY <1>1, <1>4 DEF Shape
  <2>. QED  BY <1>4, <2>1, WireRequests DEF Carries, Operation
<1>7. Once(n, Proved!Queued \cup {r}, Waits) /\ r \notin Proved!Queued
  <2>1. Once(net, Proved!Queued, Waits)
    BY DEF Paths
  <2>2. net[c] # <<>> /\ Carries(Head(net[c]), r) /\ r \in Request
    BY <1>1, <1>6
  <2>. HIDE DEF r, m, u
  <2>. QED  BY SMTT(60), <1>1, <2>1, <2>2, ReceivedOnce
<1>8. <<d, r>> \in Channels /\ <<d, CloudProviderTopic>> \in Channels
  BY <1>6, ChannelsAre
<1>9. OnStage(<<d, r>>, answer, stage)
  <2>1. <<d, r>>[1] \notin Request /\ c[1] \notin Request
    BY <1>1, <1>5
  <2>. QED  BY <1>3, <1>4, <1>6, <2>1 DEF OnStage, StageOf, Carries
<1>. DEFINE w == NodeUpdate(d)
<1>10. w \in Wire /\ w.op \notin Operation /\ Shape(<<d, CloudProviderTopic>>, w)
  <2>1. w \in Wire /\ w.op \notin Operation
    BY CoresAreNaturals DEF NodeUpdate, Wire, Operation
  <2>2. w = NodeUpdate(<<d, CloudProviderTopic>>[1])
    OBVIOUS
  <2>3. <<d, CloudProviderTopic>>[1] = d /\ <<d, CloudProviderTopic>>[2] = CloudProviderTopic
    OBVIOUS
  <2>. HIDE DEF w
  <2>. QED  BY <1>5, <2>1, <2>2, <2>3 DEF Shape
<1>11. NetTypes(u) /\ Stages(u, stage) /\ Once(u, Proved!Queued \cup {r}, Waits) /\ u \in Channel
  <2>. HIDE DEF n, w
  <2>1. OnStage(<<d, CloudProviderTopic>>, w, stage)
    BY <1>10 DEF OnStage
  <2>. QED  BY <1>4, <1>7, <1>8, <1>10, <2>1, SentTypes, SentStages, SentOther DEF NetTypes, w
<1>. HIDE DEF n, u, r
<1>12. (Proved!Queued \cup {r}) \ {r} = Proved!Queued /\ r \in Proved!Queued \cup {r}
  BY <1>7
<1>13. ASSUME NEW x, NetTypes(x), Stages(x, stage), Once(x, Proved!Queued \cup {r}, Waits)
       PROVE  LET y == Sent(x, d, r, answer)
              IN  NetTypes(y) /\ Stages(y, stage) /\ Once(y, Proved!Queued, Waits)
  <2>1. x \in Channel
    BY <1>13 DEF NetTypes
  <2>. DEFINE y == Sent(x, d, r, answer)
  <2>2. NetTypes(y)
    BY <1>3, <1>8, <1>13, SentTypes
  <2>3. Stages(y, stage)
    BY <1>8, <1>9, <1>13, <2>1, SentStages
  <2>4. Once(y, (Proved!Queued \cup {r}) \ {r}, Waits)
    BY <1>3, <1>8, <1>12, <1>13, <2>1, SentOnce
  <2>. QED  BY <1>12, <2>2, <2>3, <2>4
<1>. QED  BY <1>2, <1>4, <1>7, <1>11, <1>13

LEMMA PathCentreReceivesRequest ==
  ASSUME PathInv, CentreTypes, NEW d \in Topic, CentreReceivesRequest(d)
  PROVE  PathInv' /\ CentreTypes'
<1>. DEFINE c == <<CloudProviderTopic, d>>
            m == Head(net[c])
            r == m.req
<1>1. /\ Running /\ net[c] # <<>>
      /\ Accepts(d, m.op, r) \/ Rejects(d, m.op, r)
      /\ zone' = Relabelled(d, m.op, r)
      /\ UNCHANGED <<providerVars, vms, apps, user, generatorVars, stopped>>
  BY DEF CentreReceivesRequest, requestHandlers, Arrived, First, Running, userVars
<1>2. Paths /\ c \in Channels /\ c[1] = CloudProviderTopic /\ c[2] = d
  BY <1>1, ChannelsAre DEF PathInv
<1>3. CloudProviderTopic \notin Topic \cup Request /\ Topic \cap Request = {}
  BY CloudConstants DEF Sender, CloudProviderTopic
<1>4. m \in Wire /\ m.op \in Operation /\ r \in Request
  <2>. HIDE DEF c
  <2>1. m \in Wire /\ Shape(c, m)
    BY <1>1, <1>2, ReceivedTypes DEF PathInv
  <2>2. m.op \in Operation
    BY <1>2, <2>1 DEF Shape
  <2>. QED  BY <2>1, <2>2, WireRequests
<1>5. zone' \in [Request -> Zone]
  BY <1>1, ZoneKept, CloudConstants DEF Relabelled
<1>. DEFINE op == m.op
<1>6. op \in Operation
  BY <1>4
<1>7. /\ <<d, r>>[1] = d /\ <<d, r>>[2] = r /\ r \notin Topic /\ r # CloudProviderTopic
      /\ d \notin Request /\ d # CloudProviderTopic
  BY <1>3, <1>4
<1>. HIDE DEF c, m, r, op
<1>8. CASE Accepts(d, op, r)
  <2>1. PICK nodes \in Successes(pool[d], Vms[r]) :
          /\ pool' = [pool EXCEPT ![d] = Placing(pool[d], Vms[r], nodes)[Len(Vms[r])]]
          /\ lan' = [lan EXCEPT ![d] = Dispatched(lan[d], nodes, CommandFor(op, r))]
          /\ net' = Sent(Received(CloudProviderTopic, d), d, r, Acceptance(op, r, nodes))
    BY <1>8 DEF Accepts
  <2>2. pool[d] \in [Node(d) -> Counters] /\ lan[d] \in [Node(d) -> Seq(BladeCommand)]
    BY DEF CentreTypes
  <2>3. /\ nodes \in [1..Len(Vms[r]) -> Node(d)]
        /\ Placing(pool[d], Vms[r], nodes)[Len(Vms[r])] \in [Node(d) -> Counters]
    BY <1>4, <2>2, SuccessIs DEF IsChoice
  <2>4. CommandFor(op, r) \in BladeCommand
    BY <1>4, <1>6 DEF CommandFor, BladeCommand, Operation
  <2>5. CentreTypes'
    <3>1. Dispatched(lan[d], nodes, CommandFor(op, r)) \in [Node(d) -> Seq(BladeCommand)]
      BY <2>2, <2>4, DispatchedType
    <3>. DEFINE P == Placing(pool[d], Vms[r], nodes)[Len(Vms[r])]
                L == Dispatched(lan[d], nodes, CommandFor(op, r))
    <3>2. P \in [Node(d) -> Counters] /\ L \in [Node(d) -> Seq(BladeCommand)]
      BY <2>3, <3>1
    <3>3. pool' = [pool EXCEPT ![d] = P] /\ lan' = [lan EXCEPT ![d] = L]
      BY <2>1
    <3>. HIDE DEF P, L
    <3>4. /\ pool' = [e \in Topic |-> pool'[e]] /\ \A e \in Topic : pool'[e] \in [Node(e) -> Counters]
          /\ lan' = [e \in Topic |-> lan'[e]]
          /\ \A e \in Topic : lan'[e] \in [Node(e) -> Seq(BladeCommand)]
      BY <3>2, <3>3, EntryOf DEF CentreTypes
    <3>. QED  BY <1>1, <3>4 DEF CentreTypes
  <2>6. /\ Acceptance(op, r, nodes) \in Wire /\ Carries(Acceptance(op, r, nodes), r)
        /\ Acceptance(op, r, nodes).op = op
        /\ Acceptance(op, r, nodes).nodes = nodes
    <3>1. nodes \in Seq(Nat)
      <4>1. Len(Vms[r]) \in Nat /\ Node(d) \subseteq Nat
        BY <1>4, VmsAre, CloudConstants DEF Node
      <4>2. nodes \in [1..Len(Vms[r]) -> Nat]
        BY <2>3, <4>1
      <4>. QED  BY <4>1, <4>2
    <3>. QED  BY <1>4, <1>6, <3>1 DEF Acceptance, Wire, Carries, Operation
  <2>7. Shape(<<d, r>>, Acceptance(op, r, nodes))
    <3>. DEFINE a == Acceptance(op, r, nodes)
                k == <<d, r>>
    <3>1. k[1] = d /\ k[2] = r /\ Carries(a, r) /\ a.nodes = nodes
      BY <2>6
    <3>. HIDE DEF a, k
    <3>2. Shape(k, a)
      BY <1>3, <1>7, <2>3, <3>1 DEF Shape
    <3>. QED  BY <3>2 DEF a, k
  <2>8. NetTypes(net') /\ Stages(net', stage) /\ Once(net', Proved!Queued, Waits)
    BY <1>1, <1>2, <2>1, <2>6, <2>7, AnswerPaths DEF c, m, r, op
  <2>. QED  BY <1>1, <1>5, <2>5, <2>8, CentrePaths
<1>9. CASE Rejects(d, op, r)
  <2>1. PICK nodes \in Failures(pool[d], Vms[r]) :
          /\ pool' = [pool EXCEPT ![d] = GivenBack(d, r, nodes)]
          /\ net' = Rejection(d, op, r) /\ lan' = lan
    BY <1>9 DEF Rejects
  <2>2. pool' = pool
    <3>1. GivenBack(d, r, nodes) = pool[d]
      BY <1>4, FailureIs DEF CentreTypes
    <3>. QED  BY <2>1, <3>1 DEF CentreTypes
  <2>3. CentreTypes'
    BY <1>1, <2>1, <2>2 DEF CentreTypes
  <2>. DEFINE a == VmMessage(op, r, "rejected")
              k == <<d, r>>
  <2>4. a \in Wire /\ Carries(a, r) /\ a.op = op /\ a.result # "accepted"
    BY <1>4, <1>6 DEF VmMessage, Wire, Carries, Operation
  <2>5. k[1] = d /\ k[2] = r
    OBVIOUS
  <2>. HIDE DEF a, k
  <2>6. Shape(k, a)
    BY <1>3, <1>7, <2>4, <2>5 DEF Shape
  <2>7. net' = Sent(Sent(Received(CloudProviderTopic, d), d, CloudProviderTopic, NodeUpdate(d)),
                    d, r, a)
    BY <2>1 DEF Rejection, a
  <2>8. NetTypes(net') /\ Stages(net', stage) /\ Once(net', Proved!Queued, Waits)
    BY <1>1, <1>2, <2>4, <2>6, <2>7, AnswerPaths DEF c, m, r, op, k
  <2>. QED  BY <1>1, <1>5, <2>3, <2>8, CentrePaths
<1>. QED  BY <1>1, <1>8, <1>9 DEF op

\* What becomes of an entry of a table of nodes of data centres.
LEMMA NodeEntryOf ==
  ASSUME NEW f, f = [d \in Topic |-> f[d]], NEW d \in Topic, NEW n \in Node(d), NEW S,
         \A e \in Topic : f[e] \in [Node(e) -> S], NEW x \in S
  PROVE  LET g == [f EXCEPT ![d][n] = x]
         IN  /\ g = [e \in Topic |-> g[e]]
             /\ \A e \in Topic : g[e] \in [Node(e) -> S]
             /\ g[d][n] = x
             /\ \A e \in Topic : \A m \in Node(e) : e # d \/ m # n => g[e][m] = f[e][m]
<1>. DEFINE row == [f[d] EXCEPT ![n] = x]
            g == [f EXCEPT ![d] = row]
<1>1. [f EXCEPT ![d][n] = x] = g
  OBVIOUS
<1>2. row \in [Node(d) -> S] /\ row[n] = x /\ \A m \in Node(d) : m # n => row[m] = f[d][m]
  OBVIOUS
<1>. HIDE DEF row
<1>3. g = [e \in Topic |-> g[e]] /\ g[d] = row /\ \A e \in Topic : e # d => g[e] = f[e]
  BY EntryOf
<1>. HIDE DEF g
<1>. QED  BY <1>1, <1>2, <1>3

LEMMA CommandOf ==
  ASSUME CentreTypes, NEW d \in Topic, NEW n \in Node(d), lan[d][n] # <<>>
  PROVE  /\ Head(lan[d][n]) \in BladeCommand /\ Head(lan[d][n]) = lan[d][n][1]
         /\ Tail(lan[d][n]) \in Seq(BladeCommand)
<1>. DEFINE q == lan[d][n]
<1>1. q \in Seq(BladeCommand) /\ q # <<>>
  BY DEF CentreTypes
<1>. HIDE DEF q
<1>2. Head(q) \in BladeCommand /\ Head(q) = q[1] /\ Tail(q) \in Seq(BladeCommand)
  BY <1>1
<1>. QED  BY <1>2 DEF q

LEMMA PathBladeReceives ==
  ASSUME PathInv, CentreTypes, NEW d \in Topic, NEW n \in Node(d), BladeReceives(d, n)
  PROVE  PathInv' /\ CentreTypes'
<1>. DEFINE c == Head(lan[d][n])
            rest == Tail(lan[d][n])
<1>1. /\ lan[d][n] # <<>> /\ lan' = [lan EXCEPT ![d][n] = rest]
      /\ \/ vms' = [vms EXCEPT ![d][n] = vms[d][n] \cup {c.req}] /\ apps' = apps
         \/ vms' = vms /\ (apps' = apps \/ apps' = apps \cup {c.req})
      /\ UNCHANGED <<providerVars, zone, pool, userVars, generatorVars, net>> /\ Running
  BY DEF BladeReceives, Running
<1>2. c \in BladeCommand /\ rest \in Seq(BladeCommand) /\ c.req \in Request
  BY <1>1, CommandOf DEF BladeCommand
<1>3. vms[d][n] \cup {c.req} \subseteq Request
  BY <1>2 DEF CentreTypes
<1>. HIDE DEF c, rest
<1>4. /\ lan' = [e \in Topic |-> lan'[e]]
      /\ \A e \in Topic : lan'[e] \in [Node(e) -> Seq(BladeCommand)]
  BY <1>1, <1>2, NodeEntryOf DEF CentreTypes
<1>5. /\ vms' = [e \in Topic |-> vms'[e]]
      /\ \A e \in Topic : vms'[e] \in [Node(e) -> SUBSET Request]
  <2>1. CASE vms' = vms
    BY <2>1 DEF CentreTypes
  <2>2. CASE vms' = [vms EXCEPT ![d][n] = vms[d][n] \cup {c.req}]
    BY <1>3, <2>2, NodeEntryOf DEF CentreTypes
  <2>. QED  BY <1>1, <2>1, <2>2
<1>6. CentreTypes'
  BY <1>1, <1>2, <1>4, <1>5 DEF CentreTypes
<1>7. PathInv'
  BY <1>1, ZoneKept, CentrePaths DEF PathInv, Paths, userVars
<1>. QED  BY <1>6, <1>7

LEMMA PathHandleApplicationRequest ==
  ASSUME PathInv, CentreTypes, NEW d \in Topic, NEW r \in Request, handleApplicationRequest(d, r)
  PROVE  PathInv' /\ CentreTypes'
<1>. DEFINE c == <<r, d>>
            m == Head(net[c])
<1>1. /\ Running /\ net[c] # <<>> /\ net' = [net EXCEPT ![c] = Tail(@)]
      /\ \/ lan' = lan
         \/ /\ m.node # 0
            /\ lan' = [lan EXCEPT ![d][m.node] = Append(@, [op |-> "APP_Req", req |-> r])]
      /\ UNCHANGED <<providerVars, zone, pool, vms, apps, userVars, generatorVars>>
  BY DEF handleApplicationRequest, Arrived, First, Received, Running
<1>2. Paths /\ c \in Channels /\ net \in Channel /\ c[1] = r /\ c[2] = d
  BY <1>1, ChannelsAre DEF PathInv, NetTypes
<1>. HIDE DEF c
<1>3. NetTypes(net') /\ m \in Wire /\ Shape(c, m) /\ Stages(net', stage)
  BY <1>1, <1>2, ReceivedTypes, ReceivedStages DEF PathInv, Paths
<1>. HIDE DEF m
<1>4. m.op = "APP_Req" /\ m.node \in Node(d) \cup {0}
  BY <1>2, <1>3 DEF Shape
<1>5. Once(net', Proved!Queued, Waits)
  <2>1. Once(net, Proved!Queued, Waits) /\ m.op \notin Operation
    BY <1>2, <1>4 DEF Paths, Operation
  <2>. QED  BY <1>1, <1>2, <2>1, ReceivedOther DEF m
<1>6. PathInv'
  BY <1>1, <1>3, <1>5, ZoneKept, CentrePaths DEF userVars
<1>7. CentreTypes'
  <2>1. CASE lan' = lan
    BY <1>1, <2>1 DEF CentreTypes
  <2>2. CASE m.node # 0 /\ lan' = [lan EXCEPT ![d][m.node] = Append(@, [op |-> "APP_Req", req |-> r])]
    <3>. DEFINE n == m.node
                q == lan[d][n]
                x == Append(q, [op |-> "APP_Req", req |-> r])
    <3>1. n \in Node(d) /\ q \in Seq(BladeCommand) /\ [op |-> "APP_Req", req |-> r] \in BladeCommand
      BY <1>4, <2>2 DEF CentreTypes, BladeCommand
    <3>2. lan' = [lan EXCEPT ![d][n] = x]
      BY <2>2
    <3>. HIDE DEF n
    <3>3. x \in Seq(BladeCommand)
      <4>. HIDE DEF q
      <4>. QED  BY <3>1
    <3>. HIDE DEF x
    <3>4. /\ lan' = [e \in Topic |-> lan'[e]]
          /\ \A e \in Topic : lan'[e] \in [Node(e) -> Seq(BladeCommand)]
      BY <3>1, <3>2, <3>3, NodeEntryOf DEF CentreTypes
    <3>. QED  BY <1>1, <3>4 DEF CentreTypes
  <2>. QED  BY <1>1, <2>1, <2>2
<1>. QED  BY <1>6, <1>7

LEMMA PathHandleManageMachines ==
  ASSUME PathInv, CentreTypes, NEW d \in Topic, handleManageMachines(d)
  PROVE  PathInv' /\ CentreTypes'
<1>1. /\ UNCHANGED <<providerVars, zone, centreVars, userVars, generatorVars, net>>
      /\ Running /\ ~Running'
  BY DEF handleManageMachines, Running
<1>2. PathInv'
  BY <1>1, ZoneKept, CentrePaths DEF PathInv, userVars
<1>. QED  BY <1>1, <1>2 DEF CentreTypes, centreVars

-----------------------------------------------------------------------------
(* The users *)

\* A user makes a request it holds.
LEMMA RequestPaths ==
  ASSUME NEW r \in Request, NEW op \in Operation, NEW n, NetTypes(n), NEW asked, Stages(n, asked),
         asked[r] = IF op = "VM_Req" THEN "new" ELSE "requested",
         NEW held, NEW wanted, Once(n, held \cup {r}, wanted), r \notin held
  PROVE  LET s == Sent(n, r, CloudProviderTopic, VmMessage(op, r, "none"))
         IN  NetTypes(s) /\ Stages(s, asked) /\ Once(s, held, wanted)
<1>. DEFINE m == VmMessage(op, r, "none")
            c == <<r, CloudProviderTopic>>
            s == Sent(n, r, CloudProviderTopic, m)
<1>1. m \in Wire /\ Carries(m, r) /\ m.op = op /\ m.req = r /\ m.result = "none"
  BY DEF VmMessage, Wire, Carries, Operation
<1>2. c \in Channels /\ c[1] = r /\ c[2] = CloudProviderTopic /\ n \in Channel
  BY ChannelsAre DEF NetTypes
<1>3. CloudProviderTopic \notin Topic \cup Request /\ r \notin Topic /\ r # CloudProviderTopic
  BY CloudConstants DEF Sender, CloudProviderTopic
<1>. HIDE DEF m, c
<1>4. Shape(c, m)
  BY <1>1, <1>2, <1>3 DEF Shape
<1>5. OnStage(c, m, asked)
  BY <1>1, <1>2 DEF OnStage, StageOf
<1>6. NetTypes(s)
  BY <1>1, <1>2, <1>4, SentTypes DEF c
<1>7. Stages(s, asked)
  BY <1>1, <1>2, <1>5, SentStages DEF c
<1>8. (held \cup {r}) \ {r} = held /\ r \in held \cup {r}
  OBVIOUS
<1>9. Once(s, (held \cup {r}) \ {r}, wanted)
  BY <1>1, <1>2, <1>8, SentOnce DEF c
<1>. QED  BY <1>6, <1>7, <1>8, <1>9 DEF m

\* A user that has not asked asks.
LEMMA AskPaths ==
  ASSUME PathInv, Paths, NEW r \in Request, user[r] = "idle",
         net' = Sent(net, r, CloudProviderTopic, VmMessage("VM_Req", r, "none")),
         user' = [user EXCEPT ![r] = "asking"]
  PROVE  /\ NetTypes(net') /\ Stages(net', stage) /\ Once(net', Proved!Queued, Waits')
         /\ UserTypes' /\ user'[r] = "asking"
         /\ \A q \in Request : q # r => user'[q] = user[q]
<1>1. UserTypes' /\ user'[r] = "asking" /\ \A q \in Request : q # r => user'[q] = user[q]
  BY DEF PathInv, UserTypes
<1>2. r \notin Waits /\ Waits' = Waits \cup {r}
  BY <1>1 DEF Waits
<1>3. NetTypes(net) /\ Stages(net, stage) /\ stage[r] = "new" /\ Once(net, Proved!Queued, Waits)
  BY DEF PathInv, Paths, IdleNew
<1>4. r \notin Proved!Queued
  BY <1>2, <1>3 DEF Once
<1>5. Once(net, Proved!Queued \cup {r}, Waits')
  BY <1>2, <1>3, NewOnce
<1>. QED  BY <1>1, <1>3, <1>4, <1>5, RequestPaths DEF Operation

\* A user receives an answer: it held no request, and the data centre that
\* accepted it names its nodes.
LEMMA ReadPaths ==
  ASSUME PathInv, Paths, NEW r \in Request, NEW from \in Sender, net[<<from, r>>] # <<>>
  PROVE  LET m == Head(net[<<from, r>>])
             n == [net EXCEPT ![<<from, r>>] = Tail(@)]
         IN  /\ m.op \in Operation
             /\ m.result = "accepted" => from \in Topic /\ m.nodes \in [1..Len(Vms[r]) -> Node(from)]
             /\ stage[r] = IF m.op = "VM_Req" THEN "requested" ELSE "subscribed"
             /\ user[r] \in {"asking", "subscribing"} /\ r \notin Proved!Queued
             /\ NetTypes(n) /\ Stages(n, stage)
             /\ Once(n, Proved!Queued \cup {r}, Waits)
             /\ Once(n, Proved!Queued, Waits \ {r})
<1>. DEFINE c == <<from, r>>
            m == Head(net[c])
            n == [net EXCEPT ![c] = Tail(@)]
<1>1. c \in Channels /\ c[1] = from /\ c[2] = r /\ net \in Channel /\ net[c] # <<>>
  BY ChannelsAre DEF PathInv, NetTypes, Sender, CloudProviderTopic
<1>2. from \notin Request /\ CloudProviderTopic \notin Topic \cup Request
  BY CloudConstants DEF Sender, CloudProviderTopic
<1>. HIDE DEF c
<1>3. NetTypes(n) /\ m \in Wire /\ Shape(c, m) /\ Stages(n, stage) /\ OnStage(c, m, stage)
  BY <1>1, ReceivedTypes, ReceivedStages DEF PathInv, Paths
<1>. HIDE DEF m, n
<1>4. /\ Carries(m, r) /\ m.op \in Operation /\ m.req = r
      /\ m.result = "accepted" => from \in Topic /\ m.nodes \in [1..Len(Vms[r]) -> Node(from)]
  BY <1>1, <1>2, <1>3 DEF Shape, Carries, Operation, Sender, CloudProviderTopic
<1>5. stage[r] = IF m.op = "VM_Req" THEN "requested" ELSE "subscribed"
  BY <1>1, <1>2, <1>3, <1>4 DEF OnStage, StageOf
<1>6. Once(net, Proved!Queued, Waits)
  BY DEF Paths
<1>7. r \notin Proved!Queued /\ r \in Waits /\ Once(n, Proved!Queued \cup {r}, Waits)
  <2>1. Carries(Head(net[c]), r)
    BY <1>4 DEF m
  <2>. QED  BY <1>1, <1>6, <2>1, ReceivedOnce DEF n
<1>8. Once(n, Proved!Queued, Waits \ {r})
  <2>1. (Proved!Queued \cup {r}) \ {r} = Proved!Queued
    BY <1>7
  <2>. QED  BY <1>7, <2>1, EndedOnce
<1>9. user[r] \in {"asking", "subscribing"}
  BY <1>7 DEF Waits
<1>. QED  BY <1>3, <1>4, <1>5, <1>7, <1>8, <1>9 DEF c, m, n

LEMMA CentreUntouched == CentreTypes /\ UNCHANGED centreVars => CentreTypes'
BY DEF CentreTypes, centreVars

\* The generator does not see what an EdgeUser does.
LEMMA EdgeUserTurns ==
  ASSUME Turns, NEW r \in EdgeUser, UNCHANGED generatorVars,
         \A q \in Request : q # r => user'[q] = user[q]
  PROVE  Turns'
<1>1. \A q \in Generated : q \in Request /\ user'[q] = user[q]
  BY CloudConstants DEF EdgeUser
<1>2. {q \in Generated : user[q] # "idle"} = {q \in Generated : user'[q] # "idle"}
  BY <1>1
<1>. QED  BY <1>1, <1>2 DEF Turns, generatorVars

LEMMA PathStartup ==
  ASSUME PathInv, CentreTypes, NEW r \in EdgeUser, startup(r)
  PROVE  PathInv' /\ CentreTypes'
<1>1. /\ Running /\ user[r] = "idle" /\ user' = [user EXCEPT ![r] = "asking"]
      /\ net' = Sent(net, r, CloudProviderTopic, VmMessage("VM_Req", r, "none"))
      /\ UNCHANGED <<providerVars, zone, centreVars, generatorVars>>
  BY DEF startup, Running
<1>2. Paths /\ r \in Request
  BY <1>1 DEF PathInv, EdgeUser
<1>3. /\ NetTypes(net') /\ Stages(net', stage) /\ Once(net', Proved!Queued, Waits')
      /\ UserTypes' /\ user'[r] = "asking"
      /\ \A q \in Request : q # r => user'[q] = user[q]
  BY <1>1, <1>2, AskPaths
<1>4. Turns'
  BY <1>1, <1>2, <1>3, EdgeUserTurns DEF Paths
<1>5. IdleNew'
  BY <1>1, <1>2, <1>3 DEF Paths, IdleNew, providerVars
<1>. QED  BY <1>1, <1>3, <1>4, <1>5, OthersMove, ZoneKept, CentreUntouched

LEMMA PathHandleVmUpdate ==
  ASSUME PathInv, CentreTypes, NEW r \in EdgeUser, NEW from \in Sender, handleVmUpdate(r, from)
  PROVE  PathInv' /\ CentreTypes'
<1>. DEFINE c == <<from, r>>
            m == Head(net[c])
            n == [net EXCEPT ![c] = Tail(@)]
<1>1. /\ Running /\ net[c] # <<>>
      /\ \/ /\ m.result = "accepted" /\ user' = [user EXCEPT ![r] = "up"]
            /\ net' = Sent(n, r, from, AppMessage(r, m.nodes[1]))
         \/ user' = [user EXCEPT ![r] = "refused"] /\ net' = n
      /\ UNCHANGED <<providerVars, zone, centreVars, generatorVars>>
  BY DEF handleVmUpdate, Arrived, First, Received, Deployment, Running
<1>2. Paths /\ r \in Request
  BY <1>1 DEF PathInv, EdgeUser
<1>3. /\ m.result = "accepted" => from \in Topic /\ m.nodes \in [1..Len(Vms[r]) -> Node(from)]
      /\ user[r] \in {"asking", "subscribing"}
      /\ NetTypes(n) /\ Stages(n, stage) /\ Once(n, Proved!Queued, Waits \ {r})
  BY <1>1, <1>2, ReadPaths
<1>. HIDE DEF m, n, c
<1>4. /\ UserTypes' /\ user'[r] \in {"up", "refused"}
      /\ \A q \in Request : q # r => user'[q] = user[q]
  BY <1>1, <1>2 DEF PathInv, UserTypes
<1>5. Waits' = Waits \ {r}
  BY <1>2, <1>4 DEF Waits
<1>6. NetTypes(net') /\ Stages(net', stage) /\ Once(net', Proved!Queued, Waits')
  <2>1. CASE net' = n
    BY <1>3, <1>5, <2>1
  <2>2. CASE m.result = "accepted" /\ net' = Sent(n, r, from, AppMessage(r, m.nodes[1]))
    <3>. DEFINE a == AppMessage(r, m.nodes[1])
                k == <<r, from>>
    <3>1. from \in Topic /\ m.nodes[1] \in Node(from) /\ Node(from) \subseteq Nat
      <4>1. 1 \in 1..Len(Vms[r])
        BY <1>2, VmsAre
      <4>2. m.nodes \in [1..Len(Vms[r]) -> Node(from)] /\ from \in Topic
        BY <1>3, <2>2
      <4>3. Node(from) \subseteq Nat
        BY <4>2, CloudConstants DEF Node
      <4>. QED  BY <4>1, <4>2, <4>3
    <3>2. /\ a \in Wire /\ a.op = "APP_Req" /\ a.req = r /\ a.node \in Node(from)
          /\ a.op \notin Operation
      BY <1>2, <3>1 DEF AppMessage, Wire, Operation
    <3>3. k[1] = r /\ k[2] = from /\ k \in Channels
      BY <1>2, <3>1, ChannelsAre
    <3>4. r \notin Topic /\ from \notin Request /\ from # CloudProviderTopic /\ r # CloudProviderTopic
          /\ r \notin Generated
      BY <3>1, <1>2, CloudConstants DEF Sender, CloudProviderTopic, EdgeUser
    <3>. HIDE DEF a, k
    <3>5. Shape(k, a)
      BY <3>2, <3>3, <3>4 DEF Shape
    <3>6. OnStage(k, a, stage)
      BY <3>2 DEF OnStage
    <3>7. net' = Sent(n, r, from, a)
      BY <2>2 DEF a
    <3>. QED  BY <1>3, <1>5, <3>2, <3>3, <3>5, <3>6, <3>7, SentTypes, SentStages, SentOther DEF k, NetTypes
  <2>. QED  BY <1>1, <2>1, <2>2
<1>7. Turns'
  BY <1>1, <1>2, <1>4, EdgeUserTurns DEF Paths
<1>8. IdleNew'
  BY <1>1, <1>2, <1>4 DEF Paths, IdleNew, providerVars
<1>. QED  BY <1>1, <1>4, <1>6, <1>7, <1>8, OthersMove, ZoneKept, CentreUntouched

LEMMA PathControllerReceives ==
  ASSUME PathInv, CentreTypes, NEW r \in EdgeUser, ControllerReceives(r)
  PROVE  PathInv' /\ CentreTypes'
<1>1. /\ UNCHANGED <<providerVars, zone, centreVars, user, generatorVars, net>> /\ Running
  BY DEF ControllerReceives, Running
<1>. QED  BY <1>1, ZoneKept, CentrePaths, CentreUntouched DEF PathInv, Paths

-----------------------------------------------------------------------------
(* The users of the generator *)

LEMMA OrderIs ==
  ASSUME NEW setup \in Setups, NEW users,
         users \in SetToSeqs(setup.users) \/ users \in Generator!SetToSeqs(setup.users)
  PROVE  /\ users \in SetToSeqs(setup.users)
         /\ Len(users) = Cardinality(setup.users) /\ Len(users) \in Nat
         /\ users \in [1..Len(users) -> setup.users]
         /\ \A i, j \in 1..Len(users) : users[i] = users[j] => i = j
         /\ setup.users \subseteq Generated /\ IsFiniteSet(setup.users)
<1>. DEFINE S == setup.users
            k == Cardinality(S)
<1>1. S \subseteq Generated /\ IsFiniteSet(S) /\ k \in Nat
  <2>1. S \subseteq Generated /\ Generated \subseteq Request /\ IsFiniteSet(Request)
    BY CloudConstants
  <2>2. IsFiniteSet(S)
    BY <2>1, FS_Subset
  <2>. QED  BY <2>1, <2>2, FS_CardinalityType
<1>2. SetToSeqs(S) = Generator!SetToSeqs(S)
  BY DEF SetToSeqs, Generator!SetToSeqs, Cardinality, Generator!Cardinality
<1>. HIDE DEF S
<1>3. /\ users \in [1..k -> S] /\ \A i, j \in 1..k : users[i] = users[j] => i = j
  BY <1>2 DEF SetToSeqs, S
<1>4. Len(users) = k
  <2>. HIDE DEF k
  <2>. QED  BY <1>1, <1>3, NodesLen
<1>. QED  BY <1>1, <1>2, <1>3, <1>4 DEF S

LEMMA PathGeneratorStarts ==
  ASSUME PathInv, CentreTypes, GeneratorStarts
  PROVE  PathInv' /\ CentreTypes'
<1>1. /\ Running /\ generatorTimer = "WaitToExecute"
      /\ userInstances' \in Generator!SetToSeqs(par.users)
      /\ IF Len(userInstances') = 0 THEN generatorTimer' = "none" ELSE generatorTimer' = "USER_REQ_GEN"
      /\ UNCHANGED <<par, nUserIndex, providerVars, zone, centreVars, user, net>>
  BY DEF GeneratorStarts, Generator!handleWaitToExecuteMessage, Generator!scheduleNextReqGenMessage,
     Running, userVars
<1>2. Paths /\ nUserIndex = 0 /\ par \in Setups /\ \A r \in Generated : user[r] = "idle"
  BY <1>1 DEF PathInv, Paths, Turns
<1>3. userInstances' \in SetToSeqs(par.users) /\ Len(userInstances') \in Nat
  BY <1>1, <1>2, OrderIs
<1>4. {userInstances'[i] : i \in 1..0} = {r \in Generated : user[r] # "idle"}
  BY <1>2
<1>5. 0 \in 0..Len(userInstances') /\ (Len(userInstances') # 0 => 0 < Len(userInstances'))
  BY <1>3
<1>6. Turns'
  BY <1>1, <1>2, <1>3, <1>4, <1>5 DEF Turns
<1>7. UserTypes' /\ Waits' = Waits /\ IdleNew'
  BY <1>1, <1>2 DEF PathInv, Paths, UserTypes, Waits, IdleNew, providerVars
<1>. QED  BY <1>1, <1>2, <1>6, <1>7, OthersMove, ZoneKept, CentreUntouched DEF PathInv, Paths

LEMMA PathGeneratedUserAsks ==
  ASSUME PathInv, CentreTypes, NEW r \in Generated, GeneratedUserAsks(r)
  PROVE  PathInv' /\ CentreTypes' /\ user[r] = "idle"
<1>. DEFINE l == Len(userInstances)
            k == nUserIndex
<1>1. /\ Running /\ generatorTimer = "USER_REQ_GEN"
      /\ r = userInstances[k + 1] /\ nUserIndex' = k + 1
      /\ IF k + 1 = l THEN generatorTimer' = "none" ELSE generatorTimer' = "USER_REQ_GEN"
      /\ user' = [user EXCEPT ![r] = "asking"]
      /\ net' = Sent(net, r, CloudProviderTopic, VmMessage("VM_Req", r, "none"))
      /\ UNCHANGED <<par, userInstances, providerVars, zone, centreVars>>
  BY DEF GeneratedUserAsks, Generator!handleUserReqGenMessage, Generator!scheduleNextReqGenMessage,
     Running
<1>2. Paths /\ r \in Request
  BY <1>1, CloudConstants DEF PathInv
<1>3. /\ par \in Setups /\ userInstances \in SetToSeqs(par.users) /\ k \in 0..l /\ k < l
      /\ {userInstances[i] : i \in 1..k} = {q \in Generated : user[q] # "idle"}
  BY <1>1, <1>2 DEF Paths, Turns
<1>4. l \in Nat /\ \A i, j \in 1..l : userInstances[i] = userInstances[j] => i = j
  BY <1>3, OrderIs
<1>5. user[r] = "idle"
  <2>1. \A i \in 1..k : userInstances[i] # r
    BY <1>1, <1>3, <1>4
  <2>. QED  BY <1>3, <2>1
<1>6. /\ NetTypes(net') /\ Stages(net', stage) /\ Once(net', Proved!Queued, Waits')
      /\ UserTypes' /\ user'[r] = "asking"
      /\ \A q \in Request : q # r => user'[q] = user[q]
  BY <1>1, <1>2, <1>5, AskPaths
<1>7. Turns'
  <2>1. 1..(k + 1) = (1..k) \cup {k + 1} /\ k + 1 \in 0..l
    BY <1>3, <1>4
  <2>2. {q \in Generated : user'[q] # "idle"} = {q \in Generated : user[q] # "idle"} \cup {r}
    <3>1. \A q \in Generated : q # r => user'[q] = user[q]
      BY <1>6, CloudConstants
    <3>. QED  BY <1>6, <3>1
  <2>. HIDE DEF k, l
  <2>3. {userInstances[i] : i \in 1..(k + 1)} = {userInstances[i] : i \in 1..k} \cup {r}
    BY <1>1, <2>1
  <2>4. {userInstances[i] : i \in 1..(k + 1)} = {q \in Generated : user'[q] # "idle"}
    BY <1>3, <2>2, <2>3
  <2>5. k + 1 # l => k + 1 < l
    BY <1>3, <1>4
  <2>6. generatorTimer' \in {"none", "USER_REQ_GEN"} /\ (generatorTimer' = "USER_REQ_GEN" => k + 1 # l)
    BY <1>1
  <2>. QED  BY <1>1, <1>3, <2>1, <2>4, <2>5, <2>6 DEF Turns, k, l
<1>8. IdleNew'
  BY <1>1, <1>2, <1>6 DEF Paths, IdleNew, providerVars
<1>. QED  BY <1>1, <1>5, <1>6, <1>7, <1>8, OthersMove, ZoneKept, CentreUntouched

LEMMA PathProcessResponseMessage ==
  ASSUME PathInv, CentreTypes, NEW r \in Generated, NEW from \in Sender,
         processResponseMessage(r, from)
  PROVE  PathInv' /\ CentreTypes'
<1>. DEFINE c == <<from, r>>
            m == Head(net[c])
            n == [net EXCEPT ![c] = Tail(@)]
            deployed == Sent(n, r, from, AppMessage(r, 0))
            again == Sent(n, r, CloudProviderTopic, VmMessage("VM_Sub", r, "none"))
<1>1. /\ Running /\ net[c] # <<>>
      /\ \/ /\ m.result = "accepted" /\ user' = [user EXCEPT ![r] = "up"]
            /\ net' = deployed \/ net' = n
         \/ user' = user /\ net' = net
         \/ /\ m.op = "VM_Req" /\ user' = [user EXCEPT ![r] = "subscribing"]
            /\ net' = again
         \/ user' = [user EXCEPT ![r] = "refused"] /\ net' = n
      /\ UNCHANGED <<providerVars, zone, centreVars, par, userInstances, generatorTimer, nUserIndex>>
  BY DEF processResponseMessage, GeneratedUserAccepted, TooManyApps, GeneratedUserRefused,
     Generator!processResponseMessage, DeployedByModel, SubscribesAfter, Arrived, First, Received,
     generatorVars, Running
<1>2. Paths /\ r \in Request
  BY <1>1, CloudConstants DEF PathInv
<1>3. /\ m.op \in Operation
      /\ m.result = "accepted" => from \in Topic
      /\ stage[r] = IF m.op = "VM_Req" THEN "requested" ELSE "subscribed"
      /\ user[r] \in {"asking", "subscribing"} /\ r \notin Proved!Queued
      /\ NetTypes(n) /\ Stages(n, stage)
      /\ Once(n, Proved!Queued \cup {r}, Waits) /\ Once(n, Proved!Queued, Waits \ {r})
  BY <1>1, <1>2, ReadPaths
<1>. HIDE DEF m, n, c, deployed, again
<1>4. /\ UserTypes' /\ user'[r] # "idle"
      /\ \A q \in Request : q # r => user'[q] = user[q]
  <2>1. \A x \in {"up", "subscribing", "refused"} : user' = [user EXCEPT ![r] = x] =>
          UserTypes' /\ user'[r] # "idle" /\ \A q \in Request : q # r => user'[q] = user[q]
    BY <1>2 DEF PathInv, UserTypes
  <2>. QED  BY <1>1, <1>3, <2>1 DEF PathInv, UserTypes
<1>5. (user'[r] \in {"up", "refused"} => Waits' = Waits \ {r})
      /\ (user'[r] \in {"asking", "subscribing"} => Waits' = Waits)
  BY <1>2, <1>3, <1>4 DEF Waits
<1>6. \A x : user' = [user EXCEPT ![r] = x] => user'[r] = x
  BY <1>2 DEF PathInv, UserTypes
<1>7. NetTypes(net') /\ Stages(net', stage) /\ Once(net', Proved!Queued, Waits')
  <2>1. CASE user'[r] \in {"up", "refused"} /\ net' = n
    BY <1>3, <1>5, <2>1
  <2>2. CASE user' = user /\ net' = net
    BY <1>2, <1>3, <1>5, <2>2 DEF PathInv, Paths
  <2>3. CASE m.op = "VM_Req" /\ user'[r] = "subscribing" /\ net' = again
    BY <1>2, <1>3, <1>5, <2>3, RequestPaths DEF again, Operation
  <2>4. CASE m.result = "accepted" /\ user'[r] = "up" /\ net' = deployed
    <3>. DEFINE a == AppMessage(r, 0)
                k == <<r, from>>
    <3>1. from \in Topic
      BY <1>3, <2>4
    <3>2. /\ a \in Wire /\ a.op = "APP_Req" /\ a.req = r /\ a.node = 0
          /\ a.op \notin Operation
      BY <1>2 DEF AppMessage, Wire, Operation
    <3>3. k[1] = r /\ k[2] = from /\ k \in Channels
      BY <1>2, <3>1, ChannelsAre
    <3>4. r \notin Topic /\ from \notin Request /\ from # CloudProviderTopic /\ r # CloudProviderTopic
      BY <3>1, <1>2, CloudConstants DEF Sender, CloudProviderTopic
    <3>. HIDE DEF a, k
    <3>5. Shape(k, a)
      BY <3>2, <3>3, <3>4 DEF Shape
    <3>6. OnStage(k, a, stage)
      BY <3>2 DEF OnStage
    <3>7. net' = Sent(n, r, from, a)
      BY <2>4 DEF a, deployed
    <3>8. n \in Channel
      BY <1>3 DEF NetTypes
    <3>9. NetTypes(net')
      BY <1>3, <3>2, <3>3, <3>5, <3>7, SentTypes DEF k
    <3>10. Stages(net', stage)
      BY <1>3, <3>2, <3>3, <3>6, <3>7, <3>8, SentStages DEF k
    <3>11. Once(net', Proved!Queued, Waits')
      <4>1. Once(n, Proved!Queued, Waits')
        BY <1>3, <1>5, <2>4
      <4>. QED  BY <3>2, <3>3, <3>7, <3>8, <4>1, SentOther DEF k
    <3>. QED  BY <3>9, <3>10, <3>11
  <2>. QED  BY <1>1, <1>6, <2>1, <2>2, <2>3, <2>4
<1>8. Turns'
  <2>1. {q \in Generated : user'[q] # "idle"} = {q \in Generated : user[q] # "idle"}
    <3>1. \A q \in Generated : q \in Request
      BY CloudConstants
    <3>. QED  BY <1>3, <1>4, <3>1
  <2>2. generatorTimer # "WaitToExecute"
    BY <1>2, <1>3 DEF Paths, Turns
  <2>. QED  BY <1>1, <1>2, <2>1, <2>2 DEF Paths, Turns
<1>9. IdleNew'
  BY <1>1, <1>2, <1>4 DEF Paths, IdleNew, providerVars
<1>. QED  BY <1>1, <1>4, <1>7, <1>8, <1>9, OthersMove, ZoneKept, CentreUntouched

-----------------------------------------------------------------------------
(* Requests are in one place *)

\* What a generator's users and an EdgeUser start with.
LEMMA PathInit == Init => PathInv /\ CentreTypes
<1>. SUFFICES ASSUME Init PROVE PathInv /\ CentreTypes
  OBVIOUS
<1>. USE DEF Init
<1>1. Proved!TypeInv
  BY SameInit, ProviderFits, Proved!TypeInvInit
<1>2. /\ user = [r \in Request |-> "idle"] /\ queue = <<>> /\ stage = [r \in Request |-> "new"]
      /\ par \in Setups /\ generatorTimer = "WaitToExecute" /\ nUserIndex = 0
  BY DEF EdgeUsersInit, Provider!Init, Generator!initialize
<1>3. UserTypes
  BY <1>2 DEF UserTypes
<1>4. \A c \in Channels : net[c] = IF c[1] \in Topic /\ c[2] = CloudProviderTopic
                                   THEN <<NodeUpdate(c[1])>> ELSE <<>>
  BY DEF ManagersInit
<1>5. \A d \in Topic : NodeUpdate(d) \in Wire /\ NodeUpdate(d).op = "Node_Update"
  BY CoresAreNaturals DEF NodeUpdate, Wire
<1>6. \A c \in Channels : /\ net[c] \in Seq(Wire)
                          /\ \A i \in DOMAIN net[c] : /\ c[1] \in Topic /\ c[2] = CloudProviderTopic
                                                      /\ net[c][i] = NodeUpdate(c[1])
  <2>. SUFFICES ASSUME NEW c \in Channels
                PROVE  /\ net[c] \in Seq(Wire)
                       /\ \A i \in DOMAIN net[c] : /\ c[1] \in Topic /\ c[2] = CloudProviderTopic
                                                   /\ net[c][i] = NodeUpdate(c[1])
    OBVIOUS
  <2>. DEFINE w == NodeUpdate(c[1])
  <2>1. CASE c[1] \in Topic /\ c[2] = CloudProviderTopic
    <3>1. net[c] = <<w>> /\ w \in Wire
      BY <1>4, <1>5, <2>1
    <3>. HIDE DEF w
    <3>2. net[c] \in Seq(Wire) /\ \A i \in DOMAIN net[c] : net[c][i] = w
      BY <3>1
    <3>. QED  BY <2>1, <3>2 DEF w
  <2>2. CASE ~(c[1] \in Topic /\ c[2] = CloudProviderTopic)
    <3>1. net[c] = <<>>
      BY <1>4, <2>2
    <3>. QED  BY <3>1
  <2>. QED  BY <2>1, <2>2
<1>7. NetTypes(net)
  <2>1. net \in Channel
    BY <1>6 DEF Channel, ManagersInit
  <2>2. CloudProviderTopic \notin Topic \cup Request /\ Topic \cap Request = {}
    BY CloudConstants DEF Sender, CloudProviderTopic
  <2>3. \A c \in Channels : \A i \in DOMAIN net[c] : Shape(c, net[c][i])
    BY <1>6, <2>2 DEF Shape
  <2>. QED  BY <2>1, <2>3 DEF NetTypes
<1>8. \A c \in Channels : \A i \in DOMAIN net[c] : net[c][i].op = "Node_Update"
  BY <1>5, <1>6
<1>9. Paths
  <2>1. Stages(net, stage)
    BY <1>8 DEF Stages, OnStage, Operation
  <2>2. Proved!Queued = {} /\ Waits = {}
    BY <1>2 DEF Proved!Queued, Waits
  <2>3. \A r \in Request : ~Somewhere(net, r) /\ \A c, i : ~At(net, c, i, r)
    BY <1>8 DEF Somewhere, At, Carries
  <2>4. Once(net, Proved!Queued, Waits)
    BY <2>2, <2>3 DEF Once
  <2>5. Turns /\ IdleNew
    BY <1>2, CloudConstants DEF Turns, IdleNew
  <2>. QED  BY <2>1, <2>4, <2>5 DEF Paths
<1>10. CentreTypes
  <2>1. \A d \in Topic : Capacity[d] \in [Node(d) -> Counters]
    BY CloudConstants DEF Node
  <2>. QED  BY <2>1, CloudConstants DEF ManagersInit, CentreTypes
<1>. QED  BY <1>1, <1>3, <1>7, <1>9, <1>10 DEF PathInv

LEMMA PathNext == PathInv /\ CentreTypes /\ [Next]_vars => PathInv' /\ CentreTypes'
<1>. SUFFICES ASSUME PathInv, CentreTypes, [Next]_vars PROVE PathInv' /\ CentreTypes'
  OBVIOUS
<1>1. ASSUME NEW from \in Topic \cup Request, ProviderReceives(from)
      PROVE  PathInv' /\ CentreTypes'
  <2>1. UNCHANGED centreVars
    BY <1>1 DEF ProviderReceives
  <2>. QED  BY <1>1, <2>1, PathProviderReceives, CentreUntouched
<1>2. ASSUME NEW r \in Request, ProviderTimesOut(r)
      PROVE  PathInv' /\ CentreTypes'
  <2>1. UNCHANGED centreVars
    BY <1>2 DEF ProviderTimesOut
  <2>. QED  BY <1>2, <2>1, PathProviderTimesOut, CentreUntouched
<1>3. ASSUME NEW d \in Topic,
             \/ CentreReceivesRequest(d) \/ handleManageMachines(d)
             \/ \E n \in Node(d) : BladeReceives(d, n)
      PROVE  PathInv' /\ CentreTypes'
  BY <1>3, PathCentreReceivesRequest, PathHandleManageMachines, PathBladeReceives
<1>4. ASSUME NEW d \in Topic, NEW r \in Request, handleApplicationRequest(d, r)
      PROVE  PathInv' /\ CentreTypes'
  BY <1>4, PathHandleApplicationRequest
<1>5. ASSUME NEW r \in EdgeUser,
             startup(r) \/ ControllerReceives(r) \/ \E from \in Sender : handleVmUpdate(r, from)
      PROVE  PathInv' /\ CentreTypes'
  BY <1>5, PathStartup, PathControllerReceives, PathHandleVmUpdate
<1>6. ASSUME GeneratorStarts PROVE PathInv' /\ CentreTypes'
  BY <1>6, PathGeneratorStarts
<1>7. ASSUME NEW r \in Generated,
             GeneratedUserAsks(r) \/ \E from \in Sender : processResponseMessage(r, from)
      PROVE  PathInv' /\ CentreTypes'
  BY <1>7, PathGeneratedUserAsks, PathProcessResponseMessage
<1>8. CASE UNCHANGED vars
  <2>1. UNCHANGED <<providerVars, zone, centreVars, user, generatorVars, net, stopped>>
    BY <1>8 DEF vars, userVars
  <2>2. Running' => Running
    BY <2>1 DEF Running, providerVars
  <2>. QED
    BY <2>1, <2>2, ZoneKept, CentrePaths, CentreUntouched DEF PathInv, Paths
<1>. QED  BY <1>1, <1>2, <1>3, <1>4, <1>5, <1>6, <1>7, <1>8 DEF Next

\* Every request object that is wanted is with the provider or in one
\* message, what carries it tells how far it got, and the generator asks for
\* its users one after the other: the invariant the theorems below rest on.
THEOREM PathInvariant == Spec => [](PathInv /\ CentreTypes)
BY PathInit, PathNext, PTL DEF Spec

\* Every step of the cloud is one of the provider's open system, or leaves the
\* provider alone.
LEMMA ProviderSteps ==
  ASSUME PathInv, Next
  PROVE  [Provider!Next]_providerVars
<1>1. ASSUME NEW from \in Topic \cup Request, ProviderReceives(from)
      PROVE  Provider!Next
  BY <1>1, PathProviderReceives
<1>2. ASSUME NEW r \in Request, ProviderTimesOut(r)
      PROVE  Provider!Next
  BY <1>2 DEF ProviderTimesOut, Provider!Next, Provider!TimesOut
<1>3. ASSUME NEW d \in Topic,
             \/ CentreReceivesRequest(d) \/ handleManageMachines(d)
             \/ \E n \in Node(d) : BladeReceives(d, n)
      PROVE  UNCHANGED providerVars
  BY <1>3 DEF CentreReceivesRequest, handleManageMachines, BladeReceives
<1>4. ASSUME NEW d \in Topic, NEW r \in Request, handleApplicationRequest(d, r)
      PROVE  UNCHANGED providerVars
  BY <1>4 DEF handleApplicationRequest
<1>5. ASSUME NEW r \in EdgeUser,
             startup(r) \/ ControllerReceives(r) \/ \E from \in Sender : handleVmUpdate(r, from)
      PROVE  UNCHANGED providerVars
  BY <1>5 DEF startup, ControllerReceives, handleVmUpdate
<1>6. ASSUME GeneratorStarts PROVE UNCHANGED providerVars
  BY <1>6 DEF GeneratorStarts
<1>7. ASSUME NEW r \in Generated,
             GeneratedUserAsks(r) \/ \E from \in Sender : processResponseMessage(r, from)
      PROVE  UNCHANGED providerVars
  BY <1>7 DEF GeneratedUserAsks, processResponseMessage
<1>. QED  BY <1>1, <1>2, <1>3, <1>4, <1>5, <1>6, <1>7 DEF Next

\* Users and data centres are an environment the provider was verified for:
\* a request comes once, a subscription at most once and after it, a report
\* names the node that sends it.  So all that is proved of CloudProvider holds
\* of the provider of any cloud.
THEOREM ProviderRefined == Spec => ProviderSafety
<1>1. Init => Provider!Init
  BY DEF Init
<1>2. PathInv /\ [Next]_vars => [Provider!Next]_providerVars
  BY ProviderSteps DEF vars
<1>. QED
  BY <1>1, <1>2, PathInvariant, PTL DEF Spec, ProviderSafety

\* Nothing is found, or what is one in one place.
LEMMA CountedOnce ==
  ASSUME NEW S, \A x, y \in S : x = y
  PROVE  Cardinality(S) = IF S = {} THEN 0 ELSE 1
<1>1. CASE S = {}
  BY <1>1, FS_EmptySet
<1>2. CASE S # {}
  <2>1. PICK x : S = {x}
    BY <1>2
  <2>. QED  BY <1>2, <2>1, FS_Singleton
<1>. QED  BY <1>1, <1>2

\* While the simulation runs, a request whose user waits for its answer is in
\* exactly one message or once in the provider's queue, and every other
\* request is nowhere: none is lost and none is handled twice, however
\* rejections, subscriptions, time-outs and dispatches follow each other.
THEOREM RequestsInOnePlace == Spec => []RequestInOnePlace
<1>1. PathInv => RequestInOnePlace
  <2>. SUFFICES ASSUME PathInv, Running, NEW r \in Request
                PROVE  Cardinality(InFlight(r)) + Cardinality(InQueue(r))
                         = IF user[r] \in {"asking", "subscribing"} THEN 1 ELSE 0
    BY DEF RequestInOnePlace
  <2>1. Once(net, Proved!Queued, Waits)
    BY DEF PathInv, Paths
  <2>2. \A x : x \in InFlight(r) <=> \E c, i : x = <<c, i>> /\ At(net, c, i, r)
    BY DEF InFlight, At
  <2>3. /\ InFlight(r) = {} <=> ~Somewhere(net, r)
        /\ \A x, y \in InFlight(r) : x = y
    <3>1. InFlight(r) = {} <=> ~Somewhere(net, r)
      BY <2>2 DEF Somewhere
    <3>2. ASSUME NEW x \in InFlight(r), NEW y \in InFlight(r) PROVE x = y
      <4>1. PICK c, i : x = <<c, i>> /\ At(net, c, i, r)
        BY <2>2
      <4>2. PICK d, j : y = <<d, j>> /\ At(net, d, j, r)
        BY <2>2
      <4>3. c = d /\ i = j
        BY <2>1, <4>1, <4>2 DEF Once
      <4>. QED  BY <4>1, <4>2, <4>3
    <3>. QED  BY <3>1, <3>2
  <2>4. /\ InQueue(r) = {} <=> r \notin Proved!Queued
        /\ \A x, y \in InQueue(r) : x = y
    BY DEF PathInv, Proved!TypeInv, Proved!QueueInv, Proved!TimerPerSubscription, Proved!Queued,
       InQueue
  <2>5. /\ Cardinality(InFlight(r)) = IF Somewhere(net, r) THEN 1 ELSE 0
        /\ Cardinality(InQueue(r)) = IF r \in Proved!Queued THEN 1 ELSE 0
    BY <2>3, <2>4, CountedOnce
  <2>6. /\ r \in Proved!Queued => ~Somewhere(net, r)
        /\ r \in Waits <=> r \in Proved!Queued \/ Somewhere(net, r)
    BY <2>1 DEF Once
  <2>7. r \in Waits <=> user[r] \in {"asking", "subscribing"}
    BY DEF Waits
  <2>. QED  BY <2>5, <2>6, <2>7
<1>. QED  BY <1>1, PathInvariant, PTL

-----------------------------------------------------------------------------
(***************************************************************************)
(* What a data centre promises its users, for any users, data centres, VMs *)
(* and capacities: an acceptance names blades of its sender, and a blade   *)
(* that gets the applications of a user has been told of its VM before.    *)
(***************************************************************************)

-----------------------------------------------------------------------------
(* Where the VMs of an accepted user are *)

Places(r, s) ==
  s.centre \in Topic /\ s.nodes \in [1..Len(Vms[r]) -> Node(s.centre)]

Sites ==
  /\ site = [r \in Request |-> site[r]]
  /\ \A r \in Request : IF user[r] = "up" THEN Places(r, site[r]) ELSE site[r] = NoSite

\* What an event does to the users: one asks, is accepted, or is refused.
Asks(r) == Running /\ user[r] = "idle" /\ user' = [user EXCEPT ![r] = "asking"] /\ site' = site

IsAccepted(r, from) ==
  /\ Running /\ net[<<from, r>>] # <<>> /\ Head(net[<<from, r>>]).result = "accepted"
  /\ user' = [user EXCEPT ![r] = "up"]
  /\ site' = [site EXCEPT ![r] = [centre |-> from, nodes |-> Head(net[<<from, r>>]).nodes]]

IsRefused(r, from) ==
  /\ Running /\ net[<<from, r>>] # <<>>
  /\ \E x \in {"refused", "subscribing"} : user' = [user EXCEPT ![r] = x]
  /\ site' = site

LEMMA UserSteps ==
  ASSUME PathInv, CentreTypes, Next
  PROVE  \/ UNCHANGED <<user, site>>
         \/ \E r \in Request : \/ Asks(r)
                               \/ \E from \in Sender : IsAccepted(r, from) \/ IsRefused(r, from)
<1>0. EdgeUser \subseteq Request /\ Generated \subseteq Request
  BY CloudConstants DEF EdgeUser
<1>1. ASSUME NEW r \in EdgeUser, startup(r) PROVE Asks(r)
  BY <1>1 DEF startup, Asks, Running
<1>5. ASSUME NEW r \in Generated, GeneratedUserAsks(r) PROVE Asks(r)
  BY <1>5, PathGeneratedUserAsks DEF GeneratedUserAsks, Asks, Running
<1>2. ASSUME NEW r \in EdgeUser, NEW from \in Sender, handleVmUpdate(r, from)
      PROVE  IsAccepted(r, from) \/ IsRefused(r, from)
  BY <1>2 DEF handleVmUpdate, IsAccepted, IsRefused, Arrived, First, Running
<1>3. ASSUME NEW r \in Generated, NEW from \in Sender, processResponseMessage(r, from)
      PROVE  UNCHANGED <<user, site>> \/ IsAccepted(r, from) \/ IsRefused(r, from)
  BY <1>3 DEF processResponseMessage, GeneratedUserAccepted, TooManyApps, GeneratedUserRefused,
     IsAccepted, IsRefused, Arrived, First, Running
<1>4. ASSUME \/ \E from \in Topic \cup Request : ProviderReceives(from)
             \/ \E d \in Topic : \/ CentreReceivesRequest(d) \/ handleManageMachines(d)
                                 \/ \E n \in Node(d) : BladeReceives(d, n)
             \/ \E d \in Topic, r \in Request : handleApplicationRequest(d, r)
             \/ \E r \in Request : ProviderTimesOut(r)
             \/ \E r \in EdgeUser : ControllerReceives(r)
             \/ GeneratorStarts
      PROVE  UNCHANGED <<user, site>>
  BY <1>4 DEF ProviderReceives, CentreReceivesRequest, handleManageMachines, BladeReceives,
     handleApplicationRequest, ProviderTimesOut, ControllerReceives, GeneratorStarts, userVars
<1>. QED  BY <1>0, <1>1, <1>2, <1>3, <1>4, <1>5 DEF Next

LEMMA SitesInit == Init => Sites
BY DEF Init, EdgeUsersInit, Sites, NoSite

LEMMA SitesNext ==
  ASSUME PathInv, CentreTypes, Sites, [Next]_vars
  PROVE  Sites'
<1>1. CASE UNCHANGED <<user, site>>
  BY <1>1 DEF Sites, Places
<1>2. ASSUME NEW r \in Request, Asks(r) PROVE Sites'
  BY <1>2 DEF Sites, Places, Asks, PathInv, UserTypes
<1>3. ASSUME NEW r \in Request, NEW from \in Sender, IsAccepted(r, from) PROVE Sites'
  <2>. DEFINE m == Head(net[<<from, r>>])
              x == [centre |-> from, nodes |-> m.nodes]
  <2>1. /\ Running /\ net[<<from, r>>] # <<>> /\ m.result = "accepted"
        /\ user' = [user EXCEPT ![r] = "up"] /\ site' = [site EXCEPT ![r] = x]
    BY <1>3 DEF IsAccepted
  <2>2. from \in Topic /\ m.nodes \in [1..Len(Vms[r]) -> Node(from)]
    BY <2>1, ReadPaths DEF PathInv
  <2>3. Places(r, x)
    BY <2>2 DEF Places
  <2>. HIDE DEF x, m
  <2>4. \A q \in Request : Places(q, site[q])' <=> Places(q, site'[q])
    BY DEF Places
  <2>5. /\ user'[r] = "up" /\ site'[r] = x
        /\ \A q \in Request : q # r => user'[q] = user[q] /\ site'[q] = site[q]
        /\ site' = [q \in Request |-> site'[q]]
    BY <2>1 DEF Sites, PathInv, UserTypes
  <2>. QED  BY <2>3, <2>4, <2>5 DEF Sites
<1>4. ASSUME NEW r \in Request, NEW from \in Sender, IsRefused(r, from) PROVE Sites'
  <2>1. user[r] \in {"asking", "subscribing"}
    BY <1>4, ReadPaths DEF IsRefused, PathInv
  <2>2. PICK x \in {"refused", "subscribing"} : user' = [user EXCEPT ![r] = x] /\ site' = site
    BY <1>4 DEF IsRefused
  <2>3. user'[r] # "up" /\ \A q \in Request : q # r => user'[q] = user[q]
    BY <2>2 DEF PathInv, UserTypes
  <2>. QED  BY <2>1, <2>2, <2>3 DEF Sites, Places
<1>5. UNCHANGED vars => UNCHANGED <<user, site>>
  BY DEF vars, userVars
<1>. QED  BY <1>1, <1>2, <1>3, <1>4, <1>5, UserSteps

\* What is in a channel from a data centre to a user.
LEMMA AnswersAre ==
  ASSUME PathInv, NEW d \in Topic, NEW r \in Request, NEW i \in DOMAIN net[<<d, r>>]
  PROVE  LET m == net[<<d, r>>][i]
         IN  /\ Carries(m, r)
             /\ m.result = "accepted" => m.nodes \in [1..Len(Vms[r]) -> Node(d)]
<1>. DEFINE c == <<d, r>>
            m == net[c][i]
<1>1. c \in Channels /\ c[1] = d /\ c[2] = r
  BY ChannelsAre
<1>. HIDE DEF c
<1>2. Shape(c, m)
  BY <1>1 DEF PathInv, NetTypes, c
<1>. HIDE DEF m
<1>3. Carries(m, r) /\ (m.result = "accepted" => m.nodes \in [1..Len(Vms[r]) -> Node(d)])
  BY <1>1, <1>2 DEF Shape
<1>. QED  BY <1>3 DEF m, c

\* An acceptance names blades of its sender, one per VM, and an accepted user
\* knows where its VMs are, for any clouds and whatever the simulation ends with.
THEOREM CloudTypeCorrect == Spec => []TypeOK
<1>1. PathInv /\ CentreTypes /\ Sites => TypeOK
  <2>. SUFFICES ASSUME PathInv, CentreTypes, Sites PROVE TypeOK
    OBVIOUS
  <2>1. ASSUME NEW d \in Topic
        PROVE  /\ pool[d] \in [Node(d) -> Counters]
               /\ \A n \in Node(d) : vms[d][n] \subseteq Request /\ ToSet(lan[d][n]) \subseteq
                    [op : {"VM_Req", "VM_Sub", "APP_Req", "none"}, req : Request]
    <3>1. ASSUME NEW n \in Node(d) PROVE ToSet(lan[d][n]) \subseteq BladeCommand
      <4>. DEFINE q == lan[d][n]
      <4>1. q \in Seq(BladeCommand)
        BY DEF CentreTypes
      <4>. HIDE DEF q
      <4>2. ToSet(q) \subseteq BladeCommand
        BY <4>1 DEF ToSet
      <4>. QED  BY <4>2 DEF q
    <3>2. pool[d] \in [Node(d) -> Counters] /\ \A n \in Node(d) : vms[d][n] \subseteq Request
      BY DEF CentreTypes
    <3>. QED  BY <3>1, <3>2 DEF BladeCommand
  <2>2. ASSUME NEW d \in Topic, NEW r \in Request, NEW i \in DOMAIN net[<<d, r>>],
               net[<<d, r>>][i].result = "accepted"
        PROVE  net[<<d, r>>][i].nodes \in [DOMAIN Vms[r] -> Node(d)]
    BY <2>2, AnswersAre, VmsAre
  <2>3. ASSUME NEW r \in Request
        PROVE  IF user[r] = "up" THEN site[r].nodes \in [DOMAIN Vms[r] -> Node(site[r].centre)]
                                 ELSE site[r] = NoSite
    BY VmsAre DEF Sites, Places
  <2>4. apps \subseteq Request
    BY DEF CentreTypes
  <2>5. UserTypes
    BY DEF PathInv
  <2>. QED  BY <2>1, <2>2, <2>3, <2>4, <2>5 DEF TypeOK, UserTypes
<1>2. Sites /\ PathInv /\ CentreTypes /\ [Next]_vars => Sites'
  BY SitesNext
<1>. QED  BY <1>1, <1>2, SitesInit, PathInvariant, PTL DEF Spec
-----------------------------------------------------------------------------
(* What the channels keep, whoever sends *)

\* The provider's messages leave the channels of others as they are.
LEMMA EmittedElsewhere ==
  ASSUME NEW n \in Channel, NEW messages \in Seq(Proved!Message), NEW asked
  PROVE  \A c \in Channels : c[1] # CloudProviderTopic => Emitted(n, messages, asked)[c] = n[c]
<1>. DEFINE l == Len(messages)
<1>0. l \in Nat /\ \A i \in 1..l : messages[i] \in Proved!Message
  OBVIOUS
<1>1. PICK f : IsEmission(f, n, messages, asked)
  BY EmittedIs
<1>. DEFINE Good == {k \in 0..l : \A c \in Channels : c[1] # CloudProviderTopic => f[k][c] = n[c]}
<1>2. 0 \in Good
  BY <1>0, <1>1 DEF IsEmission
<1>3. \A k \in 1..l : k - 1 \in Good => k \in Good
  <2>. SUFFICES ASSUME NEW k \in 1..l, NEW c \in Channels, c[1] # CloudProviderTopic,
                       f[k - 1][c] = n[c]
                PROVE  f[k][c] = n[c]
    <3>1. \A k \in 1..l : k \in 0..l
      BY <1>0
    <3>. QED  BY <3>1
  <2>. DEFINE w == OnTheWire(messages[k], asked)
              to == Receiver(messages[k])
  <2>1. f[k] = Sent(f[k - 1], CloudProviderTopic, to, w) /\ f[k - 1] \in Channel
    <3>1. k - 1 \in 0..Len(messages)
      BY <1>0
    <3>. QED  BY <1>1, <3>1 DEF IsEmission
  <2>2. w \in Wire /\ <<CloudProviderTopic, to>> \in Channels
    BY <1>0, ProviderMessage
  <2>3. c # <<CloudProviderTopic, to>>
    OBVIOUS
  <2>. HIDE DEF w, to
  <2>. QED  BY <2>1, <2>2, <2>3, SentIs
<1>4. l \in Good
  <2>1. 0..l \subseteq Good
    <3>. HIDE DEF Good, l
    <3>. QED  BY <1>0, <1>2, <1>3, BoundedInduction
  <2>2. l \in 0..l
    BY <1>0
  <2>. HIDE DEF Good
  <2>. QED  BY <2>1, <2>2
<1>. QED  BY <1>1, <1>4 DEF IsEmission

\* Every message of a channel is one of those allowed there.
Within(n, allowed) ==
  n \in Channel /\ \A c \in Channels : \A i \in DOMAIN n[c] : n[c][i] \in allowed[c]

LEMMA SentWithin ==
  ASSUME NEW n, NEW allowed, Within(n, allowed), NEW from, NEW to, <<from, to>> \in Channels,
         NEW m \in Wire, m \in allowed[<<from, to>>]
  PROVE  Within(Sent(n, from, to, m), allowed)
<1>. DEFINE c == <<from, to>>
            s == Sent(n, from, to, m)
            k == Len(n[c]) + 1
<1>1. n \in Channel
  BY DEF Within
<1>2. /\ s \in Channel /\ Len(n[c]) \in Nat /\ DOMAIN n[c] = 1..Len(n[c])
      /\ DOMAIN s[c] = 1..k /\ s[c][k] = m
      /\ \A i \in DOMAIN n[c] : s[c][i] = n[c][i]
      /\ \A d \in Channels : d # c => s[d] = n[d]
  BY <1>1, SentIs
<1>3. DOMAIN s[c] = DOMAIN n[c] \cup {k} /\ m \in allowed[c]
  <2>. HIDE DEF s
  <2>. QED  BY <1>2
<1>. HIDE DEF s, c, k
<1>4. Within(s, allowed)
  BY <1>2, <1>3 DEF Within
<1>. QED  BY <1>4 DEF s

LEMMA ReceivedWithin ==
  ASSUME NEW n, NEW allowed, Within(n, allowed), NEW c \in Channels, n[c] # <<>>
  PROVE  /\ Within([n EXCEPT ![c] = Tail(@)], allowed)
         /\ Head(n[c]) \in allowed[c]
<1>. DEFINE s == [n EXCEPT ![c] = Tail(@)]
<1>1. n \in Channel
  BY DEF Within
<1>2. /\ s \in Channel /\ Head(n[c]) = n[c][1] /\ 1 \in DOMAIN n[c]
      /\ \A i \in DOMAIN s[c] : i + 1 \in DOMAIN n[c] /\ s[c][i] = n[c][i + 1]
      /\ \A d \in Channels : d # c => s[d] = n[d]
  BY <1>1, ReceivedIs
<1>. HIDE DEF s
<1>3. Within(s, allowed) /\ Head(n[c]) \in allowed[c]
  BY <1>2 DEF Within
<1>. QED  BY <1>3 DEF s

LEMMA EmittedWithin ==
  ASSUME NEW n, NetTypes(n), NEW allowed, Within(n, allowed),
         \A c \in Channels : c[1] = CloudProviderTopic => allowed[c] = Wire,
         NEW messages \in Seq(Proved!Message), NEW asked
  PROVE  Within(Emitted(n, messages, asked), allowed)
<1>. DEFINE s == Emitted(n, messages, asked)
<1>1. s \in Channel
  BY EmittedTypes DEF NetTypes
<1>2. \A c \in Channels : c[1] # CloudProviderTopic => s[c] = n[c]
  BY EmittedElsewhere DEF NetTypes
<1>. HIDE DEF s
<1>3. \A c \in Channels : \A i \in DOMAIN s[c] : s[c][i] \in Wire
  BY <1>1, NetRequests
<1>4. Within(s, allowed)
  BY <1>1, <1>2, <1>3 DEF Within
<1>. QED  BY <1>4 DEF s

-----------------------------------------------------------------------------
(* The commands on their way to a blade *)

IsIn(q, op, r) == \E i \in DOMAIN q : q[i].op = op /\ q[i].req = r

\* The applications of a request come after its VM.
InOrder(q, v) ==
  \A i \in DOMAIN q : q[i].op = "APP_Req" =>
    q[i].req \in v \/ \E j \in 1..(i - 1) : q[j].op = "VM_Req" /\ q[j].req = q[i].req

LEMMA AppendedInOrder ==
  ASSUME NEW q \in Seq(BladeCommand), NEW v, InOrder(q, v), NEW c \in BladeCommand,
         c.op = "APP_Req" => c.req \in v \/ IsIn(q, "VM_Req", c.req)
  PROVE  /\ InOrder(Append(q, c), v)
         /\ \A r : IsIn(q, "VM_Req", r) => IsIn(Append(q, c), "VM_Req", r)
         /\ IsIn(Append(q, c), c.op, c.req)
<1>. DEFINE s == Append(q, c)
            k == Len(q) + 1
<1>1. /\ Len(q) \in Nat /\ DOMAIN q = 1..Len(q) /\ DOMAIN s = 1..k /\ s[k] = c
      /\ \A i \in DOMAIN q : s[i] = q[i]
  OBVIOUS
<1>. HIDE DEF s
<1>2. DOMAIN s = DOMAIN q \cup {k} /\ k \in DOMAIN s
  BY <1>1
<1>3. \A r : IsIn(q, "VM_Req", r) => IsIn(s, "VM_Req", r)
  BY <1>1, <1>2 DEF IsIn
<1>4. IsIn(s, c.op, c.req)
  BY <1>1, <1>2 DEF IsIn
<1>5. ASSUME NEW i \in DOMAIN s, s[i].op = "APP_Req"
      PROVE  s[i].req \in v \/ \E j \in 1..(i - 1) : s[j].op = "VM_Req" /\ s[j].req = s[i].req
  <2>1. CASE i \in DOMAIN q
    <3>1. \A j \in 1..(i - 1) : j \in DOMAIN q
      BY <1>1, <2>1
    <3>. QED  BY <1>1, <1>5, <2>1, <3>1 DEF InOrder
  <2>2. CASE i = k
    <3>1. \A j \in DOMAIN q : j \in 1..(i - 1)
      BY <1>1, <2>2
    <3>. QED  BY <1>1, <1>5, <2>2, <3>1 DEF IsIn
  <2>. QED  BY <1>2, <2>1, <2>2
<1>6. InOrder(s, v)
  BY <1>5 DEF InOrder
<1>. QED  BY <1>3, <1>4, <1>6 DEF s

LEMMA ReceivedInOrder ==
  ASSUME NEW q \in Seq(BladeCommand), q # <<>>, NEW v, InOrder(q, v),
         NEW w, v \subseteq w, Head(q).op = "VM_Req" => Head(q).req \in w
  PROVE  /\ InOrder(Tail(q), w)
         /\ \A r : IsIn(q, "VM_Req", r) => r \in w \/ IsIn(Tail(q), "VM_Req", r)
         /\ Head(q).op = "APP_Req" => Head(q).req \in v
<1>. DEFINE s == Tail(q)
<1>1. /\ Len(q) \in Nat /\ DOMAIN q = 1..Len(q) /\ DOMAIN s = 1..(Len(q) - 1) /\ Head(q) = q[1]
      /\ \A i \in DOMAIN s : s[i] = q[i + 1]
      /\ 1 \in DOMAIN q
  OBVIOUS
<1>. HIDE DEF s
<1>2. /\ \A i \in DOMAIN s : i \in Nat /\ i + 1 \in DOMAIN q /\ s[i] = q[i + 1]
      /\ \A i \in DOMAIN q : i # 1 => i - 1 \in DOMAIN s /\ s[i - 1] = q[i]
  BY <1>1
<1>3. \A r : IsIn(q, "VM_Req", r) => r \in w \/ IsIn(s, "VM_Req", r)
  BY <1>1, <1>2 DEF IsIn
<1>4. ASSUME NEW i \in DOMAIN s, s[i].op = "APP_Req", s[i].req \notin w
      PROVE  \E j \in 1..(i - 1) : s[j].op = "VM_Req" /\ s[j].req = s[i].req
  <2>1. PICK j \in 1..((i + 1) - 1) : q[j].op = "VM_Req" /\ q[j].req = s[i].req
    BY <1>2, <1>4 DEF InOrder
  <2>2. j # 1
    BY <1>1, <1>4, <2>1
  <2>3. j \in DOMAIN q /\ j - 1 \in 1..(i - 1)
    BY <1>1, <1>2, <2>2
  <2>. QED  BY <1>2, <2>1, <2>2, <2>3
<1>5. InOrder(s, w)
  BY <1>4 DEF InOrder
<1>6. Head(q).op = "APP_Req" => Head(q).req \in v
  BY <1>1 DEF InOrder
<1>. QED  BY <1>3, <1>5, <1>6 DEF s

-----------------------------------------------------------------------------
(* What a data centre does with a request *)

Grants(d, op, r, nodes) ==
  /\ nodes \in Successes(pool[d], Vms[r]) /\ nodes \in [1..Len(Vms[r]) -> Node(d)]
  /\ pool' = [pool EXCEPT ![d] = Placing(pool[d], Vms[r], nodes)[Len(Vms[r])]]
  /\ lan' = [lan EXCEPT ![d] = Dispatched(lan[d], nodes, CommandFor(op, r))]
  /\ net' = Sent(Received(CloudProviderTopic, d), d, r, Acceptance(op, r, nodes))

Refuses(d, op, r) ==
  pool' = pool /\ lan' = lan /\ net' = Rejection(d, op, r)

LEMMA CentreAnswers ==
  ASSUME PathInv, CentreTypes, NEW d \in Topic, CentreReceivesRequest(d)
  PROVE  /\ Running /\ net[<<CloudProviderTopic, d>>] # <<>>
         /\ UNCHANGED <<providerVars, vms, apps, userVars, generatorVars, stopped>>
         /\ \E r \in Request, op \in Operation :
              /\ Carries(Head(net[<<CloudProviderTopic, d>>]), r)
              /\ stage[r] = IF op = "VM_Req" THEN "requested" ELSE "subscribed"
              /\ (\E nodes : Grants(d, op, r, nodes)) \/ Refuses(d, op, r)
<1>. DEFINE c == <<CloudProviderTopic, d>>
            m == Head(net[c])
            r == m.req
            op == m.op
<1>1. /\ Running /\ net[c] # <<>>
      /\ Accepts(d, op, r) \/ Rejects(d, op, r)
      /\ UNCHANGED <<providerVars, vms, apps, userVars, generatorVars, stopped>>
  BY DEF CentreReceivesRequest, requestHandlers, Arrived, First, Running
<1>2. Paths /\ c \in Channels /\ c[1] = CloudProviderTopic /\ c[2] = d
  BY <1>1, ChannelsAre DEF PathInv
<1>3. op \in Operation /\ r \in Request /\ Carries(m, r)
      /\ stage[r] = IF op = "VM_Req" THEN "requested" ELSE "subscribed"
  <2>. HIDE DEF c
  <2>1. m \in Wire /\ Shape(c, m) /\ OnStage(c, m, stage)
    BY <1>1, <1>2, ReceivedTypes, ReceivedStages DEF PathInv, Paths, NetTypes
  <2>2. CloudProviderTopic \notin Request
    BY CloudConstants DEF Sender, CloudProviderTopic
  <2>. HIDE DEF m
  <2>3. m.op \in Operation
    BY <1>2, <2>1 DEF Shape
  <2>. QED  BY <1>2, <2>1, <2>2, <2>3, WireRequests DEF OnStage, StageOf, Carries, Operation
<1>. HIDE DEF r, op, c
<1>4. ASSUME Accepts(d, op, r) PROVE \E nodes : Grants(d, op, r, nodes)
  <2>1. PICK nodes \in Successes(pool[d], Vms[r]) :
          /\ pool' = [pool EXCEPT ![d] = Placing(pool[d], Vms[r], nodes)[Len(Vms[r])]]
          /\ lan' = [lan EXCEPT ![d] = Dispatched(lan[d], nodes, CommandFor(op, r))]
          /\ net' = Sent(Received(CloudProviderTopic, d), d, r, Acceptance(op, r, nodes))
    BY <1>4 DEF Accepts
  <2>2. pool[d] \in [Node(d) -> Counters]
    BY DEF CentreTypes
  <2>3. nodes \in [1..Len(Vms[r]) -> Node(d)]
    BY <1>3, <2>2, SuccessIs DEF IsChoice
  <2>. QED  BY <2>1, <2>3 DEF Grants
<1>5. ASSUME Rejects(d, op, r) PROVE Refuses(d, op, r)
  <2>1. PICK nodes \in Failures(pool[d], Vms[r]) :
          /\ pool' = [pool EXCEPT ![d] = GivenBack(d, r, nodes)]
          /\ net' = Rejection(d, op, r) /\ lan' = lan
    BY <1>5 DEF Rejects
  <2>2. GivenBack(d, r, nodes) = pool[d]
    BY <1>3, FailureIs DEF CentreTypes
  <2>3. pool' = pool
    BY <2>1, <2>2 DEF CentreTypes
  <2>. QED  BY <2>1, <2>3 DEF Refuses
<1>. QED  BY <1>1, <1>3, <1>4, <1>5 DEF c

-----------------------------------------------------------------------------
(* A VM starts before its applications *)

Starts(d, n, r) == r \in vms[d][n] \/ IsIn(lan[d][n], "VM_Req", r)

CommandsInOrder == \A d \in Topic : \A n \in Node(d) : InOrder(lan[d][n], vms[d][n])

\* Whoever knows the blade of an EdgeUser's VM knows one that was told of it.
\* An EdgeUser does not subscribe, so the data centre got a request.
Fits(c, m) ==
  /\ c[1] \in EdgeUser /\ c[2] = CloudProviderTopic => m.op # "VM_Sub"
  /\ c[1] \in Topic /\ c[2] \in EdgeUser /\ m.result = "accepted" => Starts(c[1], m.nodes[1], c[2])
  /\ c[1] \in EdgeUser /\ c[2] \in Topic => m.node \in Node(c[2]) /\ Starts(c[2], m.node, c[1])

Promises == [c \in Channels |-> {m \in Wire : Fits(c, m)}]

EdgeOnce == \A r \in EdgeUser : stage[r] # "subscribed" /\ user[r] # "subscribing"

Deployments == EdgeOnce /\ CommandsInOrder /\ Within(net, Promises)

\* What was started stays started.
StartsKept == \A d \in Topic : \A n \in Node(d) : \A r : Starts(d, n, r) => Starts(d, n, r)'

LEMMA EdgeUsersAre ==
  /\ \A r \in EdgeUser : r \in Request /\ r \notin Topic /\ r # CloudProviderTopic /\ r \notin Generated
  /\ CloudProviderTopic \notin Topic
BY CloudConstants DEF EdgeUser, Sender, CloudProviderTopic

\* What the provider sends is no promise.
LEMMA ProviderPromises ==
  \A c \in Channels : c[1] = CloudProviderTopic => Promises[c] = Wire
BY EdgeUsersAre DEF Promises, Fits

LEMMA PromisesRest == UNCHANGED <<vms, lan>> => Promises' = Promises /\ StartsKept
<1>1. UNCHANGED <<vms, lan>> => \A d, n, r : Starts(d, n, r)' <=> Starts(d, n, r)
  BY DEF Starts
<1>2. UNCHANGED <<vms, lan>> => \A c, m : Fits(c, m)' <=> Fits(c, m)
  BY DEF Fits, Starts
<1>. QED  BY <1>1, <1>2 DEF Promises, StartsKept

\* Promises of well-shaped messages are kept when what was started stays so.
LEMMA PromisesKept ==
  ASSUME StartsKept, NEW n, NetTypes(n), Within(n, Promises)
  PROVE  Within(n, Promises')
<1>1. n \in Channel
  BY DEF Within
<1>2. ASSUME NEW c \in Channels, NEW i \in DOMAIN n[c] PROVE Fits(c, n[c][i])'
  <2>. DEFINE m == n[c][i]
  <2>1. Fits(c, m) /\ Shape(c, m)
    BY <1>2 DEF Within, NetTypes, Promises
  <2>2. \A d \in Topic, r \in Request : 1 \in 1..Len(Vms[r])
    BY VmsAre
  <2>. HIDE DEF m
  <2>3. CASE c[1] \in Topic /\ c[2] \in EdgeUser
    <3>1. m.result = "accepted" => m.nodes[1] \in Node(c[1])
      BY <2>1, <2>2, <2>3, EdgeUsersAre DEF Shape
    <3>. QED  BY <2>1, <2>3, <3>1, EdgeUsersAre DEF Fits, StartsKept, m
  <2>4. CASE c[1] \in EdgeUser /\ c[2] \in Topic
    BY <2>1, <2>4, EdgeUsersAre DEF Fits, StartsKept, m
  <2>. QED  BY <2>1, <2>3, <2>4 DEF Fits, m
<1>3. ASSUME NEW c \in Channels, NEW i \in DOMAIN n[c] PROVE n[c][i] \in Wire
  BY <1>1, <1>3, NetRequests
<1>4. ASSUME NEW c \in Channels, NEW i \in DOMAIN n[c] PROVE n[c][i] \in Promises'[c]
  BY <1>2, <1>3, <1>4 DEF Promises
<1>. QED  BY <1>1, <1>4 DEF Within
LEMMA DispatchedIs ==
  ASSUME CentreTypes, NEW d \in Topic, NEW r \in Request, NEW op \in Operation,
         NEW nodes \in [1..Len(Vms[r]) -> Node(d)], CommandsInOrder,
         lan' = [lan EXCEPT ![d] = Dispatched(lan[d], nodes, CommandFor(op, r))],
         vms' = vms
  PROVE  /\ CommandsInOrder' /\ StartsKept
         /\ r \in EdgeUser /\ op = "VM_Req" => Starts(d, nodes[1], r)'
<1>. DEFINE c == CommandFor(op, r)
            L == Dispatched(lan[d], nodes, c)
<1>1. c \in BladeCommand /\ c.op # "APP_Req" /\ c.req = r
  BY DEF CommandFor, BladeCommand, Operation
<1>2. /\ lan = [e \in Topic |-> lan[e]] /\ lan[d] \in [Node(d) -> Seq(BladeCommand)]
      /\ \A n \in Node(d) : lan[d][n] \in Seq(BladeCommand)
  BY DEF CentreTypes
<1>3. /\ lan'[d] = L /\ \A e \in Topic : e # d => lan'[e] = lan[e]
  <2>1. lan' = [lan EXCEPT ![d] = L]
    OBVIOUS
  <2>. HIDE DEF L
  <2>. QED  BY <1>2, <2>1, EntryOf
<1>4. \A n \in Node(d) : L[n] = IF n \in ToSet(nodes) THEN Append(lan[d][n], c) ELSE lan[d][n]
  <2>. HIDE DEF c
  <2>. QED  BY <1>2 DEF Dispatched
<1>. HIDE DEF L, c
<1>5. ASSUME NEW n \in Node(d)
      PROVE  /\ InOrder(L[n], vms[d][n])
             /\ \A q : IsIn(lan[d][n], "VM_Req", q) => IsIn(L[n], "VM_Req", q)
             /\ n \in ToSet(nodes) => IsIn(L[n], c.op, c.req)
  <2>1. InOrder(lan[d][n], vms[d][n]) /\ lan[d][n] \in Seq(BladeCommand)
    BY <1>2, <1>5 DEF CommandsInOrder
  <2>2. CASE n \in ToSet(nodes)
    BY <1>1, <1>4, <2>1, <2>2, AppendedInOrder
  <2>3. CASE n \notin ToSet(nodes)
    BY <1>4, <2>1, <2>3
  <2>. QED  BY <2>2, <2>3
<1>6. CommandsInOrder'
  <2>1. ASSUME NEW e \in Topic, NEW n \in Node(e) PROVE InOrder(lan'[e][n], vms[e][n])
    BY <1>3, <1>5, <2>1 DEF CommandsInOrder
  <2>. QED  BY <2>1 DEF CommandsInOrder
<1>7. StartsKept
  BY <1>3, <1>5 DEF StartsKept, Starts
<1>8. ASSUME r \in EdgeUser, op = "VM_Req" PROVE Starts(d, nodes[1], r)'
  <2>1. Len(Vms[r]) = 1 /\ 1 \in 1..Len(Vms[r])
    BY <1>8, CloudConstants, VmsAre
  <2>2. nodes[1] \in Node(d) /\ nodes[1] \in ToSet(nodes)
    BY <2>1 DEF ToSet
  <2>3. c.op = "VM_Req" /\ c.req = r
    BY <1>8, <2>1 DEF CommandFor, c
  <2>. QED  BY <1>3, <1>5, <2>2, <2>3 DEF Starts
<1>. QED  BY <1>6, <1>7, <1>8

LEMMA DeploymentsCentreReceives ==
  ASSUME PathInv, CentreTypes, PathInv', Deployments, NEW d \in Topic, CentreReceivesRequest(d)
  PROVE  Deployments'
<1>. DEFINE c == <<CloudProviderTopic, d>>
            n == [net EXCEPT ![c] = Tail(@)]
<1>1. /\ Running /\ net[c] # <<>> /\ c \in Channels
      /\ UNCHANGED <<providerVars, vms, apps, userVars, generatorVars, stopped>>
  BY CentreAnswers, ChannelsAre
<1>2. PICK r \in Request, op \in Operation :
        /\ stage[r] = IF op = "VM_Req" THEN "requested" ELSE "subscribed"
        /\ (\E nodes : Grants(d, op, r, nodes)) \/ Refuses(d, op, r)
  BY CentreAnswers
<1>3. EdgeOnce'
  BY <1>1 DEF Deployments, EdgeOnce, providerVars, userVars
<1>4. n \in Channel /\ Within(n, Promises) /\ NetTypes(n)
  <2>. HIDE DEF c
  <2>. QED  BY <1>1, ReceivedWithin, ReceivedTypes DEF Deployments, PathInv, NetTypes
<1>5. n = Received(CloudProviderTopic, d)
  BY DEF Received
<1>. HIDE DEF n, c
<1>6. <<d, r>> \in Channels /\ <<d, CloudProviderTopic>> \in Channels
  BY ChannelsAre
<1>7. /\ <<d, r>>[1] = d /\ <<d, r>>[2] = r /\ d \notin EdgeUser /\ r \notin Topic
      /\ r # CloudProviderTopic /\ CloudProviderTopic \notin EdgeUser
  BY CloudConstants DEF EdgeUser, Sender, CloudProviderTopic
<1>8. CASE Refuses(d, op, r)
  <2>. DEFINE w == NodeUpdate(d)
              u == Sent(n, d, CloudProviderTopic, w)
              a == VmMessage(op, r, "rejected")
  <2>1. net' = Sent(u, d, r, a) /\ vms' = vms /\ lan' = lan
    BY <1>1, <1>5, <1>8 DEF Refuses, Rejection
  <2>2. w \in Wire /\ a \in Wire /\ a.result # "accepted"
    BY CoresAreNaturals DEF NodeUpdate, VmMessage, Wire, Operation
  <2>. HIDE DEF w, a
  <2>3. w \in Promises[<<d, CloudProviderTopic>>]
    BY <1>6, <1>7, <2>2 DEF Promises, Fits
  <2>4. a \in Promises[<<d, r>>]
    BY <1>6, <1>7, <2>2 DEF Promises, Fits
  <2>5. Within(u, Promises)
    BY <1>4, <1>6, <2>2, <2>3, SentWithin
  <2>. HIDE DEF u
  <2>6. Within(net', Promises)
    BY <1>6, <2>1, <2>2, <2>4, <2>5, SentWithin
  <2>7. CommandsInOrder' /\ Promises' = Promises
    BY <2>1, PromisesRest DEF Deployments, CommandsInOrder
  <2>. QED  BY <1>3, <2>6, <2>7 DEF Deployments
<1>9. ASSUME NEW nodes, Grants(d, op, r, nodes) PROVE Deployments'
  <2>. DEFINE a == Acceptance(op, r, nodes)
  <2>1. /\ nodes \in [1..Len(Vms[r]) -> Node(d)] /\ vms' = vms
        /\ lan' = [lan EXCEPT ![d] = Dispatched(lan[d], nodes, CommandFor(op, r))]
        /\ net' = Sent(n, d, r, a)
    BY <1>1, <1>5, <1>9 DEF Grants
  <2>2. /\ CommandsInOrder' /\ StartsKept
        /\ r \in EdgeUser /\ op = "VM_Req" => Starts(d, nodes[1], r)'
    BY <2>1, DispatchedIs DEF Deployments
  <2>3. r \in EdgeUser => op = "VM_Req"
    BY <1>2 DEF Deployments, EdgeOnce
  <2>4. a \in Wire /\ a.nodes = nodes
    <3>1. Len(Vms[r]) \in Nat /\ Node(d) \subseteq Nat
      BY VmsAre, CloudConstants DEF Node
    <3>2. nodes \in Seq(Nat)
      <4>1. nodes \in [1..Len(Vms[r]) -> Nat]
        BY <2>1, <3>1
      <4>. QED  BY <3>1, <4>1
    <3>. QED  BY <3>2 DEF Acceptance, Wire, Operation
  <2>. HIDE DEF a
  <2>5. a \in Promises'[<<d, r>>]
    <3>1. Fits(<<d, r>>, a)'
      BY <1>7, <2>2, <2>3, <2>4 DEF Fits
    <3>. QED  BY <1>6, <2>4, <3>1 DEF Promises
  <2>6. Within(n, Promises')
    BY <1>4, <2>2, PromisesKept
  <2>7. Within(net', Promises')
    BY <1>6, <2>1, <2>4, <2>5, <2>6, SentWithin
  <2>. QED  BY <1>3, <2>2, <2>7 DEF Deployments
<1>. QED  BY <1>2, <1>8, <1>9
LEMMA DeploymentsHandleApplicationRequest ==
  ASSUME PathInv, CentreTypes, PathInv', Deployments,
         NEW d \in Topic, NEW r \in Request, handleApplicationRequest(d, r)
  PROVE  Deployments'
<1>. DEFINE c == <<r, d>>
            m == Head(net[c])
            a == [op |-> "APP_Req", req |-> r]
<1>1. /\ net[c] # <<>> /\ c \in Channels /\ net' = [net EXCEPT ![c] = Tail(@)]
      /\ \/ lan' = lan
         \/ m.node # 0 /\ lan' = [lan EXCEPT ![d][m.node] = Append(@, a)]
      /\ vms' = vms /\ stage' = stage /\ user' = user
  BY ChannelsAre DEF handleApplicationRequest, Arrived, First, Received, providerVars, userVars
<1>2. EdgeOnce'
  BY <1>1 DEF Deployments, EdgeOnce
<1>3. Within(net', Promises) /\ NetTypes(net') /\ m \in Promises[c] /\ Shape(c, m)
  <2>. HIDE DEF c, a
  <2>. QED  BY <1>1, ReceivedWithin, ReceivedTypes DEF Deployments, PathInv
<1>4. CASE lan' = lan
  BY <1>1, <1>2, <1>3, <1>4, PromisesRest DEF Deployments, CommandsInOrder
<1>5. CASE m.node # 0 /\ lan' = [lan EXCEPT ![d][m.node] = Append(@, a)]
  <2>. DEFINE n == m.node
              q == lan[d][n]
              x == Append(q, a)
  <2>1. n \in Node(d) /\ Starts(d, n, r)
    <3>1. c[1] = r /\ c[2] = d /\ d \notin Request /\ r # CloudProviderTopic
      BY CloudConstants DEF Sender, CloudProviderTopic
    <3>. HIDE DEF m, c
    <3>2. r \in EdgeUser
      BY <1>3, <1>5, <3>1, CloudConstants DEF Shape, EdgeUser
    <3>3. Fits(c, m)
      BY <1>1, <1>3 DEF Promises
    <3>. QED  BY <3>1, <3>2, <3>3 DEF Fits
  <2>2. /\ q \in Seq(BladeCommand) /\ a \in BladeCommand
        /\ lan = [e \in Topic |-> lan[e]]
        /\ \A e \in Topic : lan[e] \in [Node(e) -> Seq(BladeCommand)]
    BY <2>1 DEF CentreTypes, BladeCommand
  <2>3. lan' = [lan EXCEPT ![d][n] = x]
    BY <1>5
  <2>. HIDE DEF n, a
  <2>4. InOrder(q, vms[d][n]) /\ (r \in vms[d][n] \/ IsIn(q, "VM_Req", r))
    BY <2>1 DEF Deployments, CommandsInOrder, Starts
  <2>5. a.op = "APP_Req" /\ a.req = r
    BY DEF a
  <2>. HIDE DEF q
  <2>6. /\ x \in Seq(BladeCommand) /\ InOrder(x, vms[d][n])
        /\ \A p : IsIn(q, "VM_Req", p) => IsIn(x, "VM_Req", p)
    BY <2>2, <2>4, <2>5, AppendedInOrder
  <2>. HIDE DEF x
  <2>7. /\ lan'[d][n] = x
        /\ \A e \in Topic : \A k \in Node(e) : e # d \/ k # n => lan'[e][k] = lan[e][k]
    BY <2>1, <2>2, <2>3, <2>6, NodeEntryOf
  <2>8. ASSUME NEW e \in Topic, NEW k \in Node(e)
        PROVE  /\ InOrder(lan'[e][k], vms[e][k])
               /\ \A p : IsIn(lan[e][k], "VM_Req", p) => IsIn(lan'[e][k], "VM_Req", p)
    <3>1. CASE e = d /\ k = n
      BY <2>6, <2>7, <3>1 DEF q
    <3>2. CASE e # d \/ k # n
      <4>1. lan'[e][k] = lan[e][k]
        BY <2>7, <2>8, <3>2
      <4>. QED  BY <2>8, <4>1 DEF Deployments, CommandsInOrder
    <3>. QED  BY <3>1, <3>2
  <2>9. CommandsInOrder'
    BY <1>1, <2>8 DEF CommandsInOrder
  <2>10. StartsKept
    BY <1>1, <2>8 DEF StartsKept, Starts
  <2>11. Within(net', Promises')
    BY <1>3, <2>10, PromisesKept
  <2>. QED  BY <1>2, <2>9, <2>11 DEF Deployments
<1>. QED  BY <1>1, <1>4, <1>5

LEMMA DeploymentsBladeReceives ==
  ASSUME PathInv, CentreTypes, PathInv', Deployments,
         NEW d \in Topic, NEW n \in Node(d), BladeReceives(d, n)
  PROVE  Deployments'
<1>. DEFINE q == lan[d][n]
            c == Head(q)
            rest == Tail(q)
            w == IF c.op = "VM_Req" THEN vms[d][n] \cup {c.req} ELSE vms[d][n]
<1>1. /\ q # <<>> /\ lan' = [lan EXCEPT ![d][n] = rest]
      /\ \/ c.op = "VM_Req" /\ vms' = [vms EXCEPT ![d][n] = w]
         \/ c.op # "VM_Req" /\ vms' = vms
      /\ net' = net /\ stage' = stage /\ user' = user
  BY DEF BladeReceives, providerVars, userVars
<1>2. q \in Seq(BladeCommand) /\ rest \in Seq(BladeCommand) /\ w \in SUBSET Request
  <2>1. c \in BladeCommand /\ rest \in Seq(BladeCommand) /\ q \in Seq(BladeCommand)
    BY <1>1, CommandOf DEF CentreTypes
  <2>. QED  BY <2>1 DEF CentreTypes, BladeCommand
<1>3. EdgeOnce'
  BY <1>1 DEF Deployments, EdgeOnce
<1>4. InOrder(q, vms[d][n])
  BY DEF Deployments, CommandsInOrder
<1>5. vms[d][n] \subseteq w /\ (c.op = "VM_Req" => c.req \in w)
  OBVIOUS
<1>. HIDE DEF w
<1>6. InOrder(rest, w) /\ \A r : IsIn(q, "VM_Req", r) => r \in w \/ IsIn(rest, "VM_Req", r)
  <2>. HIDE DEF q
  <2>. QED  BY <1>1, <1>2, <1>4, <1>5, ReceivedInOrder
<1>. HIDE DEF rest, c
<1>7. /\ lan'[d][n] = rest
      /\ \A e \in Topic : \A k \in Node(e) : e # d \/ k # n => lan'[e][k] = lan[e][k]
  BY <1>1, <1>2, NodeEntryOf DEF CentreTypes
<1>8. /\ vms'[d][n] = w
      /\ \A e \in Topic : \A k \in Node(e) : e # d \/ k # n => vms'[e][k] = vms[e][k]
  <2>1. CASE c.op = "VM_Req" /\ vms' = [vms EXCEPT ![d][n] = w]
    BY <1>2, <2>1, NodeEntryOf DEF CentreTypes
  <2>2. CASE c.op # "VM_Req" /\ vms' = vms
    BY <2>2 DEF w
  <2>. QED  BY <1>1, <2>1, <2>2
<1>9. ASSUME NEW e \in Topic, NEW k \in Node(e)
      PROVE  /\ InOrder(lan'[e][k], vms'[e][k])
             /\ \A r : r \in vms[e][k] \/ IsIn(lan[e][k], "VM_Req", r)
                         => r \in vms'[e][k] \/ IsIn(lan'[e][k], "VM_Req", r)
  <2>1. CASE e = d /\ k = n
    BY <1>5, <1>6, <1>7, <1>8, <2>1 DEF q
  <2>2. CASE e # d \/ k # n
    <3>1. lan'[e][k] = lan[e][k] /\ vms'[e][k] = vms[e][k]
      BY <1>7, <1>8, <1>9, <2>2
    <3>. QED  BY <1>9, <3>1 DEF Deployments, CommandsInOrder
  <2>. QED  BY <2>1, <2>2
<1>10. CommandsInOrder' /\ StartsKept
  BY <1>9 DEF CommandsInOrder, StartsKept, Starts
<1>11. Within(net', Promises')
  BY <1>1, <1>10, PromisesKept DEF Deployments, PathInv
<1>. QED  BY <1>3, <1>10, <1>11 DEF Deployments

\* The others leave the commands alone and keep what they send within bounds.
LEMMA DeploymentsElsewhere ==
  ASSUME Deployments, UNCHANGED <<lan, vms>>, Within(net', Promises), EdgeOnce'
  PROVE  Deployments'
BY PromisesRest DEF Deployments, CommandsInOrder

LEMMA DeploymentsProvider ==
  ASSUME PathInv, PathInv', Deployments,
         \/ \E from \in Topic \cup Request : ProviderReceives(from)
         \/ \E r \in Request : ProviderTimesOut(r)
  PROVE  Deployments'
<1>0. emitted' \in Seq(Proved!Message)
  BY DEF PathInv, Proved!TypeInv
<1>1. ASSUME NEW r \in Request, ProviderTimesOut(r) PROVE Deployments'
  <2>1. UNCHANGED <<lan, vms, stage, user>> /\ net' = Emitted(net, emitted', stage')
    BY <1>1 DEF ProviderTimesOut, centreVars, userVars
  <2>2. Within(net', Promises)
    BY <1>0, <2>1, ProviderPromises, EmittedWithin DEF Deployments, PathInv
  <2>3. EdgeOnce'
    BY <2>1 DEF Deployments, EdgeOnce
  <2>. QED  BY <2>1, <2>2, <2>3, DeploymentsElsewhere
<1>2. ASSUME NEW from \in Topic \cup Request, ProviderReceives(from) PROVE Deployments'
  <2>. DEFINE c == <<from, CloudProviderTopic>>
              m == Head(net[c])
              n == [net EXCEPT ![c] = Tail(@)]
  <2>1. /\ UNCHANGED <<lan, vms, user>> /\ net[c] # <<>>
        /\ net' = Emitted(n, emitted', stage')
        /\ \/ m.op = "VM_Req" /\ stage' = [stage EXCEPT ![m.req] = "requested"]
           \/ m.op = "VM_Sub" /\ stage' = [stage EXCEPT ![m.req] = "subscribed"]
           \/ UNCHANGED stage
    BY <1>2 DEF ProviderReceives, Arrived, First, Received, centreVars, userVars
  <2>2. c \in Channels /\ c[1] = from /\ c[2] = CloudProviderTopic
    BY ChannelsAre
  <2>. HIDE DEF c
  <2>3. /\ NetTypes(n) /\ Within(n, Promises) /\ m \in Promises[c] /\ Shape(c, m)
    BY <2>1, <2>2, ReceivedTypes, ReceivedWithin DEF Deployments, PathInv
  <2>4. Within(net', Promises)
    BY <1>0, <2>1, <2>3, ProviderPromises, EmittedWithin
  <2>. HIDE DEF m, n
  <2>5. EdgeOnce'
    <3>1. stage = [r \in Request |-> stage[r]]
      BY DEF PathInv, Proved!TypeInv, Proved!QueueInv
    <3>2. m.op = "VM_Sub" => m.req \notin EdgeUser
      <4>1. Fits(c, m)
        BY <2>2, <2>3 DEF Promises
      <4>2. from \in Request => m.req = from
        BY <2>2, <2>3 DEF Shape, Carries
      <4>3. from \in Topic => m.op # "VM_Sub"
        BY <2>2, <2>3 DEF Shape, NodeUpdate
      <4>. QED  BY <2>2, <4>1, <4>2, <4>3 DEF Fits, EdgeUser
    <3>3. \A r \in EdgeUser : r \in Request
      BY DEF EdgeUser
    <3>. QED  BY <2>1, <3>1, <3>2, <3>3 DEF Deployments, EdgeOnce
  <2>. QED  BY <2>1, <2>4, <2>5, DeploymentsElsewhere
<1>. QED  BY <1>1, <1>2
LEMMA DeploymentsEdgeUser ==
  ASSUME PathInv, Deployments, NEW r \in EdgeUser,
         startup(r) \/ ControllerReceives(r) \/ \E from \in Sender : handleVmUpdate(r, from)
  PROVE  Deployments'
<1>0. r \in Request /\ r \notin Topic /\ r # CloudProviderTopic
  BY EdgeUsersAre
<1>1. CASE startup(r)
  <2>. DEFINE c == <<r, CloudProviderTopic>>
              m == VmMessage("VM_Req", r, "none")
  <2>1. /\ UNCHANGED <<lan, vms, stage>> /\ user' = [user EXCEPT ![r] = "asking"]
        /\ net' = Sent(net, r, CloudProviderTopic, m)
    BY <1>1 DEF startup, centreVars, providerVars
  <2>2. m \in Wire /\ m.op = "VM_Req"
    BY <1>0 DEF VmMessage, Wire, Operation
  <2>3. c \in Channels /\ c[1] = r /\ c[2] = CloudProviderTopic
    BY <1>0, ChannelsAre
  <2>. HIDE DEF c, m
  <2>4. m \in Promises[c]
    BY <1>0, <2>2, <2>3, EdgeUsersAre DEF Promises, Fits
  <2>5. Within(net', Promises)
    BY <2>1, <2>2, <2>3, <2>4, SentWithin DEF Deployments, c
  <2>6. EdgeOnce'
    BY <2>1 DEF Deployments, EdgeOnce, PathInv, UserTypes, EdgeUser
  <2>. QED  BY <2>1, <2>5, <2>6, DeploymentsElsewhere
<1>2. ASSUME NEW from \in Sender, handleVmUpdate(r, from) PROVE Deployments'
  <2>. DEFINE c == <<from, r>>
              m == Head(net[c])
              n == [net EXCEPT ![c] = Tail(@)]
              a == AppMessage(r, m.nodes[1])
              k == <<r, from>>
  <2>1. /\ UNCHANGED <<lan, vms, stage>> /\ Running /\ net[c] # <<>>
        /\ \/ m.result = "accepted" /\ user' = [user EXCEPT ![r] = "up"] /\ net' = Sent(n, r, from, a)
           \/ user' = [user EXCEPT ![r] = "refused"] /\ net' = n
    BY <1>2 DEF handleVmUpdate, Arrived, First, Received, Deployment, Running, centreVars, providerVars
  <2>2. m.result = "accepted" => from \in Topic /\ m.nodes \in [1..Len(Vms[r]) -> Node(from)]
    BY <1>0, <2>1, ReadPaths DEF PathInv
  <2>3. c \in Channels /\ c[1] = from /\ c[2] = r
    BY <1>0, ChannelsAre DEF Sender, CloudProviderTopic
  <2>. HIDE DEF c
  <2>4. Within(n, Promises) /\ m \in Promises[c]
    BY <2>1, <2>3, ReceivedWithin DEF Deployments
  <2>5. EdgeOnce'
    BY <2>1 DEF Deployments, EdgeOnce, PathInv, UserTypes, EdgeUser
  <2>. HIDE DEF m, n
  <2>6. CASE m.result = "accepted" /\ net' = Sent(n, r, from, a)
    <3>1. from \in Topic /\ m.nodes[1] \in Node(from) /\ Node(from) \subseteq Nat
      <4>1. from \in Topic /\ m.nodes \in [1..Len(Vms[r]) -> Node(from)] /\ 1 \in 1..Len(Vms[r])
        BY <1>0, <2>2, <2>6, VmsAre
      <4>2. Capacity[from] \in Seq(Counters)
        BY <4>1, CloudConstants
      <4>3. Node(from) \subseteq Nat
        BY <4>2 DEF Node
      <4>. HIDE DEF Node
      <4>. QED  BY <4>1, <4>3
    <3>2. Starts(from, m.nodes[1], r)
      <4>1. Fits(c, m)
        BY <2>3, <2>4 DEF Promises
      <4>. QED  BY <2>3, <2>6, <3>1, <4>1 DEF Fits
    <3>3. a \in Wire /\ a.node = m.nodes[1]
      BY <1>0, <3>1 DEF AppMessage, Wire
    <3>4. k \in Channels /\ k[1] = r /\ k[2] = from /\ from # CloudProviderTopic
      BY <1>0, <3>1, ChannelsAre, EdgeUsersAre
    <3>5. net' = Sent(n, r, from, a)
      BY <2>6
    <3>. HIDE DEF a, k
    <3>6. a \in Promises[k]
      BY <1>0, <3>1, <3>2, <3>3, <3>4 DEF Promises, Fits
    <3>7. Within(net', Promises)
      BY <2>4, <3>3, <3>4, <3>5, <3>6, SentWithin DEF k
    <3>. QED  BY <2>1, <2>5, <3>7, DeploymentsElsewhere
  <2>7. CASE net' = n
    BY <2>1, <2>4, <2>5, <2>7, DeploymentsElsewhere
  <2>. QED  BY <2>1, <2>6, <2>7
<1>3. CASE ControllerReceives(r)
  <2>1. UNCHANGED <<lan, vms, stage, user, net>>
    BY <1>3 DEF ControllerReceives, centreVars, providerVars
  <2>2. Within(net', Promises) /\ EdgeOnce'
    BY <2>1 DEF Deployments, EdgeOnce
  <2>. QED  BY <2>1, <2>2, DeploymentsElsewhere
<1>. QED  BY <1>1, <1>2, <1>3

\* What a user of the generator sends is no promise.
LEMMA GeneratedPromises ==
  ASSUME NEW r \in Generated
  PROVE  /\ r \in Request /\ r \notin EdgeUser
         /\ Promises[<<r, CloudProviderTopic>>] = Wire
         /\ \A d \in Topic : Promises[<<r, d>>] = Wire
<1>1. r \in Request /\ r \notin EdgeUser /\ r \notin Topic
  BY CloudConstants DEF EdgeUser, Sender
<1>2. ASSUME NEW c \in Channels, c[1] = r PROVE Promises[c] = Wire
  BY <1>1, <1>2 DEF Promises, Fits
<1>3. ASSUME NEW d \in Topic \cup {CloudProviderTopic} PROVE Promises[<<r, d>>] = Wire
  <2>1. <<r, d>> \in Channels /\ <<r, d>>[1] = r
    BY <1>1, ChannelsAre
  <2>. QED  BY <1>2, <2>1
<1>. QED  BY <1>1, <1>3

LEMMA DeploymentsGenerated ==
  ASSUME PathInv, CentreTypes, Deployments, NEW r \in Generated,
         GeneratedUserAsks(r) \/ \E from \in Sender : processResponseMessage(r, from)
  PROVE  Deployments'
<1>0. /\ r \in Request /\ r \notin EdgeUser
      /\ Promises[<<r, CloudProviderTopic>>] = Wire
      /\ \A d \in Topic : Promises[<<r, d>>] = Wire
  BY GeneratedPromises
<1>1. \A op \in Operation : VmMessage(op, r, "none") \in Wire
  BY <1>0 DEF VmMessage, Wire
<1>2. <<r, CloudProviderTopic>> \in Channels /\ \A d \in Topic : <<r, d>> \in Channels
  BY <1>0, ChannelsAre
<1>3. ASSUME NEW x, user' = [user EXCEPT ![r] = x], stage' = stage PROVE EdgeOnce'
  BY <1>0, <1>3 DEF Deployments, EdgeOnce, PathInv, UserTypes, EdgeUser
<1>4. CASE GeneratedUserAsks(r)
  <2>1. /\ UNCHANGED <<lan, vms, stage>> /\ user' = [user EXCEPT ![r] = "asking"]
        /\ net' = Sent(net, r, CloudProviderTopic, VmMessage("VM_Req", r, "none"))
    BY <1>4 DEF GeneratedUserAsks, centreVars, providerVars
  <2>2. Within(net', Promises)
    BY <1>0, <1>1, <1>2, <2>1, SentWithin DEF Deployments, Operation
  <2>. QED  BY <1>3, <2>1, <2>2, DeploymentsElsewhere
<1>5. ASSUME NEW from \in Sender, processResponseMessage(r, from) PROVE Deployments'
  <2>. DEFINE c == <<from, r>>
              m == Head(net[c])
              n == [net EXCEPT ![c] = Tail(@)]
  <2>1. /\ UNCHANGED <<lan, vms, stage>> /\ Running /\ net[c] # <<>>
        /\ \/ user' = user
           \/ \E x : user' = [user EXCEPT ![r] = x]
        /\ \/ m.result = "accepted" /\ net' = Sent(n, r, from, AppMessage(r, 0))
           \/ net' = n \/ net' = net
           \/ net' = Sent(n, r, CloudProviderTopic, VmMessage("VM_Sub", r, "none"))
    BY <1>5 DEF processResponseMessage, GeneratedUserAccepted, TooManyApps, GeneratedUserRefused,
       DeployedByModel, Arrived, First, Received, Running, centreVars, providerVars
  <2>2. m.result = "accepted" => from \in Topic
    BY <1>0, <2>1, ReadPaths DEF PathInv
  <2>3. Within(n, Promises)
    <3>1. c \in Channels
      BY <1>0, ChannelsAre DEF Sender, CloudProviderTopic
    <3>. HIDE DEF c
    <3>. QED  BY <2>1, <3>1, ReceivedWithin DEF Deployments
  <2>4. EdgeOnce'
    <3>1. CASE user' = user
      BY <2>1, <3>1 DEF Deployments, EdgeOnce
    <3>. QED  BY <1>3, <2>1, <3>1
  <2>. HIDE DEF m, n, c
  <2>5. AppMessage(r, 0) \in Wire
    BY <1>0 DEF AppMessage, Wire
  <2>6. Within(net', Promises)
    <3>1. CASE m.result = "accepted" /\ net' = Sent(n, r, from, AppMessage(r, 0))
      <4>1. from \in Topic /\ <<r, from>> \in Channels /\ Promises[<<r, from>>] = Wire
        BY <1>0, <1>2, <2>2, <3>1
      <4>. QED  BY <2>3, <2>5, <3>1, <4>1, SentWithin
    <3>2. CASE net' = Sent(n, r, CloudProviderTopic, VmMessage("VM_Sub", r, "none"))
      BY <1>0, <1>1, <1>2, <2>3, <3>2, SentWithin DEF Operation
    <3>3. CASE net' = n \/ net' = net
      BY <2>3, <3>3 DEF Deployments
    <3>. QED  BY <2>1, <3>1, <3>2, <3>3
  <2>. QED  BY <2>1, <2>4, <2>6, DeploymentsElsewhere
<1>. QED  BY <1>4, <1>5

LEMMA DeploymentsInit == Init => Deployments
<1>. SUFFICES ASSUME Init PROVE Deployments
  OBVIOUS
<1>1. EdgeOnce
  BY DEF Init, EdgeUsersInit, Provider!Init, EdgeOnce, EdgeUser
<1>2. CommandsInOrder
  BY DEF Init, ManagersInit, CommandsInOrder, InOrder
<1>3. NetTypes(net)
  BY PathInit DEF PathInv
<1>4. ASSUME NEW c \in Channels, NEW i \in DOMAIN net[c] PROVE Fits(c, net[c][i])
  <2>1. c[1] \in Topic /\ c[2] = CloudProviderTopic
    BY DEF Init, ManagersInit
  <2>. QED  BY <2>1, CloudConstants DEF Fits, EdgeUser, Sender, CloudProviderTopic
<1>5. ASSUME NEW c \in Channels, NEW i \in DOMAIN net[c] PROVE net[c][i] \in Promises[c]
  BY <1>3, <1>4, <1>5, NetRequests DEF NetTypes, Promises
<1>. QED  BY <1>1, <1>2, <1>3, <1>5 DEF Deployments, Within, NetTypes

LEMMA DeploymentsNext ==
  ASSUME PathInv, CentreTypes, Deployments, [Next]_vars
  PROVE  Deployments'
<1>0. PathInv'
  BY PathNext
<1>1. ASSUME \/ GeneratorStarts \/ UNCHANGED vars \/ \E d \in Topic : handleManageMachines(d)
      PROVE  Deployments'
  <2>1. UNCHANGED <<lan, vms, stage, user, net>>
    BY <1>1 DEF GeneratorStarts, handleManageMachines, vars, centreVars, providerVars, userVars
  <2>2. Within(net', Promises) /\ EdgeOnce'
    BY <2>1 DEF Deployments, EdgeOnce
  <2>. QED  BY <2>1, <2>2, DeploymentsElsewhere
<1>2. ASSUME NEW d \in Topic,
             CentreReceivesRequest(d) \/ (\E n \in Node(d) : BladeReceives(d, n))
               \/ (\E r \in Request : handleApplicationRequest(d, r))
      PROVE  Deployments'
  BY <1>0, <1>2, DeploymentsCentreReceives, DeploymentsBladeReceives,
     DeploymentsHandleApplicationRequest
<1>. QED
  BY <1>0, <1>1, <1>2, DeploymentsProvider, DeploymentsEdgeUser, DeploymentsGenerated DEF Next
-----------------------------------------------------------------------------
(* The local application of an EdgeUser starts before it is told *)

SerialCommand == [op : {"APP_Req", "App_Set"}]

HasDeployment(q) == \E j \in DOMAIN q : q[j].op = "APP_Req"

LocalFirst(q, l) ==
  \A i \in DOMAIN q : q[i].op = "App_Set" => l # "off" \/ \E j \in 1..(i - 1) : q[j].op = "APP_Req"

Areas ==
  /\ serial = [r \in EdgeUser |-> serial[r]] /\ local = [r \in EdgeUser |-> local[r]]
  /\ \A r \in EdgeUser :
       /\ serial[r] \in Seq(SerialCommand) /\ LocalFirst(serial[r], local[r])
       /\ r \in Dependent /\ user[r] # "idle" => local[r] # "off" \/ HasDeployment(serial[r])
  /\ stopped # "no deployment"

LEMMA SerialAppended ==
  ASSUME NEW q \in Seq(SerialCommand), NEW l, LocalFirst(q, l), NEW op \in {"APP_Req", "App_Set"},
         op = "App_Set" => l # "off" \/ HasDeployment(q)
  PROVE  LET s == Append(q, Command(op))
         IN  /\ s \in Seq(SerialCommand) /\ LocalFirst(s, l)
             /\ HasDeployment(q) \/ op = "APP_Req" => HasDeployment(s)
<1>. DEFINE c == Command(op)
            s == Append(q, c)
            k == Len(q) + 1
<1>1. c \in SerialCommand /\ c.op = op
  BY DEF Command, SerialCommand
<1>. HIDE DEF c
<1>2. /\ s \in Seq(SerialCommand) /\ Len(q) \in Nat /\ DOMAIN q = 1..Len(q) /\ DOMAIN s = 1..k
      /\ s[k] = c /\ \A i \in DOMAIN q : s[i] = q[i]
  BY <1>1
<1>. HIDE DEF s
<1>3. DOMAIN s = DOMAIN q \cup {k} /\ k \in DOMAIN s
  BY <1>2
<1>4. HasDeployment(q) \/ op = "APP_Req" => HasDeployment(s)
  BY <1>1, <1>2, <1>3 DEF HasDeployment
<1>5. ASSUME NEW i \in DOMAIN s, s[i].op = "App_Set", l = "off"
      PROVE  \E j \in 1..(i - 1) : s[j].op = "APP_Req"
  <2>1. CASE i \in DOMAIN q
    <3>1. \A j \in 1..(i - 1) : j \in DOMAIN q
      BY <1>2, <2>1
    <3>. QED  BY <1>2, <1>5, <2>1, <3>1 DEF LocalFirst
  <2>2. CASE i = k
    <3>1. \A j \in DOMAIN q : j \in 1..(i - 1)
      BY <1>2, <2>2
    <3>. QED  BY <1>1, <1>2, <1>5, <2>2, <3>1 DEF HasDeployment
  <2>. QED  BY <1>3, <2>1, <2>2
<1>6. LocalFirst(s, l)
  BY <1>5 DEF LocalFirst
<1>. QED  BY <1>2, <1>4, <1>6 DEF s, c

LEMMA SerialReceived ==
  ASSUME NEW q \in Seq(SerialCommand), q # <<>>, NEW l, LocalFirst(q, l),
         NEW k, l # "off" => k # "off", Head(q).op = "APP_Req" => k # "off"
  PROVE  /\ Tail(q) \in Seq(SerialCommand) /\ LocalFirst(Tail(q), k)
         /\ Head(q).op = "App_Set" => l # "off"
         /\ HasDeployment(q) => k # "off" \/ HasDeployment(Tail(q))
         /\ Head(q).op \in {"APP_Req", "App_Set"}
<1>. DEFINE s == Tail(q)
<1>1. /\ Len(q) \in Nat /\ DOMAIN q = 1..Len(q) /\ DOMAIN s = 1..(Len(q) - 1) /\ Head(q) = q[1]
      /\ \A i \in DOMAIN s : s[i] = q[i + 1]
      /\ 1 \in DOMAIN q /\ s \in Seq(SerialCommand) /\ q[1] \in SerialCommand
  OBVIOUS
<1>. HIDE DEF s
<1>2. /\ \A i \in DOMAIN s : i \in Nat /\ i + 1 \in DOMAIN q /\ s[i] = q[i + 1]
      /\ \A i \in DOMAIN q : i # 1 => i - 1 \in DOMAIN s /\ s[i - 1] = q[i]
  BY <1>1
<1>3. HasDeployment(q) => k # "off" \/ HasDeployment(s)
  BY <1>1, <1>2 DEF HasDeployment
<1>4. ASSUME NEW i \in DOMAIN s, s[i].op = "App_Set", k = "off"
      PROVE  \E j \in 1..(i - 1) : s[j].op = "APP_Req"
  <2>1. PICK j \in 1..((i + 1) - 1) : q[j].op = "APP_Req"
    BY <1>2, <1>4 DEF LocalFirst
  <2>2. j # 1
    BY <1>1, <1>4, <2>1
  <2>3. j \in DOMAIN q /\ j - 1 \in 1..(i - 1)
    BY <1>1, <1>2, <2>2
  <2>. QED  BY <1>2, <2>1, <2>2, <2>3
<1>5. LocalFirst(s, k)
  BY <1>4 DEF LocalFirst
<1>6. Head(q).op = "App_Set" => l # "off"
  BY <1>1 DEF LocalFirst
<1>7. Head(q).op \in {"APP_Req", "App_Set"}
  BY <1>1 DEF SerialCommand
<1>. QED  BY <1>1, <1>3, <1>5, <1>6, <1>7 DEF s

\* What one EdgeUser does concerns its own area.
LEMMA AreaMoves ==
  ASSUME Areas, NEW r \in EdgeUser, NEW q \in Seq(SerialCommand), NEW l,
         serial' = [serial EXCEPT ![r] = q], local' = [local EXCEPT ![r] = l],
         \A p \in EdgeUser : p # r => user'[p] = user[p],
         LocalFirst(q, l), stopped' # "no deployment",
         r \in Dependent /\ user'[r] # "idle" => l # "off" \/ HasDeployment(q)
  PROVE  Areas'
<1>1. /\ serial'[r] = q /\ local'[r] = l
      /\ \A p \in EdgeUser : p # r => serial'[p] = serial[p] /\ local'[p] = local[p]
      /\ serial' = [p \in EdgeUser |-> serial'[p]] /\ local' = [p \in EdgeUser |-> local'[p]]
  BY DEF Areas
<1>. QED  BY <1>1 DEF Areas

LEMMA AreasNext ==
  ASSUME PathInv, CentreTypes, Areas, [Next]_vars
  PROVE  Areas'
<1>0. \A r \in EdgeUser : r \in Request /\ r \notin Generated
  BY EdgeUsersAre
<1>1. ASSUME NEW r \in EdgeUser, startup(r) PROVE Areas'
  <2>. DEFINE q == IF r \in Dependent THEN Append(serial[r], Command("APP_Req")) ELSE serial[r]
  <2>1. /\ user' = [user EXCEPT ![r] = "asking"] /\ local' = local /\ stopped' = stopped
        /\ serial' = IF r \in Dependent THEN [serial EXCEPT ![r] = Append(@, Command("APP_Req"))]
                                        ELSE serial
    BY <1>1 DEF startup
  <2>2. serial[r] \in Seq(SerialCommand) /\ LocalFirst(serial[r], local[r])
    BY DEF Areas
  <2>3. /\ q \in Seq(SerialCommand) /\ LocalFirst(q, local[r])
        /\ r \in Dependent => HasDeployment(q)
    BY <2>2, SerialAppended
  <2>4. serial' = [serial EXCEPT ![r] = q] /\ local' = [local EXCEPT ![r] = local[r]]
    BY <2>1 DEF Areas
  <2>5. \A p \in EdgeUser : p # r => user'[p] = user[p]
    BY <1>0, <2>1 DEF PathInv, UserTypes
  <2>6. stopped' # "no deployment"
    BY <2>1 DEF Areas
  <2>. HIDE DEF q
  <2>. QED  BY <2>3, <2>4, <2>5, <2>6, AreaMoves
<1>2. ASSUME NEW r \in EdgeUser, NEW from \in Sender, handleVmUpdate(r, from) PROVE Areas'
  <2>1. /\ Running /\ net[<<from, r>>] # <<>>
        /\ \E x : user' = [user EXCEPT ![r] = x]
        /\ local' = local /\ stopped' = stopped
        /\ serial' = serial \/ serial' = sendServiceIsUp(r)
    BY <1>2 DEF handleVmUpdate, Arrived, Running
  <2>2. user[r] # "idle"
    BY <1>0, <2>1, ReadPaths DEF PathInv
  <2>3. /\ serial[r] \in Seq(SerialCommand) /\ LocalFirst(serial[r], local[r])
        /\ r \in Dependent => local[r] # "off" \/ HasDeployment(serial[r])
    BY <2>2 DEF Areas
  <2>4. local' = [local EXCEPT ![r] = local[r]] /\ stopped' # "no deployment"
    BY <2>1 DEF Areas
  <2>5. \A p \in EdgeUser : p # r => user'[p] = user[p]
    BY <1>0, <2>1 DEF PathInv, UserTypes
  <2>. DEFINE q == Append(serial[r], Command("App_Set"))
  <2>6. CASE serial' = serial
    <3>1. serial' = [serial EXCEPT ![r] = serial[r]]
      BY <2>6 DEF Areas
    <3>. QED  BY <2>3, <2>4, <2>5, <3>1, AreaMoves
  <2>7. CASE r \in Dependent /\ serial' = [serial EXCEPT ![r] = q]
    <3>1. q \in Seq(SerialCommand) /\ LocalFirst(q, local[r])
          /\ (HasDeployment(serial[r]) => HasDeployment(q))
      BY <2>3, <2>7, SerialAppended
    <3>. HIDE DEF q
    <3>. QED  BY <2>3, <2>4, <2>5, <2>7, <3>1, AreaMoves
  <2>. QED  BY <2>1, <2>6, <2>7 DEF sendServiceIsUp
<1>3. ASSUME NEW r \in EdgeUser, ControllerReceives(r) PROVE Areas'
  <2>. DEFINE q == serial[r]
              c == Head(q)
              l == IF c.op = "APP_Req" THEN "running"
                   ELSE IF local[r] = "off" THEN "off" ELSE "told"
  <2>1. q \in Seq(SerialCommand) /\ LocalFirst(q, local[r])
    BY DEF Areas
  <2>2. /\ q # <<>> /\ serial' = [serial EXCEPT ![r] = Tail(q)]
        /\ local' = [local EXCEPT ![r] = l] /\ user' = user
        /\ \/ stopped' = stopped
           \/ c.op = "App_Set" /\ stopped' = IF local[r] = "off" THEN "no deployment" ELSE "no"
    BY <1>3 DEF ControllerReceives
  <2>3. (local[r] # "off" => l # "off") /\ (c.op = "APP_Req" => l # "off")
    OBVIOUS
  <2>. HIDE DEF l
  <2>4. /\ Tail(q) \in Seq(SerialCommand) /\ LocalFirst(Tail(q), l)
        /\ c.op = "App_Set" => local[r] # "off"
        /\ HasDeployment(q) => l # "off" \/ HasDeployment(Tail(q))
    <3>. HIDE DEF q
    <3>. QED  BY <2>1, <2>2, <2>3, SerialReceived
  <2>5. stopped' # "no deployment"
    BY <2>2, <2>4 DEF Areas
  <2>6. r \in Dependent /\ user'[r] # "idle" => l # "off" \/ HasDeployment(Tail(q))
    BY <2>2, <2>3, <2>4 DEF Areas
  <2>. HIDE DEF q
  <2>. QED  BY <2>2, <2>4, <2>5, <2>6, AreaMoves
<1>4. ASSUME NEW r \in Generated,
             GeneratedUserAsks(r) \/ \E from \in Sender : processResponseMessage(r, from)
      PROVE  Areas'
  <2>1. /\ serial' = serial /\ local' = local /\ stopped' \in {stopped, "no", "not sorted", "EINVAL", "end"}
        /\ user' = user \/ \E x : user' = [user EXCEPT ![r] = x]
    BY <1>4 DEF GeneratedUserAsks, processResponseMessage, GeneratedUserAccepted, TooManyApps,
       GeneratedUserRefused, Generator!handleUserReqGenMessage, Generator!scheduleNextReqGenMessage,
       Generator!processResponseMessage
  <2>2. \A p \in EdgeUser : user'[p] = user[p]
    BY <1>0, <2>1 DEF PathInv, UserTypes
  <2>. QED  BY <2>1, <2>2 DEF Areas
<1>5. ASSUME \/ \E from \in Topic \cup Request : ProviderReceives(from)
             \/ \E d \in Topic : \/ CentreReceivesRequest(d) \/ handleManageMachines(d)
                                 \/ \E n \in Node(d) : BladeReceives(d, n)
             \/ \E d \in Topic, r \in Request : handleApplicationRequest(d, r)
             \/ \E r \in Request : ProviderTimesOut(r)
             \/ GeneratorStarts
             \/ UNCHANGED vars
      PROVE  Areas'
  <2>1. /\ UNCHANGED userVars
        /\ stopped' = stopped
             \/ stopped' \in {"no", "not sorted", "setActiveMachines", "unknown VM",
                              "not a system call", "invalid hypervisor url"}
    BY <1>5 DEF ProviderReceives, CentreReceivesRequest, handleManageMachines, BladeReceives,
       handleApplicationRequest, ProviderTimesOut, GeneratorStarts, vars,
       Generator!handleWaitToExecuteMessage, Generator!scheduleNextReqGenMessage
  <2>. QED  BY <2>1 DEF Areas, userVars
<1>. QED  BY <1>1, <1>2, <1>3, <1>4, <1>5 DEF Next

LEMMA AreasInit == Init => Areas
<1>. SUFFICES ASSUME Init PROVE Areas
  OBVIOUS
<1>1. /\ user = [r \in Request |-> "idle"] /\ serial = [r \in EdgeUser |-> <<>>]
      /\ local = [r \in EdgeUser |-> "off"] /\ stopped \in {"malformed", "no"}
  BY DEF Init, EdgeUsersInit, Generator!initialize
<1>2. <<>> \in Seq(SerialCommand) /\ LocalFirst(<<>>, "off")
  BY DEF LocalFirst
<1>3. \A r \in EdgeUser : serial[r] = <<>> /\ local[r] = "off" /\ user[r] = "idle"
  BY <1>1, EdgeUsersAre
<1>. QED  BY <1>1, <1>2, <1>3 DEF Areas

\* An application never overtakes the VM it runs in, on any blade, and no
\* EdgeUser's local application is told of a remote one before it runs: each
\* follows from the order of two channels and of the answer between them.
THEOREM VmStartsFirst == Spec => []VmBeforeApplications
<1>1. Deployments /\ Areas => VmBeforeApplications
  <2>. SUFFICES ASSUME Deployments, Areas, NEW d \in Topic, NEW n \in Node(d),
                       NEW i \in DOMAIN lan[d][n], lan[d][n][i].op = "APP_Req"
                PROVE  \/ lan[d][n][i].req \in vms[d][n]
                       \/ \E j \in 1..(i - 1) : lan[d][n][j].req = lan[d][n][i].req
    BY DEF VmBeforeApplications, Areas
  <2>. QED  BY DEF Deployments, CommandsInOrder, InOrder
<1>2. PathInv /\ CentreTypes /\ Deployments /\ [Next]_vars => Deployments'
  BY DeploymentsNext
<1>3. PathInv /\ CentreTypes /\ Areas /\ [Next]_vars => Areas'
  BY AreasNext
<1>. QED
  BY <1>1, <1>2, <1>3, DeploymentsInit, AreasInit, PathInvariant, PTL DEF Spec

-----------------------------------------------------------------------------
(* The books of a data centre: the acceptances it gave *)

\* An acceptance that names the blades x is on its way from d to r.
Accepting(n, d, r, x) ==
  \E i \in DOMAIN n[<<d, r>>] : n[<<d, r>>][i].result = "accepted" /\ n[<<d, r>>][i].nodes = x

Holds(d, r, x) ==
  Accepting(net, d, r, x) \/ (user[r] = "up" /\ site[r].centre = d /\ site[r].nodes = x)

LEMMA GrantedAre ==
  ASSUME NEW d
  PROVE  \A g : g \in GrantedBy(d) <=> \E r \in Request : \E x : g = <<r, x>> /\ Holds(d, r, x)
<1>. DEFINE A == {<<r, site[r].nodes>> : r \in {r \in Request : user[r] = "up" /\ site[r].centre = d}}
            B(r) == {<<r, m.nodes>> : m \in {m \in ToSet(net[<<d, r>>]) : m.result = "accepted"}}
            U == UNION {B(r) : r \in Request}
<1>1. GrantedBy(d) = A \cup U
  BY DEF GrantedBy
<1>2. \A g : g \in A <=>
        \E r \in Request : \E x : g = <<r, x>> /\ user[r] = "up" /\ site[r].centre = d /\ site[r].nodes = x
  OBVIOUS
<1>3. ASSUME NEW r \in Request
      PROVE  \A g : g \in B(r) <=> \E x : g = <<r, x>> /\ Accepting(net, d, r, x)
  <2>. DEFINE q == net[<<d, r>>]
  <2>1. \A m : m \in ToSet(q) <=> \E i \in DOMAIN q : m = q[i]
    BY DEF ToSet
  <2>2. \A g : g \in B(r) <=> \E m \in ToSet(q) : m.result = "accepted" /\ g = <<r, m.nodes>>
    OBVIOUS
  <2>3. \A x : Accepting(net, d, r, x) <=> \E i \in DOMAIN q : q[i].result = "accepted" /\ q[i].nodes = x
    BY DEF Accepting
  <2>. HIDE DEF q, B
  <2>. QED  BY <2>1, <2>2, <2>3
<1>4. \A g : g \in U <=> \E r \in Request : g \in B(r)
  <2>. HIDE DEF B
  <2>. QED  OBVIOUS
<1>. HIDE DEF A, B, U
<1>. QED  BY <1>1, <1>2, <1>3, <1>4 DEF Holds

SameAcceptances(n1, n2) ==
  \A d \in Topic, r \in Request : \A x : Accepting(n1, d, r, x) <=> Accepting(n2, d, r, x)

LEMMA SentAccepting ==
  ASSUME NEW n \in Channel, NEW from, NEW to, <<from, to>> \in Channels, NEW m \in Wire,
         NEW d \in Topic, NEW r \in Request, NEW x
  PROVE  Accepting(Sent(n, from, to, m), d, r, x)
           <=> \/ Accepting(n, d, r, x)
               \/ <<from, to>> = <<d, r>> /\ m.result = "accepted" /\ m.nodes = x
<1>. DEFINE c == <<from, to>>
            e == <<d, r>>
            s == Sent(n, from, to, m)
            k == Len(n[c]) + 1
<1>1. /\ Len(n[c]) \in Nat /\ DOMAIN n[c] = 1..Len(n[c])
      /\ DOMAIN s[c] = 1..k /\ s[c][k] = m
      /\ \A i \in DOMAIN n[c] : s[c][i] = n[c][i]
      /\ \A y \in Channels : y # c => s[y] = n[y]
  BY SentIs
<1>2. DOMAIN s[c] = DOMAIN n[c] \cup {k} /\ e \in Channels
  <2>1. e \in Channels
    BY ChannelsAre
  <2>. HIDE DEF s
  <2>. QED  BY <1>1, <2>1
<1>. HIDE DEF s, c, k, e
<1>3. (\E i \in DOMAIN s[e] : s[e][i].result = "accepted" /\ s[e][i].nodes = x)
        <=> \/ \E i \in DOMAIN n[e] : n[e][i].result = "accepted" /\ n[e][i].nodes = x
            \/ c = e /\ m.result = "accepted" /\ m.nodes = x
  BY <1>1, <1>2
<1>. QED  BY <1>3 DEF Accepting, s, c, e

\* Only an acceptance a data centre sends a user counts.
LEMMA SentSame ==
  ASSUME NEW n \in Channel, NEW from, NEW to, <<from, to>> \in Channels, NEW m \in Wire,
         from \notin Topic \/ to \notin Request \/ m.result # "accepted"
  PROVE  SameAcceptances(Sent(n, from, to, m), n)
BY SentAccepting DEF SameAcceptances

\* A message that is no acceptance is received.
LEMMA ReceivedSame ==
  ASSUME NEW n \in Channel, NEW c \in Channels, n[c] # <<>>,
         c[1] \notin Topic \/ c[2] \notin Request \/ Head(n[c]).result # "accepted"
  PROVE  SameAcceptances([n EXCEPT ![c] = Tail(@)], n)
<1>. DEFINE s == [n EXCEPT ![c] = Tail(@)]
<1>1. /\ Head(n[c]) = n[c][1] /\ 1 \in DOMAIN n[c]
      /\ \A i \in DOMAIN s[c] : i + 1 \in DOMAIN n[c] /\ s[c][i] = n[c][i + 1]
      /\ \A i \in DOMAIN n[c] : i # 1 => i - 1 \in DOMAIN s[c]
      /\ \A d \in Channels : d # c => s[d] = n[d]
      /\ DOMAIN n[c] \subseteq Nat
  BY ReceivedIs DEF Channel
<1>2. \A i \in DOMAIN n[c] : i # 1 => i - 1 \in DOMAIN s[c] /\ s[c][i - 1] = n[c][i]
  <2>. SUFFICES ASSUME NEW i \in DOMAIN n[c], i # 1
                PROVE  i - 1 \in DOMAIN s[c] /\ s[c][i - 1] = n[c][i]
    OBVIOUS
  <2>1. (i - 1) + 1 = i
    BY <1>1
  <2>. HIDE DEF s
  <2>. QED  BY <1>1, <2>1
<1>. HIDE DEF s
<1>3. ASSUME NEW d \in Topic, NEW r \in Request, NEW x
      PROVE  Accepting(s, d, r, x) <=> Accepting(n, d, r, x)
  <2>. DEFINE e == <<d, r>>
  <2>1. e \in Channels /\ e[1] = d /\ e[2] = r
    BY ChannelsAre
  <2>. HIDE DEF e
  <2>2. (\E i \in DOMAIN s[e] : s[e][i].result = "accepted" /\ s[e][i].nodes = x)
          <=> \E i \in DOMAIN n[e] : n[e][i].result = "accepted" /\ n[e][i].nodes = x
    <3>1. CASE e # c
      BY <1>1, <2>1, <3>1
    <3>2. CASE e = c
      <4>1. n[c][1].result # "accepted"
        BY <1>1, <2>1, <3>2
      <4>. QED  BY <1>1, <1>2, <3>2, <4>1
    <3>. QED  BY <3>1, <3>2
  <2>. QED  BY <2>2 DEF Accepting, e
<1>. QED  BY <1>3 DEF SameAcceptances, s

\* The provider sends none.
LEMMA EmittedSame ==
  ASSUME NEW n \in Channel, NEW messages \in Seq(Proved!Message), NEW asked
  PROVE  SameAcceptances(Emitted(n, messages, asked), n)
<1>1. CloudProviderTopic \notin Topic
  BY EdgeUsersAre
<1>2. \A d \in Topic, r \in Request : Emitted(n, messages, asked)[<<d, r>>] = n[<<d, r>>]
  BY ZenonT(60), <1>1, EmittedElsewhere, ChannelsAre
<1>. QED  BY <1>2 DEF SameAcceptances, Accepting

LEMMA SameTwice ==
  ASSUME NEW n1, NEW n2, NEW n3, SameAcceptances(n1, n2), SameAcceptances(n2, n3)
  PROVE  SameAcceptances(n1, n3)
BY DEF SameAcceptances

\* Who is told, and where its VMs are.
BooksAre == \A d : \A g : g \in GrantedBy(d) <=> \E r \in Request : \E x : g = <<r, x>> /\ Holds(d, r, x)

LEMMA BooksHold == BooksAre /\ BooksAre'
<1>1. BooksAre
  BY GrantedAre DEF BooksAre
<1>. QED  BY <1>1, PTL

\* The users that are up stay so, and where they are.
UsersStay ==
  \A r \in Request : (user[r] = "up" <=> user'[r] = "up") /\ (user[r] = "up" => site'[r] = site[r])

BooksKept == pool' = pool /\ \A d \in Topic : GrantedBy(d)' = GrantedBy(d)

LEMMA SameBooks ==
  ASSUME SameAcceptances(net', net), UsersStay, pool' = pool
  PROVE  BooksKept
<1>1. \A d \in Topic, r \in Request : \A x : Holds(d, r, x)' <=> Holds(d, r, x)
  BY DEF SameAcceptances, UsersStay, Holds, Accepting
<1>2. BooksAre /\ BooksAre'
  BY BooksHold
<1>3. ASSUME NEW d \in Topic PROVE GrantedBy(d)' = GrantedBy(d)
  <2>1. \A g : g \in GrantedBy(d)' <=> g \in GrantedBy(d)
    BY <1>1, <1>2 DEF BooksAre
  <2>. QED  BY <2>1
<1>. QED  BY <1>3 DEF BooksKept

\* An acceptance carries the request of its user.
LEMMA AcceptingCarries ==
  ASSUME NEW n, NetTypes(n), NEW d \in Topic, NEW r \in Request, NEW x, Accepting(n, d, r, x)
  PROVE  \E i : /\ At(n, <<d, r>>, i, r)
                /\ n[<<d, r>>][i].result = "accepted" /\ n[<<d, r>>][i].nodes = x
<1>. DEFINE c == <<d, r>>
<1>1. c \in Channels /\ c[1] = d /\ c[2] = r
  BY ChannelsAre
<1>2. PICK i \in DOMAIN n[c] : n[c][i].result = "accepted" /\ n[c][i].nodes = x
  BY DEF Accepting
<1>. HIDE DEF c
<1>3. Carries(n[c][i], r)
  BY <1>1 DEF NetTypes, Shape
<1>4. At(n, c, i, r)
  BY <1>1, <1>3 DEF At
<1>. QED  BY <1>2, <1>4 DEF c

\* A user that reads its acceptance takes it out of the channel and keeps it:
\* the request is nowhere else, so nothing is counted twice and nothing lost.
LEMMA AcceptedBooks ==
  ASSUME PathInv, Sites, NEW r \in Request, NEW from \in Sender, IsAccepted(r, from),
         SameAcceptances(net', [net EXCEPT ![<<from, r>>] = Tail(@)]), pool' = pool
  PROVE  BooksKept
<1>. DEFINE c == <<from, r>>
            m == Head(net[c])
            n == [net EXCEPT ![c] = Tail(@)]
<1>1. /\ Paths /\ net[c] # <<>> /\ m.result = "accepted"
      /\ user' = [user EXCEPT ![r] = "up"]
      /\ site' = [site EXCEPT ![r] = [centre |-> from, nodes |-> m.nodes]]
  BY DEF IsAccepted, PathInv
<1>2. /\ from \in Topic /\ user[r] \in {"asking", "subscribing"} /\ NetTypes(n)
      /\ Once(n, Proved!Queued \cup {r}, Waits)
  BY <1>1, ReadPaths
<1>3. c \in Channels /\ net \in Channel /\ NetTypes(net) /\ Once(net, Proved!Queued, Waits)
  BY <1>1, <1>2, ChannelsAre DEF PathInv, NetTypes, Paths
<1>4. /\ user'[r] = "up" /\ site'[r].centre = from /\ site'[r].nodes = m.nodes
      /\ \A q \in Request : q # r => user'[q] = user[q] /\ site'[q] = site[q]
  BY <1>1 DEF PathInv, UserTypes, Sites
<1>5. m = net[c][1] /\ 1 \in DOMAIN net[c] /\ \A e \in Channels : e # c => n[e] = net[e]
  <2>. HIDE DEF c
  <2>. QED  BY <1>1, <1>3, ReceivedIs
<1>6. Carries(m, r) /\ At(net, c, 1, r)
  <2>1. Carries(net[c][1], r)
    <3>1. 1 \in DOMAIN net[<<from, r>>]
      BY <1>5
    <3>. QED  BY <1>2, <3>1, AnswersAre
  <2>. QED  BY <1>3, <1>5, <2>1 DEF At
<1>. HIDE DEF n, m
<1>7. \A d \in Topic : \A x : ~Accepting(n, d, r, x)
  BY <1>2, AcceptingCarries DEF Once, Somewhere
<1>8. ASSUME NEW d \in Topic, NEW x
      PROVE  Accepting(net, d, r, x) <=> d = from /\ x = m.nodes
  <2>1. ASSUME Accepting(net, d, r, x) PROVE d = from /\ x = m.nodes
    <3>1. PICK i : At(net, <<d, r>>, i, r) /\ net[<<d, r>>][i].nodes = x
      BY <1>3, <2>1, AcceptingCarries
    <3>2. <<d, r>> = c /\ i = 1
      BY <1>3, <1>6, <3>1 DEF Once
    <3>. QED  BY <1>5, <3>1, <3>2
  <2>2. Accepting(net, from, r, m.nodes)
    BY <1>1, <1>5 DEF Accepting
  <2>. QED  BY <2>1, <2>2
<1>9. ASSUME NEW d \in Topic, NEW q \in Request, NEW x, q # r
      PROVE  Accepting(n, d, q, x) <=> Accepting(net, d, q, x)
  <2>1. <<d, q>> \in Channels /\ <<d, q>> # c
    BY <1>9, ChannelsAre
  <2>. QED  BY <1>5, <2>1 DEF Accepting
<1>10. \A d \in Topic, q \in Request : \A x : Accepting(net', d, q, x) <=> Accepting(n, d, q, x)
  BY DEF SameAcceptances, n
<1>11. ASSUME NEW d \in Topic, NEW q \in Request, NEW x
       PROVE  Holds(d, q, x)' <=> Holds(d, q, x)
  <2>1. Holds(d, q, x)' <=> Accepting(net', d, q, x)
                            \/ (user'[q] = "up" /\ site'[q].centre = d /\ site'[q].nodes = x)
    BY DEF Holds, Accepting
  <2>2. CASE q = r
    BY <1>2, <1>4, <1>7, <1>8, <1>10, <2>1, <2>2 DEF Holds
  <2>3. CASE q # r
    BY <1>4, <1>9, <1>10, <2>1, <2>3 DEF Holds
  <2>. QED  BY <2>2, <2>3
<1>12. BooksAre /\ BooksAre'
  BY BooksHold
<1>13. ASSUME NEW d \in Topic PROVE GrantedBy(d)' = GrantedBy(d)
  <2>1. \A g : g \in GrantedBy(d)' <=> g \in GrantedBy(d)
    BY <1>11, <1>12 DEF BooksAre
  <2>. QED  BY <2>1
<1>. QED  BY <1>13 DEF BooksKept

\* A data centre that accepts a request enters it in its books, once.
BooksGrow(d, op, r, nodes) ==
  /\ Grants(d, op, r, nodes)
  /\ <<r, nodes>> \notin GrantedBy(d) /\ GrantedBy(d)' = GrantedBy(d) \cup {<<r, nodes>>}
  /\ \A e \in Topic : e # d => GrantedBy(e)' = GrantedBy(e)

LEMMA GrantedBooks ==
  ASSUME PathInv, Running, NEW d \in Topic, NEW r \in Request, NEW op \in Operation, NEW nodes,
         net[<<CloudProviderTopic, d>>] # <<>>,
         Carries(Head(net[<<CloudProviderTopic, d>>]), r),
         Grants(d, op, r, nodes), UNCHANGED <<user, site>>
  PROVE  BooksGrow(d, op, r, nodes)
<1>. DEFINE c == <<CloudProviderTopic, d>>
            n == [net EXCEPT ![c] = Tail(@)]
            a == Acceptance(op, r, nodes)
<1>1. /\ c \in Channels /\ c[1] = CloudProviderTopic /\ CloudProviderTopic \notin Topic
      /\ net \in Channel /\ NetTypes(net) /\ Once(net, Proved!Queued, Waits)
  BY ChannelsAre, EdgeUsersAre DEF PathInv, NetTypes, Paths
<1>2. n \in Channel /\ SameAcceptances(n, net) /\ At(net, c, 1, r) /\ r \in Waits
  <2>. HIDE DEF c
  <2>1. n \in Channel /\ SameAcceptances(n, net)
    BY <1>1, ReceivedIs, ReceivedSame DEF c
  <2>2. At(net, c, 1, r)
    BY <1>1, ReceivedAt DEF c
  <2>3. Somewhere(net, r)
    BY <2>2 DEF Somewhere
  <2>4. r \in Waits
    BY <1>1, <2>3 DEF Once
  <2>. QED  BY <2>1, <2>2, <2>4
<1>3. \A e \in Topic : \A x : ~Holds(e, r, x)
  <2>. SUFFICES ASSUME NEW e \in Topic, NEW x, Accepting(net, e, r, x) PROVE FALSE
    BY <1>2 DEF Holds, Waits
  <2>1. PICK i : At(net, <<e, r>>, i, r)
    BY <1>1, AcceptingCarries
  <2>2. <<e, r>> = c
    BY <1>1, <1>2, <2>1 DEF Once
  <2>. QED  BY <1>1, <2>2
<1>4. a \in Wire /\ a.result = "accepted" /\ a.nodes = nodes /\ <<d, r>> \in Channels
  <2>1. nodes \in Seq(Nat)
    <3>1. Len(Vms[r]) \in Nat /\ Node(d) \subseteq Nat
      BY VmsAre, CloudConstants DEF Node
    <3>2. nodes \in [1..Len(Vms[r]) -> Nat]
      BY <3>1 DEF Grants
    <3>. QED  BY <3>1, <3>2
  <2>. QED  BY <2>1, ChannelsAre DEF Acceptance, Wire, Operation
<1>5. net' = Sent(n, d, r, a)
  BY DEF Grants, Received
<1>. HIDE DEF n, a
<1>6. ASSUME NEW e \in Topic, NEW q \in Request, NEW x
      PROVE  Holds(e, q, x)' <=> Holds(e, q, x) \/ (e = d /\ q = r /\ x = nodes)
  <2>1. Accepting(net', e, q, x) <=> Accepting(n, e, q, x) \/ (<<d, r>> = <<e, q>> /\ x = nodes)
    BY <1>2, <1>4, <1>5, SentAccepting
  <2>2. Accepting(n, e, q, x) <=> Accepting(net, e, q, x)
    BY <1>2 DEF SameAcceptances
  <2>3. Holds(e, q, x)' <=> Accepting(net', e, q, x)
                            \/ (user[q] = "up" /\ site[q].centre = e /\ site[q].nodes = x)
    BY DEF Holds, Accepting
  <2>. QED  BY <2>1, <2>2, <2>3 DEF Holds
<1>7. BooksAre /\ BooksAre'
  BY BooksHold
<1>8. <<r, nodes>> \notin GrantedBy(d)
  BY <1>3, <1>7 DEF BooksAre
<1>9. GrantedBy(d)' = GrantedBy(d) \cup {<<r, nodes>>}
  <2>1. \A g : g \in GrantedBy(d)' <=> g \in GrantedBy(d) \/ g = <<r, nodes>>
    BY <1>6, <1>7 DEF BooksAre
  <2>. QED  BY <2>1
<1>10. ASSUME NEW e \in Topic, e # d PROVE GrantedBy(e)' = GrantedBy(e)
  <2>1. \A g : g \in GrantedBy(e)' <=> g \in GrantedBy(e)
    BY <1>6, <1>7, <1>10 DEF BooksAre
  <2>. QED  BY <2>1
<1>. QED  BY <1>8, <1>9, <1>10 DEF BooksGrow

LEMMA RefusedBooks ==
  ASSUME PathInv, NEW d \in Topic, NEW r \in Request, NEW op \in Operation,
         net[<<CloudProviderTopic, d>>] # <<>>, Refuses(d, op, r), UNCHANGED <<user, site>>
  PROVE  BooksKept
<1>. DEFINE c == <<CloudProviderTopic, d>>
            n == [net EXCEPT ![c] = Tail(@)]
            w == NodeUpdate(d)
            u == Sent(n, d, CloudProviderTopic, w)
            a == VmMessage(op, r, "rejected")
<1>1. /\ c \in Channels /\ c[1] = CloudProviderTopic /\ CloudProviderTopic \notin Topic
      /\ net \in Channel /\ CloudProviderTopic \notin Request
  BY ChannelsAre, CloudConstants DEF PathInv, NetTypes, Sender, CloudProviderTopic
<1>2. n \in Channel /\ SameAcceptances(n, net)
  <2>. HIDE DEF c
  <2>. QED  BY <1>1, ReceivedIs, ReceivedSame DEF c
<1>3. w \in Wire /\ a \in Wire /\ a.result # "accepted"
  BY CoresAreNaturals DEF NodeUpdate, VmMessage, Wire, Operation
<1>4. <<d, r>> \in Channels /\ <<d, CloudProviderTopic>> \in Channels
  BY ChannelsAre
<1>5. net' = Sent(u, d, r, a) /\ pool' = pool
  BY DEF Refuses, Rejection, Received
<1>. HIDE DEF n, w, a
<1>6. u \in Channel /\ SameAcceptances(u, n)
  BY <1>1, <1>2, <1>3, <1>4, SentIs, SentSame
<1>. HIDE DEF u
<1>7. SameAcceptances(net', u)
  BY <1>3, <1>4, <1>5, <1>6, SentSame
<1>8. SameAcceptances(net', net)
  BY <1>2, <1>6, <1>7, SameTwice
<1>9. UsersStay
  BY DEF UsersStay
<1>. QED  BY <1>5, <1>8, <1>9, SameBooks

\* A user that asks, or reads a refusal.
LEMMA AskedBooks ==
  ASSUME PathInv, NEW r \in Request, Asks(r), pool' = pool,
         net' = Sent(net, r, CloudProviderTopic, VmMessage("VM_Req", r, "none"))
  PROVE  BooksKept
<1>1. VmMessage("VM_Req", r, "none") \in Wire /\ net \in Channel /\ r \notin Topic
  BY CloudConstants DEF VmMessage, Wire, Operation, PathInv, NetTypes, Sender
<1>2. SameAcceptances(net', net)
  BY <1>1, ChannelsAre, SentSame
<1>3. UsersStay
  BY DEF UsersStay, Asks, PathInv, UserTypes
<1>. QED  BY <1>2, <1>3, SameBooks

LEMMA RefusalBooks ==
  ASSUME PathInv, NEW r \in Request, NEW from \in Sender, IsRefused(r, from), pool' = pool,
         Head(net[<<from, r>>]).result # "accepted",
         SameAcceptances(net', [net EXCEPT ![<<from, r>>] = Tail(@)])
  PROVE  BooksKept
<1>. DEFINE c == <<from, r>>
            n == [net EXCEPT ![c] = Tail(@)]
<1>1. c \in Channels /\ net \in Channel /\ net[c] # <<>> /\ Head(net[c]).result # "accepted"
  BY ChannelsAre DEF PathInv, NetTypes, Sender, CloudProviderTopic, IsRefused
<1>2. SameAcceptances(n, net)
  <2>. HIDE DEF c
  <2>. QED  BY <1>1, ReceivedSame
<1>. HIDE DEF n
<1>3. SameAcceptances(net', net)
  BY <1>2, SameTwice DEF n
<1>4. user[r] # "up"
  BY ReadPaths DEF IsRefused, PathInv
<1>5. UsersStay
  BY <1>4 DEF UsersStay, IsRefused, PathInv, UserTypes
<1>. QED  BY <1>3, <1>5, SameBooks

\* What a user sends is no acceptance.
LEMMA UserSends ==
  ASSUME NEW n \in Channel, NEW r \in Request, NEW to \in Topic \cup {CloudProviderTopic}, NEW m \in Wire
  PROVE  SameAcceptances(Sent(n, r, to, m), n)
<1>1. r \notin Topic /\ <<r, to>> \in Channels
  BY ChannelsAre, CloudConstants DEF Sender
<1>. QED  BY <1>1, SentSame

\* The handlers of an answer, for both kinds of users.
LEMMA ReadBooks ==
  ASSUME PathInv, Sites, NEW r \in Request, NEW from \in Sender,
         \/ r \in EdgeUser /\ handleVmUpdate(r, from)
         \/ r \in Generated /\ processResponseMessage(r, from)
  PROVE  BooksKept
<1>. DEFINE c == <<from, r>>
            m == Head(net[c])
            n == [net EXCEPT ![c] = Tail(@)]
<1>1. /\ Running /\ net[c] # <<>> /\ pool' = pool
      /\ \/ /\ IsAccepted(r, from) /\ m.result = "accepted"
            /\ net' = n \/ \E b \in {0, m.nodes[1]} : net' = Sent(n, r, from, AppMessage(r, b))
               /\ (r \in EdgeUser \/ b = 0)
         \/ /\ IsRefused(r, from) /\ m.result # "accepted"
            /\ net' = n \/ net' = Sent(n, r, CloudProviderTopic, VmMessage("VM_Sub", r, "none"))
         \/ UNCHANGED <<user, site, net>>
  BY DEF handleVmUpdate, processResponseMessage, GeneratedUserAccepted, TooManyApps,
     GeneratedUserRefused, Deployment, DeployedByModel, IsAccepted, IsRefused, Arrived, First,
     Received, Running, centreVars
<1>2. NetTypes(n) /\ (m.result = "accepted" => from \in Topic /\ m.nodes \in [1..Len(Vms[r]) -> Node(from)])
  BY <1>1, ReadPaths DEF PathInv
<1>3. n \in Channel /\ SameAcceptances(n, n)
  BY <1>2 DEF NetTypes, SameAcceptances
<1>4. CASE IsAccepted(r, from) /\ m.result = "accepted"
            /\ (net' = n \/ \E b \in {0, m.nodes[1]} : net' = Sent(n, r, from, AppMessage(r, b)))
  <2>1. \A b \in {0, m.nodes[1]} : AppMessage(r, b) \in Wire
    <3>1. from \in Topic /\ m.nodes \in [1..Len(Vms[r]) -> Node(from)]
      BY <1>2, <1>4
    <3>2. 1 \in 1..Len(Vms[r])
      BY VmsAre
    <3>3. m.nodes[1] \in Nat
      <4>1. Node(from) \subseteq Nat
        BY <3>1, CloudConstants DEF Node
      <4>2. m.nodes[1] \in Node(from)
        <5>. HIDE DEF m
        <5>. QED  BY <3>1, <3>2
      <4>. QED  BY <4>1, <4>2
    <3>. QED  BY <3>3 DEF AppMessage, Wire
  <2>. HIDE DEF n, m, c
  <2>2. SameAcceptances(net', n)
    BY <1>2, <1>3, <1>4, <2>1, UserSends
  <2>. QED  BY <1>1, <1>4, <2>2, AcceptedBooks DEF n, c
<1>5. CASE IsRefused(r, from) /\ m.result # "accepted"
            /\ (net' = n \/ net' = Sent(n, r, CloudProviderTopic, VmMessage("VM_Sub", r, "none")))
  <2>1. VmMessage("VM_Sub", r, "none") \in Wire
    BY DEF VmMessage, Wire, Operation
  <2>. HIDE DEF n
  <2>2. SameAcceptances(net', n)
    BY <1>3, <1>5, <2>1, UserSends
  <2>. QED  BY <1>1, <1>5, <2>2, RefusalBooks DEF n
<1>6. CASE UNCHANGED <<user, site, net>>
  BY <1>1, <1>6, SameBooks DEF SameAcceptances, UsersStay
<1>. QED  BY <1>1, <1>4, <1>5, <1>6

\* Every step leaves the pools and the books alone, but for one: a data centre
\* that grants a request takes it out of the pool and enters it in the books.
LEMMA BooksNext ==
  ASSUME PathInv, CentreTypes, Sites, PathInv', [Next]_vars
  PROVE  \/ BooksKept
         \/ \E d \in Topic, r \in Request, op \in Operation : \E nodes : BooksGrow(d, op, r, nodes)
<1>0. net \in Channel /\ emitted' \in Seq(Proved!Message) /\ SameAcceptances(net, net)
  BY DEF PathInv, NetTypes, Proved!TypeInv, SameAcceptances
<1>1. ASSUME NEW from \in Topic \cup Request, ProviderReceives(from) PROVE BooksKept
  <2>. DEFINE c == <<from, CloudProviderTopic>>
              n == [net EXCEPT ![c] = Tail(@)]
  <2>1. /\ UNCHANGED <<pool, user, site>> /\ net[c] # <<>> /\ net' = Emitted(n, emitted', stage')
    BY <1>1 DEF ProviderReceives, Arrived, Received, centreVars, userVars
  <2>2. c \in Channels /\ c[2] = CloudProviderTopic /\ CloudProviderTopic \notin Request
    BY ChannelsAre, CloudConstants DEF Sender, CloudProviderTopic
  <2>. HIDE DEF c
  <2>3. n \in Channel /\ SameAcceptances(n, net)
    BY <1>0, <2>1, <2>2, ReceivedIs, ReceivedSame
  <2>. HIDE DEF n
  <2>4. SameAcceptances(net', n)
    BY <1>0, <2>1, <2>3, EmittedSame
  <2>5. SameAcceptances(net', net)
    BY <2>3, <2>4, SameTwice
  <2>. QED  BY <2>1, <2>5, SameBooks DEF UsersStay
<1>2. ASSUME NEW r \in Request, ProviderTimesOut(r) PROVE BooksKept
  <2>1. UNCHANGED <<pool, user, site>> /\ net' = Emitted(net, emitted', stage')
    BY <1>2 DEF ProviderTimesOut, centreVars, userVars
  <2>2. SameAcceptances(net', net)
    BY <1>0, <2>1, EmittedSame
  <2>. QED  BY <2>1, <2>2, SameBooks DEF UsersStay
<1>3. ASSUME NEW d \in Topic, CentreReceivesRequest(d)
      PROVE  \/ BooksKept
             \/ \E r \in Request, op \in Operation : \E nodes : BooksGrow(d, op, r, nodes)
  <2>1. /\ Running /\ net[<<CloudProviderTopic, d>>] # <<>> /\ UNCHANGED <<user, site>>
    BY <1>3, CentreAnswers DEF userVars
  <2>2. PICK r \in Request, op \in Operation :
          /\ Carries(Head(net[<<CloudProviderTopic, d>>]), r)
          /\ (\E nodes : Grants(d, op, r, nodes)) \/ Refuses(d, op, r)
    BY <1>3, CentreAnswers
  <2>3. CASE Refuses(d, op, r)
    BY <2>1, <2>3, RefusedBooks
  <2>4. ASSUME NEW nodes, Grants(d, op, r, nodes) PROVE BooksGrow(d, op, r, nodes)
    BY <2>1, <2>2, <2>4, GrantedBooks
  <2>. QED  BY <2>2, <2>3, <2>4
<1>4. ASSUME NEW d \in Topic, NEW r \in Request, handleApplicationRequest(d, r) PROVE BooksKept
  <2>. DEFINE c == <<r, d>>
  <2>1. /\ UNCHANGED <<pool, user, site>> /\ net[c] # <<>> /\ net' = [net EXCEPT ![c] = Tail(@)]
    BY <1>4 DEF handleApplicationRequest, Arrived, Received, userVars
  <2>2. c \in Channels /\ c[1] \notin Topic
    BY ChannelsAre, CloudConstants DEF Sender
  <2>. HIDE DEF c
  <2>3. SameAcceptances(net', net)
    BY <1>0, <2>1, <2>2, ReceivedSame
  <2>. QED  BY <2>1, <2>3, SameBooks DEF UsersStay
<1>5. ASSUME NEW r \in EdgeUser, startup(r) PROVE BooksKept
  BY <1>5, AskedBooks DEF startup, Asks, Running, EdgeUser, centreVars
<1>6. ASSUME NEW r \in Generated, GeneratedUserAsks(r) PROVE BooksKept
  <2>1. r \in Request
    BY CloudConstants
  <2>2. Asks(r) /\ pool' = pool /\ net' = Sent(net, r, CloudProviderTopic, VmMessage("VM_Req", r, "none"))
    BY <1>6, PathGeneratedUserAsks DEF GeneratedUserAsks, Asks, Running, centreVars
  <2>. QED  BY <2>1, <2>2, AskedBooks
<1>7. ASSUME NEW r \in Request, NEW from \in Sender,
             \/ r \in EdgeUser /\ handleVmUpdate(r, from)
             \/ r \in Generated /\ processResponseMessage(r, from)
      PROVE  BooksKept
  BY <1>7, ReadBooks
<1>8. ASSUME \/ \E d \in Topic : handleManageMachines(d) \/ \E n \in Node(d) : BladeReceives(d, n)
             \/ \E r \in EdgeUser : ControllerReceives(r)
             \/ GeneratorStarts \/ UNCHANGED vars
      PROVE  BooksKept
  <2>1. UNCHANGED <<pool, user, site, net>>
    BY <1>8 DEF handleManageMachines, BladeReceives, ControllerReceives, GeneratorStarts, vars,
       centreVars, userVars
  <2>2. SameAcceptances(net', net)
    BY <1>0, <2>1
  <2>. QED  BY <2>1, <2>2, SameBooks DEF UsersStay
<1>9. EdgeUser \subseteq Request /\ Generated \subseteq Request
  BY CloudConstants DEF EdgeUser
<1>. QED  BY <1>1, <1>2, <1>3, <1>4, <1>5, <1>6, <1>7, <1>8, <1>9 DEF Next

-----------------------------------------------------------------------------
(* Accounts: what is left and what was granted make the capacity *)

Resource == {"cores", "disk", "mem"}

\* What the VMs of a grant on a node need.
Use(g, n, field) == Needed(Vms[g[1]], {i \in DOMAIN g[2] : g[2][i] = n}, field)

Accounts ==
  \A d \in Topic :
    /\ IsFiniteSet(GrantedBy(d))
    /\ \A g \in GrantedBy(d) : g[1] \in Request /\ g[2] \in [1..Len(Vms[g[1]]) -> Node(d)]
    /\ \A n \in Node(d) : \A field \in Resource :
         pool[d][n][field] + GrantedOn(d, n, field) = Capacity[d][n][field]

LEMMA GrantedOnIs ==
  ASSUME NEW d, NEW n, NEW field
  PROVE  GrantedOn(d, n, field) = SumFunction([g \in GrantedBy(d) |-> Use(g, n, field)])
BY DEF GrantedOn, SumOver, Use, Needed

LEMMA UseType ==
  ASSUME NEW d \in Topic, NEW g, g[1] \in Request, g[2] \in [1..Len(Vms[g[1]]) -> Node(d)],
         NEW n, NEW field \in Resource
  PROVE  Use(g, n, field) \in Nat
<1>. DEFINE S == {i \in DOMAIN g[2] : g[2][i] = n}
<1>1. DOMAIN g[2] = 1..Len(Vms[g[1]]) /\ Len(Vms[g[1]]) \in Nat
      /\ \A i \in S : Vms[g[1]][i] \in VmType
  BY VmsAre
<1>2. IsFiniteSet(S)
  <2>1. IsFiniteSet(DOMAIN g[2])
    BY <1>1, FS_Interval
  <2>. QED  BY <2>1, FS_Subset
<1>3. field \in Field \ {"vms"}
  BY DEF Field, Resource
<1>. HIDE DEF S
<1>4. Needed(Vms[g[1]], S, field) \in Nat
  BY <1>1, <1>2, <1>3, NeededType DEF OfVms
<1>. QED  BY <1>4 DEF Use, S

\* What a data centre grants leaves its pool, blade by blade.
LEMMA GrantPaid ==
  ASSUME Strategy = "BestFit", CentreTypes, NEW d \in Topic, NEW r \in Request, NEW op, NEW nodes,
         Grants(d, op, r, nodes), NEW n \in Node(d), NEW field \in Resource
  PROVE  pool'[d][n][field] + Use(<<r, nodes>>, n, field) = pool[d][n][field]
<1>. DEFINE p == pool[d]
            k == Len(Vms[r])
            types == Vms[r]
            P == Placing(p, types, nodes)
<1>1. /\ p \in [Node(d) -> Counters] /\ nodes \in Successes(p, Vms[r])
      /\ nodes \in [1..k -> Node(d)] /\ pool' = [pool EXCEPT ![d] = P[k]]
  BY DEF CentreTypes, Grants
<1>2. IsChoice(types, nodes, k, Node(d))
  BY <1>1, SuccessIs
<1>3. IsPlacement(P, Node(d), p, types, nodes, k) /\ Picked(P, types, nodes, k)
  <2>1. Picked(P, types, nodes, k)
    BY <1>1 DEF Successes, Placements, Picked
  <2>. HIDE DEF p, k, types
  <2>. QED  BY <1>1, <1>2, <2>1, PlacingIs
<1>4. field \in Field \ {"vms"}
  BY DEF Field, Resource
<1>5. pool'[d] = P[k]
  BY <1>1 DEF CentreTypes
<1>6. Use(<<r, nodes>>, n, field) = Needed(types, On(nodes, k, n), field)
  BY <1>1 DEF Use, On
<1>. HIDE DEF p, k, types, P
<1>7. P[k][n][field] + Needed(types, On(nodes, k, n), field) = p[n][field]
  BY <1>1, <1>2, <1>3, <1>4, PlacedExactly
<1>. QED  BY <1>5, <1>6, <1>7 DEF p, P

LEMMA AccountsKept ==
  ASSUME Accounts, BooksKept
  PROVE  Accounts'
<1>1. ASSUME NEW d \in Topic, NEW n, NEW field PROVE GrantedOn(d, n, field)' = GrantedOn(d, n, field)
  <2>1. GrantedOn(d, n, field)' = SumFunction([g \in GrantedBy(d)' |-> Use(g, n, field)])
    BY DEF GrantedOn, SumOver, Use, Needed
  <2>. QED  BY <2>1, GrantedOnIs DEF BooksKept
<1>. QED  BY <1>1 DEF Accounts, BooksKept

LEMMA AccountsGrow ==
  ASSUME Strategy = "BestFit", CentreTypes, Accounts,
         NEW d \in Topic, NEW r \in Request, NEW op, NEW nodes, BooksGrow(d, op, r, nodes)
  PROVE  Accounts'
<1>. DEFINE a == <<r, nodes>>
            S == GrantedBy(d)
<1>1. /\ Grants(d, op, r, nodes) /\ nodes \in [1..Len(Vms[r]) -> Node(d)]
      /\ a \notin S /\ GrantedBy(d)' = S \cup {a} /\ a[1] = r /\ a[2] = nodes
      /\ \A e \in Topic : e # d => GrantedBy(e)' = GrantedBy(e) /\ pool'[e] = pool[e]
  BY DEF BooksGrow, Grants, CentreTypes
<1>2. IsFiniteSet(S) /\ \A g \in S : g[1] \in Request /\ g[2] \in [1..Len(Vms[g[1]]) -> Node(d)]
  BY DEF Accounts
<1>3. ASSUME NEW e, NEW n, NEW field
      PROVE  GrantedOn(e, n, field)' = SumFunction([g \in GrantedBy(e)' |-> Use(g, n, field)])
  BY DEF GrantedOn, SumOver, Use, Needed
<1>4. IsFiniteSet(GrantedBy(d)')
      /\ \A g \in GrantedBy(d)' : g[1] \in Request /\ g[2] \in [1..Len(Vms[g[1]]) -> Node(d)]
  <2>. HIDE DEF a, S
  <2>1. IsFiniteSet(S \cup {a})
    BY <1>2, FS_AddElement
  <2>. QED  BY <1>1, <1>2, <2>1
<1>5. ASSUME NEW n \in Node(d), NEW field \in Resource
      PROVE  pool'[d][n][field] + GrantedOn(d, n, field)' = Capacity[d][n][field]
  <2>. DEFINE T == GrantedBy(d)'
              f == [g \in T |-> Use(g, n, field)]
              h == [g \in S |-> Use(g, n, field)]
  <2>1. T = S \cup {a} /\ T \ {a} = S /\ a \in T
    <3>. HIDE DEF a, S
    <3>. QED  BY <1>1
  <2>2. f \in [T -> Nat] /\ h \in [S -> Nat]
    BY <1>2, <1>4, UseType
  <2>3. SumFunction(h) \in Nat
    <3>. HIDE DEF h, S
    <3>. QED  BY <1>2, <2>2, SumType
  <2>4. [g \in T \ {a} |-> f[g]] = h /\ f[a] = Use(a, n, field)
    <3>. HIDE DEF a, S
    <3>. QED  BY <2>1
  <2>5. SumFunction(f) = Use(a, n, field) + SumFunction(h)
    <3>1. SumFunction(f) = f[a] + SumFunction([g \in T \ {a} |-> f[g]])
      <4>1. IsFiniteSet(T)
        BY <1>4
      <4>. HIDE DEF f, a, T
      <4>. QED  BY <2>1, <2>2, <4>1, SumSplit
    <3>. HIDE DEF f, a, T, h
    <3>. QED  BY <2>4, <3>1
  <2>6. GrantedOn(d, n, field)' = SumFunction(f) /\ GrantedOn(d, n, field) = SumFunction(h)
    BY <1>3, GrantedOnIs
  <2>7. pool'[d][n][field] + Use(a, n, field) = pool[d][n][field]
    BY <1>1, GrantPaid
  <2>8. pool[d][n][field] + SumFunction(h) = Capacity[d][n][field]
    BY <2>6 DEF Accounts
  <2>9. pool'[d][n][field] \in Nat /\ Use(a, n, field) \in Nat
    <3>1. pool'[d] \in [Node(d) -> Counters]
      <4>1. pool[d] \in [Node(d) -> Counters] /\ nodes \in Successes(pool[d], Vms[r])
            /\ pool' = [pool EXCEPT ![d] = Placing(pool[d], Vms[r], nodes)[Len(Vms[r])]]
        BY <1>1 DEF Grants, CentreTypes
      <4>2. Placing(pool[d], Vms[r], nodes)[Len(Vms[r])] \in [Node(d) -> Counters]
        BY <4>1, SuccessIs
      <4>. QED  BY <4>1, <4>2 DEF CentreTypes
    <3>2. field \in Field
      BY DEF Field, Resource
    <3>3. pool'[d][n][field] \in 0..(W - 1)
      BY <3>1, <3>2, CounterRange
    <3>. QED  BY <1>1, <3>3, UseType, PoolConstants
  <2>. HIDE DEF f, h, a, T, S
  <2>. QED  BY <2>3, <2>5, <2>6, <2>7, <2>8, <2>9
<1>6. ASSUME NEW e \in Topic, e # d, NEW n \in Node(e), NEW field \in Resource
      PROVE  pool'[e][n][field] + GrantedOn(e, n, field)' = Capacity[e][n][field]
  <2>1. GrantedOn(e, n, field)' = GrantedOn(e, n, field)
    BY <1>1, <1>3, <1>6, GrantedOnIs
  <2>. QED  BY <1>1, <1>6, <2>1 DEF Accounts
<1>7. ASSUME NEW e \in Topic, e # d
      PROVE  IsFiniteSet(GrantedBy(e)')
             /\ \A g \in GrantedBy(e)' : g[1] \in Request /\ g[2] \in [1..Len(Vms[g[1]]) -> Node(e)]
  BY <1>1, <1>7 DEF Accounts
<1>. QED  BY <1>4, <1>5, <1>6, <1>7 DEF Accounts

LEMMA AccountsInit == Init => Accounts
<1>. SUFFICES ASSUME Init, NEW d \in Topic
              PROVE  /\ IsFiniteSet(GrantedBy(d)) /\ GrantedBy(d) = {}
                     /\ \A n \in Node(d), field \in Resource :
                          pool[d][n][field] + GrantedOn(d, n, field) = Capacity[d][n][field]
  BY DEF Accounts
<1>1. GrantedBy(d) = {}
  <2>1. ASSUME NEW r \in Request, NEW x PROVE ~Holds(d, r, x)
    <3>1. net[<<d, r>>] = <<>> /\ user[r] = "idle"
      <4>1. <<d, r>> \in Channels /\ r # CloudProviderTopic
        BY ChannelsAre, CloudConstants DEF Sender, CloudProviderTopic
      <4>. QED  BY <4>1 DEF Init, ManagersInit, EdgeUsersInit
    <3>. QED  BY <3>1 DEF Holds, Accepting
  <2>. QED  BY <2>1, GrantedAre
<1>2. ASSUME NEW n \in Node(d), NEW field \in Resource
      PROVE  pool[d][n][field] + GrantedOn(d, n, field) = Capacity[d][n][field]
  <2>1. pool[d] = Capacity[d] /\ Capacity[d] \in [Node(d) -> Counters]
    BY CloudConstants DEF Init, ManagersInit, Node
  <2>2. pool[d][n][field] \in 0..(W - 1)
    BY <2>1, CounterRange DEF Resource, Field
  <2>. DEFINE f == [g \in {} |-> Use(g, n, field)]
  <2>3. GrantedOn(d, n, field) = SumFunction(f)
    BY <1>1, GrantedOnIs
  <2>4. f = [g \in {} |-> f[g]]
    OBVIOUS
  <2>. HIDE DEF f
  <2>5. GrantedOn(d, n, field) = 0
    BY <2>3, <2>4, SumOfNothing
  <2>. QED  BY <2>1, <2>2, <2>5, PoolConstants
<1>. QED  BY <1>1, <1>2, FS_EmptySet

\* With BestFit (Strategies.cc) what a data centre has left and what it told
\* its users they have make its capacity, on every blade and in every state:
\* a grant in several steps (placement, message, answer) neither leaks nor
\* promises twice.
THEOREM ResourcesBalance ==
  ASSUME Strategy = "BestFit"
  PROVE  Spec => []ResourcesAccountedFor
<1>1. Accounts => ResourcesAccountedFor
  BY DEF Accounts, ResourcesAccountedFor, Resource
<1>2. PathInv /\ CentreTypes /\ Sites /\ Accounts /\ [Next]_vars => Accounts'
  <2>. SUFFICES ASSUME PathInv, CentreTypes, Sites, Accounts, [Next]_vars PROVE Accounts'
    OBVIOUS
  <2>1. PathInv'
    BY PathNext
  <2>. QED  BY <2>1, BooksNext, AccountsKept, AccountsGrow
<1>3. PathInv /\ CentreTypes /\ Sites /\ [Next]_vars => Sites'
  BY SitesNext
<1>. QED  BY <1>1, <1>2, <1>3, AccountsInit, SitesInit, PathInvariant, PTL DEF Spec

-----------------------------------------------------------------------------
(***************************************************************************)
(* The users of the generator: whatever their number, their order and the  *)
(* answers they get, the books kept of each and the count that ends the    *)
(* simulation agree with what they went through.                           *)
(***************************************************************************)

-----------------------------------------------------------------------------
(* Users in a sequence *)

\* The first n entries of s are in S and leave none of it out.
Lists(s, n, S) == s \in [1..n -> S] /\ \A x \in S : \E i \in 1..n : s[i] = x

LEMMA InjectionLists ==
  ASSUME NEW S, IsFiniteSet(S), NEW s \in [1..Cardinality(S) -> S],
         \A i, j \in 1..Cardinality(S) : s[i] = s[j] => i = j
  PROVE  Lists(s, Cardinality(S), S)
<1>. DEFINE k == Cardinality(S)
<1>1. k \in Nat
  BY FS_CardinalityType
<1>2. IsFiniteSet(1..k) /\ Cardinality(1..k) = k
  <2>. HIDE DEF k
  <2>. QED  BY <1>1, FS_Interval
<1>3. s \in Injection(1..k, S)
  BY DEF Injection, IsInjective
<1>4. s \in Surjection(1..k, S)
  <2>. HIDE DEF k
  <2>. QED  BY <1>2, <1>3, FS_Injection DEF k
<1>. QED  BY <1>4 DEF Surjection, Lists

\* The users before the simulation sorts them.
LEMMA ListedUsers ==
  ASSUME NEW S, IsFiniteSet(S)
  PROVE  LET users == Generator!SetToSeq(S)
         IN  Lists(users, Cardinality(S), S) /\ Len(users) = Cardinality(S)
<1>. DEFINE k == Cardinality(S)
            users == Generator!SetToSeq(S)
<1>1. k \in Nat /\ ExistsBijection(1..k, S)
  BY FS_CardinalityType
<1>2. \E f \in [1..k -> S] : Generator!IsInjective(f)
  <2>1. PICK f : f \in Bijection(1..k, S)
    BY <1>1 DEF ExistsBijection
  <2>2. f \in [1..k -> S] /\ \A i, j \in 1..k : f[i] = f[j] => i = j
    BY <2>1 DEF Bijection, Injection, IsInjective
  <2>3. DOMAIN f = 1..k
    BY <2>2
  <2>. HIDE DEF k
  <2>. QED  BY <2>2, <2>3 DEF Generator!IsInjective
<1>3. users \in [1..k -> S] /\ Generator!IsInjective(users)
  <2>1. users = CHOOSE f \in [1..k -> S] : Generator!IsInjective(f)
    BY DEF Generator!SetToSeq, Cardinality, Generator!Cardinality
  <2>. HIDE DEF k, users
  <2>. QED  BY <1>2, <2>1
<1>. HIDE DEF users
<1>4. \A i, j \in 1..k : users[i] = users[j] => i = j
  <2>1. DOMAIN users = 1..k
    BY <1>3
  <2>. QED  BY <1>3, <2>1 DEF Generator!IsInjective
<1>5. Lists(users, k, S)
  BY <1>3, <1>4, InjectionLists
<1>6. Len(users) = k
  <2>. HIDE DEF k
  <2>. QED  BY <1>1, <1>3, NodesLen
<1>. QED  BY <1>5, <1>6 DEF users

LEMMA SwappedLists ==
  ASSUME NEW n \in Nat, NEW S, NEW s, Lists(s, n, S), NEW i \in 1..n, NEW j \in 1..n
  PROVE  Lists(Generator!Swapped(s, i, j), n, S)
<1>. DEFINE t == Generator!Swapped(s, i, j)
<1>1. s \in [1..n -> S] /\ \A x \in S : \E k \in 1..n : s[k] = x
  BY DEF Lists
<1>2. /\ t \in [1..n -> S]
      /\ t[i] = s[j] /\ t[j] = s[i] /\ \A k \in 1..n : k # i /\ k # j => t[k] = s[k]
  BY <1>1 DEF Generator!Swapped
<1>. HIDE DEF t
<1>3. ASSUME NEW x \in S PROVE \E k \in 1..n : t[k] = x
  BY <1>1, <1>2
<1>. QED  BY <1>2, <1>3 DEF Lists, t

\* Shuffling by swaps loses no user.
LEMMA ShuffledLists ==
  ASSUME NEW n \in Nat, NEW S, NEW users, Lists(users, n, S),
         NEW nRandom \in [1..n -> 1..n]
  PROVE  Lists(Generator!Shuffled(users, nRandom), n, S)
<1>. DEFINE swap(p, i) == Generator!Swapped(p, i, nRandom[i])
            All == {p \in [1..n -> S] : Lists(p, n, S)}
            step == [i \in 1..n |-> [p \in All |-> swap(p, i)]]
<1>0. users \in All /\ Len(users) = n
  BY NodesLen DEF Lists
<1>1. \A i \in 1..n : \A p \in All : swap(p, i) \in All
  <2>. SUFFICES ASSUME NEW i \in 1..n, NEW p \in All PROVE swap(p, i) \in All
    OBVIOUS
  <2>1. Lists(swap(p, i), n, S)
    BY SwappedLists
  <2>. QED  BY <2>1 DEF Lists
<1>2. step \in [1..n -> [All -> All]]
  <2>. HIDE DEF All, swap
  <2>. QED  BY <1>1
<1>3. PICK f \in [0..n -> All] : IsIteration(f, n, users, step)
  <2>. HIDE DEF step, All
  <2>. QED  BY <1>0, <1>2, IterationExists
<1>4. \A i \in 0..n : f[i] = IF i = 0 THEN users ELSE swap(f[i - 1], i)
  <2>. TAKE i \in 0..n
  <2>1. f[i] = IF i = 0 THEN users ELSE step[i][f[i - 1]]
    BY <1>3 DEF IsIteration
  <2>2. CASE i # 0
    <3>1. i \in 1..n /\ i - 1 \in 0..n
      BY <2>2
    <3>2. f[i - 1] \in All
      BY <1>3, <3>1
    <3>3. step[i][f[i - 1]] = swap(f[i - 1], i)
      <4>. HIDE DEF swap, All
      <4>. QED  BY <3>1, <3>2
    <3>. HIDE DEF step, swap
    <3>. QED  BY <2>1, <2>2, <3>3
  <2>3. CASE i = 0
    BY <2>1, <2>3
  <2>. QED  BY <2>2, <2>3
<1>. DEFINE unfolds(g) == g = [i \in 0..n |-> IF i = 0 THEN users ELSE swap(g[i - 1], i)]
            g == CHOOSE g : unfolds(g)
<1>5. Generator!Shuffled(users, nRandom) = g[n]
  BY <1>0 DEF Generator!Shuffled
<1>6. unfolds(f)
  <2>. HIDE DEF swap
  <2>. QED  BY <1>4
<1>7. unfolds(g)
  <2>. HIDE DEF unfolds
  <2>. QED  BY <1>6
<1>. HIDE DEF step
<1>8. g = f
  <2>. HIDE DEF g
  <2>. DEFINE Good == {i \in 0..n : g[i] = f[i]}
  <2>1. /\ \A i \in 0..n : g[i] = IF i = 0 THEN users ELSE swap(g[i - 1], i)
        /\ g = [i \in 0..n |-> g[i]]
    <3>. HIDE DEF swap
    <3>. QED  BY <1>7
  <2>. HIDE DEF swap, unfolds
  <2>2. 0 \in Good
    <3>1. 0 \in 0..n
      OBVIOUS
    <3>2. g[0] = users /\ f[0] = users
      BY <1>4, <2>1, <3>1
    <3>. QED  BY <3>1, <3>2
  <2>3. \A i \in 1..n : i - 1 \in Good => i \in Good
    <3>1. \A i \in 1..n : i \in 0..n /\ i # 0
      OBVIOUS
    <3>. QED  BY <3>1, <1>4, <2>1
  <2>4. 0..n \subseteq Good
    <3>. HIDE DEF Good
    <3>. QED  BY <2>2, <2>3, BoundedInduction
  <2>. QED  BY <1>3, <2>1, <2>4
<1>9. f[n] \in All
  BY <1>3
<1>. HIDE DEF g
<1>. QED  BY <1>5, <1>8, <1>9

\* In a list sorted by arrival nobody comes before one who stands earlier.
LEMMA SortedOrder ==
  ASSUME NEW n \in Nat, NEW S, NEW s \in [1..n -> S], NEW a \in [S -> Int],
         \A i \in 1..(n - 1) : a[s[i]] <= a[s[i + 1]],
         NEW i \in 1..n, NEW j \in i..n
  PROVE  a[s[i]] <= a[s[j]]
<1>. DEFINE Good == {d \in 0..(n - i) : a[s[i]] <= a[s[i + d]]}
<1>1. n - i \in Nat /\ 0 \in Good
  OBVIOUS
<1>2. ASSUME NEW d \in 1..(n - i), d - 1 \in Good PROVE d \in Good
  <2>. DEFINE k == i + (d - 1)
  <2>1. k \in 1..(n - 1) /\ k \in 1..n /\ k + 1 \in 1..n /\ k + 1 = i + d /\ d \in 0..(n - i)
    OBVIOUS
  <2>2. a[s[k]] <= a[s[k + 1]] /\ a[s[i]] <= a[s[k]]
    BY <1>2, <2>1
  <2>3. a[s[i]] \in Int /\ a[s[k]] \in Int /\ a[s[k + 1]] \in Int
    BY <2>1
  <2>. HIDE DEF k
  <2>4. a[s[i]] <= a[s[k + 1]]
    BY <2>2, <2>3
  <2>. QED  BY <2>1, <2>4
<1>3. 0..(n - i) \subseteq Good
  <2>. HIDE DEF Good
  <2>. QED  BY <1>1, <1>2, BoundedInduction
<1>4. j - i \in 0..(n - i) /\ i + (j - i) = j
  OBVIOUS
<1>. QED  BY <1>3, <1>4

-----------------------------------------------------------------------------
(* The inductive invariant *)

\* The users are asked for once, in the order of arrival.
InTurn ==
  /\ par \in Setups /\ arrival2Cloud \in [par.users -> Int]
  /\ {userInstances[i] : i \in 1..nUserIndex} = {r \in Generated : user[r] # "idle"}
  /\ generatorTimer = "WaitToExecute" => nUserIndex = 0
  /\ generatorTimer # "WaitToExecute" =>
       /\ userInstances \in SetToSeqs(par.users) /\ nUserIndex \in 0..Len(userInstances)
       /\ Generator!isSorted(userInstances)

\* The book of a user that got as far as x: its VMs are finished together,
\* when it was granted them or refused for good.
Settled == {"up", "refused"}

AllVms(r, status) == [i \in DOMAIN Vms[r] |-> status]

Book(r, status, finished, subscriptions, b, timedOut, done) ==
  [state |-> AllVms(r, status), numFinishedVMs |-> finished,
   numActiveSubscriptions |-> subscriptions, bSubscribe |-> b, bTimeout_t4 |-> timedOut,
   bFinished |-> done]

BookOf(r, x, b) ==
  CASE x = "up"          -> Book(r, "vmFinished", Len(Vms[r]), 0, b, FALSE, TRUE)
    [] x = "refused"     -> Book(r, "vmFinished", Len(Vms[r]), 0, b, TRUE, TRUE)
    [] x = "subscribing" -> Book(r, "vmIdle", 0, 1, b, FALSE, FALSE)
    [] OTHER             -> Book(r, "vmIdle", 0, 0, b, FALSE, FALSE)

IsBook(u, r, x) ==
  /\ u = BookOf(r, x, u.bSubscribe)
  /\ x \in {"subscribing", "refused"} => u.bSubscribe

Books ==
  /\ instance = [r \in Generated |-> instance[r]]
  /\ \A r \in Generated : IsBook(instance[r], r, user[r])

\* The users that finished are counted.
Served == {r \in par.users : user[r] \in Settled}

Counted ==
  /\ nUserInstancesFinished = Cardinality(Served)
  /\ stopped = "end" <=> (par.users # {} /\ Served = par.users)
  /\ stopped = "not sorted" =>
       nUserIndex = 0 /\ \E r \in par.users : arrival2Cloud[r] < par.startDelay

\* A user subscribes after its request was answered: a request cannot be
\* taken for a subscription, nor the answer to the one for that to the other.
Upstream(r) == net[<<r, CloudProviderTopic>>]

Follows(r) ==
  /\ user[r] = "asking" =>
       stage[r] # "subscribed" /\ \A i \in DOMAIN Upstream(r) : Upstream(r)[i].op # "VM_Sub"
  /\ user[r] = "subscribing" =>
       stage[r] = "subscribed" \/ (stage[r] = "requested" /\ Upstream(r) # <<>>)

InStep == Running => \A r \in Generated : Follows(r)

UsersInv == InTurn /\ Books /\ Counted /\ InStep

LEMMA UsersAre ==
  ASSUME par \in Setups
  PROVE  /\ par.users \subseteq Generated /\ IsFiniteSet(par.users) /\ Generated \subseteq Request
         /\ Cardinality(par.users) \in Nat
<1>1. par.users \subseteq Generated /\ Generated \subseteq Request /\ IsFiniteSet(Request)
  BY CloudConstants
<1>2. IsFiniteSet(par.users)
  BY <1>1, FS_Subset
<1>. QED  BY <1>1, <1>2, FS_CardinalityType

-----------------------------------------------------------------------------
(* The start *)

\* Every user has a time of arrival.
LEMMA ArrivalsAre ==
  ASSUME NEW n \in Nat, NEW S, NEW users, Lists(users, n, S),
         NEW a \in Generator!generateUserArrivalTimes(users)
  PROVE  a \in [S -> Int]
<1>1. DOMAIN users = 1..n /\ users \in [1..n -> S] /\ \A x \in S : \E i \in 1..n : users[i] = x
  BY DEF Lists
<1>2. Generator!ToSet(users) = S
  BY <1>1 DEF Generator!ToSet
<1>3. PICK t \in [DOMAIN users -> Time] :
        a = [r \in Generator!ToSet(users) |->
               Generator!inSeconds(t[CHOOSE i \in DOMAIN users : users[i] = r])]
  BY DEF Generator!generateUserArrivalTimes
<1>4. ASSUME NEW r \in S
      PROVE  Generator!inSeconds(t[CHOOSE i \in DOMAIN users : users[i] = r]) \in Int
  <2>. DEFINE i == CHOOSE i \in 1..n : users[i] = r
  <2>1. i \in 1..n
    BY <1>1
  <2>. HIDE DEF i
  <2>2. t[i] \in Nat
    BY <1>1, <2>1, CloudConstants
  <2>3. Generator!inSeconds(t[i]) \in Int
    BY <2>2 DEF Generator!inSeconds
  <2>. QED  BY <1>1, <2>3 DEF i
<1>. HIDE DEF Generator!inSeconds
<1>. QED  BY <1>2, <1>3, <1>4

LEMMA NewBook ==
  ASSUME NEW r \in Generated, NEW b
  PROVE  IsBook(Generator!CloudUserInstance(r, b), r, "idle")
<1>. DEFINE u == Generator!CloudUserInstance(r, b)
<1>1. BookOf(r, "idle", b) = Book(r, "vmIdle", 0, 0, b, FALSE, FALSE)
  BY DEF BookOf
<1>2. u = Book(r, "vmIdle", 0, 0, b, FALSE, FALSE)
  BY DEF Generator!CloudUserInstance, Book, AllVms
<1>3. u.bSubscribe = b
  BY <1>2 DEF Book
<1>. HIDE DEF u
<1>4. IsBook(u, r, "idle")
  BY <1>1, <1>2, <1>3 DEF IsBook
<1>. QED  BY <1>4 DEF u

LEMMA InTurnInit == Init => InTurn
<1>. SUFFICES ASSUME Init PROVE InTurn
  OBVIOUS
<1>1. /\ par \in Setups /\ generatorTimer = "WaitToExecute" /\ nUserIndex = 0
      /\ userInstances \in IF par.shuffleUsers
                             THEN Generator!generateShuffledUsers(Generator!SetToSeq(par.users))
                             ELSE {Generator!SetToSeq(par.users)}
      /\ arrival2Cloud \in Generator!generateUserArrivalTimes(userInstances)
      /\ user = [r \in Request |-> "idle"]
  BY DEF Init, Generator!initialize, EdgeUsersInit
<1>. DEFINE S == par.users
            k == Cardinality(S)
            users == Generator!SetToSeq(S)
<1>2. S \subseteq Generated /\ IsFiniteSet(S) /\ Generated \subseteq Request /\ k \in Nat
  BY <1>1, UsersAre
<1>3. Lists(users, k, S) /\ DOMAIN users = 1..k
  BY <1>2, ListedUsers DEF Lists
<1>4. Lists(userInstances, k, S)
  <2>1. CASE userInstances = users
    BY <1>3, <2>1
  <2>2. CASE userInstances \in Generator!generateShuffledUsers(users)
    <3>. HIDE DEF k, users
    <3>1. PICK nRandom \in [1..k -> 1..k] : userInstances = Generator!Shuffled(users, nRandom)
      BY <1>3, <2>2 DEF Generator!generateShuffledUsers
    <3>. QED  BY <1>2, <1>3, <3>1, ShuffledLists
  <2>. QED  BY <1>1, <2>1, <2>2
<1>5. arrival2Cloud \in [S -> Int]
  <2>. HIDE DEF k, S
  <2>. QED  BY <1>1, <1>2, <1>4, ArrivalsAre
<1>6. {r \in Generated : user[r] # "idle"} = {}
  BY <1>1, <1>2
<1>7. {userInstances[i] : i \in 1..0} = {}
  OBVIOUS
<1>. QED  BY <1>1, <1>5, <1>6, <1>7 DEF InTurn

LEMMA UsersInit == Init => UsersInv
<1>. SUFFICES ASSUME Init PROVE UsersInv
  OBVIOUS
<1>1. /\ par \in Setups /\ nUserInstancesFinished = 0 /\ stopped \in {"malformed", "no"}
      /\ instance \in {[r \in Generated |-> Generator!CloudUserInstance(r, garbage[r])] :
                         garbage \in [Generated -> par.garbage]}
      /\ user = [r \in Request |-> "idle"]
  BY DEF Init, Generator!initialize, EdgeUsersInit
<1>2. /\ par.users \subseteq Generated /\ Generated \subseteq Request
      /\ \A r \in Generated : user[r] = "idle"
  BY <1>1, UsersAre
<1>3. InTurn
  BY InTurnInit
<1>4. Books
  <2>1. PICK garbage \in [Generated -> par.garbage] :
          instance = [r \in Generated |-> Generator!CloudUserInstance(r, garbage[r])]
    BY <1>1
  <2>2. \A r \in Generated : instance[r] = Generator!CloudUserInstance(r, garbage[r])
    BY <2>1
  <2>3. instance = [r \in Generated |-> instance[r]]
    BY <2>1
  <2>4. \A r \in Generated : IsBook(instance[r], r, user[r])
    BY <1>2, <2>2, NewBook
  <2>. QED  BY <2>3, <2>4 DEF Books
<1>5. Counted
  <2>1. Served = {}
    BY <1>2 DEF Served, Settled
  <2>. QED  BY <1>1, <2>1, FS_EmptySet DEF Counted
<1>6. InStep
  BY <1>2 DEF InStep, Follows
<1>. QED  BY <1>3, <1>4, <1>5, <1>6 DEF UsersInv

-----------------------------------------------------------------------------
(* What an answer does to the book of its user *)

LEMMA SomeVms ==
  ASSUME NEW r \in Request
  PROVE  Len(Vms[r]) \in Nat \ {0} /\ DOMAIN Vms[r] = 1..Len(Vms[r])
<1>1. Vms[r] \in Seq(VmType) /\ Vms[r] # <<>>
  BY CloudConstants
<1>. QED  BY <1>1

LEMMA Subscribed ==
  ASSUME NEW r, NEW status, NEW n, NEW b, NEW t, NEW d
  PROVE  Generator!startSubscription(Book(r, status, n, 0, b, t, d)) = Book(r, status, n, 1, TRUE, t, d)
<1>. DEFINE u == Book(r, status, n, 0, b, t, d)
            c == u.bSubscribe \/ u.numActiveSubscriptions < 1
<1>1. \A j : [u EXCEPT !.numActiveSubscriptions = j] = Book(r, status, n, j, b, t, d)
  BY DEF Book
<1>2. \A j, y : [Book(r, status, n, j, b, t, d) EXCEPT !.bSubscribe = y] = Book(r, status, n, j, y, t, d)
  BY DEF Book
<1>3. u.numActiveSubscriptions = 0
  BY DEF Book
<1>. HIDE DEF u
<1>4. c = TRUE
  BY <1>3
<1>. HIDE DEF c
<1>5. Generator!startSubscription(u)
        = [[u EXCEPT !.numActiveSubscriptions = u.numActiveSubscriptions + 1] EXCEPT !.bSubscribe = c]
  BY DEF Generator!startSubscription, c
<1>6. u.numActiveSubscriptions + 1 = 1
  BY <1>3
<1>7. Generator!startSubscription(u) = [Book(r, status, n, 1, b, t, d) EXCEPT !.bSubscribe = c]
  BY <1>1, <1>5, <1>6
<1>8. [Book(r, status, n, 1, b, t, d) EXCEPT !.bSubscribe = c] = Book(r, status, n, 1, c, t, d)
  BY <1>2
<1>. QED  BY <1>4, <1>7, <1>8 DEF u

LEMMA Unsubscribed ==
  ASSUME NEW r, NEW status, NEW n, NEW b, NEW t, NEW d
  PROVE  Generator!endSubscription(Book(r, status, n, 1, b, t, d)) = Book(r, status, n, 0, b, t, d)
<1>. DEFINE u == Book(r, status, n, 1, b, t, d)
<1>1. u.numActiveSubscriptions - 1 = 0
  BY DEF Book
<1>2. [u EXCEPT !.numActiveSubscriptions = 0] = Book(r, status, n, 0, b, t, d)
  BY DEF Book
<1>. HIDE DEF u
<1>. QED  BY <1>1, <1>2 DEF Generator!endSubscription, u

\* Marking every VM of a user, none of which was finished.
LEMMA Marked ==
  ASSUME NEW r \in Request, NEW status \in {"vmIdle", "vmAccepted"}, NEW k, NEW b, NEW t, NEW d,
         NEW new \in {"vmIdle", "vmAccepted", "vmFinished"}
  PROVE  Generator!setState(Book(r, status, 0, k, b, t, d), new)
           = Book(r, new, IF new = "vmFinished" THEN Len(Vms[r]) ELSE 0, k, b, t, d)
<1>. DEFINE u == Book(r, status, 0, k, b, t, d)
            l == Len(Vms[r])
<1>1. l \in Nat /\ DOMAIN Vms[r] = 1..l
  BY SomeVms
<1>2. u.state = AllVms(r, status) /\ u.numFinishedVMs = 0
  BY DEF Book
<1>3. DOMAIN u.state = 1..l /\ \A i \in 1..l : u.state[i] = status
  BY <1>1, <1>2 DEF AllVms
<1>4. \A f : [u EXCEPT !.state = AllVms(r, new), !.numFinishedVMs = f]
              = Book(r, new, f, k, b, t, d)
  <2>. DEFINE s == AllVms(r, new)
  <2>. TAKE f
  <2>1. [u EXCEPT !.state = s] = Book(r, new, 0, k, b, t, d)
    BY DEF Book
  <2>2. [Book(r, new, 0, k, b, t, d) EXCEPT !.numFinishedVMs = f] = Book(r, new, f, k, b, t, d)
    BY DEF Book
  <2>. HIDE DEF u, s
  <2>3. [u EXCEPT !.state = s, !.numFinishedVMs = f] = [[u EXCEPT !.state = s] EXCEPT !.numFinishedVMs = f]
    OBVIOUS
  <2>. QED  BY <2>1, <2>2, <2>3 DEF s
<1>. HIDE DEF u, l
<1>5. Generator!Finished(u) = {} /\ DOMAIN u.state \ Generator!Finished(u) = 1..l
  BY <1>3 DEF Generator!Finished
<1>6. Cardinality(DOMAIN u.state \ Generator!Finished(u)) = l
      /\ Cardinality(Generator!Finished(u)) = 0
  BY <1>1, <1>5, FS_Interval, FS_EmptySet
<1>7. [i \in DOMAIN u.state |-> new] = AllVms(r, new)
  BY <1>1, <1>3 DEF AllVms, l
<1>8. Generator!setState(u, new)
        = [u EXCEPT !.state = AllVms(r, new),
                    !.numFinishedVMs = 0 + IF new = "vmFinished" THEN l ELSE -0]
  <2>1. Generator!setState(u, new)
          = [u EXCEPT !.state = [i \in DOMAIN u.state |-> new],
                      !.numFinishedVMs = u.numFinishedVMs + IF new = "vmFinished"
                         THEN Cardinality(DOMAIN u.state \ Generator!Finished(u))
                         ELSE -Cardinality(Generator!Finished(u))]
    BY DEF Generator!setState, Cardinality, Generator!Cardinality
  <2>. QED  BY <1>2, <1>6, <1>7, <2>1
<1>9. (0 + IF new = "vmFinished" THEN l ELSE -0) = IF new = "vmFinished" THEN l ELSE 0
  BY <1>1
<1>. QED  BY <1>4, <1>8, <1>9 DEF u, l

\* The user whose last VM is finished has finished.
LEMMA Closed ==
  ASSUME NEW r \in Request, NEW k, NEW b, NEW t, NEW d
  PROVE  /\ \A status : LET u == Book(r, status, 0, k, b, t, d) IN Generator!finishIfAll(u) = u
         /\ \A status : Generator!finishIfAll(Book(r, status, Len(Vms[r]), k, b, t, d))
                          = Book(r, status, Len(Vms[r]), k, b, t, TRUE)
<1>. DEFINE l == Len(Vms[r])
<1>1. l \in Nat \ {0} /\ DOMAIN Vms[r] = 1..l
  BY SomeVms
<1>2. ASSUME NEW status
      PROVE  Len(AllVms(r, status)) = l
  BY <1>1 DEF AllVms
<1>3. ASSUME NEW status, NEW n \in Nat
      PROVE  Generator!allVmsFinished(Book(r, status, n, k, b, t, d)) <=> l <= n
  BY <1>2 DEF Generator!allVmsFinished, Book
<1>4. ASSUME NEW status
      PROVE  LET u == Book(r, status, 0, k, b, t, d) IN Generator!finishIfAll(u) = u
  <2>1. ~Generator!allVmsFinished(Book(r, status, 0, k, b, t, d))
    BY <1>1, <1>3
  <2>. QED  BY <2>1 DEF Generator!finishIfAll
<1>5. ASSUME NEW status
      PROVE  Generator!finishIfAll(Book(r, status, l, k, b, t, d)) = Book(r, status, l, k, b, t, TRUE)
  <2>. DEFINE u == Book(r, status, l, k, b, t, d)
  <2>1. Generator!allVmsFinished(u)
    BY <1>1, <1>3
  <2>0. \A y : [u EXCEPT !.bFinished = y] = Book(r, status, l, k, b, t, y)
    BY DEF Book
  <2>2. [u EXCEPT !.bFinished = TRUE] = Book(r, status, l, k, b, t, TRUE)
    BY <2>0
  <2>. HIDE DEF u
  <2>3. Generator!finishIfAll(u) = [u EXCEPT !.bFinished = TRUE]
    BY <2>1 DEF Generator!finishIfAll
  <2>. QED  BY <2>2, <2>3 DEF u
<1>. QED  BY <1>4, <1>5

LEMMA Updated ==
  ASSUME NEW r \in Request, NEW k, NEW b, NEW t, NEW d
  PROVE  LET l == Len(Vms[r])
             update(u, new) == Generator!updateVmInstanceStatus(u, new)
         IN  /\ update(Book(r, "vmIdle", 0, k, b, t, d), "vmIdle") = Book(r, "vmIdle", 0, k, b, t, d)
             /\ update(Book(r, "vmIdle", 0, k, b, t, d), "vmAccepted") = Book(r, "vmAccepted", 0, k, b, t, d)
             /\ update(Book(r, "vmIdle", 0, k, b, t, d), "vmFinished") = Book(r, "vmFinished", l, k, b, t, TRUE)
             /\ update(Book(r, "vmAccepted", 0, k, b, t, d), "vmFinished")
                  = Book(r, "vmFinished", l, k, b, t, TRUE)
<1>1. ASSUME NEW status \in {"vmIdle", "vmAccepted"}, NEW new \in {"vmIdle", "vmAccepted"}
      PROVE  Generator!updateVmInstanceStatus(Book(r, status, 0, k, b, t, d), new)
               = Book(r, new, 0, k, b, t, d)
  <2>1. Generator!setState(Book(r, status, 0, k, b, t, d), new) = Book(r, new, 0, k, b, t, d)
    BY Marked
  <2>2. Generator!finishIfAll(Book(r, new, 0, k, b, t, d)) = Book(r, new, 0, k, b, t, d)
    BY ZenonT(60), Closed
  <2>. QED  BY <2>1, <2>2 DEF Generator!updateVmInstanceStatus
<1>2. ASSUME NEW status \in {"vmIdle", "vmAccepted"}
      PROVE  Generator!updateVmInstanceStatus(Book(r, status, 0, k, b, t, d), "vmFinished")
               = Book(r, "vmFinished", Len(Vms[r]), k, b, t, TRUE)
  <2>1. Generator!setState(Book(r, status, 0, k, b, t, d), "vmFinished")
          = Book(r, "vmFinished", Len(Vms[r]), k, b, t, d)
    BY Marked
  <2>2. Generator!finishIfAll(Book(r, "vmFinished", Len(Vms[r]), k, b, t, d))
          = Book(r, "vmFinished", Len(Vms[r]), k, b, t, TRUE)
    BY Closed
  <2>. QED  BY <2>1, <2>2 DEF Generator!updateVmInstanceStatus
<1>. QED  BY <1>1, <1>2

\* What an answer makes of the book of a user that waits for it.
LEMMA RequestAnswered ==
  ASSUME NEW r \in Request, NEW b, NEW t, NEW d
  PROVE  LET u == Book(r, "vmIdle", 0, 0, b, t, d)
         IN  /\ Generator!handleResponseVmRequest(u, TRUE) = Book(r, "vmFinished", Len(Vms[r]), 0, b, t, TRUE)
             /\ Generator!handleResponseVmRequest(u, FALSE) = Book(r, "vmIdle", 0, 1, TRUE, t, d)
<1>. DEFINE u == Book(r, "vmIdle", 0, 0, b, t, d)
            accepted == Book(r, "vmAccepted", 0, 0, b, t, d)
            finished == Book(r, "vmFinished", Len(Vms[r]), 0, b, t, TRUE)
<1>1. /\ Generator!updateVmInstanceStatus(u, "vmIdle") = u
      /\ Generator!updateVmInstanceStatus(u, "vmAccepted") = accepted
      /\ Generator!updateVmInstanceStatus(accepted, "vmFinished") = finished
  BY Updated
<1>2. Generator!startSubscription(u) = Book(r, "vmIdle", 0, 1, TRUE, t, d)
  BY Subscribed
<1>. HIDE DEF u, accepted, finished
<1>3. /\ Generator!handleResponseVmRequest(u, TRUE) = finished
      /\ Generator!handleResponseVmRequest(u, FALSE) = Book(r, "vmIdle", 0, 1, TRUE, t, d)
  BY <1>1, <1>2 DEF Generator!handleResponseVmRequest, Generator!deployApps
<1>. QED  BY <1>3 DEF u, finished

LEMMA SubscriptionAnswered ==
  ASSUME NEW r \in Request, NEW b, NEW t, NEW d
  PROVE  LET l == Len(Vms[r])
             u == Book(r, "vmIdle", 0, 1, b, t, d)
         IN  /\ Generator!handleResponseSubscription(u, TRUE) = Book(r, "vmFinished", l, 0, b, t, TRUE)
             /\ Generator!handleResponseSubscription(u, FALSE) = Book(r, "vmFinished", l, 0, b, TRUE, TRUE)
<1>. DEFINE l == Len(Vms[r])
            u == Book(r, "vmIdle", 0, 1, b, t, d)
            late == Book(r, "vmAccepted", 0, 1, b, t, d)
            accepted == Book(r, "vmAccepted", 0, 0, b, t, d)
            finished == Book(r, "vmFinished", l, 0, b, t, TRUE)
            refused == Book(r, "vmFinished", l, 1, b, t, TRUE)
<1>1. /\ Generator!updateVmInstanceStatus(u, "vmAccepted") = late
      /\ Generator!updateVmInstanceStatus(u, "vmFinished") = refused
      /\ Generator!updateVmInstanceStatus(accepted, "vmFinished") = finished
  BY Updated
<1>2. Generator!endSubscription(late) = accepted
  BY Unsubscribed
<1>3. Generator!endSubscription(refused) = finished
  <2>1. \A y : Generator!endSubscription(Book(r, "vmFinished", l, 1, b, t, y))
               = Book(r, "vmFinished", l, 0, b, t, y)
    BY Unsubscribed
  <2>. QED  BY <2>1
<1>4. [finished EXCEPT !.bTimeout_t4 = TRUE] = Book(r, "vmFinished", l, 0, b, TRUE, TRUE)
  <2>1. \A y, z : [Book(r, "vmFinished", l, 0, b, t, z) EXCEPT !.bTimeout_t4 = y]
                  = Book(r, "vmFinished", l, 0, b, y, z)
    BY DEF Book
  <2>. QED  BY <2>1
<1>. HIDE DEF u, late, accepted, finished, refused
<1>5. /\ Generator!handleResponseSubscription(u, TRUE) = finished
      /\ Generator!handleResponseSubscription(u, FALSE) = [finished EXCEPT !.bTimeout_t4 = TRUE]
  BY <1>1, <1>2, <1>3 DEF Generator!handleResponseSubscription, Generator!deployApps
<1>. QED  BY <1>4, <1>5 DEF u, finished

LEMMA BookSteps ==
  ASSUME NEW r \in Request, NEW u
  PROVE  /\ IsBook(u, r, "asking") =>
              /\ IsBook(Generator!handleResponseVmRequest(u, TRUE), r, "up")
              /\ IsBook(Generator!handleResponseVmRequest(u, FALSE), r, "subscribing")
         /\ IsBook(u, r, "subscribing") =>
              /\ IsBook(Generator!handleResponseSubscription(u, TRUE), r, "up")
              /\ IsBook(Generator!handleResponseSubscription(u, FALSE), r, "refused")
<1>. DEFINE b == u.bSubscribe
            l == Len(Vms[r])
<1>0. /\ \A c : BookOf(r, "asking", c) = Book(r, "vmIdle", 0, 0, c, FALSE, FALSE)
      /\ \A c : BookOf(r, "subscribing", c) = Book(r, "vmIdle", 0, 1, c, FALSE, FALSE)
      /\ \A c : BookOf(r, "up", c) = Book(r, "vmFinished", l, 0, c, FALSE, TRUE)
      /\ \A c : BookOf(r, "refused", c) = Book(r, "vmFinished", l, 0, c, TRUE, TRUE)
  BY DEF BookOf
<1>1. \A x \in {"asking", "up", "subscribing", "refused"} : \A c : BookOf(r, x, c).bSubscribe = c
  BY <1>0 DEF Book
<1>2. \A x \in {"asking", "up", "subscribing", "refused"} : \A c :
        (x \in {"subscribing", "refused"} => c) => IsBook(BookOf(r, x, c), r, x)
  BY <1>1 DEF IsBook
<1>3. ASSUME IsBook(u, r, "asking")
      PROVE  /\ IsBook(Generator!handleResponseVmRequest(u, TRUE), r, "up")
             /\ IsBook(Generator!handleResponseVmRequest(u, FALSE), r, "subscribing")
  <2>1. u = Book(r, "vmIdle", 0, 0, b, FALSE, FALSE)
    BY <1>0, <1>3 DEF IsBook
  <2>. HIDE DEF b, l
  <2>2. \A t, d : LET v == Book(r, "vmIdle", 0, 0, b, t, d)
                 IN  /\ Generator!handleResponseVmRequest(v, TRUE) = Book(r, "vmFinished", l, 0, b, t, TRUE)
                     /\ Generator!handleResponseVmRequest(v, FALSE) = Book(r, "vmIdle", 0, 1, TRUE, t, d)
    <3>. TAKE t, d
    <3>. QED  BY RequestAnswered DEF l
  <2>3. /\ Generator!handleResponseVmRequest(u, TRUE) = Book(r, "vmFinished", l, 0, b, FALSE, TRUE)
        /\ Generator!handleResponseVmRequest(u, FALSE) = Book(r, "vmIdle", 0, 1, TRUE, FALSE, FALSE)
    BY <2>1, <2>2
  <2>4. /\ Generator!handleResponseVmRequest(u, TRUE) = BookOf(r, "up", b)
        /\ Generator!handleResponseVmRequest(u, FALSE) = BookOf(r, "subscribing", TRUE)
    BY <1>0, <2>3
  <2>. QED  BY <1>2, <2>4
<1>4. ASSUME IsBook(u, r, "subscribing")
      PROVE  /\ IsBook(Generator!handleResponseSubscription(u, TRUE), r, "up")
             /\ IsBook(Generator!handleResponseSubscription(u, FALSE), r, "refused")
  <2>1. u = Book(r, "vmIdle", 0, 1, b, FALSE, FALSE) /\ b
    BY <1>0, <1>4 DEF IsBook
  <2>. HIDE DEF b, l
  <2>2. \A t, d : LET v == Book(r, "vmIdle", 0, 1, b, t, d)
                 IN  /\ Generator!handleResponseSubscription(v, TRUE) = Book(r, "vmFinished", l, 0, b, t, TRUE)
                     /\ Generator!handleResponseSubscription(v, FALSE) = Book(r, "vmFinished", l, 0, b, TRUE, TRUE)
    <3>. TAKE t, d
    <3>. QED  BY SubscriptionAnswered DEF l
  <2>3. /\ Generator!handleResponseSubscription(u, TRUE) = Book(r, "vmFinished", l, 0, b, FALSE, TRUE)
        /\ Generator!handleResponseSubscription(u, FALSE) = Book(r, "vmFinished", l, 0, b, TRUE, TRUE)
    BY <2>1, <2>2
  <2>4. /\ Generator!handleResponseSubscription(u, TRUE) = BookOf(r, "up", b)
        /\ Generator!handleResponseSubscription(u, FALSE) = BookOf(r, "refused", b)
    BY <1>0, <2>3
  <2>. QED  BY <1>2, <2>1, <2>4
<1>. QED  BY <1>3, <1>4

\* What the statistics and the end of the simulation read in a book.
LEMMA BookSays ==
  ASSUME NEW r \in Request, NEW u, NEW x, IsBook(u, r, x)
  PROVE  /\ u.numFinishedVMs = Cardinality(Generator!Finished(u))
         /\ u.bFinished <=> x \in Settled
         /\ u.bFinished <=> Generator!allVmsFinished(u)
         /\ u.bFinished \in BOOLEAN /\ u.bTimeout_t4 \in BOOLEAN
         /\ u.numActiveSubscriptions = IF x = "subscribing" THEN 1 ELSE 0
         /\ u.bTimeout_t4 <=> x = "refused"
         /\ x \in {"subscribing", "refused"} => u.bSubscribe
<1>. DEFINE l == Len(Vms[r])
<1>1. l \in Nat \ {0} /\ DOMAIN Vms[r] = 1..l
  BY SomeVms
<1>2. PICK status, n, k, b, t, d :
        /\ u = Book(r, status, n, k, b, t, d)
        /\ d <=> x \in Settled
        /\ t <=> x = "refused"
        /\ d \in BOOLEAN /\ t \in BOOLEAN
        /\ k = IF x = "subscribing" THEN 1 ELSE 0
        /\ n = IF x \in Settled THEN l ELSE 0
        /\ status = IF x \in Settled THEN "vmFinished" ELSE "vmIdle"
  BY DEF IsBook, BookOf, Settled
<1>3. /\ u.state = AllVms(r, status) /\ u.numFinishedVMs = n /\ u.numActiveSubscriptions = k
      /\ u.bTimeout_t4 = t /\ u.bFinished = d
  BY <1>2 DEF Book
<1>4. DOMAIN u.state = 1..l /\ Len(u.state) = l /\ \A i \in 1..l : u.state[i] = status
  BY <1>1, <1>3 DEF AllVms
<1>5. Generator!Finished(u) = IF x \in Settled THEN 1..l ELSE {}
  BY <1>2, <1>4 DEF Generator!Finished
<1>6. Cardinality(1..l) = l /\ Cardinality({}) = 0
  BY <1>1, FS_Interval, FS_EmptySet
<1>7. u.numFinishedVMs = Cardinality(Generator!Finished(u))
  BY <1>2, <1>3, <1>5, <1>6
<1>8. Generator!allVmsFinished(u) <=> x \in Settled
  BY <1>1, <1>2, <1>3, <1>4 DEF Generator!allVmsFinished
<1>. QED  BY <1>2, <1>3, <1>7, <1>8 DEF IsBook

-----------------------------------------------------------------------------
(* Steps of others *)

\* A step that is not the generator's and not that of one of its users.
Elsewhere ==
  /\ Running /\ UNCHANGED generatorVars
  /\ \A r \in Generated : user'[r] = user[r]
  /\ stopped' # "end" /\ stopped' # "not sorted"

\* ... and of the provider only what does not concern them.
StaysInStep ==
  \A r \in Generated : stage'[r] = stage[r] /\ Upstream(r)' = Upstream(r)

LEMMA OtherChannels ==
  ASSUME NEW n, n = [k \in Channels |-> n[k]], NEW c \in Channels
  PROVE  /\ \A from, to, m : c # <<from, to>> => Sent(n, from, to, m)[c] = n[c]
         /\ \A from, to, m : Sent(n, from, to, m) = [k \in Channels |-> Sent(n, from, to, m)[k]]
         /\ \A d : d # c => [n EXCEPT ![d] = Tail(@)][c] = n[c]
         /\ \A d : [n EXCEPT ![d] = Tail(@)] = [k \in Channels |-> [n EXCEPT ![d] = Tail(@)][k]]
BY DEF Sent

LEMMA UpstreamIs ==
  ASSUME NEW r \in Generated
  PROVE  LET c == <<r, CloudProviderTopic>>
         IN  /\ c \in Channels /\ c[1] = r /\ c[2] = CloudProviderTopic
             /\ r \in Request /\ r \notin EdgeUser /\ r \notin Sender
<1>1. r \in Request /\ r \notin EdgeUser /\ r \notin Sender
  BY CloudConstants DEF EdgeUser
<1>. QED  BY <1>1, ChannelsAre

LEMMA EdgeUserSteps ==
  ASSUME PathInv, NEW q \in EdgeUser,
         startup(q) \/ ControllerReceives(q) \/ \E from \in Sender : handleVmUpdate(q, from)
  PROVE  Elsewhere /\ StaysInStep
<1>1. /\ Running /\ UNCHANGED <<generatorVars, stage>>
      /\ \E x : user' = [user EXCEPT ![q] = x] \/ user' = user
      /\ stopped' = stopped \/ stopped' = "no deployment" \/ stopped' = "no"
  BY DEF startup, ControllerReceives, handleVmUpdate, Running, providerVars
<1>2. \A r \in Generated : user'[r] = user[r]
  BY <1>1, UpstreamIs DEF PathInv, UserTypes
<1>3. net = [k \in Channels |-> net[k]]
  BY DEF PathInv, NetTypes, Channel
<1>4. ASSUME NEW r \in Generated PROVE Upstream(r)' = Upstream(r)
  <2>. DEFINE c == <<r, CloudProviderTopic>>
  <2>1. c \in Channels /\ r # q /\ r \notin Sender
    BY UpstreamIs
  <2>2. ASSUME startup(q) PROVE net'[c] = net[c]
    <3>1. net' = Sent(net, q, CloudProviderTopic, VmMessage("VM_Req", q, "none"))
      BY <2>2 DEF startup
    <3>2. c # <<q, CloudProviderTopic>>
      BY <2>1
    <3>. HIDE DEF c
    <3>. QED  BY <1>3, <2>1, <3>1, <3>2, OtherChannels
  <2>3. ASSUME NEW from \in Sender, handleVmUpdate(q, from) PROVE net'[c] = net[c]
    <3>. DEFINE n == [net EXCEPT ![<<from, q>>] = Tail(@)]
    <3>1. net' = n \/ \E m : net' = Sent(n, q, from, m)
      BY <2>3 DEF handleVmUpdate, Received, Deployment
    <3>2. c # <<from, q>> /\ c # <<q, from>>
      BY <2>1
    <3>. HIDE DEF c
    <3>3. n[c] = net[c] /\ n = [k \in Channels |-> n[k]]
      BY <1>3, <2>1, <3>2, OtherChannels
    <3>. HIDE DEF n
    <3>4. \A m : Sent(n, q, from, m)[c] = n[c]
      BY <2>1, <3>2, <3>3, OtherChannels
    <3>. QED  BY <3>1, <3>3, <3>4
  <2>4. ASSUME ControllerReceives(q) PROVE net'[c] = net[c]
    BY <2>4 DEF ControllerReceives
  <2>5. net'[c] = net[c]
    BY <2>2, <2>3, <2>4
  <2>. QED  BY <2>5 DEF Upstream
<1>5. Elsewhere
  BY <1>1, <1>2 DEF Elsewhere, Running
<1>. QED  BY <1>1, <1>4, <1>5 DEF StaysInStep

LEMMA CentreSteps ==
  ASSUME PathInv, CentreTypes, NEW d \in Topic,
         \/ CentreReceivesRequest(d) \/ handleManageMachines(d)
         \/ \E n \in Node(d) : BladeReceives(d, n)
         \/ \E q \in Request : handleApplicationRequest(d, q)
  PROVE  Elsewhere /\ StaysInStep
<1>0. d # CloudProviderTopic /\ d \in Sender
  BY CloudConstants DEF Sender, CloudProviderTopic
<1>1. net = [k \in Channels |-> net[k]]
  BY DEF PathInv, NetTypes, Channel
<1>2. CASE CentreReceivesRequest(d)
  <2>1. /\ Running /\ UNCHANGED <<stage, user, generatorVars, stopped>>
        /\ \E q \in Request, op \in Operation : (\E nodes : Grants(d, op, q, nodes)) \/ Refuses(d, op, q)
    BY <1>2, CentreAnswers DEF providerVars, userVars
  <2>2. ASSUME NEW r \in Generated PROVE Upstream(r)' = Upstream(r)
    <3>. DEFINE c == <<r, CloudProviderTopic>>
                n == [net EXCEPT ![<<CloudProviderTopic, d>>] = Tail(@)]
    <3>1. \E q \in Request : \E m1, m2 :
            net' = Sent(n, d, q, m1) \/ net' = Sent(Sent(n, d, CloudProviderTopic, m1), d, q, m2)
      BY <2>1 DEF Grants, Refuses, Rejection, Received
    <3>2. c \in Channels /\ c # <<CloudProviderTopic, d>> /\ c # <<d, CloudProviderTopic>>
          /\ \A q : c # <<d, q>>
      BY <1>0, UpstreamIs DEF Sender, CloudProviderTopic
    <3>. HIDE DEF c
    <3>3. n[c] = net[c] /\ n = [k \in Channels |-> n[k]]
      BY <1>1, <3>2, OtherChannels
    <3>. HIDE DEF n
    <3>4. \A q, m1 : Sent(n, d, q, m1)[c] = n[c]
      BY <3>2, <3>3, OtherChannels
    <3>5. ASSUME NEW q, NEW m1, NEW m2
          PROVE  Sent(Sent(n, d, CloudProviderTopic, m1), d, q, m2)[c] = n[c]
      <4>. DEFINE s == Sent(n, d, CloudProviderTopic, m1)
      <4>1. s[c] = n[c] /\ s = [k \in Channels |-> s[k]]
        BY <3>2, <3>3, OtherChannels
      <4>. HIDE DEF s
      <4>2. Sent(s, d, q, m2)[c] = s[c]
        BY <3>2, <4>1, OtherChannels
      <4>. QED  BY <4>1, <4>2 DEF s
    <3>6. net'[c] = net[c]
      BY <3>1, <3>3, <3>4, <3>5
    <3>. QED  BY <3>6 DEF Upstream, c
  <2>. QED  BY <2>1, <2>2 DEF Elsewhere, StaysInStep, Running
<1>3. CASE handleManageMachines(d)
  BY <1>3 DEF handleManageMachines, Elsewhere, StaysInStep, Running, Upstream, providerVars, userVars
<1>4. ASSUME NEW n \in Node(d), BladeReceives(d, n) PROVE Elsewhere /\ StaysInStep
  BY <1>4 DEF BladeReceives, Elsewhere, StaysInStep, Running, Upstream, providerVars, userVars
<1>5. ASSUME NEW q \in Request, handleApplicationRequest(d, q) PROVE Elsewhere /\ StaysInStep
  <2>1. /\ Running /\ UNCHANGED <<stage, user, generatorVars>>
        /\ stopped' = stopped \/ stopped' = "invalid hypervisor url"
        /\ net' = [net EXCEPT ![<<q, d>>] = Tail(@)]
    BY <1>5 DEF handleApplicationRequest, Running, Received, providerVars, userVars
  <2>2. ASSUME NEW r \in Generated PROVE Upstream(r)' = Upstream(r)
    <3>. DEFINE c == <<r, CloudProviderTopic>>
    <3>1. c \in Channels /\ c # <<q, d>>
      BY <1>0, UpstreamIs
    <3>. HIDE DEF c
    <3>2. net'[c] = net[c]
      BY <1>1, <2>1, <3>1, OtherChannels
    <3>. QED  BY <3>2 DEF Upstream, c
  <2>. QED  BY <2>1, <2>2 DEF Elsewhere, StaysInStep, Running
<1>. QED  BY <1>2, <1>3, <1>4, <1>5

\* The provider sends nothing on the way to itself.
LEMMA ProviderSends ==
  ASSUME PathInv', NEW n \in Channel, net' = Emitted(n, emitted', stage'), NEW r \in Generated
  PROVE  Upstream(r)' = n[<<r, CloudProviderTopic>>]
<1>. DEFINE c == <<r, CloudProviderTopic>>
<1>1. emitted' \in Seq(Proved!Message)
  BY DEF PathInv, Proved!TypeInv
<1>2. c \in Channels /\ c[1] # CloudProviderTopic
  BY UpstreamIs DEF Sender, CloudProviderTopic
<1>. HIDE DEF c
<1>3. net'[c] = n[c]
  BY <1>1, <1>2, EmittedElsewhere
<1>. QED  BY <1>3 DEF Upstream, c

LEMMA FollowsKept ==
  ASSUME NEW r, user'[r] = user[r], stage'[r] = stage[r], Upstream(r)' = Upstream(r), Follows(r)
  PROVE  Follows(r)'
BY DEF Follows

LEMMA ProviderInStep ==
  ASSUME PathInv, InStep,
         \/ \E from \in Topic \cup Request : ProviderReceives(from)
         \/ \E q \in Request : ProviderTimesOut(q)
  PROVE  Elsewhere /\ InStep'
<1>1. Running /\ UNCHANGED <<user, generatorVars, stopped>>
  BY DEF ProviderReceives, ProviderTimesOut, Provider!handleVmRequest, Provider!handleVmSubscription,
     Provider!handleNodeUpdate, Provider!handleSubscriptionTimeout, Running, userVars
<1>2. Elsewhere
  BY <1>1 DEF Elsewhere, Running
<1>3. \A r \in Generated : Follows(r)
  BY <1>1 DEF InStep
<1>4. net \in Channel /\ stage \in [Request -> {"new", "requested", "subscribed"}] /\ Paths
  BY <1>1 DEF PathInv, NetTypes, Proved!TypeInv, Proved!QueueInv
<1>5. ASSUME NEW q \in Request, ProviderTimesOut(q), NEW r \in Generated PROVE Follows(r)'
  <2>1. PathInv' /\ stage' = stage /\ net' = Emitted(net, emitted', stage')
    BY <1>5, PathProviderTimesOut DEF ProviderTimesOut
  <2>2. Upstream(r)' = Upstream(r)
    BY <1>4, <2>1, ProviderSends DEF Upstream
  <2>. QED  BY <1>1, <1>3, <2>1, <2>2, FollowsKept
<1>6. ASSUME NEW from \in Topic \cup Request, ProviderReceives(from), NEW r \in Generated
      PROVE  Follows(r)'
  <2>. DEFINE k == <<from, CloudProviderTopic>>
              m == Head(net[k])
              n == [net EXCEPT ![k] = Tail(@)]
              c == <<r, CloudProviderTopic>>
  <2>1. /\ PathInv' /\ net[k] # <<>> /\ net' = Emitted(n, emitted', stage')
        /\ \/ m.op = "VM_Req" /\ stage' = [stage EXCEPT ![m.req] = "requested"]
           \/ m.op = "VM_Sub" /\ stage' = [stage EXCEPT ![m.req] = "subscribed"]
           \/ m.op = "Node_Update" /\ UNCHANGED stage
    BY <1>6, PathProviderReceives DEF ProviderReceives, Arrived, First, Received
  <2>2. /\ k \in Channels /\ k[1] = from /\ k[2] = CloudProviderTopic
        /\ c \in Channels /\ c[1] = r /\ c[2] = CloudProviderTopic
        /\ r \in Request /\ r \notin Topic /\ (from = r <=> k = c) /\ CloudProviderTopic \notin Request
    BY ChannelsAre, UpstreamIs, CloudConstants DEF Sender, CloudProviderTopic
  <2>. HIDE DEF k
  <2>3. /\ n \in Channel /\ Head(net[k]) = net[k][1] /\ 1 \in DOMAIN net[k]
        /\ \A i \in DOMAIN n[k] : i + 1 \in DOMAIN net[k] /\ n[k][i] = net[k][i + 1]
        /\ \A d \in Channels : d # k => n[d] = net[d]
    <3>1. /\ n \in Channel /\ Head(net[k]) = net[k][1] /\ 1 \in DOMAIN net[k]
          /\ \A i : i \in DOMAIN n[k] <=> i \in Nat \ {0} /\ i + 1 \in DOMAIN net[k]
          /\ \A i \in DOMAIN n[k] : n[k][i] = net[k][i + 1]
          /\ \A d \in Channels : d # k => n[d] = net[d]
      BY SMTT(60), <1>4, <2>1, <2>2, ReceivedIs
    <3>. HIDE DEF n
    <3>. QED  BY <3>1
  <2>4. Shape(k, m) /\ OnStage(k, m, stage)
    BY <1>4, <2>1, <2>2, ReceivedTypes, ReceivedStages DEF PathInv, Paths
  <2>. HIDE DEF n
  <2>5. Upstream(r)' = n[c]
    BY <2>1, <2>3, ProviderSends
  <2>. HIDE DEF m
  <2>6. CASE r # from
    <3>1. stage'[r] = stage[r]
      <4>1. CASE from \in Request
        <5>1. m.req = from
          BY <2>2, <2>4, <4>1 DEF Shape, Carries
        <5>. QED  BY <1>4, <2>1, <2>2, <2>6, <5>1
      <4>2. CASE from \in Topic
        <5>1. m.op = "Node_Update"
          BY <2>2, <2>4, <4>2 DEF Shape, NodeUpdate
        <5>. QED  BY <2>1, <5>1
      <4>. QED  BY <4>1, <4>2
    <3>2. Upstream(r)' = Upstream(r)
      BY <2>2, <2>3, <2>5, <2>6 DEF Upstream
    <3>. QED  BY <1>1, <1>3, <3>1, <3>2, FollowsKept
  <2>7. CASE r = from
    <3>1. k = c /\ Carries(m, r)
      BY <2>2, <2>4, <2>7 DEF Shape
    <3>2. m.req = r /\ (m.op = "VM_Req" \/ m.op = "VM_Sub")
          /\ stage[r] = IF m.op = "VM_Req" THEN "new" ELSE "requested"
      BY <2>2, <2>4, <2>7, <3>1 DEF Carries, OnStage, StageOf, Operation
    <3>3. stage'[r] = IF m.op = "VM_Req" THEN "requested" ELSE "subscribed"
      BY <1>4, <2>1, <2>2, <3>2
    <3>4. Upstream(r) = net[k] /\ net[k][1] = m
      BY <2>3, <3>1 DEF Upstream, c, m
    <3>5. Follows(r) /\ user'[r] = user[r]
      BY <1>1, <1>3
    <3>6. CASE user[r] = "asking"
      <4>1. m.op = "VM_Req"
        BY <2>3, <3>2, <3>4, <3>5, <3>6 DEF Follows
      <4>2. \A i \in DOMAIN n[c] : n[c][i].op # "VM_Sub"
        BY <2>3, <3>1, <3>4, <3>5, <3>6 DEF Follows
      <4>3. \A i \in DOMAIN Upstream(r)' : Upstream(r)'[i].op # "VM_Sub"
        BY <2>5, <4>2
      <4>. QED  BY <3>3, <3>5, <3>6, <4>1, <4>3 DEF Follows
    <3>7. CASE user[r] = "subscribing"
      <4>1. m.op = "VM_Sub"
        BY <3>2, <3>5, <3>7 DEF Follows
      <4>. QED  BY <3>3, <3>5, <3>7, <4>1 DEF Follows
    <3>. QED  BY <3>5, <3>6, <3>7 DEF Follows
  <2>. QED  BY <2>6, <2>7
<1>7. \A r \in Generated : Follows(r)'
  BY <1>5, <1>6
<1>. QED  BY <1>2, <1>7 DEF InStep

-----------------------------------------------------------------------------
(* Steps of the generator's users *)

\* What is on its way from or to a user carries its request.
LEMMA Carried ==
  ASSUME NetTypes(net), NEW r \in Request, NEW c \in Channels, net[c] # <<>>,
         c = <<r, CloudProviderTopic>> \/ \E x \in Sender : c = <<x, r>>
  PROVE  At(net, c, 1, r)
<1>1. Shape(c, Head(net[c])) /\ Head(net[c]) = net[c][1] /\ 1 \in DOMAIN net[c]
  BY ReceivedTypes, ReceivedIs DEF NetTypes
<1>2. CloudProviderTopic \notin Topic \cup Request /\ Topic \cap Request = {}
  BY CloudConstants DEF Sender, CloudProviderTopic
<1>3. \/ c[1] \in Request /\ c[2] = CloudProviderTopic /\ c[1] = r
      \/ (c[1] \in Topic \/ c[1] = CloudProviderTopic) /\ c[2] = r
  BY DEF Sender, CloudProviderTopic
<1>. DEFINE m == Head(net[c])
<1>. HIDE DEF m
<1>4. Carries(m, r)
  BY <1>1, <1>2, <1>3 DEF Shape, m
<1>. QED  BY <1>1, <1>4 DEF At, m

\* Nothing of a user that has not asked is on its way to the provider.
LEMMA NothingUpstream ==
  ASSUME PathInv, Paths, NEW r \in Generated, user[r] = "idle"
  PROVE  Upstream(r) = <<>>
<1>. DEFINE c == <<r, CloudProviderTopic>>
<1>1. c \in Channels /\ r \in Request
  BY UpstreamIs
<1>2. ~Somewhere(net, r)
  <2>1. r \notin Waits
    BY DEF Waits
  <2>. QED  BY <1>1, <2>1 DEF Paths, Once
<1>3. ASSUME net[c] # <<>> PROVE FALSE
  <2>1. At(net, c, 1, r)
    BY <1>1, <1>3, Carried DEF PathInv
  <2>. HIDE DEF c
  <2>. QED  BY <1>2, <2>1 DEF Somewhere
<1>. QED  BY <1>3 DEF Upstream

\* A user that gets an answer waits for this one.
LEMMA AnswerFits ==
  ASSUME PathInv, Paths, NEW r \in Generated, Follows(r), NEW from \in Sender, net[<<from, r>>] # <<>>
  PROVE  LET m == Head(net[<<from, r>>])
         IN  \/ m.op = "VM_Req" /\ user[r] = "asking" /\ stage[r] = "requested"
             \/ m.op = "VM_Sub" /\ user[r] = "subscribing"
<1>. DEFINE c == <<from, r>>
            k == <<r, CloudProviderTopic>>
            m == Head(net[c])
<1>1. /\ k \in Channels /\ c \in Channels /\ r \in Request /\ r \notin Sender
  BY UpstreamIs, ChannelsAre DEF Sender, CloudProviderTopic
<1>2. /\ m.op \in Operation /\ user[r] \in {"asking", "subscribing"}
      /\ stage[r] = IF m.op = "VM_Req" THEN "requested" ELSE "subscribed"
  BY <1>1, ReadPaths
<1>3. ASSUME Upstream(r) # <<>> PROVE FALSE
  <2>1. At(net, c, 1, r)
    BY <1>1, Carried DEF PathInv
  <2>2. At(net, k, 1, r)
    BY <1>1, <1>3, Carried DEF PathInv, Upstream
  <2>3. c # k
    BY <1>1
  <2>. HIDE DEF c, k
  <2>. QED  BY <1>1, <2>1, <2>2, <2>3 DEF Paths, Once
<1>. HIDE DEF m
<1>4. \/ m.op = "VM_Req" /\ user[r] = "asking" /\ stage[r] = "requested"
      \/ m.op = "VM_Sub" /\ user[r] = "subscribing"
  BY <1>2, <1>3 DEF Follows, Operation
<1>. QED  BY <1>4 DEF m

LEMMA OthersFollow ==
  ASSUME InStep, Running, UNCHANGED stage, NEW r \in Generated, Follows(r)',
         \A q \in Generated : q # r => user'[q] = user[q] /\ Upstream(q)' = Upstream(q)
  PROVE  InStep'
<1>1. ASSUME NEW q \in Generated, q # r PROVE Follows(q)'
  BY <1>1, FollowsKept DEF InStep
<1>. QED  BY <1>1 DEF InStep

LEMMA GeneratedUserAsksInStep ==
  ASSUME PathInv, CentreTypes, InStep, NEW r \in Generated, GeneratedUserAsks(r)
  PROVE  InStep'
<1>. DEFINE c == <<r, CloudProviderTopic>>
            m == VmMessage("VM_Req", r, "none")
<1>1. /\ Running /\ UNCHANGED stage /\ user[r] = "idle"
      /\ user' = [user EXCEPT ![r] = "asking"] /\ net' = Sent(net, r, CloudProviderTopic, m)
  BY PathGeneratedUserAsks DEF GeneratedUserAsks, Running, providerVars
<1>2. Paths /\ net \in Channel /\ net = [k \in Channels |-> net[k]] /\ r \in Request /\ c \in Channels
  BY <1>1, UpstreamIs DEF PathInv, NetTypes, Channel
<1>3. stage[r] = "new" /\ net[c] = <<>>
  BY <1>1, <1>2, NothingUpstream DEF Paths, IdleNew, Upstream
<1>4. m.op = "VM_Req"
  BY DEF VmMessage
<1>5. \A i \in DOMAIN net'[c] : net'[c][i].op # "VM_Sub"
  <2>1. net'[c] = Append(net[c], m)
    BY <1>1, <1>2 DEF Sent
  <2>. HIDE DEF c, m
  <2>2. net'[c] = <<m>>
    BY <1>3, <2>1
  <2>. QED  BY <1>4, <2>2
<1>6. Follows(r)'
  BY <1>1, <1>3, <1>5 DEF Follows, Upstream, PathInv, UserTypes
<1>7. ASSUME NEW q \in Generated, q # r
      PROVE  user'[q] = user[q] /\ Upstream(q)' = Upstream(q)
  <2>. DEFINE k == <<q, CloudProviderTopic>>
  <2>1. k \in Channels /\ k # c /\ q \in Request
    BY <1>7, UpstreamIs
  <2>. HIDE DEF k, m
  <2>2. net'[k] = net[k]
    BY <1>1, <1>2, <2>1, OtherChannels
  <2>. QED  BY <1>1, <1>7, <2>1, <2>2 DEF Upstream, k, PathInv, UserTypes
<1>. QED  BY <1>1, <1>6, <1>7, OthersFollow

\* What a user and its book go through together.
GoesTo(r, x) ==
  /\ user' = [user EXCEPT ![r] = x] /\ instance' = [instance EXCEPT ![r] = instance'[r]]
  /\ nUserInstancesFinished' = nUserInstancesFinished + IF instance'[r].bFinished THEN 1 ELSE 0
  /\ stopped' = IF instance'[r].bFinished /\ nUserInstancesFinished' >= Len(userInstances)
                  THEN "end" ELSE "no"
  /\ UNCHANGED <<par, userInstances, arrival2Cloud, generatorTimer, nUserIndex>>

LEMMA AnswerRead ==
  ASSUME NEW r \in Generated, instance = [q \in Generated |-> instance[q]],
         NEW op, NEW accepted, Generator!processResponseMessage(r, op, accepted), NEW x,
         user' = [user EXCEPT ![r] = x]
  PROVE  /\ GoesTo(r, x)
         /\ instance'[r] = IF op = "VM_Req"
                             THEN Generator!handleResponseVmRequest(instance[r], accepted)
                             ELSE Generator!handleResponseSubscription(instance[r], accepted)
<1>. DEFINE u == IF op = "VM_Req" THEN Generator!handleResponseVmRequest(instance[r], accepted)
                                  ELSE Generator!handleResponseSubscription(instance[r], accepted)
<1>1. /\ instance' = [instance EXCEPT ![r] = u]
      /\ nUserInstancesFinished' = nUserInstancesFinished + IF u.bFinished THEN 1 ELSE 0
      /\ stopped' = IF u.bFinished /\ nUserInstancesFinished' >= Len(userInstances) THEN "end" ELSE "no"
      /\ UNCHANGED <<par, userInstances, arrival2Cloud, generatorTimer, nUserIndex>>
  BY DEF Generator!processResponseMessage
<1>. HIDE DEF u
<1>2. instance'[r] = u
  BY <1>1
<1>. QED  BY <1>1, <1>2 DEF GoesTo, u

LEMMA UserAnswered ==
  ASSUME PathInv, CentreTypes, Books, InStep, NEW r \in Generated, NEW from \in Sender,
         processResponseMessage(r, from)
  PROVE  /\ Running /\ UNCHANGED stage
         /\ \/ UNCHANGED <<user, net, generatorVars>> /\ stopped' = "EINVAL"
            \/ /\ user[r] \in {"asking", "subscribing"}
               /\ \E x \in {"up", "subscribing", "refused"} : GoesTo(r, x) /\ IsBook(instance'[r], r, x)
<1>1. Running /\ UNCHANGED stage
  BY DEF processResponseMessage, Running, providerVars
<1>2. /\ Paths /\ Follows(r) /\ r \in Request /\ IsBook(instance[r], r, user[r])
      /\ instance = [q \in Generated |-> instance[q]]
  BY <1>1, UpstreamIs DEF PathInv, InStep, Books
<1>. DEFINE m == Head(net[<<from, r>>])
<1>3. ASSUME net[<<from, r>>] # <<>>
      PROVE  \/ m.op = "VM_Req" /\ user[r] = "asking"
             \/ m.op = "VM_Sub" /\ user[r] = "subscribing"
  BY <1>2, <1>3, AnswerFits
<1>4. CASE GeneratedUserAccepted(r, from)
  <2>1. /\ net[<<from, r>>] # <<>> /\ Generator!processResponseMessage(r, m.op, TRUE)
        /\ user' = [user EXCEPT ![r] = "up"]
    BY <1>4 DEF GeneratedUserAccepted, Arrived, First
  <2>2. /\ GoesTo(r, "up")
        /\ instance'[r] = IF m.op = "VM_Req" THEN Generator!handleResponseVmRequest(instance[r], TRUE)
                                             ELSE Generator!handleResponseSubscription(instance[r], TRUE)
    BY <1>2, <2>1, AnswerRead
  <2>3. (m.op = "VM_Req" /\ user[r] = "asking") \/ (m.op = "VM_Sub" /\ user[r] = "subscribing")
    BY <1>3, <2>1
  <2>. HIDE DEF m
  <2>4. IsBook(instance'[r], r, "up")
    BY <1>2, <2>2, <2>3, BookSteps
  <2>. QED  BY <1>1, <2>2, <2>3, <2>4
<1>5. CASE GeneratedUserRefused(r, from)
  <2>. DEFINE x == IF m.op = "VM_Req" THEN "subscribing" ELSE "refused"
  <2>1. /\ net[<<from, r>>] # <<>> /\ Generator!processResponseMessage(r, m.op, FALSE)
        /\ user' = [user EXCEPT ![r] = x]
    BY <1>5 DEF GeneratedUserRefused, SubscribesAfter, Arrived, First
  <2>2. /\ GoesTo(r, x)
        /\ instance'[r] = IF m.op = "VM_Req" THEN Generator!handleResponseVmRequest(instance[r], FALSE)
                                             ELSE Generator!handleResponseSubscription(instance[r], FALSE)
    <3>. HIDE DEF x
    <3>. QED  BY <1>2, <2>1, AnswerRead
  <2>3. (m.op = "VM_Req" /\ user[r] = "asking") \/ (m.op = "VM_Sub" /\ user[r] = "subscribing")
    BY <1>3, <2>1
  <2>. HIDE DEF m
  <2>4. IsBook(instance'[r], r, x)
    BY <1>2, <2>2, <2>3, BookSteps
  <2>. QED  BY <1>1, <2>2, <2>3, <2>4
<1>6. CASE TooManyApps(r, from)
  BY <1>1, <1>6 DEF TooManyApps
<1>. QED  BY <1>4, <1>5, <1>6 DEF processResponseMessage

LEMMA UserAnsweredInStep ==
  ASSUME PathInv, CentreTypes, InStep, NEW r \in Generated, NEW from \in Sender,
         processResponseMessage(r, from)
  PROVE  InStep'
<1>. DEFINE c == <<from, r>>
            k == <<r, CloudProviderTopic>>
            m == Head(net[c])
            n == [net EXCEPT ![c] = Tail(@)]
<1>1. /\ Running /\ UNCHANGED stage
      /\ \/ user' = user /\ net' = net
         \/ /\ net[c] # <<>> /\ m.result = "accepted" /\ user' = [user EXCEPT ![r] = "up"]
            /\ net' = n \/ \E a : net' = Sent(n, r, from, a)
         \/ /\ net[c] # <<>> /\ m.op = "VM_Req" /\ user' = [user EXCEPT ![r] = "subscribing"]
            /\ \E a : net' = Sent(n, r, CloudProviderTopic, a)
         \/ /\ user' = [user EXCEPT ![r] = "refused"] /\ net' = n
  BY DEF processResponseMessage, GeneratedUserAccepted, TooManyApps, GeneratedUserRefused,
     DeployedByModel, SubscribesAfter, Arrived, First, Received, Running, providerVars
<1>2. /\ Paths /\ Follows(r) /\ r \in Request /\ r \notin Sender /\ k \in Channels
      /\ net = [e \in Channels |-> net[e]]
  BY <1>1, UpstreamIs DEF PathInv, InStep, NetTypes, Channel
<1>3. net[c] # <<>> /\ m.result = "accepted" => from \in Topic
  BY <1>2, ReadPaths
<1>4. net[c] # <<>> /\ m.op = "VM_Req" => stage[r] = "requested"
  BY <1>2, AnswerFits
<1>5. \A e \in Channels : e # c => n[e] = net[e]
  BY <1>2, OtherChannels
<1>6. n = [e \in Channels |-> n[e]]
  BY <1>2
<1>. HIDE DEF m, n
<1>7. ASSUME NEW q \in Generated, q # r
      PROVE  user'[q] = user[q] /\ Upstream(q)' = Upstream(q)
  <2>. DEFINE e == <<q, CloudProviderTopic>>
  <2>1. e \in Channels /\ e # k /\ e # c /\ e # <<r, from>> /\ q \in Request
    BY <1>7, UpstreamIs
  <2>2. \A to, a : to = from \/ to = CloudProviderTopic => Sent(n, r, to, a)[e] = n[e]
    BY <1>6, <2>1, OtherChannels
  <2>. HIDE DEF e, c
  <2>3. net'[e] = net[e]
    BY <1>1, <1>5, <2>1, <2>2
  <2>4. user'[q] = user[q]
    BY <1>1, <1>7, <2>1 DEF PathInv, UserTypes
  <2>. QED  BY <2>3, <2>4 DEF Upstream, e
<1>8. Follows(r)'
  <2>1. CASE user' = user /\ net' = net
    BY <1>1, <1>2, <2>1, FollowsKept DEF Upstream
  <2>2. CASE user'[r] \in {"up", "refused"}
    BY <2>2 DEF Follows
  <2>3. CASE /\ stage[r] = "requested" /\ user'[r] = "subscribing"
             /\ \E a : net' = Sent(n, r, CloudProviderTopic, a)
    <3>1. PICK a : net' = Sent(n, r, CloudProviderTopic, a)
      BY <2>3
    <3>2. net'[k] = Append(n[k], a)
      BY <1>2, <1>6, <3>1 DEF Sent
    <3>3. k # c
      BY <1>2
    <3>. HIDE DEF k, c
    <3>4. n[k] = net[k] /\ net[k] \in Seq(Wire)
      BY <1>2, <1>5, <3>3 DEF PathInv, NetTypes, Channel
    <3>5. net'[k] # <<>>
      BY <3>2, <3>4
    <3>. QED  BY <1>1, <2>3, <3>5 DEF Follows, Upstream, k
  <2>4. \A x : user' = [user EXCEPT ![r] = x] => user'[r] = x
    BY <1>2 DEF PathInv, UserTypes
  <2>. QED  BY <1>1, <1>4, <2>1, <2>2, <2>3, <2>4
<1>. QED  BY <1>1, <1>7, <1>8, OthersFollow

-----------------------------------------------------------------------------
(* The inductive step *)

LEMMA InStepKept ==
  ASSUME Elsewhere, StaysInStep, InStep
  PROVE  InStep'
<1>1. ASSUME NEW r \in Generated PROVE Follows(r)'
  BY <1>1, FollowsKept DEF Elsewhere, StaysInStep, InStep
<1>. QED  BY <1>1 DEF InStep

\* The books say what they said when no user of the generator moves.
LEMMA BooksRest ==
  ASSUME InTurn, Books, Counted, Running, UNCHANGED generatorVars,
         \A r \in Generated : user'[r] = user[r],
         stopped' # "end" /\ stopped' # "not sorted"
  PROVE  InTurn' /\ Books' /\ Counted'
<1>0. /\ UNCHANGED <<par, userInstances, arrival2Cloud, generatorTimer, nUserIndex,
                     nUserInstancesFinished, instance>>
      /\ stopped # "end"
  BY DEF generatorVars, Running
<1>1. {r \in Generated : user'[r] # "idle"} = {r \in Generated : user[r] # "idle"}
  OBVIOUS
<1>2. Generator!isSorted(userInstances)' <=> Generator!isSorted(userInstances)
  BY <1>0 DEF Generator!isSorted
<1>3. InTurn'
  BY <1>0, <1>1, <1>2 DEF InTurn
<1>4. Books'
  BY <1>0 DEF Books
<1>5. Served' = Served
  <2>1. par.users \subseteq Generated
    BY UsersAre DEF InTurn
  <2>. QED  BY <1>0, <2>1 DEF Served
<1>6. Counted'
  BY <1>0, <1>5 DEF Counted
<1>. QED  BY <1>3, <1>4, <1>6

LEMMA GeneratorStartsUsers ==
  ASSUME PathInv, UsersInv, GeneratorStarts
  PROVE  UsersInv'
<1>1. /\ Running /\ generatorTimer = "WaitToExecute" /\ generatorTimer' # "WaitToExecute"
      /\ userInstances' \in Generator!SetToSeqs(par.users)
      /\ Generator!isSorted(userInstances')
      /\ stopped' = "no" \/ (/\ stopped' = "not sorted" /\ Len(userInstances') # 0
                             /\ arrival2Cloud[userInstances'[1]] < par.startDelay)
      /\ UNCHANGED <<par, arrival2Cloud, nUserIndex, nUserInstancesFinished, instance,
                     providerVars, user, net>>
  <2>1. 0 + 1 = 1
    OBVIOUS
  <2>2. /\ Running /\ generatorTimer = "WaitToExecute"
        /\ Generator!scheduleNextReqGenMessage(userInstances', 0, par.startDelay)
        /\ userInstances' \in {users \in Generator!SetToSeqs(par.users) : Generator!isSorted(users)}
        /\ UNCHANGED <<par, arrival2Cloud, nUserIndex, nUserInstancesFinished, instance,
                       providerVars, user, net>>
    BY DEF GeneratorStarts, Generator!handleWaitToExecuteMessage, Generator!m_dInitSim, Running, userVars
  <2>3. userInstances' \in Generator!SetToSeqs(par.users) /\ Generator!isSorted(userInstances')
    BY <2>2
  <2>4. \/ 0 = Len(userInstances') /\ generatorTimer' = "none" /\ UNCHANGED stopped
        \/ /\ 0 # Len(userInstances') /\ generatorTimer' = "USER_REQ_GEN"
           /\ stopped' = IF arrival2Cloud[userInstances'[0 + 1]] < par.startDelay
                           THEN "not sorted" ELSE "no"
    BY <2>2 DEF Generator!scheduleNextReqGenMessage
  <2>. QED  BY <2>1, <2>2, <2>3, <2>4 DEF Running
<1>2. /\ InTurn /\ Books /\ Counted /\ InStep /\ par \in Setups /\ nUserIndex = 0
  BY <1>1 DEF UsersInv, InTurn
<1>3. /\ userInstances' \in SetToSeqs(par.users) /\ Len(userInstances') \in Nat
      /\ userInstances' \in [1..Len(userInstances') -> par.users]
  BY <1>1, <1>2, OrderIs
<1>4. Generator!isSorted(userInstances)'
  BY <1>1 DEF Generator!isSorted
<1>5. 0 \in 0..Len(userInstances')
  BY <1>3
<1>6. {userInstances'[i] : i \in 1..0} = {userInstances[i] : i \in 1..0}
  OBVIOUS
<1>7. InTurn'
  BY <1>1, <1>2, <1>3, <1>4, <1>5, <1>6 DEF InTurn
<1>8. Books'
  BY <1>1, <1>2 DEF Books
<1>9. Counted'
  <2>1. Served' = Served
    BY <1>1 DEF Served
  <2>2. Len(userInstances') # 0 => userInstances'[1] \in par.users
    BY <1>3
  <2>3. stopped # "end"
    BY <1>1 DEF Running
  <2>. QED  BY <1>1, <1>2, <2>1, <2>2, <2>3 DEF Counted
<1>10. InStep'
  BY <1>1, <1>2, FollowsKept DEF InStep, Upstream, providerVars
<1>. QED  BY <1>7, <1>8, <1>9, <1>10 DEF UsersInv

LEMMA GeneratedUserAsksUsers ==
  ASSUME PathInv, CentreTypes, UsersInv, NEW r \in Generated, GeneratedUserAsks(r)
  PROVE  UsersInv'
<1>. DEFINE k == nUserIndex
            l == Len(userInstances)
<1>1. /\ Running /\ generatorTimer = "USER_REQ_GEN"
      /\ r = userInstances[k + 1] /\ nUserIndex' = k + 1
      /\ \/ generatorTimer' = "none" /\ UNCHANGED stopped
         \/ /\ k + 1 # l /\ generatorTimer' = "USER_REQ_GEN"
            /\ stopped' = IF arrival2Cloud[userInstances[(k + 1) + 1]] < arrival2Cloud[r]
                            THEN "not sorted" ELSE "no"
      /\ user' = [user EXCEPT ![r] = "asking"]
      /\ UNCHANGED <<par, userInstances, arrival2Cloud, nUserInstancesFinished, instance, halted>>
  BY DEF GeneratedUserAsks, Generator!handleUserReqGenMessage, Generator!scheduleNextReqGenMessage,
     Running, providerVars
<1>2. /\ InTurn /\ Books /\ Counted /\ InStep /\ Paths /\ par \in Setups
      /\ PathInv' /\ user[r] = "idle" /\ r \in Request
  BY <1>1, UpstreamIs, PathGeneratedUserAsks DEF UsersInv, InTurn, PathInv
<1>3. /\ userInstances \in SetToSeqs(par.users) /\ k \in 0..l /\ k < l
      /\ l \in Nat /\ userInstances \in [1..l -> par.users]
      /\ arrival2Cloud \in [par.users -> Int] /\ Generator!isSorted(userInstances)
  BY <1>1, <1>2, OrderIs DEF Paths, Turns, InTurn
<1>4. stopped' = "no"
  <2>. DEFINE j == k + 1
              here == arrival2Cloud[userInstances[j]]
              next == arrival2Cloud[userInstances[j + 1]]
  <2>1. ASSUME j # l PROVE ~(next < here)
    <3>. HIDE DEF k, l
    <3>1. j \in 1..(l - 1) /\ j \in 1..l /\ j + 1 \in 1..l
      BY <1>3, <2>1
    <3>. HIDE DEF j
    <3>2. here <= next
      BY <1>3, <3>1 DEF Generator!isSorted, l
    <3>3. here \in Int /\ next \in Int
      BY <1>3, <3>1
    <3>. HIDE DEF here, next
    <3>. QED  BY <3>2, <3>3
  <2>. QED  BY <1>1, <2>1 DEF Running
<1>5. Running'
  BY <1>1, <1>4 DEF Running
<1>6. InTurn'
  <2>1. Turns' /\ generatorTimer' # "WaitToExecute"
    BY <1>1, <1>2, <1>5 DEF PathInv, Paths
  <2>2. Generator!isSorted(userInstances)' <=> Generator!isSorted(userInstances)
    BY <1>1 DEF Generator!isSorted
  <2>. HIDE DEF k, l
  <2>. QED  BY <1>1, <1>2, <1>3, <2>1, <2>2 DEF InTurn, Turns
<1>7. user'[r] = "asking" /\ \A q \in Generated : q # r => user'[q] = user[q]
  BY <1>1, <1>2, UpstreamIs DEF PathInv, UserTypes
<1>8. Books'
  <2>1. \A b : BookOf(r, "idle", b) = BookOf(r, "asking", b)
    BY DEF BookOf
  <2>2. ASSUME NEW q \in Generated PROVE IsBook(instance[q], q, user'[q])
    BY <1>2, <1>7, <2>1 DEF Books, IsBook
  <2>. QED  BY <1>1, <1>2, <2>2 DEF Books
<1>9. Counted'
  <2>1. \A q \in Generated : user'[q] \in Settled <=> user[q] \in Settled
    BY <1>2, <1>7 DEF Settled
  <2>2. Served' = Served
    BY <1>1, <1>2, <2>1, UsersAre DEF Served
  <2>3. stopped # "end"
    BY <1>1 DEF Running
  <2>. QED  BY <1>1, <1>2, <1>4, <2>2, <2>3 DEF Counted
<1>10. InStep'
  BY <1>2, GeneratedUserAsksInStep
<1>. QED  BY <1>6, <1>8, <1>9, <1>10 DEF UsersInv

\* The answer that finishes a user is the last one it gets.
LEMMA AnsweredUsers ==
  ASSUME PathInv, CentreTypes, UsersInv, NEW r \in Generated, NEW from \in Sender,
         processResponseMessage(r, from)
  PROVE  UsersInv'
<1>1. /\ InTurn /\ Books /\ Counted /\ InStep
  BY DEF UsersInv
<1>2. /\ Running
      /\ \/ UNCHANGED <<user, net, generatorVars>> /\ stopped' = "EINVAL"
         \/ /\ user[r] \in {"asking", "subscribing"}
            /\ \E x \in {"up", "subscribing", "refused"} : GoesTo(r, x) /\ IsBook(instance'[r], r, x)
  BY <1>1, UserAnswered
<1>3. InStep'
  BY <1>1, UserAnsweredInStep
<1>4. CASE UNCHANGED <<user, net, generatorVars>> /\ stopped' = "EINVAL"
  <2>1. InTurn' /\ Books' /\ Counted'
    BY <1>1, <1>2, <1>4, BooksRest
  <2>. QED  BY <1>3, <2>1 DEF UsersInv
<1>5. ASSUME user[r] \in {"asking", "subscribing"}, NEW x \in {"up", "subscribing", "refused"},
             GoesTo(r, x), IsBook(instance'[r], r, x)
      PROVE  UsersInv'
  <2>1. /\ r \in Request /\ user'[r] = x /\ x # "idle" /\ user[r] # "idle" /\ user[r] \notin Settled
        /\ \A q \in Generated : q # r => user'[q] = user[q]
        /\ UNCHANGED <<par, userInstances, arrival2Cloud, generatorTimer, nUserIndex>>
    BY <1>5, UpstreamIs DEF GoesTo, PathInv, UserTypes, Settled
  <2>2. InTurn'
    <3>1. {q \in Generated : user'[q] # "idle"} = {q \in Generated : user[q] # "idle"}
      BY <2>1
    <3>2. Generator!isSorted(userInstances)' <=> Generator!isSorted(userInstances)
      BY <2>1 DEF Generator!isSorted
    <3>. QED  BY <1>1, <2>1, <3>1, <3>2 DEF InTurn
  <2>3. Books'
    <3>1. instance' = [instance EXCEPT ![r] = instance'[r]] /\ instance = [q \in Generated |-> instance[q]]
      BY <1>1, <1>5 DEF GoesTo, Books
    <3>2. instance' = [q \in Generated |-> instance'[q]] /\ \A q \in Generated : q # r => instance'[q] = instance[q]
      BY <3>1
    <3>3. ASSUME NEW q \in Generated PROVE IsBook(instance'[q], q, user'[q])
      <4>1. CASE q = r
        BY <1>5, <2>1, <4>1
      <4>2. CASE q # r
        BY <1>1, <2>1, <3>2, <4>2 DEF Books
      <4>. QED  BY <4>1, <4>2
    <3>. QED  BY <3>2, <3>3 DEF Books
  <2>4. /\ par \in Setups /\ par.users \subseteq Generated /\ IsFiniteSet(par.users)
    BY <1>1, UsersAre DEF InTurn
  \* It is one of those the generator started.
  <2>5. /\ userInstances \in SetToSeqs(par.users) /\ nUserIndex \in 0..Len(userInstances)
        /\ r \in {userInstances[i] : i \in 1..nUserIndex}
    <3>1. r \in {userInstances[i] : i \in 1..nUserIndex}
      BY <1>1, <2>1 DEF InTurn
    <3>2. nUserIndex # 0
      BY <3>1
    <3>. QED  BY <1>1, <3>1, <3>2 DEF InTurn
  <2>6. Len(userInstances) = Cardinality(par.users) /\ r \in par.users
    <3>1. /\ userInstances \in [1..Len(userInstances) -> par.users] /\ Len(userInstances) \in Nat
          /\ Len(userInstances) = Cardinality(par.users)
      BY <2>4, <2>5, OrderIs
    <3>2. PICK i \in 1..nUserIndex : r = userInstances[i]
      BY <2>5
    <3>3. i \in 1..Len(userInstances)
      BY <2>5, <3>1
    <3>. QED  BY <3>1, <3>2, <3>3
  <2>7. Served' = IF x \in Settled THEN Served \cup {r} ELSE Served
    BY <2>1, <2>4, <2>6 DEF Served
  <2>8. /\ IsFiniteSet(Served) /\ Served \subseteq par.users /\ r \notin Served
        /\ IsFiniteSet(Served') /\ Served' \subseteq par.users
    <3>1. Served \subseteq par.users /\ r \notin Served /\ Served' \subseteq par.users
      BY <2>1, <2>6, <2>7 DEF Served
    <3>. QED  BY <2>4, <3>1, FS_Subset
  <2>9. instance'[r].bFinished <=> x \in Settled
    BY <1>5, <2>1, BookSays
  <2>10. nUserInstancesFinished' = Cardinality(Served')
    <3>1. Cardinality(Served) \in Nat /\ Cardinality(Served \cup {r}) = Cardinality(Served) + 1
      BY <2>8, FS_AddElement, FS_CardinalityType
    <3>2. nUserInstancesFinished = Cardinality(Served)
      BY <1>1 DEF Counted
    <3>3. nUserInstancesFinished' = nUserInstancesFinished + IF x \in Settled THEN 1 ELSE 0
      BY <1>5, <2>9 DEF GoesTo
    <3>. QED  BY <2>7, <3>1, <3>2, <3>3
  <2>11. stopped' = IF x \in Settled /\ nUserInstancesFinished' >= Len(userInstances) THEN "end" ELSE "no"
    BY <1>5, <2>9 DEF GoesTo
  <2>12. Cardinality(Served') >= Cardinality(par.users) <=> Served' = par.users
    <3>. DEFINE A == Served'
                B == par.users
    <3>1. IsFiniteSet(A) /\ A \subseteq B /\ IsFiniteSet(B)
      BY <2>4, <2>8
    <3>. HIDE DEF A, B
    <3>2. Cardinality(A) \in Nat /\ Cardinality(B) \in Nat /\ Cardinality(A) <= Cardinality(B)
          /\ (Cardinality(A) = Cardinality(B) => A = B)
      BY <3>1, FS_Subset, FS_CardinalityType
    <3>3. Cardinality(A) >= Cardinality(B) <=> A = B
      BY <3>2
    <3>. QED  BY <3>3 DEF A, B
  <2>13. stopped' = "end" <=> (par.users # {} /\ Served' = par.users)
    <3>1. x \notin Settled => r \notin Served'
      BY <2>7, <2>8
    <3>2. x \notin Settled => Served' # par.users
      BY <2>6, <3>1
    <3>. QED  BY <2>6, <2>10, <2>11, <2>12, <3>2
  <2>14. Counted'
    BY <2>1, <2>10, <2>11, <2>13 DEF Counted
  <2>. QED  BY <1>3, <2>2, <2>3, <2>14 DEF UsersInv
<1>. QED  BY <1>2, <1>4, <1>5

LEMMA UsersNext == PathInv /\ CentreTypes /\ UsersInv /\ [Next]_vars => UsersInv'
<1>. SUFFICES ASSUME PathInv, CentreTypes, UsersInv, [Next]_vars PROVE UsersInv'
  OBVIOUS
<1>0. InTurn /\ Books /\ Counted /\ InStep
  BY DEF UsersInv
<1>1. ASSUME Elsewhere, InStep' PROVE UsersInv'
  BY <1>0, <1>1, BooksRest DEF Elsewhere, UsersInv
<1>2. ASSUME Elsewhere, StaysInStep PROVE UsersInv'
  BY <1>0, <1>1, <1>2, InStepKept
<1>3. ASSUME \/ \E from \in Topic \cup Request : ProviderReceives(from)
             \/ \E r \in Request : ProviderTimesOut(r)
      PROVE  UsersInv'
  BY <1>0, <1>1, <1>3, ProviderInStep
<1>4. ASSUME NEW d \in Topic,
             \/ CentreReceivesRequest(d) \/ handleManageMachines(d)
             \/ \E n \in Node(d) : BladeReceives(d, n)
             \/ \E r \in Request : handleApplicationRequest(d, r)
      PROVE  UsersInv'
  BY <1>2, <1>4, CentreSteps
<1>5. ASSUME NEW r \in EdgeUser,
             startup(r) \/ ControllerReceives(r) \/ \E from \in Sender : handleVmUpdate(r, from)
      PROVE  UsersInv'
  BY <1>2, <1>5, EdgeUserSteps
<1>6. ASSUME GeneratorStarts PROVE UsersInv'
  BY <1>6, GeneratorStartsUsers
<1>7. ASSUME NEW r \in Generated,
             GeneratedUserAsks(r) \/ \E from \in Sender : processResponseMessage(r, from)
      PROVE  UsersInv'
  BY <1>7, GeneratedUserAsksUsers, AnsweredUsers
<1>8. CASE UNCHANGED vars
  <2>1. UNCHANGED <<user, stage, halted, net, stopped, par, userInstances, arrival2Cloud,
                    generatorTimer, nUserIndex, nUserInstancesFinished, instance>>
    BY <1>8 DEF vars, userVars, providerVars, generatorVars
  <2>2. Generator!isSorted(userInstances)' <=> Generator!isSorted(userInstances)
    BY <2>1 DEF Generator!isSorted
  <2>3. InTurn'
    BY <1>0, <2>1, <2>2 DEF InTurn
  <2>4. Books'
    BY <1>0, <2>1 DEF Books
  <2>5. Counted'
    BY <1>0, <2>1 DEF Counted, Served
  <2>6. InStep'
    BY <1>0, <2>1 DEF InStep, Follows, Upstream, Running
  <2>. QED  BY <2>3, <2>4, <2>5, <2>6 DEF UsersInv
<1>. QED  BY <1>3, <1>4, <1>5, <1>6, <1>7, <1>8 DEF Next

-----------------------------------------------------------------------------
(* What it says *)

\* Those asked for arrived no later than those still to be asked for.
LEMMA ByArrival ==
  ASSUME InTurn, NEW i \in 1..nUserIndex,
         NEW q \in par.users, \A j \in 1..nUserIndex : userInstances[j] # q
  PROVE  arrival2Cloud[userInstances[i]] <= arrival2Cloud[q]
<1>. DEFINE k == nUserIndex
            l == Len(userInstances)
            S == par.users
<1>1. k # 0 /\ par \in Setups /\ arrival2Cloud \in [S -> Int]
  BY DEF InTurn
<1>2. /\ userInstances \in SetToSeqs(S) /\ k \in 0..l /\ Generator!isSorted(userInstances)
  BY <1>1 DEF InTurn
<1>3. /\ l = Cardinality(S) /\ l \in Nat /\ IsFiniteSet(S) /\ userInstances \in [1..l -> S]
      /\ \A g, h \in 1..l : userInstances[g] = userInstances[h] => g = h
  BY <1>1, <1>2, OrderIs
<1>4. PICK j \in 1..l : userInstances[j] = q
  <2>. HIDE DEF l, S
  <2>1. Lists(userInstances, l, S)
    BY <1>3, InjectionLists
  <2>. QED  BY <2>1 DEF Lists, S
<1>5. \A g \in 1..(l - 1) : arrival2Cloud[userInstances[g]] <= arrival2Cloud[userInstances[g + 1]]
  BY <1>2 DEF Generator!isSorted
<1>6. i \in 1..l /\ j \in i..l
  <2>. HIDE DEF k, l
  <2>1. i \in 1..k /\ ~(j \in 1..k)
    BY <1>4 DEF k
  <2>. QED  BY <1>2, <1>3, <2>1
<1>. HIDE DEF l, S
<1>7. arrival2Cloud[userInstances[i]] <= arrival2Cloud[userInstances[j]]
  BY <1>1, <1>3, <1>5, <1>6, SortedOrder
<1>. QED  BY <1>4, <1>7

\* A user that was refused for good had waited.
LEMMA Statistics ==
  ASSUME InTurn, Books
  PROVE  /\ Generator!finish.nTotalTimeouts = Cardinality({r \in Generated : user[r] = "refused"})
         /\ Generator!finish.nTotalTimeouts <= Generator!finish.dWaitUsers
<1>. DEFINE S == par.users
            late == {r \in S : instance[r].bTimeout_t4}
            waited == {r \in S : instance[r].bSubscribe}
<1>1. par \in Setups /\ S \subseteq Generated /\ IsFiniteSet(S) /\ Generated \subseteq Request
  BY UsersAre DEF InTurn
<1>2. \A r \in Generated :
        /\ instance[r].bTimeout_t4 <=> user[r] = "refused"
        /\ user[r] = "refused" => instance[r].bSubscribe
  BY <1>1, BookSays DEF Books
<1>3. ASSUME NEW r \in Generated, user[r] # "idle" PROVE r \in S
  <2>1. PICK i \in 1..nUserIndex : r = userInstances[i]
    BY <1>3 DEF InTurn
  <2>2. nUserIndex # 0
    BY <2>1
  <2>3. userInstances \in SetToSeqs(S) /\ nUserIndex \in 0..Len(userInstances)
    BY <2>2 DEF InTurn
  <2>4. userInstances \in [1..Len(userInstances) -> S] /\ Len(userInstances) \in Nat
    BY <1>1, <2>3, OrderIs
  <2>5. i \in 1..Len(userInstances)
    BY <2>3, <2>4
  <2>. QED  BY <2>1, <2>4, <2>5
<1>4. late = {r \in Generated : user[r] = "refused"}
  BY <1>1, <1>2, <1>3
<1>5. late \subseteq waited /\ waited \subseteq S
  BY <1>1, <1>2
<1>6. /\ Generator!finish.nTotalTimeouts = Cardinality(late)
      /\ Generator!finish.dWaitUsers = Cardinality(waited)
  BY DEF Generator!finish, Cardinality, Generator!Cardinality
<1>. HIDE DEF S, late, waited
<1>7. Cardinality(late) <= Cardinality(waited)
  <2>1. IsFiniteSet(waited)
    BY <1>1, <1>5, FS_Subset
  <2>. QED  BY <1>5, <2>1, FS_Subset
<1>. QED  BY <1>4, <1>6, <1>7

LEMMA UsersSay == UsersInv => UsersAccountedFor
<1>. SUFFICES ASSUME UsersInv PROVE UsersAccountedFor
  OBVIOUS
<1>. DEFINE asked == {userInstances[i] : i \in 1..nUserIndex}
            finished == {r \in par.users : user[r] \in {"up", "refused"}}
<1>1. /\ InTurn /\ Books /\ Counted /\ finished = Served
      /\ par.users \subseteq Generated /\ Generated \subseteq Request
  BY UsersAre DEF UsersInv, InTurn, Served, Settled
<1>2. asked = {r \in Generated : user[r] # "idle"}
  BY <1>1 DEF InTurn
<1>3. \A p \in asked, q \in par.users \ asked : arrival2Cloud[p] <= arrival2Cloud[q]
  BY <1>1, ByArrival
\* What has finished was asked for, so it is one of the users.
<1>4. \A r \in Generated : user[r] \in Settled => r \in par.users
  <2>. SUFFICES ASSUME NEW r \in Generated, user[r] \in Settled PROVE r \in par.users
    OBVIOUS
  <2>1. PICK i \in 1..nUserIndex : r = userInstances[i]
    BY <1>2 DEF Settled
  <2>2. nUserIndex # 0
    BY <2>1
  <2>3. /\ userInstances \in SetToSeqs(par.users) /\ nUserIndex \in 0..Len(userInstances)
        /\ par \in Setups
    BY <1>1, <2>2 DEF InTurn
  <2>4. userInstances \in [1..Len(userInstances) -> par.users] /\ Len(userInstances) \in Nat
    BY <2>3, OrderIs
  <2>5. i \in 1..Len(userInstances)
    BY <2>3, <2>4
  <2>. QED  BY <2>1, <2>4, <2>5
<1>5. ASSUME NEW r \in Generated
      PROVE  LET u == instance[r]
             IN /\ u.numFinishedVMs = Cardinality(Generator!Finished(u))
                /\ u.bFinished = (r \in finished) /\ u.bFinished = Generator!allVmsFinished(u)
                /\ u.numActiveSubscriptions = IF user[r] = "subscribing" THEN 1 ELSE 0
                /\ u.bTimeout_t4 = (user[r] = "refused")
                /\ user[r] \in {"subscribing", "refused"} => u.bSubscribe
  <2>. DEFINE u == instance[r]
  <2>1. IsBook(u, r, user[r]) /\ r \in Request
    BY <1>1 DEF Books
  <2>2. user[r] \in Settled <=> r \in finished
    BY <1>1, <1>4 DEF Served
  <2>. HIDE DEF u, finished
  <2>3. /\ u.numFinishedVMs = Cardinality(Generator!Finished(u))
        /\ u.numActiveSubscriptions = IF user[r] = "subscribing" THEN 1 ELSE 0
        /\ user[r] \in {"subscribing", "refused"} => u.bSubscribe
    BY <2>1, BookSays
  <2>4. /\ u.bFinished \in BOOLEAN /\ u.bTimeout_t4 \in BOOLEAN
        /\ u.bFinished <=> r \in finished
        /\ u.bFinished <=> Generator!allVmsFinished(u)
        /\ u.bTimeout_t4 <=> user[r] = "refused"
    BY <2>1, <2>2, BookSays
  <2>5. u.bFinished = (r \in finished) /\ u.bTimeout_t4 = (user[r] = "refused")
    BY <2>4
  <2>6. u.bFinished = Generator!allVmsFinished(u)
    BY <2>4 DEF Generator!allVmsFinished
  <2>. QED  BY <2>3, <2>5, <2>6 DEF u
<1>6. /\ nUserInstancesFinished = Cardinality(finished)
      /\ stopped = "end" <=> par.users # {} /\ finished = par.users
      /\ stopped = "not sorted" =>
           nUserIndex = 0 /\ \E r \in par.users : arrival2Cloud[r] < par.startDelay
  BY <1>1 DEF Counted
<1>7. stopped = "end" =>
        /\ Generator!finish.nTotalTimeouts = Cardinality({r \in Generated : user[r] = "refused"})
        /\ Generator!finish.nTotalTimeouts <= Generator!finish.dWaitUsers
  BY <1>1, Statistics
<1>. HIDE DEF Generator!finish
<1>. QED  BY <1>2, <1>3, <1>5, <1>6, <1>7 DEF UsersAccountedFor

\* Whatever the users, the order in which they arrive and what they are
\* answered, each is asked for once and in its turn, its book tells how far it
\* got, and the simulation ends with the last of them and not before
\* (UserGeneratorBase, CloudUserInstance).
THEOREM UsersBooksAgree == Spec => []UsersAccountedFor
BY UsersInit, UsersNext, UsersSay, PathInvariant, PTL DEF Spec

=============================================================================
