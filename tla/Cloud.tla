-------------------------------- MODULE Cloud --------------------------------
(***************************************************************************)
(* The deployment path end to end: users (EdgeUser, and those of a         *)
(* UserGenerator), the cloud provider, the managers of the data centres    *)
(* with their resource managers, and the blades' hypervisors up to the     *)
(* point where a VM or the applications of a user start.                   *)
(*                                                                         *)
(* Users, provider and data centres talk through the message queue.  A TCP *)
(* connection keeps the order of what one sender pushes to one topic;      *)
(* nothing orders messages of different senders.  So "net" is one FIFO     *)
(* channel for each pair of endpoints.  Inside a data centre the switch    *)
(* gives one FIFO channel from the manager to each blade ("lan"), and a    *)
(* serial line one from an EdgeUser to the controller of its area.         *)
(*                                                                         *)
(* An EdgeUser asks for its VMs one by one, so each of its VMs is a user   *)
(* of its own here.  A generated user with applications asks for one VM.   *)
(*                                                                         *)
(* Not modelled: renting times (no code starts the rent timer of a data    *)
(* centre's VM, so VMs stay and none is extended), and what applications   *)
(* do: the report that those of an EdgeUser ended is ignored by it, and a  *)
(* generated user's never start, for its request names no blade.           *)
(***************************************************************************)
EXTENDS NodePool, SequencesExt

CONSTANTS Topic,              \* one data centre or fog node per topic
          Zone, NodeZone, DefaultZone, dispatchPriority,
          Request,            \* one SM_UserVM object per user
          RequestZone, Priority,
          Vms,                \* Request -> the VM types it asks for
          Generated,          \* users of a UserGenerator; others are EdgeUsers
          Setups, Time,       \* parameters of the generator and the managers
          Dependent,          \* EdgeUsers with a local application that depends on the remote
          Capacity            \* Topic -> the pool after every node was added

VARIABLES table, queue, timers, emitted, halted, stage,   \* the cloud provider
          zone,     \* the zone written on each SM_UserVM
          net,      \* <<from, to>> -> messages in flight
          pool,     \* data centre -> available resources of its nodes
          lan,      \* data centre -> node -> commands in flight to it
          vms,      \* data centre -> node -> requests whose VM the hypervisor runs
          apps,     \* requests whose applications run
          user,     \* what each user is doing
          site,     \* where an accepted user's VMs are
          serial,   \* EdgeUser -> commands on its way to the controller
          local,    \* EdgeUser -> its local application: off, running, or told its service
          par, userInstances, arrival2Cloud, generatorTimer, nUserIndex,
          nUserInstancesFinished, instance,                    \* the generator
          stopped   \* "no", or why the simulation ended outside the provider

providerVars == <<table, queue, timers, emitted, halted, stage>>
centreVars == <<pool, lan, vms, apps>>
userVars == <<user, site, serial, local>>
generatorVars == <<par, userInstances, arrival2Cloud, generatorTimer, nUserIndex,
                   nUserInstancesFinished, instance>>
vars == <<providerVars, zone, centreVars, userVars, generatorVars, net, stopped>>

Generator == INSTANCE UserGenerator

Node(d) == DOMAIN Capacity[d]
EdgeUser == Request \ Generated
Sender == Topic \cup {0}      \* of answers: data centres and the provider

ASSUME CloudConstants ==
  /\ IsFiniteSet(Request) /\ Request \cap Sender = {}
  /\ Topic \subseteq Nat \ {0} /\ Zone \subseteq Nat
  /\ RequestZone \in [Request -> Zone] /\ NodeZone \in [Topic -> Zone] /\ DefaultZone \in Zone
  /\ Priority \subseteq Request /\ dispatchPriority \in BOOLEAN
  /\ Vms \in [Request -> Seq(VmType)]
  /\ \A r \in Request : Vms[r] # <<>>
  /\ \A r \in EdgeUser : Len(Vms[r]) = 1
  /\ Generated \subseteq Request /\ Dependent \subseteq EdgeUser
  /\ \A setup \in Setups :
       /\ setup.edgeUsers \subseteq EdgeUser /\ setup.users \subseteq Generated
       /\ setup.apps \in [Generated -> Nat]
       /\ \A r \in Generated : setup.apps[r] > 0 => Len(Vms[r]) = 1
  /\ Time \subseteq Nat
  /\ Capacity \in [Topic -> Seq(Counters)]

SumOver(S, f(_)) == SumFunction([x \in S |-> f(x)])

calculateRequestedCores ==
  [r \in Request |-> SumOver(DOMAIN Vms[r], LAMBDA i : Needs[Vms[r][i]].cores)]

\* Despite its name it returns the cores of all nodes, in use or not.
getAvailableCores(d) == SumOver(Node(d), LAMBDA n : Capacity[d][n].cores)

Provider == INSTANCE CloudProvider
  WITH Cores <- calculateRequestedCores,
       Reports <- {getAvailableCores(d) : d \in Topic}

-----------------------------------------------------------------------------
(* Messages and channels *)

CloudProviderTopic == 0

VmMessage(op, r, result) == [op |-> op, req |-> r, result |-> result]

\* The answer of a data centre names the blade of each VM (response.ip).
\* Mutant: no blade is filled in.
AcceptanceWithoutAddress(op, r, nodes) ==
  [op |-> op, req |-> r, result |-> "accepted", nodes |-> <<>>]

Acceptance(op, r, nodes) ==
  [op |-> op, req |-> r, result |-> "accepted", nodes |-> nodes]

\* A blade of 0 is the empty hypervisorUrl.
AppMessage(r, n) == [op |-> "APP_Req", req |-> r, node |-> n]

NodeUpdate(d) == [op |-> "Node_Update", cores |-> getAvailableCores(d)]

NoSite == [centre |-> CloudProviderTopic, nodes |-> <<>>]

Channels ==
  (Topic \X Request) \cup (Request \X Topic)
    \cup UNION {{<<CloudProviderTopic, x>>, <<x, CloudProviderTopic>>} : x \in Topic \cup Request}

Arrived(from, to) == net[<<from, to>>] # <<>>
First(from, to)   == Head(net[<<from, to>>])
Received(from, to) == [net EXCEPT ![<<from, to>>] = Tail(@)]
Sent(channels, from, to, m) == [channels EXCEPT ![<<from, to>>] = Append(@, m)]

-----------------------------------------------------------------------------
(* The cloud provider *)

\* What the provider's last event put on the wire, in order.  A request it
\* forwards keeps the operation it came with.
OnTheWire(m, asked) ==
  VmMessage(IF asked[m.req] = "subscribed" THEN "VM_Sub" ELSE "VM_Req", m.req, m.result)

Emitted(channels, messages, asked) ==
  LET sent[k \in 0..Len(messages)] ==
        IF k = 0 THEN channels
        ELSE LET m == messages[k]
             IN  Sent(sent[k - 1], CloudProviderTopic,
                      IF m.to = Provider!UserTopic THEN m.req ELSE m.to, OnTheWire(m, asked))
  IN  sent[Len(messages)]

ProviderReceives(from) ==
  /\ stopped = "no" /\ Arrived(from, CloudProviderTopic)
  /\ LET m == First(from, CloudProviderTopic)
     IN  \/ /\ m.op = "VM_Req"
            /\ Provider!handleVmRequest(m.req)
            /\ stage' = [stage EXCEPT ![m.req] = "requested"]
         \/ /\ m.op = "VM_Sub"
            /\ Provider!handleVmSubscription(m.req)
            /\ stage' = [stage EXCEPT ![m.req] = "subscribed"]
         \/ /\ m.op = "Node_Update"
            /\ Provider!handleNodeUpdate(from, m.cores)
            /\ UNCHANGED stage
  /\ net' = Emitted(Received(from, CloudProviderTopic), emitted', stage')
  /\ UNCHANGED <<zone, centreVars, userVars, generatorVars, stopped>>

ProviderTimesOut(r) ==
  /\ stopped = "no"
  /\ Provider!handleSubscriptionTimeout(r) /\ UNCHANGED stage
  /\ net' = Emitted(net, emitted', stage')
  /\ UNCHANGED <<zone, centreVars, userVars, generatorVars, stopped>>

-----------------------------------------------------------------------------
(* A data centre's manager *)

\* dispatchVm sends a copy of the request to its blade; dispatchVms builds a
\* new message for each blade and sets no operation on it.
CommandFor(op, r) == [op |-> IF Len(Vms[r]) = 1 THEN op ELSE "none", req |-> r]

\* Mutant: everything goes to the first blade.
DispatchedToFirst(commands, nodes, c) == [commands EXCEPT ![1] = Append(@, c)]

Dispatched(commands, nodes, c) ==
  [n \in DOMAIN commands |->
     IF n \in ToSet(nodes) THEN Append(commands[n], c) ELSE commands[n]]

\* checkVmUserFit and the answer, for a request (handleVmRequestFits) and a
\* subscription (handleVmSubscription) alike.
Accepts(d, op, r) ==
  \E nodes \in Successes(pool[d], Vms[r]) :
    /\ pool' = [pool EXCEPT ![d] = Placing(@, Vms[r], nodes)[Len(Vms[r])]]
    /\ lan' = [lan EXCEPT ![d] = Dispatched(@, nodes, CommandFor(op, r))]
    /\ net' = Sent(Received(CloudProviderTopic, d), d, r, Acceptance(op, r, nodes))

\* Mutant: a request that was not granted keeps what it got.
GivenBackNothing(d, r, nodes) == Placing(pool[d], Vms[r], nodes)[Len(nodes)]

GivenBack(d, r, nodes) ==
  Restoring(Placing(pool[d], Vms[r], nodes)[Len(nodes)], Vms[r], nodes)

\* Mutant: the provider learns of the rejection, the user does not.
RejectionUnanswered(d, op, r) ==
  Sent(Received(CloudProviderTopic, d), d, CloudProviderTopic, NodeUpdate(d))

Rejection(d, op, r) ==
  Sent(Sent(Received(CloudProviderTopic, d), d, CloudProviderTopic, NodeUpdate(d)),
       d, r, VmMessage(op, r, "rejected"))

Rejects(d, op, r) ==
  \E nodes \in Failures(pool[d], Vms[r]) :
    /\ pool' = [pool EXCEPT ![d] = GivenBack(d, r, nodes)]
    /\ net' = Rejection(d, op, r)
    /\ UNCHANGED lan

\* Only handleVmRequestFits writes the zone of the data centre on its answer.
Relabelled(d, op, r) ==
  IF op = "VM_Req" THEN [zone EXCEPT ![r] = NodeZone[d]] ELSE zone

\* What the manager does with an operation: these two differ only in the
\* zone, and the provider sends no other.
requestHandlers(d, m) ==
  /\ m.op \in {"VM_Req", "VM_Sub"}
  /\ Accepts(d, m.op, m.req) \/ Rejects(d, m.op, m.req)
  /\ zone' = Relabelled(d, m.op, m.req)

CentreReceivesRequest(d) ==
  /\ stopped = "no" /\ ~halted /\ Arrived(CloudProviderTopic, d)
  /\ requestHandlers(d, First(CloudProviderTopic, d))
  /\ UNCHANGED <<providerVars, vms, apps, userVars, generatorVars, stopped>>

handleApplicationRequest(d, r) ==
  /\ stopped = "no" /\ ~halted /\ Arrived(r, d)
  /\ LET m == First(r, d)
     IN  \/ /\ m.node = 0    \* resolveHypervisorUrl
            /\ stopped' = "invalid hypervisor url"
            /\ UNCHANGED lan
         \/ /\ m.node # 0
            /\ lan' = [lan EXCEPT ![d][m.node] = Append(@, [op |-> "APP_Req", req |-> r])]
            /\ UNCHANGED stopped
  /\ net' = Received(r, d)
  /\ UNCHANGED <<providerVars, zone, pool, vms, apps, userVars, generatorVars>>

\* No code counts the machines in use.
getMachinesInUse(d) == 0

\* Single exponential smoothing, with the constant 1/2 that no code changes.
push_to_pop(isFirst, smoothed, raw) == IF isFirst THEN raw ELSE (raw + smoothed) \div 2

\* A manager with a forecast calls setActiveMachines, which is "To be
\* reimplemented".  The series it smooths never changes.
handleManageMachines(d) ==
  /\ stopped = "no" /\ ~halted /\ par.forecastActiveMachines
  /\ LET inUse == getMachinesInUse(d)
     IN \E isFirst \in BOOLEAN :
          push_to_pop(isFirst, inUse, inUse) + par.activeMachinesThreshold > inUse
  /\ stopped' = "setActiveMachines"
  /\ UNCHANGED <<providerVars, zone, centreVars, userVars, generatorVars, net>>

-----------------------------------------------------------------------------
(* A blade's hypervisor: commands *)

\* Operations of messageIsCommand that reach a data centre's blade here; any
\* other SM_UserVM is taken for a system call and its cast fails.
BladeReceives(d, n) ==
  /\ stopped = "no" /\ ~halted /\ lan[d][n] # <<>>
  /\ lan' = [lan EXCEPT ![d][n] = Tail(@)]
  /\ LET c == Head(lan[d][n])
     IN  \/ /\ c.op = "VM_Req"
            /\ vms' = [vms EXCEPT ![d][n] = @ \cup {c.req}]
            /\ UNCHANGED <<apps, stopped>>
         \/ /\ c.op = "APP_Req"    \* handleAppRequest, getLocalVmId
            /\ apps' = IF c.req \in vms[d][n] THEN apps \cup {c.req} ELSE apps
            /\ stopped' = IF c.req \in vms[d][n] THEN "no" ELSE "unknown VM"
            /\ UNCHANGED vms
         \/ /\ c.op \notin {"VM_Req", "APP_Req"}
            /\ stopped' = "not a system call"
            /\ UNCHANGED <<vms, apps>>
  /\ UNCHANGED <<providerVars, zone, pool, userVars, generatorVars, net>>

-----------------------------------------------------------------------------
(* EdgeUsers *)

Command(op) == [op |-> op]

\* startup: its VM, then its local applications over the serial line.
startup(r) ==
  /\ stopped = "no" /\ ~halted /\ r \in par.edgeUsers /\ user[r] = "idle"
  /\ user' = [user EXCEPT ![r] = "asking"]
  /\ net' = Sent(net, r, CloudProviderTopic, VmMessage("VM_Req", r, "none"))
  /\ serial' = IF r \in Dependent THEN [serial EXCEPT ![r] = Append(@, Command("APP_Req"))]
                                  ELSE serial
  /\ UNCHANGED <<providerVars, zone, centreVars, site, local, generatorVars, stopped>>

\* sendServiceIsUp: the route of the remote application.
sendServiceIsUp(r) ==
  IF r \in Dependent THEN [serial EXCEPT ![r] = Append(@, Command("App_Set"))] ELSE serial

\* Mutant: an EdgeUser builds the request for its applications and drops it.
DeploymentDropped(r, d, nodes, channels) == channels

\* An EdgeUser sends its applications to the blade of its VM.
Deployment(r, d, nodes, channels) == Sent(channels, r, d, AppMessage(r, nodes[1]))

handleVmUpdate(r, from) ==
  /\ stopped = "no" /\ ~halted /\ Arrived(from, r)
  /\ IF First(from, r).result = "accepted"
       THEN /\ user' = [user EXCEPT ![r] = "up"]
            /\ site' = [site EXCEPT ![r] = [centre |-> from, nodes |-> First(from, r).nodes]]
            /\ net' = Deployment(r, from, First(from, r).nodes, Received(from, r))
            /\ serial' = sendServiceIsUp(r)
       ELSE /\ user' = [user EXCEPT ![r] = "refused"]
            /\ net' = Received(from, r)
            /\ UNCHANGED <<site, serial>>
  /\ UNCHANGED <<providerVars, zone, centreVars, local, generatorVars, stopped>>

\* The controller's hypervisor.  A setting finds its application by name in
\* the deployment of the controller, which must be there.
ControllerReceives(r) ==
  /\ stopped = "no" /\ ~halted /\ serial[r] # <<>>
  /\ serial' = [serial EXCEPT ![r] = Tail(@)]
  /\ \/ /\ Head(serial[r]).op = "APP_Req"
        /\ local' = [local EXCEPT ![r] = "running"]
        /\ UNCHANGED stopped
     \/ /\ Head(serial[r]).op = "App_Set"    \* handleAppSettings
        /\ local' = [local EXCEPT ![r] = IF @ = "off" THEN @ ELSE "told"]
        /\ stopped' = IF local[r] = "off" THEN "no deployment" ELSE "no"
  /\ UNCHANGED <<providerVars, zone, centreVars, user, site, generatorVars, net>>

-----------------------------------------------------------------------------
(* Users of the generator *)

GeneratorStarts ==
  /\ stopped = "no" /\ ~halted
  /\ Generator!handleWaitToExecuteMessage
  /\ UNCHANGED <<providerVars, zone, centreVars, userVars, net>>

GeneratedUserAsks(r) ==
  /\ stopped = "no" /\ ~halted
  /\ Generator!handleUserReqGenMessage(r)
  /\ user' = [user EXCEPT ![r] = "asking"]
  /\ net' = Sent(net, r, CloudProviderTopic, VmMessage("VM_Req", r, "none"))
  /\ UNCHANGED <<providerVars, zone, centreVars, site, serial, local>>

\* deployApps: the request has no hypervisorUrl.
DeployedByModel(r, d, channels) ==
  IF par.apps[r] > 0 THEN Sent(channels, r, d, AppMessage(r, 0)) ELSE channels

\* Mutant: a user subscribes after every refusal.
SubscribesAfterAnyRefusal(r, op) == TRUE

\* Only after its request was refused.
SubscribesAfter(r, op) == op = "VM_Req"

GeneratedUserAccepted(r, d) ==
  /\ Arrived(d, r) /\ First(d, r).result = "accepted" /\ par.apps[r] <= 5
  /\ Generator!processResponseMessage(r, First(d, r).op, TRUE)
  /\ user' = [user EXCEPT ![r] = "up"]
  /\ site' = [site EXCEPT ![r] = [centre |-> d, nodes |-> First(d, r).nodes]]
  /\ net' = DeployedByModel(r, d, Received(d, r))

\* deployApps gives up half-way: "EINVAL".
TooManyApps(r, d) ==
  /\ Arrived(d, r) /\ First(d, r).result = "accepted" /\ par.apps[r] > 5
  /\ stopped' = "EINVAL"
  /\ UNCHANGED <<user, site, generatorVars, net>>

GeneratedUserRefused(r, from) ==
  /\ Arrived(from, r) /\ First(from, r).result # "accepted"
  /\ Generator!processResponseMessage(r, First(from, r).op, FALSE)
  /\ IF SubscribesAfter(r, First(from, r).op)
       THEN /\ user' = [user EXCEPT ![r] = "subscribing"]
            /\ net' = Sent(Received(from, r), r, CloudProviderTopic, VmMessage("VM_Sub", r, "none"))
       ELSE /\ user' = [user EXCEPT ![r] = "refused"]
            /\ net' = Received(from, r)
  /\ UNCHANGED site

processResponseMessage(r, from) ==
  /\ stopped = "no" /\ ~halted
  /\ GeneratedUserAccepted(r, from) \/ TooManyApps(r, from) \/ GeneratedUserRefused(r, from)
  /\ UNCHANGED <<providerVars, zone, centreVars, serial, local>>

-----------------------------------------------------------------------------
\* Every manager reports to the provider before anything else happens.
ManagersInit ==
  /\ net = [c \in Channels |-> IF c[1] \in Topic /\ c[2] = CloudProviderTopic
                               THEN <<NodeUpdate(c[1])>> ELSE <<>>]
  /\ pool = Capacity
  /\ lan = [d \in Topic |-> [n \in Node(d) |-> <<>>]]
  /\ vms = [d \in Topic |-> [n \in Node(d) |-> {}]]
  /\ apps = {}

EdgeUsersInit ==
  /\ user = [r \in Request |-> "idle"]
  /\ site = [r \in Request |-> NoSite]
  /\ serial = [r \in EdgeUser |-> <<>>]
  /\ local = [r \in EdgeUser |-> "off"]

Init == Provider!Init /\ ManagersInit /\ EdgeUsersInit /\ Generator!initialize

Next ==
  \/ \E from \in Topic \cup Request : ProviderReceives(from)
  \/ \E d \in Topic : \/ CentreReceivesRequest(d) \/ handleManageMachines(d)
                      \/ \E n \in Node(d) : BladeReceives(d, n)
  \/ \E d \in Topic, r \in Request : handleApplicationRequest(d, r)
  \/ \E r \in Request : ProviderTimesOut(r)
  \/ \E r \in EdgeUser : startup(r) \/ ControllerReceives(r) \/ \E from \in Sender : handleVmUpdate(r, from)
  \/ GeneratorStarts
  \/ \E r \in Generated : GeneratedUserAsks(r) \/ \E from \in Sender : processResponseMessage(r, from)

\* The event queue delivers every message and every timer.  An EdgeUser need
\* not start.
Fairness ==
  /\ \A from \in Topic \cup Request : WF_vars(ProviderReceives(from))
  /\ \A d \in Topic : /\ WF_vars(CentreReceivesRequest(d))
                     /\ \A n \in Node(d) : WF_vars(BladeReceives(d, n))
                     /\ WF_vars(\E r \in Request : handleApplicationRequest(d, r))
  /\ \A r \in Request : WF_vars(ProviderTimesOut(r))
  /\ \A r \in EdgeUser : /\ WF_vars(ControllerReceives(r))
                         /\ WF_vars(\E from \in Sender : handleVmUpdate(r, from))
  /\ WF_vars(GeneratorStarts \/ \E r \in Generated : GeneratedUserAsks(r))
  /\ \A r \in Generated : WF_vars(\E from \in Sender : processResponseMessage(r, from))

Spec == Init /\ [][Next]_vars /\ Fairness

-----------------------------------------------------------------------------
(* Properties *)

\* Types, and what an address is worth: an acceptance names blades of its
\* sender, one per VM, and an accepted user knows where its VMs are.
TypeOK ==
  /\ \A d \in Topic :
       /\ pool[d] \in [Node(d) -> Counters]
       /\ \A n \in Node(d) : vms[d][n] \subseteq Request /\ ToSet(lan[d][n]) \subseteq
            [op : {"VM_Req", "VM_Sub", "APP_Req", "none"}, req : Request]
       /\ \A r \in Request : \A i \in DOMAIN net[<<d, r>>] :
            LET m == net[<<d, r>>][i]
            IN  m.result = "accepted" => m.nodes \in [DOMAIN Vms[r] -> Node(d)]
  /\ apps \subseteq Request
  /\ user \in [Request -> {"idle", "asking", "subscribing", "up", "refused"}]
  /\ \A r \in Request : IF user[r] = "up"
                        THEN site[r].nodes \in [DOMAIN Vms[r] -> Node(site[r].centre)]
                        ELSE site[r] = NoSite

Running == ~halted /\ stopped = "no"

\* Where a request object is: the messages that carry it, and its places in
\* the provider's queue.
Carries(m, r) == m.op \in {"VM_Req", "VM_Sub"} /\ m.req = r
InFlight(r) ==
  UNION {{<<c, i>> : i \in {i \in DOMAIN net[c] : Carries(net[c][i], r)}} : c \in Channels}
InQueue(r) == {i \in DOMAIN queue : queue[i] = r}

\* A request object is never lost and never in two places: while its user
\* waits for an answer there is exactly one message that carries it, or it
\* waits in the provider's queue; otherwise there is none.
RequestInOnePlace ==
  Running => \A r \in Request :
    Cardinality(InFlight(r)) + Cardinality(InQueue(r))
      = IF user[r] \in {"asking", "subscribing"} THEN 1 ELSE 0

\* The acceptances data centre d gave: those on their way and those received.
GrantedBy(d) ==
  {<<r, site[r].nodes>> : r \in {r \in Request : user[r] = "up" /\ site[r].centre = d}}
    \cup UNION {{<<r, m.nodes>> : m \in {m \in ToSet(net[<<d, r>>]) : m.result = "accepted"}} :
                r \in Request}

GrantedOn(d, n, field) ==
  SumOver(GrantedBy(d), LAMBDA g :
    SumOver({i \in DOMAIN g[2] : g[2][i] = n}, LAMBDA i : Needs[Vms[g[1]][i]][field]))

\* No resources leak and none are promised twice: what a node has left and
\* what the users who were told "accepted" hold on it add up to what it had.
ResourcesAccountedFor ==
  \A d \in Topic : \A n \in Node(d) :
    \A field \in {"cores", "disk", "mem"} :
      pool[d][n][field] + GrantedOn(d, n, field) = Capacity[d][n][field]

\* An application never overtakes its VM: the hypervisor that gets it runs
\* the VM, or will have started it by then.  Nor does the route of a remote
\* application overtake the local one that is told of it.
VmBeforeApplications ==
  /\ \A d \in Topic : \A n \in Node(d) : \A i \in DOMAIN lan[d][n] :
       LET c == lan[d][n][i]
       IN  c.op = "APP_Req" =>
             \/ c.req \in vms[d][n]
             \/ \E j \in 1..(i - 1) : lan[d][n][j].req = c.req
  /\ stopped # "no deployment"

\* The generator's books agree with what its users went through.  Every user
\* is asked for once, in the order of arrival; a user that was refused both
\* times or got its VMs has finished and is counted once, and no other; one
\* that waits has one subscription.  The simulation ends with the last of
\* them, and the statistics count every time-out and every user that waited.
\* The check that users are sorted stops it only before the first user.
UsersAccountedFor ==
  LET asked == {userInstances[i] : i \in 1..nUserIndex}
      finished == {r \in par.users : user[r] \in {"up", "refused"}}
  IN /\ asked = {r \in Generated : user[r] # "idle"}
     /\ \A p \in asked, q \in par.users \ asked : arrival2Cloud[p] <= arrival2Cloud[q]
     /\ \A r \in Generated :
          LET u == instance[r]
          IN /\ u.numFinishedVMs = Cardinality(Generator!Finished(u))
             /\ u.bFinished = (r \in finished) /\ u.bFinished = Generator!allVmsFinished(u)
             /\ u.numActiveSubscriptions = IF user[r] = "subscribing" THEN 1 ELSE 0
             /\ u.bTimeout_t4 = (user[r] = "refused")
             /\ user[r] \in {"subscribing", "refused"} => u.bSubscribe
     /\ nUserInstancesFinished = Cardinality(finished)
     /\ stopped = "end" <=> par.users # {} /\ finished = par.users
     /\ stopped = "end" =>
          /\ Generator!finish.nTotalTimeouts = Cardinality({r \in Generated : user[r] = "refused"})
          /\ Generator!finish.nTotalTimeouts <= Generator!finish.dWaitUsers
     /\ stopped = "not sorted" =>
          nUserIndex = 0 /\ \E r \in par.users : arrival2Cloud[r] < par.startDelay

\* Users and data centres are an environment the provider was verified for:
\* every step of the provider here is a step of its open system.
ProviderSafety == Provider!Init /\ [][Provider!Next]_providerVars

\* An EdgeUser that asks is refused or ends up with its applications running,
\* those of its area that depend on them being told.
EdgeUserServed ==
  \A r \in EdgeUser :
    user[r] = "asking" ~> (\/ user[r] = "refused" \/ ~Running
                           \/ r \in apps /\ (r \in Dependent => local[r] = "told"))

\* Every user of a generator asks in its turn and learns whether it got its
\* VMs, or the simulation stops.
GeneratedUserAnswered ==
  \A r \in Generated : r \in par.users => <>(user[r] \in {"up", "refused"} \/ ~Running)

\* "If it could fit, accept request" (DcManager.cc:233): the hypervisor that
\* gets an accepted request knows what to do with it.
CommandsUnderstood == stopped # "not a system call"

\* "Update the cloud provider to "uncommit" the resources" (DcManager.cc:211):
\* when nothing is under way between provider and data centre, the provider
\* does not take cores for free that are in use.
NoStaleEstimate ==
  \A d \in Topic :
    (net[<<d, CloudProviderTopic>>] = <<>> /\ net[<<CloudProviderTopic, d>>] = <<>>)
      => table.nodes[table.topics[d]].cores <= SumOver(Node(d), LAMBDA n : pool[d][n].cores)

=============================================================================
