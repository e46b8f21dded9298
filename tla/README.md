# Simcan2Fog: a verification project

Simcan2Fog is a discrete-event simulator (OMNeT++/INET) of clouds, fogs and edges. Users ask
for virtual machines, a cloud provider forwards each request to a data centre or fog node, its
manager places the VMs on blades, hypervisors run VMs and applications on shared CPUs and disks,
and everything talks over a simulated network with a message queue and DNS.

The modules here model the code under `src/s2f` (paths below are relative to `src/src/s2f`).
TLC checks them on small instances, TLAPS proves the theorems in the `*_proofs` modules. A name
in a model is the name of the function it stands for wherever there is one.

A simulation event (`handleMessage`) runs to its end without interleaving, so a handler with
everything it calls is one atomic action. Concurrency is in the order in which events are
delivered: messages of different senders, time-outs and node updates interleave freely.

## The system's parts

| Part | State | Operations | Talks to | What is hard | What makes it right |
|---|---|---|---|---|---|
| Cloud provider (`management/cloudprovider/CloudProvider`) | queue of subscriptions, a time-out per subscription | request, subscription, time-out, node update | users and nodes by the message queue | time-out against dispatch, a dispatch loop that stops half-way, priority users | no request lost, doubled or overtaken; each subscription ends |
| Node table (`NodeTable`, `NodeDb`) | nodes, sorted topics and zones that point at each other by index | register or update, look up by topic and zone | called by the provider | registration order, indices into sorted vectors, unsigned estimates | topic, id and zone agree; cores conserved |
| Data centre manager (`management/managers/DcManager`) | return topics of accepted users | request, subscription, application request, VM extension | provider and users (queue), blades (switch) | answers, updates and commands cross | a grant reaches blade and user alike; refusals are answered and reported |
| Resource manager, node pool, strategies (`ResourceManager`, `NodePool`, `selection/Strategies`) | available resources per node | allocate all VMs of a request, give back | called by manager and hypervisors | roll-back, unsigned counters, comparison of several resources | all or nothing; never more granted than there is |
| Hypervisor, VM control table (`os/hypervisors`, `os/control`) | control blocks of VMs and applications, buffered calls | start VM, start application, system call and its end, suspend, resume, end | manager, schedulers, disk, applications | suspension against calls in flight, reuse of slots, use after release | no call lost or delivered to a suspended VM; slots conserved |
| Hardware manager (`os/hardwaremanagers`) | free cores, memory, disk | allocate, deallocate | hypervisor | agreement with the pool of the manager | an accepted VM always fits |
| CPU schedulers and cores (`os/schedulers`, `architecture/cpu`, `messages/SM_CPU_Message`) | ready queue, core states, running process | request, end of quantum, start and stop | hypervisor, cores | preemption, stop against an answer in flight, remainder of a quantum | work conserved; no core idle while work waits |
| Disk manager (`architecture/disk`) | pending requests per VM | read, write, abort | hypervisor | abort against completion | each request answered or aborted once |
| Message queue (`architecture/messagequeue`, `architecture/net/stack/queue`) | consumers and queues per topic, connections | publish, acknowledge, register, close | every node | acknowledgements, packets that end inside a message, messages without consumer | FIFO, none twice, none lost |
| DNS (`architecture/dns`) | resolutions in progress, cache, zones | request, answer, time-out, register | nodes over UDP | lost and late answers, several questions per resolution | every client is answered once |
| Protocol stack (`architecture/net/stack/proxy`, `registry`, `resolver`) | sockets and services of applications | open, bind, send, close | applications, TCP | closes against data in flight | a socket belongs to one service |
| Users (`users/base`, `users/generators`, `users/edge`) | what each user was granted | ask, subscribe, deploy | provider, data centres | answers reused as new requests, end of the simulation by counting | subscribe at most once; everyone is answered |
| Applications (`apps`), IoT sensors and actuators (`architecture/nodes/iot`) | sockets, timers, state of the controller | probe, ask, serve, sample, command | stack, hypervisor, UDP | services that appear late, answers delayed, names given twice | one request at a time; a probe is answered once its service is there |
| Peer-to-peer nodes (`apps/p2p`, `architecture/p2p`) | peers, their connections, what is known of them | discover, connect, introduce, ping | DNS, TCP | two nodes that connect to each other at once, packets read as one | the two ends agree; peers keep pinging |
| Data manager and configuration (`core/simdata`) | types of VMs, applications, users | read once | everyone | | constants of the models |

The deployment path in one paragraph. A user sends an `SM_UserVM`. The provider picks the node
with the most cores left in its estimates, in the zone asked for or else in the default zone,
charges the estimate and forwards the *same* object; if no node fits, or others wait, it rejects
it. A generated user answers a rejection with a subscription, which waits in the provider's
queue for a node update or its time-out. The data centre's manager allocates every VM or none.
It sends commands to the blades and the answer to the user; when it refuses it also sends an
update to the provider, which retries its queue. An accepted user sends its applications to the
data centre it got the answer from, which passes them to the blade named in the answer.

## Modules

**`NodeTable`** (no variables) is the provider's table: `addOrUpdateNode` and the look-ups. A
vector kept sorted without duplicates is a function on its names; an index into it is the
number of smaller or equal names, which makes the stale indices of the source visible.

**`CloudProvider`** (on `NodeTable`) has one action per handler: `handleVmRequest`,
`handleVmSubscription`, `handleSubscriptionTimeout`, `handleNodeUpdate` with the loop of
`attemptDispatching`. `emitted` is what the event sent, `halted` the effect of `error()`. The
loop is not a recursion: `AfterDispatching` is the function from k to the table after k
dispatches, and `StopsAfter` says at which k it stops. The environment is open: each request is
made once and subscribed at most once, with any zone a node may have written on it; any node
reports any of the `Reports` at any time.

**`NodePool`** (no variables) has the counters of the blades with their wrap-around (`W`), the
strategies as sets of the nodes they may pick (`BestFit` leaves ties to `make_heap`), and the
placement of a request: `Successes` are the ways to place all VMs, `Failures` those to fail.

**`ResourceManager`** (on `NodePool`) has `allocateVms` with its roll-back and
`confirmNodeDeallocation`. `hosted` is a history variable: what each node was granted and has
not given back.

**`UserGenerator`** has the generator of cloud users: their arrival times (drawn or from a trace,
in cycles or not), their order, the timer that starts one after another, the books kept of each
and the count that ends the simulation. Its times are half seconds, because the code keeps some
times as whole seconds and some not.

**`Cloud`** composes an instance of `CloudProvider`, one of `UserGenerator`, the placement of
`NodePool`, the managers and hypervisors of the data centres up to the start of VMs and
applications, and the edge users with the serial line to the controller of their area.
Channels are FIFO for each pair of endpoints (a TCP connection, and the switch of a data centre)
and independent of each other. `CloudProvider` is at once a component and the abstract
specification of this component: `ProviderSafety` says that every step of the composed system is
a step of the provider's open system, so what is proved for the open system, for any
environment, holds in the cloud.

**`Host`** is a node that runs applications, a blade of a data centre or an edge node. It stands
on **`CpuSystem`** (round-robin schedulers, the hub and the cores several VMs share),
**`VmControlTable`** (control blocks, the hardware manager's free cores, the state of a
deployment) and **`MessageTrace`** (the trace by which a `SIMCAN_Message` finds its way back).
A system call is a message that travels through inboxes, one per module; each module's handler
is one action. What the applications do is what `LocalApplication` and `LocalIotApplication` do.

**`Dns`** is name resolution end to end: **`DnsTree`** (no variables) is the database of zones
and the matching of records, **`DnsClient`** the retransmitting client over UDP, and `Dns` adds
the stub resolver of a node, the resolver, the server of a zone and its registry. Time is the
tick of a client's timer. A datagram that is lost is one that stays in flight for ever. Aliases
nest calls of `processResolution`; `followAliases` is the function from n to the question after n
of them, and more aliases than there are records is a call that never ends (`stack overflow`).

**`Stack`** has the sockets of an application (`AppBase`) and the proxy (`AppProxy`) by which the
applications of a node share its address: connections, sessions, and the table of services. TCP is
external; it refuses a connection whose two ends are in use by another one, which all client
sockets of a node make possible because `open(-1)` binds each of them to port 65535
(`AppBase.cc:230`). Whether a connection that both ends have closed lingers is left open.
**`Endpoints`** (on `Stack`) has the applications that talk through it: probing and asking
clients, servers that answer at once or later, the controllers of an IoT tile with its sensors
and actuators. **`MessageQueue`** has the broker's two servers and the push and pull clients of
the nodes. A packet of TCP holds any number of the messages of its stream and, where `straddling`,
a part of the next one; the broker and the pull client read each packet by itself, so such a message
is lost. **`Services`** composes `Endpoints` with an instance of `MessageQueue`.

**`Mailboxes`** is the abstract specification of the message queue: what one node pushes to
another arrives at most once and in order, and arrives unless packets end inside messages
(`lossy`). Without loss that is what `Cloud` assumes of its channels; `MailDelivered` of `Services`
(the safety and the liveness of `Mailboxes`, under a refinement mapping) shows that the queue
provides it, lossy where packets straddle and reliable where they do not; its safety is proved.

**`Peers`** has the nodes of a peer-to-peer network: discovery of addresses, connections, the
introduction (version, verack), the exchange of addresses, and the pings. Where TCP brings several
messages as one packet (`coalescing`), the consumers of `version`, `addr` and `ping` look at all that
follows their header and stop the simulation, as INET refuses a chunk of another type; those of
`verack`, `getaddr` and `pong` do not look, and the rest of the packet is lost.

**`CloudProvider_proofs`**, **`ResourceManager_proofs`**, **`Cloud_proofs`**, **`Host_proofs`**,
**`Services_proofs`** and **`Peers_proofs`** have the theorems below; **`DataLemmas`** and **`NodePool_proofs`** the
lemmas on sums and on the placement of VMs that they rest on. **`MC*`** modules define the instances.

## What the runs check

| Run | Configuration | Checks |
|---|---|---|
| `dispatch` | `CloudProvider.cfg` | the queue: `TimerPerSubscription`, `ExactlyOneAnswer`, `NoOvertaking`, `UpdateServesQueue`, `SubscriptionEnds`; the table: `TypeOK`, `TableConsistent`, `CoresConserved` |
| `best_fit` | `ResourceManager.cfg` | `TypeOK`, `PoolMatchesHosted`, `NoOvercommit`, `AllOrNothing` under `BestFit` |
| `deployment` | `Cloud.cfg` | the path from a user to running applications: `TypeOK`, `RequestInOnePlace`, `ResourcesAccountedFor`, `VmBeforeApplications`, `UsersAccountedFor`, `ProviderSafety`, `EdgeUserServed`, `GeneratedUserAnswered` |
| `host` | `Host.cfg` | system calls and cores: `TypeOK`, `CallsConserved`, `CoresKept`, `DeploymentReported`, `CallsReturn` |
| `dns` | `Dns.cfg` | lookups over a network that loses, delays and reorders: `TypeOK`, `LookupTracked`, `PendingHaveTimer`, `AnswersFit`, `AskedOnce`, `LookupEnds` |
| `services` | `Services.cfg` | `ErrorsExplained`, `OneRequestAtATime`, `RightService`, `MailDelivered`, `ProbesAnswered` |
| `peers` | `Peers.cfg` | `PeersAgree`, `StopsExplained`, `PeersPing` |
| `table_pointers` | `NodeTablePointers.cfg` | `TopicPointers` fails |
| `stale_estimate` | `StaleEstimate.cfg` | `NoStaleEstimate` fails |
| `accepted_subscription` | `AcceptedSubscription.cfg` | `CommandsUnderstood` fails |
| `straddling` | `Straddling.cfg` | `PackagesReassembled` fails |
| `lost_resolution` | `LostResolution.cfg` | `UnansweredWaits` fails |

The last five are disagreements between the code and what it says of itself:

- `NodeTable.cc:38` "Update the pointer for the node": the pointer is the index before the
  topics are sorted, and the indices of the other nodes are not corrected. Two nodes that
  register in descending order of their names swap topics.
- `DcManager.cc:211` "Update the cloud provider to "uncommit" the resources": the update carries
  `getTotalResources()`, not what is available, so it uncommits the VMs that run as well.
- `DcManager.cc:234` "If it could fit, accept request": the copy sent to the blade keeps the
  operation `SM_VM_Sub`, which `messageIsCommand` (`Hypervisor.cc:222`) does not know. The
  hypervisor then casts it to a system call and the simulation stops. The messages that
  `dispatchVms` builds for a request of several VMs carry no operation and end the same way.
- `MessageQueueIn.h:38` "Queue that reassembles TCP packages": the queue is emptied after every
  packet (`MessageQueueIn.cc:80`, `MessageQueueOut.cc:122`), and `PullClient.cc:60` begins every
  packet with a new one. A message is 20 B (`INET_AppMessage.msg:13`), which a segment of 536 B is
  no multiple of, so the 27th of those TCP sends at once straddles two segments; both parts of it
  are thrown away. The run ends such a packet after the first message.
- `DnsResolverService.cc:221` "If already "asked", wait for resolution": those that wait are entered
  under the number of the resolution that asked (line 231), the query carries the number of the
  question (line 235), and the answer looks up and erases the entry of that number (lines 110 and
  150). The numbers agree until a resolution asks a second question. In the run an answer takes the
  entry of another question, and a resolution waits in none: its client gives up after the last
  time-out. `LookupEnds` holds all the same, because every client has time-outs of its own.

### Stops and oddities that are behaviour of the models

An `error()` or a failed assertion ends the simulation, so it is a state of the models (`halted`,
`stopped`, `failed`), and liveness is conditional on the simulation still running. Properties
such as `ErrorsExplained` and `StopsExplained` say which stops there are and why.

- A request before any node of the default zone registered ends the simulation, and so does the
  first application of a generated user, because `BaseUserModel::deployApps` never sets a
  `hypervisorUrl` (`DcManager.cc:378`).
- `SM_APP_Sub_Reject` and `SM_ExtensionOffer_Reject` are both 10008 (`SIMCAN_opcodes.h:54,62`).
- `operator<=` of `NodeResources.cc:25` compares tuples lexicographically, although it "Checks if the
  node has enough resources to allocate the VM" (`NodeResources.h:44`), and `FirstFit` is built on
  it: it takes a node with cores to spare and memory or disk exhausted. With `Strategy = "FirstFit"`
  in `ResourceManager.cfg`, `NoOvercommit` fails.
- `bSubscribe` of `CloudUserInstance.h` is never initialized: `garbage` in the setups of `Cloud`
  ranges over its values.
- A user made from a trace has no VMs, and the first answer to it would find its collection
  malformed (`UserGeneratorBase.cc:236`).
- Arrival times are cut to whole seconds in one place and not in another: with a fractional
  `startDelay` the check that users are sorted stops the simulation. With `startDelay` 0 every
  user arrives at time 0, whatever the interval. With several cycles and a `cycleDistribution`
  of 0, the default, generating arrival times never ends, so no setup has both.
- `machinesInUse` stays 0, so the manager's forecast calls `setActiveMachines`, an error
  (`ResourceManager.cc:62`), exactly when its threshold is positive.
- An empty list of users does not end the simulation by itself.
- `getPidFromServiceName` returns the index in the deployment, not the pid
  (`VmControlTable.cc:128`); they are equal on a VM with one deployment.
- `resolveHypervisorUrl` compares `nodeName` with itself (`DcManager.cc:391`).
- `IotApplication` sends an actuator a packet without the `IotCommand` it looks for, and the
  actuator drops it (`IotActuatorModel.cc:102`); `LocalIotApplication` sends the right one.
- The flag `ready` of a consumer is set and never read (`MessageQueueOut.cc:146,177`), so a
  consumer may be sent a message before it acknowledged the one before, unlike
  `PullClient.cc:70` says. `MailDelivered` holds all the same.
- `EXEC_START` of `AppBase` and `PEER_DISCOVERY` of `P2P` are both 0 (`P2P.cc:90`), and one timer
  has both kinds: a node that should discover its peers starts again, for ever. The setups of
  `Peers` have the values as declared (`Declared`) and told apart (`Apart`), so that the code
  behind the clash is checked as well.
- The cache of the stub resolver never answers: it looks for an authoritative node with children,
  and those are leaves (`StubDnsResolver.cc:43`).
- The client of DNS reports an error under an assertion that accepts only good news
  (`DnsClientService.cc:143`); both builds, with assertions and without, are among the setups.
- All client sockets of a node have port 65535, so its second connection to one server is an error of
  TCP: of another application, of a controller whose service is named again, or of a peer-to-peer
  node that looks for peers again while its first connection is being established
  (`AppBase.cc:230`, `IotApplication.cc:71`, `P2P.cc:180`).
- `ServerEndpoint.cc:58` casts what it is sent to a request and dereferences the result: a
  controller's data, or the first part of a request, is a null pointer. `IotApplication.cc:28`
  dereferences the tile's first actuator whether it has one or not.
- `DnsDiscoveryService.cc:75` stops the simulation when its DNS server does not answer.
- The typed chunk that `version`, `addr` and `ping` look for is refused by INET when more messages
  follow in the packet; INET's source is not in the repository, so this is by its documented chunks.

### Bounds, and why they are enough

- `dispatch`: three requests, so that one can wait between two others, one of them of a priority
  user; three nodes, registering in any order, two of them in one zone, so that a zone already known
  is extended, the best of two is chosen, and the default zone is both consulted and not. Sizes 1
  and 2 and reports of 2 cores: an estimate is 2, 1 or 0 as requests are charged, so that a node can
  take two small requests, a large one or nothing. The theorems hold for reports of any size.
- `best_fit`: three nodes, three VM types, requests of up to three VMs: enough to fail after two
  allocations on different nodes. `W = 16` is above every capacity, so a wrap shows as a value
  no placement can explain.
- `deployment`: an EdgeUser with a local application that depends on the remote one, a generated
  user with one small VM and an application, one with two VMs; a data centre of two unequal
  blades and a fog node in another zone. The three requests together ask for more than the data
  centre has. Nine configurations of the generator: one user after another; no generated user;
  all at once, shuffled, without delay, with garbage in `bSubscribe`; two cycles; active cycles;
  a fractional delay; a trace with a job that is kept; a trace with jobs that are dropped and a
  user with more applications than a blade takes; a manager with a forecast. Draws of the
  distributions lie below, at and above the mean; times are 0 to 20 half seconds.
- `host`: two VMs on three cores, so that one has two and the other one; bursts of five
  instructions against quanta of two at two per tick, so that a burst is preempted and the last
  quantum is shorter; one iteration, two pings, two applications per VM; blade and edge node.
- `dns`: two lookups in flight at most (`MaxLookups`), so that a second can be aggregated with the
  first; two attempts per server, time-outs of one tick, servers that do not exist before and after
  the one that does; names that exist, are aliases, match a wildcard, or do not exist; a chain of
  two aliases, and two aliases of each other.
- `lost_resolution` (`WaitSetups`): three lookups, of names of two zones and of none, which make the
  numbers of resolutions and questions differ while two questions are under way.
- `services`: scenarios of one client or controller, or two clients on one node or on two; one or two
  services that share a service name or not, late, closed or never resolved; a tile with and without
  actuators; two samples, which pass the threshold once, or four, which pass it twice; sockets
  and segments up to two; and two nodes that push two messages each through the
  queue, with and without pre-allocation.
- `straddling`: a packet may end inside any message that another one precedes, which stands for the
  27th in a segment of 536 B: what the code does about it does not depend on how many precede it.
- `peers`: two nodes that join at any time and in any order, or three; a node that looks for peers
  again before it is introduced, and connections that cross; an address and a DNS server that do not
  answer; packets that hold several messages. Pings go to and fro in some of the setups; in the
  others they would only multiply states. That a message straddles two segments is left out
  here: a peer has a few messages under way at a time, far less than a segment.
- Users ask once. Every channel is unbounded in the model and short in practice.

### Fairness

A time-out is an event in OMNeT++'s queue and a message sent is one too: both are delivered
unless cancelled. So the actions that deliver messages and time-outs are weakly fair. A user need
not ask, a node need not report, a manager need not deploy and a sensor need not sample. TCP
delivers; UDP need not, and `LookupEnds` holds although nothing is assumed of the network. No
strong fairness is assumed.

## What is proved

For any sets of requests, nodes, zones, data centres and VM types, and any parameters. The
assumptions are those the modules name: `ProviderConstants` and `NamesAreOrdered` (the types of
the parameters, and that names are ordered), `PoolConstants` and `ManagerConstants` (counters of a
positive width `W` that the capacities and the needs of a VM fit in), `CloudConstants` (users have
VMs; an EdgeUser's are asked for one by one; times are naturals), `CpuConstants`,
`HostConstants`, `NodeSetup` and `Nothing` (VMs and cores are numbered, a deployment has room in
its VM, quantum and speed are positive, there are as many cores as VMs at least, as
`checkNodeSetup` demands), `PeersConstants` (an absent address is no node's; `PEER_CONNECTION`
differs from the other two kinds, which may coincide as they do in the code), `ServicesConstants`
and `EndpointsConstants` (the nodes that use the message queue are topics, the error of a topic
without consumers is not `Running`, no application is called `none`, a server has a service to
offer, for `IotService` the name of its own instance, `IotService.cc:27`, and a request takes at
least one segment).

Some theorems state one hypothesis more:

- `Strategy = "BestFit"` in two: they are false of `FirstFit`, as the oddities above say.
- `RequestsFit` in those of `Host`: all the VMs a node is asked to start need no more cores than
  it has. That is what `BestFitNeverOvercommits` proves of the manager that asks. Without it
  `allocateCores` gives two VMs the same core and nothing checks that it found enough.
- `RequestedOnce` in `OneReportEach`: every VM is asked for once and has a name of its own, which
  the constructor of `VmInstance` generates (`VmInstance.cc:7`).

### The provider's queue (`CloudProvider_proofs`)

- `TimerSafety`: `Spec => []TimerPerSubscription`. By itself it is not inductive, because a
  second subscription of a waiting request would put it in the queue twice. `QueueInv`
  strengthens it with the types of queue, timers and `stage`, and with the fact that a request
  in the queue has subscribed, which it can do only once.
- `FirstComeFirstServed`: `Spec => NoOvertaking`, from the same invariant: `attemptDispatching`
  takes a prefix of the queue, and a request that is not of a priority user is forwarded on
  arrival only if the queue is empty.
- `RequestsConserved`: `Spec => ExactlyOneAnswer`.

These use nothing of the node table, so they hold however nodes are selected.

### The provider's estimates (the same module)

- `TypeCorrect`: `Spec => []TypeOK`. The deep part is that estimates stay naturals: a charge
  takes the cores of a request off the node `Best` returns, which is a candidate, and every
  candidate has them. `TypeInv` strengthens `TypeOK` with `QueueInv` and `IsTable`, which adds
  what the look-ups rely on: finitely many names, zones that hold ids of nodes, and topic indices
  within the vector, so that a forwarded request goes to some registered node's topic (which one
  is what `table_pointers` is about).
- `ConsistentTable`: `Spec => []TableConsistent`, from `TypeInv`: a first report adds an id that
  no topic and no zone has, and charges touch neither topics nor zones.
- `GreedyDispatch`: `Spec => UpdateServesQueue`.

The module begins with the lemmas on finite sets of naturals, on positions in a sorted vector and
on `addOrUpdateNode`. Where they need induction (a finite set has a greatest element; every index
of the vector holds a name; the recursion over the queue in `AfterDispatching` has a solution, and
all its tables are tables) they take a least counterexample from the well-founded order on the
naturals. `DataLemmas` does the same for sums: `SumFunction` is a fold, whose value for a finite
domain is a partial sum over an enumeration of it, and what is needed of sums (adding an index,
changing one value, splitting the domain, that they are naturals) is proved of partial sums.

### The resources of a data centre (`ResourceManager_proofs`, on `NodePool_proofs`)

- `PoolAccounts`: `Spec => []PoolMatchesHosted` for every placement any strategy may choose. The
  counters are unsigned and `FirstFit` wraps them, so the invariant `BalanceInv` counts the
  wraps: what is left and what was granted is the capacity plus some multiple of `W`, for every
  node and counter. A lemma for one placement carries it through the placements of a request by
  the recursion of `Placing`, and another through `confirmNodeDeallocation`.
- `RequestsAllOrNothing`: `Spec => AllOrNothing`. The roll-back takes back each VM placed, in the
  order they were placed; every pool on the way back is the pool of the way forth less a prefix,
  and adding what was subtracted is the identity modulo `W`.
- `BestFitNeverOvercommits`: `Spec => []NoOvercommit` under `BestFit`. `BestFit` returns nodes
  that fit in every counter, so no counter wraps and the balance is exact (`ExactInv`).

### The deployment path (`Cloud_proofs`)

- `PathInvariant` is what everything else rests on. `NetTypes` says what each channel may carry,
  and that a message in it tells its request's stage; `Once` that a request a user waits for is
  once with the provider or at one position of one channel, and every other nowhere; `Turns` that
  the generator asks for its users in turn; `Proved!TypeInv` is the provider's invariant, taken
  through the instance. None is inductive alone: that a subscription reaches the provider once
  needs that no copy of the request is left anywhere, which needs the stage that the message
  carries. While the simulation is stopped only the types are kept, because `error()` may leave
  a message half handled.
- `ProviderRefined`: `Spec => ProviderSafety`, the refinement: each step of the cloud is mapped,
  with no refinement mapping but the instance, to a step of the open system `CloudProvider` or to
  a stutter. What is proved of the provider for every environment holds in the cloud.
- `RequestsInOnePlace`: `Spec => []RequestInOnePlace`, from `Once` by counting.
- `CloudTypeCorrect`: `Spec => []TypeOK`.
- `VmStartsFirst`: `Spec => []VmBeforeApplications`. `CommandsInOrder` says that in the channel to
  a blade a VM's command precedes that of its applications, or the VM runs; `Promises` that an
  acceptance or an application request on its way names blades its VMs' commands were sent to.
  `Areas` is the same argument for the serial line of an EdgeUser.
- `ResourcesBalance`: `Spec => []ResourcesAccountedFor` under `BestFit`. `GrantedBy(d)` is read
  off the channels and the users, and a request moves from the one to the other; the lemma
  `BooksNext` says that no event but a grant changes it, and that a grant adds one entry that was
  in no place before (by `Once`). `Accounts` adds that `GrantedBy(d)` is finite and typed, so that
  the sums over it are defined; `PlacedExactly` of `NodePool_proofs` pays for the new entry.
- `UsersBooksAgree`: `Spec => []UsersAccountedFor`. `UsersInv` has four parts. `Books` says that
  the book of a user is a function of how far it got (idle or asking, subscribing, up, refused),
  but for `bSubscribe`, which starts as garbage. That an answer is applied to the book it is meant
  for is not a matter of the book: a user takes the operation from the message, so `InStep` says
  that one that asks has no subscription under way and one that subscribes has had its request
  answered; with `Once` and `Stages` of `PathInvariant` the answer then fits. `Counted` says that
  those with a granted or refused book are counted, so the comparison that ends the simulation is
  true at the last of them only. `InTurn` says that the vector of users is sorted and holds each
  of them; the shuffle, a sequence of swaps, loses none, and in a sorted vector an earlier
  position is an earlier arrival (both by induction over positions).

### A node and its calls (`Host_proofs`)

For any numbers of VMs, cores, applications and iterations, any quantum, infinite or not, and
any lengths of computations.

- `HostTypeCorrect`: `Spec => []TypeOK`; `NoCallLost`: `Spec => []CallsConserved`;
  `CoresAccounted`: `Spec => []CoresKept`, from one invariant, `HostInv`. Conservation alone is
  not inductive: a scheduler that finds no core for an answer, a core that is sent a second
  computation, or a trace that does not lead back stops the simulation or sends a call astray, and
  only where each message is tells that it does not happen. `CpuInv` gives for each inbox the
  messages it may hold, with the trace each must carry there; the state of each scheduler; and for
  each VM and each of its cores the balance of `CoresKept`. `CallsOK` is the conservation for
  every slot. `Exits` says that the call that ends an application is its only one, so what
  `deleteApp` throws away is nothing. `TableOK` relates the control table to the modules and the
  schedulers, `CoresOK` the free cores to the requests still to come, so that the next VM gets the
  cores it asks for.
- A call is counted by the indices at which it stands. The module begins with what sending,
  handling, appending and taking the head do to the number of indices of a box that satisfy a
  condition, and to a sum over boxes of which one or two changed; each action is then a transfer of
  one call from one place to another.
- `OneReportEach`: `Spec => []DeploymentReported`, from `ReportInv`: a pid is in use exactly while
  its application lives, two pids in use stand for two applications of the deployment
  (`DeploymentOK`), global names of VMs are distinct and none still to be asked for is in use
  (`Names`, `Unnamed`), and the reports sent are those of the deployments that ended (`Reports`).
  It shows as well that no application ends twice.

### The message queue and the connections (`Services_proofs`)

- `MailImplemented`: `Spec => Mail!Init /\ [][Mail!Next]_(Mail!boxVars)`, the safety of
  `MailDelivered`, for any nodes and any bound on the messages they push, whatever applications
  run beside the queue and wherever TCP cuts its streams into packets. It says that mail is handed
  over at most once and in the order it was pushed, and that it disappears only where packets may
  end inside a message (`lossy`): there the abstract mailboxes may drop a run of the mail from one
  node to another in a step, as the code does with what a packet cuts, and nothing else. A node's
  box for another is mapped to what its stream to the broker, the
  queue of the topic and the stream to the consumer hold of it, and what the consumer was given
  to what it was handed. `FromTo`, the messages of a sequence from one node to another, is a
  recursive function; its lemmas (an appended message, two sequences in a row, nothing that
  matches) turn each step into an equation between concatenations. A push appends to the box; the
  broker, for each message it reads of a packet and for each acknowledgement, moves messages from one
  of the three places to the next (`PushedOne`, `AcknowledgedOne`, carried over a packet by
  `PacketPushed` and `PacketAcknowledged`); what it does not read of a packet leaves the middle of a
  box (`PushLost`, `LostMiddle`); a packet handed over takes from every sender's box as many messages
  as were read of that sender.
- `MailCounted`: `Spec => []MailInv`, what that needs while the simulation runs: a queue and a
  stream hold messages to their own topic only, and a consumer's socket is its own, so that what
  the broker sends does not go to another node; a node's stream holds its own messages only; it has
  no more under way than it has pushed; and no stream begins inside a message unless packets may
  end inside one (`CutInv`), so that nothing is lost where they do not.
- `RequestsReachTheirService`: `Spec => []RightService`, for any applications on any nodes, any
  services, and any number of sockets and segments. The property speaks of what waits for an
  application; a request gets there through a socket, an order to the proxy, the stream to the
  server's node, a session at the shared port and perhaps the queue of that session, and each of
  these may outlive the application's own view of it. `NetInv` says what each of them may hold.
  `SocketsOK` and `ConnectionsOK`: an application knows its own sockets and, if it is a server,
  those TCP made for a client. `OrdersOK` and `ArrivalsOK`: a client sends requests for its own
  service on its own socket, a server answers and only on the others. `TablesOK`: the table of a
  node lists under a service only servers that offer it. `SessionsOK`: a session is bound to no one
  or to a server that offers what its client asks for, and its queue holds requests of that client
  alone. `SendersOK` is why the first two last: a time-out, a resolution or an execution under way
  sends on a socket opened before, and no server has one; and `DebtsOK`: an answer a server still
  has to give is to a client. `MailOK` is the result.

### The peers (`Peers_proofs`)

- `TablesAgree`: `Spec => []PeersAgree`, and `StopsForAReason`: `Spec => []StopsExplained`, for any
  nodes, services, addresses and number of attempts, a DNS server that answers or not, and packets
  that hold several messages or not. Neither property is inductive: that a timer has its entry needs
  that no address heard of replaces an entry, that `scheduleAfter` finds no timer scheduled needs that
  nothing answered before the introduction ended, and that the other end keeps the connection needs
  to know where its messages are. `PeersInv` has these parts. `Searching`: a node connects
  only while it has an attempt left and no service to wait for. `FirstSearch`: as it looks for peers
  for the first time, an address it tried is in its list no more, so it asks TCP for no connection
  twice. `Connections`: those tried are to other nodes, or to the absent address
  where it is listed. `Tables`: an entry of a node is
  one of its sockets with the address at its other end, no two have the same address, and a timer
  runs for each active peer. `Boxes`: what TCP brings is about a connection that was tried.
  `Introductions`: at either end, the report of the connection here, this end's version there and
  the verack here exclude one another, each is there once at most, and no ping nor answer to one
  comes, and the timer stays idle, until all are read (`InStep`); and an end either keeps the
  connection, has its report waiting or keeps another one to the same peer (`Joined`).
- `InStep` speaks of the two boxes of a connection only through which types of message they hold.
  So the module first proves what a read (of one message, or of all of them when they coalesce) and
  an arrival do to these, for any boxes, and each action of the model is then a read at one end and
  an arrival at either.

### Only model-checked

- Liveness (`SubscriptionEnds`, `EdgeUserServed`, `GeneratedUserAnswered`, `CallsReturn`,
  `LookupEnds`, `ProbesAnswered`, `PeersPing`, the fairness in `MailDelivered`) is out of the
  prover's reach.
- `CoresConserved` speaks of the charges of a whole dispatch at once, so that a proof needs the
  sums along the queue as well as those over the table.
- `ErrorsExplained` and `OneRequestAtATime` of `Services`. They need the life of each socket (who
  opened, accepted and closed it, and in which order) beside what its channels hold.
- `Dns`. Its properties relate what two clients, a resolver and a server hold of a lookup, under a
  network that may do anything; they are next in order.

## What is not modelled, and why

- RAM and disk in the provider's table (never read), statistics, logging, execution times.
- Topic names. The users of a generator address `CloudProvider`; the EdgeUser and the data centres
  `cloudProvider`; the provider listens on the topic its scenario gives it. The models assume
  every message reaches it.
- Renting times: suspension, resumption, extension and deallocation of VMs, and with them
  `SM_AbortCpu`, `stopCpu` and the replay of buffered calls (`Hypervisor.cc:121`).
  `DcHypervisor::handleVmTimeout` has no caller, so no VM of a data centre is ever taken back on
  the deployment path; `confirmNodeDeallocation` is checked in `ResourceManager`, whose
  environment may call it for any VM a node hosts.
- `UserGeneratorCost`, `CloudUserModel` and the agreements of the service levels, the other models
  of a generated user.
- The SQL engine, the data manager and the configuration: they read constants.
- The ledger of `PowP2P` (blocks, transactions, unspent outputs, cryptography): only its tests
  call it.
- Buffers and retransmission of TCP, its ports other than 65535 and the time a closed connection
  lingers: whether the same two ends may be connected again is left open in `Stack`, and in
  `Peers` nobody closes.
- The end of a VM while its applications run, and `stopCpu` on a process that runs: both belong to
  the renting times.
- `SimService` (no scenario uses it), `ServiceRegistrar` (an empty stub), `unregisterService`
  (no caller), `FORMERR` and `NOTIMP` of DNS (nobody provokes them).
- Clients of the message queue that close, and peers that close: none does.
- One hazard has no property: the clash of enumerators at `P2P.cc:90`, which a property would
  only restate. The full tables of a node (`VmControlTable.cc:28`) are reached by no run, because
  what a manager accepts fits, and the proofs about `Host` assume as much (`RequestsFit`).

## What is left

1. `ErrorsExplained` and `OneRequestAtATime` of `Services` for any setups.
2. `AskedOnce` and `LookupTracked` of `Dns`, for any trees and names.
3. `SimService`, the cost model of users and the ledger, should a scenario come to use them.
