--------------------------- MODULE ResourceManager ---------------------------
(***************************************************************************)
(* One data centre's ResourceManager: VM requests are placed on the nodes  *)
(* of its pool as a whole or not at all, and a hypervisor that freed a VM  *)
(* gives its resources back.                                               *)
(*                                                                         *)
(* Requests are any sequences of at most MaxVms types, at any time; the    *)
(* nodes are registered before the first request (init stage BLADE).       *)
(***************************************************************************)
EXTENDS NodePool, Functions

CONSTANTS Capacity,   \* the pool after every node was added
          MaxVms      \* VMs of one request (a bound)

ASSUME ManagerConstants == Capacity \in Seq(Counters) /\ MaxVms \in Nat

VARIABLES pool,     \* availableResources of each node
          hosted    \* history: how many VMs of each type each node was
                    \* granted and has not given back

vars == <<pool, hosted>>

Node == DOMAIN Capacity

Init ==
  /\ pool = Capacity
  /\ hosted = [n \in Node |-> [t \in VmType |-> 0]]

\* VMs of type t that a placement puts on node n.
Count(types, nodes, n, t) ==
  Cardinality({i \in DOMAIN types : nodes[i] = n /\ types[i] = t})

allocateVms(types) ==
  \/ \E nodes \in Successes(pool, types) :
       /\ pool' = Placing(pool, types, nodes)[Len(types)]
       /\ hosted' = [n \in Node |-> [t \in VmType |->
                       hosted[n][t] + Count(types, nodes, n, t)]]
  \/ \E nodes \in Failures(pool, types) :
       /\ pool' = Restoring(Placing(pool, types, nodes)[Len(nodes)], types, nodes)
       /\ UNCHANGED hosted

\* Mutant: a VM can be confirmed freed twice.
confirmNodeDeallocationAgain(n, type) ==
  /\ pool' = deallocateResources(pool, n, type)
  /\ hosted' = [hosted EXCEPT ![n][type] = @ - 1]

\* Called by the hypervisor of node n when it freed a VM it hosts.
confirmNodeDeallocation(n, type) ==
  /\ hosted[n][type] > 0
  /\ pool' = deallocateResources(pool, n, type)
  /\ hosted' = [hosted EXCEPT ![n][type] = @ - 1]

VmRequests == UNION {[1..k -> VmType] : k \in 1..MaxVms}

Next ==
  \/ \E types \in VmRequests : allocateVms(types)
  \/ \E n \in Node, type \in VmType : confirmNodeDeallocation(n, type)

Spec == Init /\ [][Next]_vars

-----------------------------------------------------------------------------
(* Properties *)

TypeOK ==
  /\ pool \in [Node -> Counters]
  /\ hosted \in [Node -> [VmType -> Nat]]

\* What the VMs on node n use of one resource.
Used(n, field) == SumFunction([t \in VmType |-> hosted[n][t] * Needs[t][field]])

\* The counters always tell what is free: capacity less what was granted and
\* not given back (modulo the width of the counters), whatever placements
\* failed half-way in between.
PoolMatchesHosted ==
  \A n \in Node :
    /\ \A field \in {"cores", "disk", "mem"} :
         (pool[n][field] + Used(n, field)) % W = Capacity[n][field]
    /\ (pool[n].vms + SumFunction(hosted[n])) % W = Capacity[n].vms

\* A node is never promised to more VMs than it can hold, in any resource.
NoOvercommit ==
  \A n \in Node :
    /\ \A field \in {"cores", "disk", "mem"} : Used(n, field) <= Capacity[n][field]
    /\ SumFunction(hosted[n]) <= Capacity[n].vms

\* A request that is not granted as a whole leaves nothing allocated.
AllOrNothing ==
  [][hosted' = hosted => pool' = pool]_vars

=============================================================================
