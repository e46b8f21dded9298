------------------------------ MODULE NodePool ------------------------------
(***************************************************************************)
(* The counters of the blades of a data centre (NodePool.cc, Node.h), the  *)
(* strategies FirstFit and BestFit that pick a blade for a VM              *)
(* (Strategies.cc, NodeResources.cc), and the placement of a request, a    *)
(* sequence of VM types, one VM after the other (ResourceManager.cc).      *)
(*                                                                         *)
(* A pool maps a node id to its counters.  They are unsigned and wrap      *)
(* (uint32_t in the code, modulo W here).                                  *)
(***************************************************************************)
EXTENDS Naturals, Sequences, FiniteSets

CONSTANTS VmType,     \* VM types
          Needs,      \* VM type -> [cores, disk, mem]
          Strategy,   \* parameter selectionStrategy
          W           \* counters are below W (2^32 in the code)

Counters == [cores : 0..(W - 1), disk : 0..(W - 1), mem : 0..(W - 1),
             vms : 0..(W - 1), users : 0..(W - 1)]

ASSUME PoolConstants ==
  /\ W \in Nat \ {0} /\ IsFiniteSet(VmType)
  /\ Needs \in [VmType -> [cores : 0..(W - 1), disk : 0..(W - 1), mem : 0..(W - 1)]]
  /\ Strategy \in {"FirstFit", "BestFit"}

-----------------------------------------------------------------------------
(* NodePool *)

Minus(a, b) == (a + W - b) % W
Plus(a, b)  == (a + b) % W

allocateResources(pool, n, type) ==
  [pool EXCEPT ![n].cores = Minus(@, Needs[type].cores),
               ![n].disk  = Minus(@, Needs[type].disk),
               ![n].mem   = Minus(@, Needs[type].mem),
               ![n].vms   = Minus(@, 1)]

\* Mutant: the disk is not given back.
deallocateResourcesButDisk(pool, n, type) ==
  [pool EXCEPT ![n].cores = Plus(@, Needs[type].cores),
               ![n].mem   = Plus(@, Needs[type].mem),
               ![n].vms   = Plus(@, 1)]

deallocateResources(pool, n, type) ==
  [pool EXCEPT ![n].cores = Plus(@, Needs[type].cores),
               ![n].disk  = Plus(@, Needs[type].disk),
               ![n].mem   = Plus(@, Needs[type].mem),
               ![n].vms   = Plus(@, 1)]

-----------------------------------------------------------------------------
(* Selection strategies: the set of nodes the strategy may pick *)

hasUserAndVmSpace(node) == node.vms > 0 /\ node.users > 0

\* operator<= compares the tuples (cores, disk, memory) lexicographically.
LexLeq(vm, node) ==
  \/ vm.cores < node.cores
  \/ vm.cores = node.cores /\ vm.disk < node.disk
  \/ vm.cores = node.cores /\ vm.disk = node.disk /\ vm.mem <= node.mem

FirstFit(pool, vm) ==
  {n \in DOMAIN pool :
     /\ LexLeq(vm, pool[n]) /\ hasUserAndVmSpace(pool[n])
     /\ \A m \in 1..(n - 1) : ~(LexLeq(vm, pool[m]) /\ hasUserAndVmSpace(pool[m]))}

\* Mutant: the distance of a resource that is short counts as zero.
ReachableIgnoringMemory(vm, node) ==
  /\ hasUserAndVmSpace(node)
  /\ vm.cores <= node.cores /\ vm.disk <= node.disk

\* getLogicalDistance is DBL_MAX for every other node.
Reachable(vm, node) ==
  /\ hasUserAndVmSpace(node)
  /\ vm.cores <= node.cores /\ vm.disk <= node.disk /\ vm.mem <= node.mem

Distance(vm, node) ==
  (node.cores - vm.cores) + (node.disk - vm.disk) + (node.mem - vm.mem)

\* The nearest node.  An exact match ends the scan, so the first one wins;
\* which of several equally near nodes is at the front of the heap is up to
\* make_heap.
BestFit(pool, vm) ==
  LET near == {n \in DOMAIN pool : Reachable(vm, pool[n])}
  IN  {n \in near :
         /\ \A m \in near : Distance(vm, pool[n]) <= Distance(vm, pool[m])
         /\ Distance(vm, pool[n]) = 0 =>
              \A m \in near : m < n => Distance(vm, pool[m]) # 0}

selectNode(pool, type) ==
  IF Strategy = "FirstFit" THEN FirstFit(pool, Needs[type])
                           ELSE BestFit(pool, Needs[type])

-----------------------------------------------------------------------------
(* allocateVms *)

\* The pools after the first k VMs went to nodes[1..k].
Placing(pool, types, nodes) ==
  LET after[k \in 0..Len(nodes)] ==
        IF k = 0 THEN pool ELSE allocateResources(after[k - 1], nodes[k], types[k])
  IN  after

\* The placements of the first k VMs of a request the strategy can make.
Placements(pool, types, k) ==
  {nodes \in [1..k -> DOMAIN pool] :
     \A i \in 1..k : nodes[i] \in selectNode(Placing(pool, types, nodes)[i - 1], types[i])}

\* Mutant: the roll-back forgets the last record.
RestoringAllButLast(pool, types, nodes) ==
  LET after[k \in 0..Len(nodes)] ==
        IF k = 0 THEN pool
        ELSE IF k = Len(nodes) THEN after[k - 1]
        ELSE deallocateResources(after[k - 1], nodes[k], types[k])
  IN  after[Len(nodes)]

\* The pool after the records of a failed request were given back.
Restoring(pool, types, nodes) ==
  LET after[k \in 0..Len(nodes)] ==
        IF k = 0 THEN pool ELSE deallocateResources(after[k - 1], nodes[k], types[k])
  IN  after[Len(nodes)]

\* Every way to place the whole request: the nodes chosen, one per VM.
Successes(pool, types) == Placements(pool, types, Len(types))

\* Every way to fail: the records made before the VM that found no node.
Failures(pool, types) ==
  UNION {{nodes \in Placements(pool, types, k) :
            selectNode(Placing(pool, types, nodes)[k], types[k + 1]) = {}} :
         k \in 0..(Len(types) - 1)}

=============================================================================
