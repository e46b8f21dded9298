--------------------------- MODULE NodePool_proofs ---------------------------
(***************************************************************************)
(* What the counters of a pool are while the VMs of a request are placed   *)
(* one after the other, and that a roll-back leaves every counter as it    *)
(* was before the request, for any pool and any width of the counters.     *)
(***************************************************************************)
EXTENDS NodePool, DataLemmas

\* The counters a VM changes, and by how much.
Field == {"cores", "disk", "mem", "vms"}
Amount(type, field) == IF field = "vms" THEN 1 ELSE Needs[type][field]

LEMMA AmountType ==
  ASSUME NEW type \in VmType, NEW field \in Field
  PROVE  Amount(type, field) \in 0..W
BY PoolConstants DEF Amount, Field

-----------------------------------------------------------------------------
(* Counters that wrap *)

LEMMA MinusIs ==
  ASSUME NEW a \in 0..(W - 1), NEW d \in 0..W
  PROVE  /\ Minus(a, d) \in 0..(W - 1)
         /\ Minus(a, d) = IF d <= a THEN a - d ELSE a - d + W
<1>1. W \in Nat \ {0}
  BY PoolConstants
<1>2. CASE d <= a
  <2>1. a - d \in 0..(W - 1) /\ a + W - d = (a - d) + W
    BY <1>1, <1>2
  <2>2. ((a - d) + W) % W = a - d
    BY <1>1, <2>1
  <2>. QED  BY <1>2, <2>1, <2>2 DEF Minus
<1>3. CASE ~(d <= a)
  <2>1. a + W - d \in 0..(W - 1) /\ a + W - d = a - d + W
    BY <1>1, <1>3
  <2>2. (a + W - d) % W = a + W - d
    BY <1>1, <2>1
  <2>. QED  BY <1>3, <2>1, <2>2 DEF Minus
<1>. QED  BY <1>2, <1>3

LEMMA PlusIs ==
  ASSUME NEW a \in 0..(W - 1), NEW d \in 0..W
  PROVE  /\ Plus(a, d) \in 0..(W - 1)
         /\ Plus(a, d) = IF a + d < W THEN a + d ELSE a + d - W
<1>1. W \in Nat \ {0}
  BY PoolConstants
<1>2. CASE a + d < W
  <2>1. a + d \in 0..(W - 1)
    BY <1>1, <1>2
  <2>2. (a + d) % W = a + d
    BY <1>1, <2>1
  <2>. QED  BY <1>2, <2>1, <2>2 DEF Plus
<1>3. CASE ~(a + d < W)
  <2>1. a + d - W \in 0..(W - 1) /\ a + d = (a + d - W) + W
    BY <1>1, <1>3
  <2>2. ((a + d - W) + W) % W = a + d - W
    BY <1>1, <2>1
  <2>. QED  BY <1>3, <2>1, <2>2 DEF Plus
<1>. QED  BY <1>2, <1>3

-----------------------------------------------------------------------------
(* One VM *)

\* Placing a VM takes its amounts from the node, and touches no other.
LEMMA AllocateIs ==
  ASSUME NEW N, NEW pool \in [N -> Counters], NEW n \in N, NEW type \in VmType
  PROVE  LET new == allocateResources(pool, n, type)
         IN  /\ new \in [N -> Counters]
             /\ \A m \in N : m # n => new[m] = pool[m]
             /\ \A field \in Field : new[n][field] = Minus(pool[n][field], Amount(type, field))
             /\ \A m \in N : new[m].users = pool[m].users
<1>. DEFINE node == [pool[n] EXCEPT !.cores = Minus(@, Needs[type].cores),
                                    !.disk  = Minus(@, Needs[type].disk),
                                    !.mem   = Minus(@, Needs[type].mem),
                                    !.vms   = Minus(@, 1)]
<1>1. pool[n] \in Counters
  OBVIOUS
<1>2. /\ Minus(pool[n].cores, Needs[type].cores) \in 0..(W - 1)
      /\ Minus(pool[n].disk, Needs[type].disk) \in 0..(W - 1)
      /\ Minus(pool[n].mem, Needs[type].mem) \in 0..(W - 1)
      /\ Minus(pool[n].vms, 1) \in 0..(W - 1)
  <2>1. /\ pool[n].cores \in 0..(W - 1) /\ Needs[type].cores \in 0..W
        /\ pool[n].disk \in 0..(W - 1) /\ Needs[type].disk \in 0..W
        /\ pool[n].mem \in 0..(W - 1) /\ Needs[type].mem \in 0..W
        /\ pool[n].vms \in 0..(W - 1) /\ 1 \in 0..W
    BY PoolConstants, <1>1 DEF Counters
  <2>. QED  BY <2>1, MinusIs
<1>3. /\ node \in Counters
      /\ node.cores = Minus(pool[n].cores, Needs[type].cores)
      /\ node.disk = Minus(pool[n].disk, Needs[type].disk)
      /\ node.mem = Minus(pool[n].mem, Needs[type].mem)
      /\ node.vms = Minus(pool[n].vms, 1)
      /\ node.users = pool[n].users
  BY <1>1, <1>2 DEF Counters
<1>4. allocateResources(pool, n, type) = [pool EXCEPT ![n] = node]
  BY DEF allocateResources
<1>. HIDE DEF node
<1>5. \A field \in Field : node[field] = Minus(pool[n][field], Amount(type, field))
  BY <1>3 DEF Field, Amount
<1>6. \A m \in N : [pool EXCEPT ![n] = node][m].users = pool[m].users
  BY <1>3
<1>. QED  BY <1>3, <1>4, <1>5, <1>6

\* Giving a VM back adds its amounts to the node, and touches no other.
LEMMA DeallocateIs ==
  ASSUME NEW N, NEW pool \in [N -> Counters], NEW n \in N, NEW type \in VmType
  PROVE  LET new == deallocateResources(pool, n, type)
         IN  /\ new \in [N -> Counters]
             /\ \A m \in N : m # n => new[m] = pool[m]
             /\ \A field \in Field : new[n][field] = Plus(pool[n][field], Amount(type, field))
             /\ \A m \in N : new[m].users = pool[m].users
<1>. DEFINE node == [pool[n] EXCEPT !.cores = Plus(@, Needs[type].cores),
                                    !.disk  = Plus(@, Needs[type].disk),
                                    !.mem   = Plus(@, Needs[type].mem),
                                    !.vms   = Plus(@, 1)]
<1>1. pool[n] \in Counters
  OBVIOUS
<1>2. /\ Plus(pool[n].cores, Needs[type].cores) \in 0..(W - 1)
      /\ Plus(pool[n].disk, Needs[type].disk) \in 0..(W - 1)
      /\ Plus(pool[n].mem, Needs[type].mem) \in 0..(W - 1)
      /\ Plus(pool[n].vms, 1) \in 0..(W - 1)
  <2>1. /\ pool[n].cores \in 0..(W - 1) /\ Needs[type].cores \in 0..W
        /\ pool[n].disk \in 0..(W - 1) /\ Needs[type].disk \in 0..W
        /\ pool[n].mem \in 0..(W - 1) /\ Needs[type].mem \in 0..W
        /\ pool[n].vms \in 0..(W - 1) /\ 1 \in 0..W
    BY PoolConstants, <1>1 DEF Counters
  <2>. QED  BY <2>1, PlusIs
<1>3. /\ node \in Counters
      /\ node.cores = Plus(pool[n].cores, Needs[type].cores)
      /\ node.disk = Plus(pool[n].disk, Needs[type].disk)
      /\ node.mem = Plus(pool[n].mem, Needs[type].mem)
      /\ node.vms = Plus(pool[n].vms, 1)
      /\ node.users = pool[n].users
  BY <1>1, <1>2 DEF Counters
<1>4. deallocateResources(pool, n, type) = [pool EXCEPT ![n] = node]
  BY DEF deallocateResources
<1>. HIDE DEF node
<1>5. \A field \in Field : node[field] = Plus(pool[n][field], Amount(type, field))
  BY <1>3 DEF Field, Amount
<1>6. \A m \in N : [pool EXCEPT ![n] = node][m].users = pool[m].users
  BY <1>3
<1>. QED  BY <1>3, <1>4, <1>5, <1>6

-----------------------------------------------------------------------------
(* The VMs of a request, one after the other *)

\* The recursion Placing and Restoring unfold to.
PlacingFrom(f, pool, types, nodes, n) ==
  f = [k \in 0..n |->
         IF k = 0 THEN pool ELSE allocateResources(f[k - 1], nodes[k], types[k])]

RestoringFrom(f, pool, types, nodes, n) ==
  f = [k \in 0..n |->
         IF k = 0 THEN pool ELSE deallocateResources(f[k - 1], nodes[k], types[k])]

\* The length of a sequence of chosen nodes.
LEMMA NodesLen ==
  ASSUME NEW k \in Nat, NEW N, NEW nodes \in [1..k -> N]
  PROVE  Len(nodes) = k /\ DOMAIN nodes = 1..k
OBVIOUS

\* The first k VMs of a request, and a node of N for each.
IsChoice(types, nodes, k, N) ==
  k \in Nat /\ nodes \in [1..k -> N] /\ \A i \in 1..k : types[i] \in VmType

\* The pools of a placement: each is that before it less one VM.
IsPlacement(P, N, pool, types, nodes, k) ==
  /\ P \in [0..k -> [N -> Counters]]
  /\ P[0] = pool
  /\ \A i \in 1..k : P[i] = allocateResources(P[i - 1], nodes[i], types[i])

\* The pools of a roll-back: each is that before it and one VM more.
IsRollBack(R, N, pool, types, nodes, k) ==
  /\ R \in [0..k -> [N -> Counters]]
  /\ R[0] = pool
  /\ \A i \in 1..k : R[i] = deallocateResources(R[i - 1], nodes[i], types[i])

\* Placing a request goes through such pools.
LEMMA PlacingIs ==
  ASSUME NEW N, NEW pool \in [N -> Counters], NEW types, NEW nodes, NEW k,
         IsChoice(types, nodes, k, N)
  PROVE  IsPlacement(Placing(pool, types, nodes), N, pool, types, nodes, k)
<1>. k \in Nat /\ nodes \in [1..k -> N] /\ \A i \in 1..k : types[i] \in VmType
  BY DEF IsChoice
<1>. DEFINE Pools == [N -> Counters]
            step == [i \in 1..k |-> [p \in Pools |-> allocateResources(p, nodes[i], types[i])]]
<1>1. step \in [1..k -> [Pools -> Pools]]
  BY AllocateIs
<1>2. PICK f \in [0..k -> Pools] : IsIteration(f, k, pool, step)
  <2>. HIDE DEF step, Pools
  <2>1. pool \in Pools
    BY DEF Pools
  <2>. QED  BY <1>1, <2>1, IterationExists
<1>3. \A i \in 0..k : f[i] = IF i = 0 THEN pool ELSE step[i][f[i - 1]]
  BY <1>2 DEF IsIteration
<1>4. \A i \in 0..k : f[i] = IF i = 0 THEN pool ELSE allocateResources(f[i - 1], nodes[i], types[i])
  <2>. TAKE i \in 0..k
  <2>1. CASE i # 0
    <3>1. i \in 1..k /\ i - 1 \in 0..k
      BY <2>1
    <3>2. f[i - 1] \in Pools
      BY <3>1
    <3>3. step[i][f[i - 1]] = allocateResources(f[i - 1], nodes[i], types[i])
      <4>. HIDE DEF Pools
      <4>. QED  BY <3>1, <3>2
    <3>. HIDE DEF step
    <3>. QED  BY <1>3, <2>1, <3>3
  <2>2. CASE i = 0
    BY <1>3, <2>2
  <2>. QED  BY <2>1, <2>2
<1>5. PlacingFrom(f, pool, types, nodes, k)
  BY <1>4 DEF PlacingFrom
<1>. DEFINE P == Placing(pool, types, nodes)
<1>6. PlacingFrom(P, pool, types, nodes, k)
  <2>1. P = CHOOSE g : PlacingFrom(g, pool, types, nodes, k)
    BY NodesLen DEF Placing, PlacingFrom
  <2>. HIDE DEF P
  <2>. QED  BY <1>5, <2>1
<1>7. P = f
  <2>. HIDE DEF P
  <2>. DEFINE Good == {i \in 0..k : P[i] = f[i]}
  <2>1. \A i \in 0..k : P[i] = IF i = 0 THEN pool ELSE allocateResources(P[i - 1], nodes[i], types[i])
    BY <1>6 DEF PlacingFrom
  <2>2. 0 \in Good
    BY <1>4, <2>1
  <2>3. \A i \in 1..k : i - 1 \in Good => i \in Good
    BY <1>4, <2>1
  <2>4. 0..k \subseteq Good
    <3>. HIDE DEF Good
    <3>. QED  BY <2>2, <2>3, BoundedInduction
  <2>5. P = [i \in 0..k |-> P[i]]
    BY <1>6 DEF PlacingFrom
  <2>. QED  BY <2>4, <2>5
<1>8. P[0] = pool /\ \A i \in 1..k : P[i] = allocateResources(P[i - 1], nodes[i], types[i])
  <2>. HIDE DEF P
  <2>. QED  BY <1>4, <1>7
<1>. HIDE DEF P
<1>. QED  BY <1>7, <1>8 DEF P, IsPlacement

\* Giving the VMs back goes through such pools, the last one its result.
LEMMA RestoringIs ==
  ASSUME NEW N, NEW pool \in [N -> Counters], NEW types, NEW nodes, NEW k,
         IsChoice(types, nodes, k, N)
  PROVE  \E R : /\ IsRollBack(R, N, pool, types, nodes, k)
                /\ Restoring(pool, types, nodes) = R[k]
<1>. k \in Nat /\ nodes \in [1..k -> N] /\ \A i \in 1..k : types[i] \in VmType
  BY DEF IsChoice
<1>. DEFINE Pools == [N -> Counters]
            step == [i \in 1..k |-> [p \in Pools |-> deallocateResources(p, nodes[i], types[i])]]
<1>1. step \in [1..k -> [Pools -> Pools]]
  BY DeallocateIs
<1>2. PICK f \in [0..k -> Pools] : IsIteration(f, k, pool, step)
  <2>. HIDE DEF step, Pools
  <2>1. pool \in Pools
    BY DEF Pools
  <2>. QED  BY <1>1, <2>1, IterationExists
<1>3. \A i \in 0..k : f[i] = IF i = 0 THEN pool ELSE step[i][f[i - 1]]
  BY <1>2 DEF IsIteration
<1>4. \A i \in 0..k : f[i] = IF i = 0 THEN pool ELSE deallocateResources(f[i - 1], nodes[i], types[i])
  <2>. TAKE i \in 0..k
  <2>1. CASE i # 0
    <3>1. i \in 1..k /\ i - 1 \in 0..k
      BY <2>1
    <3>2. f[i - 1] \in Pools
      BY <3>1
    <3>3. step[i][f[i - 1]] = deallocateResources(f[i - 1], nodes[i], types[i])
      <4>. HIDE DEF Pools
      <4>. QED  BY <3>1, <3>2
    <3>. HIDE DEF step
    <3>. QED  BY <1>3, <2>1, <3>3
  <2>2. CASE i = 0
    BY <1>3, <2>2
  <2>. QED  BY <2>1, <2>2
<1>5. RestoringFrom(f, pool, types, nodes, k)
  BY <1>4 DEF RestoringFrom
<1>. DEFINE R == CHOOSE g : RestoringFrom(g, pool, types, nodes, k)
<1>6. RestoringFrom(R, pool, types, nodes, k)
  BY <1>5
<1>7. Restoring(pool, types, nodes) = R[k]
  BY NodesLen DEF Restoring, RestoringFrom
<1>. HIDE DEF R
<1>8. R = f
  <2>. DEFINE Good == {i \in 0..k : R[i] = f[i]}
  <2>1. \A i \in 0..k : R[i] = IF i = 0 THEN pool ELSE deallocateResources(R[i - 1], nodes[i], types[i])
    BY <1>6 DEF RestoringFrom
  <2>2. 0 \in Good
    BY <1>4, <2>1
  <2>3. \A i \in 1..k : i - 1 \in Good => i \in Good
    BY <1>4, <2>1
  <2>4. 0..k \subseteq Good
    <3>. HIDE DEF Good
    <3>. QED  BY <2>2, <2>3, BoundedInduction
  <2>5. R = [i \in 0..k |-> R[i]]
    BY <1>6 DEF RestoringFrom
  <2>. QED  BY <2>4, <2>5
<1>9. f[0] = pool /\ \A i \in 1..k : f[i] = deallocateResources(f[i - 1], nodes[i], types[i])
  BY <1>4
<1>10. IsRollBack(f, N, pool, types, nodes, k)
  BY <1>9 DEF IsRollBack
<1>. QED  BY <1>7, <1>8, <1>10

-----------------------------------------------------------------------------
(* Roll-back *)

\* What one VM placed, and one given back, does to each counter of each node.
Taken(P, types, nodes, k, N) ==
  \A i \in 1..k, n \in N :
    /\ n # nodes[i] => P[i][n] = P[i - 1][n]
    /\ n = nodes[i] => \A field \in Field :
         P[i][n][field] = Minus(P[i - 1][n][field], Amount(types[i], field))
    /\ P[i][n].users = P[i - 1][n].users

Returned(R, types, nodes, k, N) ==
  \A i \in 1..k, n \in N :
    /\ n # nodes[i] => R[i][n] = R[i - 1][n]
    /\ n = nodes[i] => \A field \in Field :
         R[i][n][field] = Plus(R[i - 1][n][field], Amount(types[i], field))
    /\ R[i][n].users = R[i - 1][n].users

LEMMA PlacementSteps ==
  ASSUME NEW N, NEW pool, NEW types, NEW nodes, NEW k, IsChoice(types, nodes, k, N),
         NEW P, IsPlacement(P, N, pool, types, nodes, k)
  PROVE  Taken(P, types, nodes, k, N)
<1>. USE DEF Taken
<1>. TAKE i \in 1..k, n \in N
<1>. k \in Nat
  BY DEF IsChoice
<1>. DEFINE p == P[i - 1]
            m == nodes[i]
            type == types[i]
<1>1. p \in [N -> Counters] /\ m \in N /\ type \in VmType
  BY DEF IsPlacement, IsChoice
<1>2. P[i] = allocateResources(p, m, type)
  BY DEF IsPlacement
<1>. HIDE DEF p, m, type
<1>3. n # m => P[i][n] = p[n]
  BY <1>1, <1>2, AllocateIs
<1>4. n = m => \A field \in Field : P[i][n][field] = Minus(p[n][field], Amount(type, field))
  BY <1>1, <1>2, AllocateIs
<1>5. P[i][n].users = p[n].users
  BY <1>1, <1>2, AllocateIs
<1>. QED  BY <1>3, <1>4, <1>5 DEF p, m, type

LEMMA RollBackSteps ==
  ASSUME NEW N, NEW pool, NEW types, NEW nodes, NEW k, IsChoice(types, nodes, k, N),
         NEW R, IsRollBack(R, N, pool, types, nodes, k)
  PROVE  Returned(R, types, nodes, k, N)
<1>. USE DEF Returned
<1>. TAKE i \in 1..k, n \in N
<1>. k \in Nat
  BY DEF IsChoice
<1>. DEFINE r == R[i - 1]
            m == nodes[i]
            type == types[i]
<1>1. r \in [N -> Counters] /\ m \in N /\ type \in VmType
  BY DEF IsRollBack, IsChoice
<1>2. R[i] = deallocateResources(r, m, type)
  BY DEF IsRollBack
<1>. HIDE DEF r, m, type
<1>3. n # m => R[i][n] = r[n]
  BY <1>1, <1>2, DeallocateIs
<1>4. n = m => \A field \in Field : R[i][n][field] = Plus(r[n][field], Amount(type, field))
  BY <1>1, <1>2, DeallocateIs
<1>5. R[i][n].users = r[n].users
  BY <1>1, <1>2, DeallocateIs
<1>. QED  BY <1>3, <1>4, <1>5 DEF r, m, type

\* Counters are below W.
LEMMA CounterRange ==
  ASSUME NEW N, NEW pool \in [N -> Counters], NEW n \in N, NEW field \in Field
  PROVE  pool[n][field] \in 0..(W - 1)
<1>1. pool[n] \in Counters
  OBVIOUS
<1>. QED  BY <1>1 DEF Counters, Field

\* One VM placed and the same or another given back keep the sum of two
\* counters, but for a wrap of each.
LEMMA SumKept ==
  ASSUME NEW p \in 0..(W - 1), NEW r \in 0..(W - 1), NEW d \in 0..W,
         NEW c \in 0..(2 * W - 2), r + p \in {c - W, c, c + W}
  PROVE  Plus(r, d) + Minus(p, d) \in {c - W, c, c + W}
<1>1. W \in Nat \ {0}
  BY PoolConstants
<1>2. Minus(p, d) \in {p - d, p - d + W} /\ Minus(p, d) \in 0..(W - 1)
  BY MinusIs
<1>3. Plus(r, d) \in {r + d, r + d - W} /\ Plus(r, d) \in 0..(W - 1)
  BY PlusIs
<1>4. \A x, y \in Int :
        /\ x \in {r + d, r + d - W} /\ x \in 0..(W - 1)
        /\ y \in {p - d, p - d + W} /\ y \in 0..(W - 1)
        => x + y \in {c - W, c, c + W}
  BY <1>1
<1>5. Plus(r, d) \in Int /\ Minus(p, d) \in Int
  BY <1>1, <1>2, <1>3
<1>. QED  BY <1>2, <1>3, <1>4, <1>5

\* Of any counter, what was placed after j VMs and what was given back after
\* j add up to the counter before and after the placement, but for the wraps.
LEMMA RollBackCounter ==
  ASSUME NEW N, NEW pool, NEW types, NEW nodes, NEW k,
         IsChoice(types, nodes, k, N),
         NEW P, IsPlacement(P, N, pool, types, nodes, k),
         NEW R, IsRollBack(R, N, P[k], types, nodes, k)
  PROVE  \A n \in N, field \in Field :
           R[k][n][field] = pool[n][field] /\ R[k][n].users = pool[n].users
<1>. TAKE n \in N, field \in Field
<1>. k \in Nat /\ nodes \in [1..k -> N] /\ \A i \in 1..k : types[i] \in VmType
  BY DEF IsChoice
<1>. DEFINE placed(j) == P[j][n][field]
            back(j) == R[j][n][field]
            C == placed(0) + placed(k)
            Good == {j \in 0..k : back(j) + placed(j) \in {C - W, C, C + W}}
<1>0. W \in Nat \ {0} /\ 0 \in 0..k /\ k \in 0..k
  BY PoolConstants
<1>1. \A j \in 0..k : placed(j) \in 0..(W - 1) /\ back(j) \in 0..(W - 1)
  <2>. TAKE j \in 0..k
  <2>1. P[j] \in [N -> Counters] /\ R[j] \in [N -> Counters]
    BY DEF IsPlacement, IsRollBack
  <2>. QED  BY <2>1, CounterRange
<1>2. C \in 0..(2 * W - 2)
  <2>. HIDE DEF placed
  <2>. QED  BY <1>0, <1>1
<1>3. back(0) = placed(k)
  BY DEF IsRollBack
<1>4. 0 \in Good
  <2>. HIDE DEF placed, back
  <2>. QED  BY <1>0, <1>1, <1>3
<1>. DEFINE d(i) == Amount(types[i], field)
<1>5. Taken(P, types, nodes, k, N) /\ Returned(R, types, nodes, k, N)
  BY PlacementSteps, RollBackSteps
<1>6. \A i \in 1..k : n # nodes[i] => placed(i) = placed(i - 1) /\ back(i) = back(i - 1)
  BY <1>5 DEF Taken, Returned
<1>7. \A i \in 1..k : n = nodes[i] => placed(i) = Minus(placed(i - 1), d(i))
  BY <1>5 DEF Taken
<1>8. \A i \in 1..k : n = nodes[i] => back(i) = Plus(back(i - 1), d(i))
  BY <1>5 DEF Returned
<1>9. \A i \in 1..k : i - 1 \in Good => i \in Good
  <2>. TAKE i \in 1..k
  <2>. HAVE i - 1 \in Good
  <2>1. i \in 0..k /\ i - 1 \in 0..k
    OBVIOUS
  <2>2. CASE n # nodes[i]
    <3>1. placed(i) = placed(i - 1) /\ back(i) = back(i - 1)
      BY <1>6, <2>2
    <3>. HIDE DEF placed, back, C
    <3>. QED  BY <2>1, <3>1
  <2>3. CASE n = nodes[i]
    <3>1. d(i) \in 0..W
      BY AmountType
    <3>2. placed(i) = Minus(placed(i - 1), d(i)) /\ back(i) = Plus(back(i - 1), d(i))
      BY <1>7, <1>8, <2>3
    <3>3. back(i - 1) + placed(i - 1) \in {C - W, C, C + W}
      OBVIOUS
    <3>. HIDE DEF placed, back, C, d
    <3>4. back(i) + placed(i) \in {C - W, C, C + W}
      BY <1>1, <1>2, <2>1, <3>1, <3>2, <3>3, SumKept
    <3>. QED  BY <2>1, <3>4
  <2>. QED  BY <2>2, <2>3
<1>10. k \in Good
  <2>1. 0..k \subseteq Good
    <3>. HIDE DEF Good
    <3>. QED  BY <1>4, <1>9, BoundedInduction
  <2>. QED  BY <1>0, <2>1
<1>11. back(k) = placed(0)
  <2>. HIDE DEF placed, back
  <2>. QED  BY <1>0, <1>1, <1>10
<1>. DEFINE SameUsers == {j \in 0..k : P[j][n].users = P[0][n].users}
            SameUsersBack == {j \in 0..k : R[j][n].users = R[0][n].users}
<1>12. \A i \in 1..k : P[i][n].users = P[i - 1][n].users /\ R[i][n].users = R[i - 1][n].users
  BY <1>5 DEF Taken, Returned
<1>13. k \in SameUsers
  <2>1. 0 \in SameUsers /\ \A i \in 1..k : i - 1 \in SameUsers => i \in SameUsers
    BY <1>0, <1>12
  <2>2. 0..k \subseteq SameUsers
    <3>. HIDE DEF SameUsers
    <3>. QED  BY <2>1, BoundedInduction
  <2>. QED  BY <1>0, <2>2
<1>14. k \in SameUsersBack
  <2>1. 0 \in SameUsersBack /\ \A i \in 1..k : i - 1 \in SameUsersBack => i \in SameUsersBack
    BY <1>0, <1>12
  <2>2. 0..k \subseteq SameUsersBack
    <3>. HIDE DEF SameUsersBack
    <3>. QED  BY <2>1, BoundedInduction
  <2>. QED  BY <1>0, <2>2
<1>15. P[0] = pool /\ R[0] = P[k]
  BY DEF IsPlacement, IsRollBack
<1>. QED  BY <1>11, <1>13, <1>14, <1>15

\* Giving the records of a failed request back leaves the pool it found,
\* though the roll-back goes through them in the order of the placement.
LEMMA RollBackRestores ==
  ASSUME NEW N, NEW pool \in [N -> Counters], NEW types, NEW nodes, NEW k,
         IsChoice(types, nodes, k, N)
  PROVE  Restoring(Placing(pool, types, nodes)[k], types, nodes) = pool
<1>. k \in Nat /\ nodes \in [1..k -> N] /\ \A i \in 1..k : types[i] \in VmType
  BY DEF IsChoice
<1>. DEFINE P == Placing(pool, types, nodes)
<1>1. IsPlacement(P, N, pool, types, nodes, k)
  BY PlacingIs
<1>. HIDE DEF P
<1>2. P[k] \in [N -> Counters]
  BY <1>1 DEF IsPlacement
<1>3. PICK R : /\ IsRollBack(R, N, P[k], types, nodes, k)
               /\ Restoring(P[k], types, nodes) = R[k]
  BY <1>2, RestoringIs
<1>4. \A n \in N, field \in Field :
        R[k][n][field] = pool[n][field] /\ R[k][n].users = pool[n].users
  BY <1>1, <1>3, RollBackCounter
<1>5. R[k] \in [N -> Counters]
  BY <1>3 DEF IsRollBack
<1>6. \A n \in N : R[k][n] = pool[n]
  <2>. TAKE n \in N
  <2>1. R[k][n] \in Counters /\ pool[n] \in Counters
    BY <1>5
  <2>2. /\ R[k][n].cores = pool[n].cores /\ R[k][n].disk = pool[n].disk
        /\ R[k][n].mem = pool[n].mem /\ R[k][n].vms = pool[n].vms
        /\ R[k][n].users = pool[n].users
    BY <1>4 DEF Field
  <2>. DEFINE r == R[k][n]
              q == pool[n]
  <2>3. r = q
    <3>. HIDE DEF r, q
    <3>1. /\ r = [cores |-> r.cores, disk |-> r.disk, mem |-> r.mem, vms |-> r.vms, users |-> r.users]
          /\ q = [cores |-> q.cores, disk |-> q.disk, mem |-> q.mem, vms |-> q.vms, users |-> q.users]
      BY <2>1 DEF Counters, r, q
    <3>. QED  BY <2>2, <3>1 DEF r, q
  <2>. QED  BY <2>3
<1>7. R[k] = pool
  BY <1>5, <1>6
<1>. QED  BY <1>3, <1>7 DEF P

-----------------------------------------------------------------------------
(* BestFit takes only what is free *)

\* BestFit only picks nodes that have what the VM needs.
LEMMA BestFitFits ==
  ASSUME Strategy = "BestFit", NEW N, NEW p \in [N -> Counters], NEW type \in VmType,
         NEW n \in selectNode(p, type)
  PROVE  n \in N /\ \A field \in Field : Amount(type, field) <= p[n][field]
<1>1. n \in BestFit(p, Needs[type])
  BY DEF selectNode
<1>2. n \in N /\ Reachable(Needs[type], p[n])
  BY <1>1 DEF BestFit
<1>3. p[n] \in Counters /\ p[n].vms \in Nat
  BY <1>2, PoolConstants DEF Counters
<1>4. 1 <= p[n].vms /\ Needs[type].cores <= p[n].cores /\ Needs[type].disk <= p[n].disk
      /\ Needs[type].mem <= p[n].mem
  BY <1>2, <1>3 DEF Reachable, hasUserAndVmSpace
<1>. QED  BY <1>2, <1>4 DEF Field, Amount

\* The VMs of a request on a node.
On(nodes, k, n) == {i \in 1..k : nodes[i] = n}

\* What the VMs i \in S of a request need.
Needed(types, S, field) == SumFunction([i \in S |-> Needs[types[i]][field]])

OfVms(types, S) == IsFiniteSet(S) /\ \A i \in S : types[i] \in VmType

LEMMA NeededType ==
  ASSUME NEW types, NEW S, OfVms(types, S),
         NEW field \in Field \ {"vms"}
  PROVE  Needed(types, S, field) \in Nat
<1>. DEFINE f == [i \in S |-> Needs[types[i]][field]]
<1>1. f \in [S -> Nat]
  <2>1. \A t \in VmType : Needs[t][field] \in Nat
    BY PoolConstants DEF Field
  <2>. QED  BY <2>1 DEF OfVms
<1>. HIDE DEF f
<1>2. SumFunction(f) \in Nat
  BY <1>1, SumType DEF OfVms
<1>. QED  BY <1>2 DEF Needed, f

LEMMA NeededMore ==
  ASSUME NEW types, NEW S, OfVms(types, S),
         NEW a \in S, NEW field \in Field \ {"vms"}
  PROVE  Needed(types, S, field) = Needs[types[a]][field] + Needed(types, S \ {a}, field)
<1>. DEFINE f == [i \in S |-> Needs[types[i]][field]]
            g == [i \in S \ {a} |-> f[i]]
<1>1. f \in [S -> Nat]
  <2>1. \A t \in VmType : Needs[t][field] \in Nat
    BY PoolConstants DEF Field
  <2>. QED  BY <2>1 DEF OfVms
<1>2. g = [i \in S \ {a} |-> Needs[types[i]][field]] /\ f[a] = Needs[types[a]][field]
  OBVIOUS
<1>3. SumFunction(f) = f[a] + SumFunction([i \in S \ {a} |-> f[i]])
  <2>. HIDE DEF f
  <2>. QED  BY <1>1, SumSplit DEF OfVms
<1>4. SumFunction(f) = f[a] + SumFunction(g)
  BY <1>3
<1>. HIDE DEF f, g
<1>. QED  BY <1>2, <1>4 DEF Needed, f

\* The strategy picks every node of a placement.
Picked(P, types, nodes, k) == \A i \in 1..k : nodes[i] \in selectNode(P[i - 1], types[i])

\* What is left on a node and what the VMs placed on it need add up to what
\* was free on it, without a wrap.
LEMMA PlacedExactly ==
  ASSUME Strategy = "BestFit", NEW N, NEW pool \in [N -> Counters], NEW types, NEW nodes, NEW k,
         IsChoice(types, nodes, k, N),
         NEW P, IsPlacement(P, N, pool, types, nodes, k), Picked(P, types, nodes, k),
         NEW n \in N, NEW field \in Field \ {"vms"}
  PROVE  P[k][n][field] + Needed(types, On(nodes, k, n), field) = pool[n][field]
<1>. DEFINE placed(j) == P[j][n][field]
            part(j) == Needed(types, On(nodes, j, n), field)
            Good == {j \in 0..k : placed(j) + part(j) = pool[n][field]}
<1>0. /\ k \in Nat /\ 0 \in 0..k /\ k \in 0..k /\ nodes \in [1..k -> N]
      /\ \A i \in 1..k : types[i] \in VmType
  BY DEF IsChoice
<1>1. Taken(P, types, nodes, k, N)
  BY PlacementSteps
<1>2. P[0] = pool
  BY DEF IsPlacement
<1>3. \A j \in 0..k : P[j] \in [N -> Counters]
  BY DEF IsPlacement
<1>4. \A j \in 0..k : placed(j) \in 0..(W - 1)
  BY <1>3, CounterRange
<1>5. \A j \in 0..k : part(j) \in Nat
  <2>. TAKE j \in 0..k
  <2>1. OfVms(types, On(nodes, j, n))
    <3>1. IsFiniteSet(1..j)
      BY <1>0, FS_Interval
    <3>. QED  BY <1>0, <3>1, FS_Subset DEF On, OfVms
  <2>. QED  BY <2>1, NeededType
<1>6. 0 \in Good
  <2>1. On(nodes, 0, n) = {}
    BY <1>0 DEF On
  <2>. DEFINE f == [i \in {} |-> Needs[types[i]][field]]
  <2>2. SumFunction(f) = 0
    <3>1. f = [i \in {} |-> f[i]]
      OBVIOUS
    <3>. HIDE DEF f
    <3>. QED  BY <3>1, SumOfNothing
  <2>3. part(0) = 0
    BY <2>1, <2>2 DEF Needed
  <2>4. placed(0) = pool[n][field]
    BY <1>2
  <2>5. pool[n][field] \in Nat
    BY CounterRange, PoolConstants
  <2>. HIDE DEF placed, part
  <2>. QED  BY <1>0, <2>3, <2>4, <2>5
<1>7. \A j \in 1..k : j - 1 \in Good => j \in Good
  <2>. SUFFICES ASSUME NEW j \in 1..k, placed(j - 1) + part(j - 1) = pool[n][field]
                PROVE  placed(j) + part(j) = pool[n][field]
    <3>1. \A j \in 1..k : j \in 0..k
      BY <1>0
    <3>. QED  BY <3>1
  <2>0. j \in 0..k /\ j - 1 \in 0..k
    BY <1>0
  <2>1. CASE nodes[j] # n
    <3>1. On(nodes, j, n) = On(nodes, j - 1, n)
      BY <1>0, <2>1 DEF On
    <3>2. placed(j) = placed(j - 1)
      BY <1>1, <2>1 DEF Taken
    <3>. HIDE DEF placed
    <3>. QED  BY <3>1, <3>2
  <2>2. CASE nodes[j] = n
    <3>. DEFINE a == Needs[types[j]][field]
    <3>1. On(nodes, j, n) \ {j} = On(nodes, j - 1, n) /\ j \in On(nodes, j, n)
      BY <1>0, <2>2 DEF On
    <3>2. OfVms(types, On(nodes, j, n))
      <4>1. IsFiniteSet(1..j)
        BY <1>0, FS_Interval
      <4>. QED  BY <1>0, <4>1, FS_Subset DEF On, OfVms
    <3>3. part(j) = a + part(j - 1)
      <4>. DEFINE S == On(nodes, j, n)
      <4>1. OfVms(types, S) /\ j \in S
        BY <3>1, <3>2
      <4>. HIDE DEF S
      <4>2. Needed(types, S, field) = Needs[types[j]][field] + Needed(types, S \ {j}, field)
        BY <4>1, NeededMore
      <4>. QED  BY <3>1, <4>2 DEF S
    <3>4. types[j] \in VmType /\ Amount(types[j], field) = a /\ field \in Field /\ a \in 0..W
      <4>1. types[j] \in VmType /\ Amount(types[j], field) = a /\ field \in Field
        BY <1>0 DEF Amount
      <4>. QED  BY <4>1, AmountType
    <3>5. placed(j) = Minus(placed(j - 1), a)
      BY <1>1, <2>2, <3>4 DEF Taken
    <3>6. a <= placed(j - 1)
      <4>. DEFINE p == P[j - 1]
      <4>1. p \in [N -> Counters] /\ n \in selectNode(p, types[j])
        BY <1>3, <2>0, <2>2 DEF Picked
      <4>. HIDE DEF p
      <4>2. Amount(types[j], field) <= p[n][field]
        BY <3>4, <4>1, BestFitFits
      <4>. QED  BY <3>4, <4>2 DEF p
    <3>. HIDE DEF placed, part, a
    <3>7. Minus(placed(j - 1), a) = placed(j - 1) - a
      BY <1>4, <2>0, <3>4, <3>6, MinusIs
    <3>8. a \in Nat
      BY <3>4, PoolConstants
    <3>9. placed(j - 1) \in Nat /\ part(j - 1) \in Nat
      BY <1>4, <1>5, <2>0, PoolConstants
    <3>. QED  BY <3>3, <3>5, <3>7, <3>8, <3>9
  <2>. QED  BY <2>1, <2>2
<1>8. k \in Good
  <2>1. 0..k \subseteq Good
    <3>. HIDE DEF Good
    <3>. QED  BY <1>0, <1>6, <1>7, BoundedInduction
  <2>. QED  BY <1>0, <2>1
<1>. QED  BY <1>8

=============================================================================
