----------------------- MODULE ResourceManager_proofs -----------------------
(***************************************************************************)
(* For any pool, VM types and requests: a request that is not granted as a *)
(* whole leaves nothing allocated; the counters always tell what is free,  *)
(* modulo their width; and with BestFit no node is ever overcommitted.     *)
(***************************************************************************)
EXTENDS ResourceManager, NodePool_proofs

-----------------------------------------------------------------------------
(* What the VMs of a node use *)

\* The total of one counter over the VMs h counts by type.
Total(h, field) == SumFunction([t \in VmType |-> h[t] * Amount(t, field)])

Grants == [Node -> [VmType -> Nat]]

\* One more VM.
Grant(h, n, type) == [h EXCEPT ![n][type] = @ + 1]

LEMMA NodesAre == Capacity \in [Node -> Counters] /\ Node = 1..Len(Capacity)
BY ManagerConstants DEF Node

LEMMA TotalType ==
  ASSUME NEW h \in [VmType -> Nat], NEW field \in Field
  PROVE  Total(h, field) \in Nat
<1>. DEFINE f == [t \in VmType |-> h[t] * Amount(t, field)]
<1>1. f \in [VmType -> Nat]
  <2>1. \A t \in VmType : h[t] \in Nat /\ Amount(t, field) \in Nat
    BY AmountType, PoolConstants
  <2>2. \A x, y \in Nat : x * y \in Nat
    OBVIOUS
  <2>. QED  BY <2>1, <2>2
<1>. HIDE DEF f
<1>. QED  BY <1>1, SumType, PoolConstants DEF Total, f

\* The totals the properties speak of.
LEMMA UsedIsTotal ==
  ASSUME hosted \in Grants, NEW n \in Node
  PROVE  /\ \A field \in {"cores", "disk", "mem"} : Used(n, field) = Total(hosted[n], field)
         /\ SumFunction(hosted[n]) = Total(hosted[n], "vms")
<1>1. \A field \in {"cores", "disk", "mem"} : \A t \in VmType : Amount(t, field) = Needs[t][field]
  BY DEF Amount
<1>2. \A field \in {"cores", "disk", "mem"} :
        [t \in VmType |-> hosted[n][t] * Needs[t][field]]
          = [t \in VmType |-> hosted[n][t] * Amount(t, field)]
  BY <1>1
<1>3. hosted[n] = [t \in VmType |-> hosted[n][t] * Amount(t, "vms")]
  <2>1. hosted[n] \in [VmType -> Nat]
    BY DEF Grants
  <2>2. \A t \in VmType : hosted[n][t] * Amount(t, "vms") = hosted[n][t]
    BY <2>1 DEF Amount
  <2>. QED  BY <2>1, <2>2
<1>. QED  BY <1>2, <1>3 DEF Used, Total

\* One more VM of a type uses as much more as the type needs.
LEMMA TotalOfGrant ==
  ASSUME NEW h \in Grants, NEW n \in Node, NEW type \in VmType, NEW field \in Field
  PROVE  Total(Grant(h, n, type)[n], field) = Total(h[n], field) + Amount(type, field)
<1>. DEFINE before == h[n]
            after  == Grant(h, n, type)[n]
            f == [t \in VmType |-> before[t] * Amount(t, field)]
            g == [t \in VmType |-> after[t] * Amount(t, field)]
<1>1. before \in [VmType -> Nat] /\ after \in [VmType -> Nat]
      /\ after[type] = before[type] + 1
      /\ \A t \in VmType : t # type => after[t] = before[t]
  BY DEF Grants, Grant
<1>2. \A t \in VmType : Amount(t, field) \in Nat
  BY AmountType, PoolConstants
<1>. HIDE DEF before, after
<1>3. f \in [VmType -> Nat] /\ g \in [VmType -> Nat]
  <2>1. \A x, y \in Nat : x * y \in Nat
    OBVIOUS
  <2>. QED  BY <1>1, <1>2, <2>1
<1>4. \A t \in VmType : t # type => f[t] = g[t]
  BY <1>1
<1>5. g[type] = f[type] + Amount(type, field)
  <2>1. \A x, y \in Nat : (x + 1) * y = x * y + y
    OBVIOUS
  <2>. QED  BY <1>1, <1>2, <2>1
<1>6. f[type] \in Nat /\ g[type] \in Nat
  BY <1>3
<1>7. SumFunction(g) + f[type] = SumFunction(f) + g[type]
  <2>. HIDE DEF f, g
  <2>. QED  BY <1>3, <1>4, SumChange, PoolConstants
<1>8. SumFunction(f) \in Nat /\ SumFunction(g) \in Nat
  <2>. HIDE DEF f, g
  <2>. QED  BY <1>3, SumType, PoolConstants
<1>9. SumFunction(g) = SumFunction(f) + Amount(type, field)
  <2>. HIDE DEF f, g
  <2>. QED  BY <1>2, <1>5, <1>6, <1>7, <1>8
<1>. QED  BY <1>9 DEF Total, before, after

\* The other nodes use what they used.
LEMMA GrantIs ==
  ASSUME NEW h \in Grants, NEW n \in Node, NEW type \in VmType
  PROVE  Grant(h, n, type) \in Grants /\ \A m \in Node : m # n => Grant(h, n, type)[m] = h[m]
BY DEF Grants, Grant

-----------------------------------------------------------------------------
(* Balance: what is free and what is used add up to the capacity *)

\* But for the wraps of the counter.
Balanced(p, h) ==
  \A n \in Node, field \in Field :
    \E q \in Nat : p[n][field] + Total(h[n], field) = q * W + Capacity[n][field]

\* Without any.
Exact(p, h) ==
  \A n \in Node, field \in Field :
    p[n][field] + Total(h[n], field) = Capacity[n][field]

\* The amounts of a VM are free on the node.
Fits(p, n, type) == \A field \in Field : Amount(type, field) <= p[n][field]

\* p2 has one VM less than p free on node n.
OneLessFree(p2, p, n, type) ==
  \A m \in Node, field \in Field :
    p2[m][field] = IF m = n THEN Minus(p[m][field], Amount(type, field)) ELSE p[m][field]

\* h2 counts one VM more than h on node n.
OneMoreUsed(h2, h, n, type) ==
  \A m \in Node, field \in Field :
    Total(h2[m], field) = IF m = n THEN Total(h[m], field) + Amount(type, field)
                                   ELSE Total(h[m], field)

LEMMA AllocatedLess ==
  ASSUME NEW p \in [Node -> Counters], NEW n \in Node, NEW type \in VmType
  PROVE  OneLessFree(allocateResources(p, n, type), p, n, type)
<1>. DEFINE new == allocateResources(p, n, type)
<1>1. /\ \A m \in Node : m # n => new[m] = p[m]
      /\ \A field \in Field : new[n][field] = Minus(p[n][field], Amount(type, field))
  BY AllocateIs
<1>. HIDE DEF new
<1>. QED  BY <1>1 DEF OneLessFree, new

LEMMA GrantedMore ==
  ASSUME NEW h \in Grants, NEW n \in Node, NEW type \in VmType
  PROVE  OneMoreUsed(Grant(h, n, type), h, n, type)
<1>1. \A m \in Node : m # n => Grant(h, n, type)[m] = h[m]
  BY GrantIs
<1>2. \A field \in Field :
        Total(Grant(h, n, type)[n], field) = Total(h[n], field) + Amount(type, field)
  BY TotalOfGrant
<1>. QED  BY <1>1, <1>2 DEF OneMoreUsed

\* The numbers of one counter of one node.
LEMMA CounterNumbers ==
  ASSUME NEW p \in [Node -> Counters], NEW h \in Grants, NEW n \in Node, NEW field \in Field
  PROVE  /\ p[n][field] \in 0..(W - 1) /\ Total(h[n], field) \in Nat
         /\ Capacity[n][field] \in 0..(W - 1)
<1>1. h[n] \in [VmType -> Nat]
  BY DEF Grants
<1>. QED  BY <1>1, NodesAre, CounterRange, TotalType

\* Granting a VM keeps the balance.
LEMMA GrantBalanced ==
  ASSUME NEW p \in [Node -> Counters], NEW h \in Grants, NEW n \in Node, NEW type \in VmType,
         Balanced(p, h)
  PROVE  Balanced(allocateResources(p, n, type), Grant(h, n, type))
<1>. DEFINE p2 == allocateResources(p, n, type)
            h2 == Grant(h, n, type)
<1>1. OneLessFree(p2, p, n, type) /\ OneMoreUsed(h2, h, n, type)
  BY AllocatedLess, GrantedMore
<1>. HIDE DEF p2, h2
<1>. SUFFICES ASSUME NEW m \in Node, NEW field \in Field
              PROVE  \E q \in Nat : p2[m][field] + Total(h2[m], field) = q * W + Capacity[m][field]
  BY DEF Balanced, p2, h2
<1>. DEFINE a == p[m][field]
            u == Total(h[m], field)
            d == Amount(type, field)
            c == Capacity[m][field]
<1>2. PICK q \in Nat : a + u = q * W + c
  BY DEF Balanced
<1>3. a \in 0..(W - 1) /\ u \in Nat /\ c \in 0..(W - 1) /\ d \in 0..W /\ W \in Nat
  BY CounterNumbers, AmountType, PoolConstants
<1>4. CASE m # n
  <2>1. p2[m][field] = a /\ Total(h2[m], field) = u
    BY <1>1, <1>4 DEF OneLessFree, OneMoreUsed
  <2>. QED  BY <1>2, <2>1
<1>5. CASE m = n
  <2>1. p2[m][field] = Minus(a, d) /\ Total(h2[m], field) = u + d
    BY <1>1, <1>5 DEF OneLessFree, OneMoreUsed
  <2>. HIDE DEF a, u, d, c
  <2>2. Minus(a, d) = a - d \/ Minus(a, d) = a - d + W
    BY <1>3, MinusIs
  <2>3. q * W \in Nat /\ (q + 1) * W = q * W + W
    BY <1>3
  <2>4. \/ Minus(a, d) + (u + d) = q * W + c
        \/ Minus(a, d) + (u + d) = (q + 1) * W + c
    BY <1>2, <1>3, <2>2, <2>3
  <2>. QED  BY <2>1, <2>4 DEF c
<1>. QED  BY <1>4, <1>5

\* And so does one that is given back.
LEMMA FreeBalanced ==
  ASSUME NEW p \in [Node -> Counters], NEW h \in Grants, NEW n \in Node, NEW type \in VmType,
         Balanced(p, Grant(h, n, type))
  PROVE  Balanced(deallocateResources(p, n, type), h)
<1>. DEFINE p2 == deallocateResources(p, n, type)
            h1 == Grant(h, n, type)
<1>1. OneMoreUsed(h1, h, n, type)
  BY GrantedMore
<1>2. /\ \A m \in Node : m # n => p2[m] = p[m]
      /\ \A field \in Field : p2[n][field] = Plus(p[n][field], Amount(type, field))
  BY DeallocateIs
<1>. HIDE DEF p2, h1
<1>. SUFFICES ASSUME NEW m \in Node, NEW field \in Field
              PROVE  \E q \in Nat : p2[m][field] + Total(h[m], field) = q * W + Capacity[m][field]
  BY DEF Balanced, p2
<1>. DEFINE a == p[m][field]
            u == Total(h[m], field)
            d == Amount(type, field)
            c == Capacity[m][field]
<1>3. PICK q \in Nat : a + Total(h1[m], field) = q * W + c
  BY DEF Balanced, h1
<1>4. a \in 0..(W - 1) /\ u \in Nat /\ c \in 0..(W - 1) /\ d \in 0..W /\ W \in Nat \ {0}
  BY CounterNumbers, AmountType, PoolConstants
<1>5. CASE m # n
  <2>1. p2[m][field] = a /\ Total(h1[m], field) = u
    BY <1>1, <1>2, <1>5 DEF OneMoreUsed
  <2>. QED  BY <1>3, <2>1
<1>6. CASE m = n
  <2>1. p2[m][field] = Plus(a, d) /\ Total(h1[m], field) = u + d
    BY <1>1, <1>2, <1>6 DEF OneMoreUsed
  <2>. HIDE DEF a, u, d, c
  <2>2. \/ Plus(a, d) = a + d
        \/ Plus(a, d) = a + d - W /\ Plus(a, d) >= 0
    BY <1>4, PlusIs
  <2>3. q * W \in Nat
    BY <1>4
  <2>4. CASE Plus(a, d) = a + d
    <3>1. Plus(a, d) + u = q * W + c
      BY <1>3, <1>4, <2>1, <2>4
    <3>. QED  BY <2>1, <3>1 DEF c, u
  <2>5. CASE Plus(a, d) = a + d - W /\ Plus(a, d) >= 0
    <3>1. Plus(a, d) + u = q * W + c - W
      BY <1>3, <1>4, <2>1, <2>3, <2>5
    <3>2. q # 0
      <4>1. q = 0 => q * W = 0
        BY <1>4
      <4>. QED  BY <1>4, <2>5, <3>1, <4>1
    <3>3. q - 1 \in Nat /\ (q - 1) * W = q * W - W
      BY <1>4, <3>2
    <3>4. Plus(a, d) + u = (q - 1) * W + c
      BY <1>4, <2>3, <3>1, <3>3
    <3>. QED  BY <2>1, <3>3, <3>4 DEF c, u
  <2>. QED  BY <2>2, <2>4, <2>5
<1>. QED  BY <1>5, <1>6

\* A VM that fits is granted without a wrap.
LEMMA GrantExact ==
  ASSUME NEW p \in [Node -> Counters], NEW h \in Grants, NEW n \in Node, NEW type \in VmType,
         Exact(p, h), Fits(p, n, type)
  PROVE  Exact(allocateResources(p, n, type), Grant(h, n, type))
<1>. DEFINE p2 == allocateResources(p, n, type)
            h2 == Grant(h, n, type)
<1>1. OneLessFree(p2, p, n, type) /\ OneMoreUsed(h2, h, n, type)
  BY AllocatedLess, GrantedMore
<1>. HIDE DEF p2, h2
<1>. SUFFICES ASSUME NEW m \in Node, NEW field \in Field
              PROVE  p2[m][field] + Total(h2[m], field) = Capacity[m][field]
  BY DEF Exact, p2, h2
<1>. DEFINE a == p[m][field]
            u == Total(h[m], field)
            d == Amount(type, field)
            c == Capacity[m][field]
<1>2. a + u = c
  BY DEF Exact
<1>3. a \in 0..(W - 1) /\ u \in Nat /\ c \in 0..(W - 1) /\ d \in 0..W
  BY CounterNumbers, AmountType
<1>4. CASE m # n
  <2>1. p2[m][field] = a /\ Total(h2[m], field) = u
    BY <1>1, <1>4 DEF OneLessFree, OneMoreUsed
  <2>. QED  BY <1>2, <2>1
<1>5. CASE m = n
  <2>1. p2[m][field] = Minus(a, d) /\ Total(h2[m], field) = u + d /\ d <= a
    BY <1>1, <1>5 DEF OneLessFree, OneMoreUsed, Fits
  <2>. HIDE DEF a, u, d
  <2>2. Minus(a, d) = a - d
    BY <1>3, <2>1, MinusIs
  <2>. QED  BY <1>2, <1>3, <2>1, <2>2
<1>. QED  BY <1>4, <1>5

\* What is given back was taken, so it does not wrap either.
LEMMA FreeExact ==
  ASSUME NEW p \in [Node -> Counters], NEW h \in Grants, NEW n \in Node, NEW type \in VmType,
         Exact(p, Grant(h, n, type))
  PROVE  Exact(deallocateResources(p, n, type), h)
<1>. DEFINE p2 == deallocateResources(p, n, type)
            h1 == Grant(h, n, type)
<1>1. OneMoreUsed(h1, h, n, type)
  BY GrantedMore
<1>2. /\ \A m \in Node : m # n => p2[m] = p[m]
      /\ \A field \in Field : p2[n][field] = Plus(p[n][field], Amount(type, field))
  BY DeallocateIs
<1>. HIDE DEF p2, h1
<1>. SUFFICES ASSUME NEW m \in Node, NEW field \in Field
              PROVE  p2[m][field] + Total(h[m], field) = Capacity[m][field]
  BY DEF Exact, p2
<1>. DEFINE a == p[m][field]
            u == Total(h[m], field)
            d == Amount(type, field)
            c == Capacity[m][field]
<1>3. a + Total(h1[m], field) = c
  BY DEF Exact, h1
<1>4. a \in 0..(W - 1) /\ u \in Nat /\ c \in 0..(W - 1) /\ d \in 0..W /\ W \in Nat
  BY CounterNumbers, AmountType, PoolConstants
<1>5. CASE m # n
  <2>1. p2[m][field] = a /\ Total(h1[m], field) = u
    BY <1>1, <1>2, <1>5 DEF OneMoreUsed
  <2>. QED  BY <1>3, <2>1
<1>6. CASE m = n
  <2>1. p2[m][field] = Plus(a, d) /\ Total(h1[m], field) = u + d
    BY <1>1, <1>2, <1>6 DEF OneMoreUsed
  <2>. HIDE DEF a, u, d
  <2>2. Plus(a, d) = a + d
    BY <1>3, <1>4, <2>1, PlusIs
  <2>3. Plus(a, d) + u = c
    BY <1>3, <1>4, <2>1, <2>2
  <2>. QED  BY <2>1, <2>3 DEF u
<1>. QED  BY <1>5, <1>6

-----------------------------------------------------------------------------
(* A whole request *)

\* VMs of type t among the first k that are placed on node n.
CountFirst(types, nodes, k, n, t) ==
  Cardinality({i \in 1..k : nodes[i] = n /\ types[i] = t})

\* What the nodes host when the first k VMs are granted too.
Granted(h, types, nodes, k) ==
  [n \in Node |-> [t \in VmType |-> h[n][t] + CountFirst(types, nodes, k, n, t)]]

LEMMA CountStep ==
  ASSUME NEW types, NEW nodes, NEW n, NEW t
  PROVE  /\ CountFirst(types, nodes, 0, n, t) = 0
         /\ \A k \in Nat : CountFirst(types, nodes, k, n, t) \in Nat
         /\ \A k \in Nat \ {0} :
              CountFirst(types, nodes, k, n, t) =
                IF nodes[k] = n /\ types[k] = t THEN CountFirst(types, nodes, k - 1, n, t) + 1
                                                ELSE CountFirst(types, nodes, k - 1, n, t)
<1>. DEFINE S(k) == {i \in 1..k : nodes[i] = n /\ types[i] = t}
<1>1. \A k \in Nat : IsFiniteSet(S(k)) /\ Cardinality(S(k)) \in Nat
  <2>. TAKE k \in Nat
  <2>1. IsFiniteSet(1..k)
    BY FS_Interval
  <2>2. IsFiniteSet(S(k))
    BY <2>1, FS_Subset
  <2>. QED  BY <2>2, FS_CardinalityType
<1>2. Cardinality(S(0)) = 0
  <2>1. S(0) = {}
    OBVIOUS
  <2>. QED  BY <2>1, FS_EmptySet
<1>3. ASSUME NEW k \in Nat \ {0}
      PROVE  Cardinality(S(k)) = IF nodes[k] = n /\ types[k] = t
                                 THEN Cardinality(S(k - 1)) + 1 ELSE Cardinality(S(k - 1))
  <2>0. k - 1 \in Nat
    OBVIOUS
  <2>1. CASE nodes[k] = n /\ types[k] = t
    <3>1. S(k) = S(k - 1) \cup {k} /\ k \notin S(k - 1)
      BY <2>1
    <3>. HIDE DEF S
    <3>2. Cardinality(S(k - 1) \cup {k}) = Cardinality(S(k - 1)) + 1
      BY <1>1, <2>0, <3>1, FS_AddElement
    <3>. QED  BY <2>1, <3>1, <3>2
  <2>2. CASE ~(nodes[k] = n /\ types[k] = t)
    <3>1. S(k) = S(k - 1)
      BY <2>2
    <3>. HIDE DEF S
    <3>. QED  BY <2>2, <3>1
  <2>. QED  BY <2>1, <2>2
<1>. QED  BY <1>1, <1>2, <1>3 DEF CountFirst

LEMMA GrantedSteps ==
  ASSUME NEW h \in Grants, NEW types, NEW nodes, NEW k, IsChoice(types, nodes, k, Node)
  PROVE  /\ Granted(h, types, nodes, 0) = h
         /\ \A j \in 0..k : Granted(h, types, nodes, j) \in Grants
         /\ \A i \in 1..k : Granted(h, types, nodes, i) =
                              Grant(Granted(h, types, nodes, i - 1), nodes[i], types[i])
<1>. DEFINE G(j) == Granted(h, types, nodes, j)
            c(j, n, t) == CountFirst(types, nodes, j, n, t)
<1>. k \in Nat
  BY DEF IsChoice
<1>1. h \in [Node -> [VmType -> Nat]] /\ \A n \in Node, t \in VmType : h[n][t] \in Nat
  BY DEF Grants
<1>2. \A j \in 0..k : G(j) \in Grants
  <2>1. \A j \in 0..k, n \in Node, t \in VmType : h[n][t] + c(j, n, t) \in Nat
    <3>1. \A j \in 0..k, n \in Node, t \in VmType : c(j, n, t) \in Nat
      <4>. TAKE j \in 0..k, n \in Node, t \in VmType
      <4>. j \in Nat
        OBVIOUS
      <4>. QED  BY CountStep
    <3>. HIDE DEF c
    <3>. QED  BY <1>1, <3>1
  <2>. QED  BY <2>1 DEF Grants, Granted
<1>3. G(0) = h
  <2>1. \A n \in Node, t \in VmType : h[n][t] + c(0, n, t) = h[n][t]
    <3>1. \A n, t : c(0, n, t) = 0
      BY CountStep
    <3>. HIDE DEF c
    <3>. QED  BY <1>1, <3>1
  <2>2. h = [n \in Node |-> [t \in VmType |-> h[n][t]]]
    BY <1>1
  <2>. QED  BY <2>1, <2>2 DEF Granted
<1>4. ASSUME NEW i \in 1..k
      PROVE  G(i) = Grant(G(i - 1), nodes[i], types[i])
  <2>0. i - 1 \in 0..k /\ i \in 0..k /\ nodes[i] \in Node /\ types[i] \in VmType
    BY DEF IsChoice
  <2>1. \A n \in Node, t \in VmType :
          c(i, n, t) = IF nodes[i] = n /\ types[i] = t THEN c(i - 1, n, t) + 1
                                                      ELSE c(i - 1, n, t)
    <3>. TAKE n \in Node, t \in VmType
    <3>1. i \in Nat \ {0}
      OBVIOUS
    <3>2. \A j \in Nat \ {0} :
            c(j, n, t) = IF nodes[j] = n /\ types[j] = t THEN c(j - 1, n, t) + 1
                                                        ELSE c(j - 1, n, t)
      BY CountStep
    <3>. HIDE DEF c
    <3>. QED  BY <3>1, <3>2
  <2>2. \A n \in Node, t \in VmType : c(i - 1, n, t) \in Nat
    <3>1. i - 1 \in Nat
      OBVIOUS
    <3>. QED  BY <3>1, CountStep
  <2>3. \A j \in 0..k, n \in Node, t \in VmType : G(j)[n][t] = h[n][t] + c(j, n, t)
    BY DEF Granted
  <2>4. G(i) \in Grants /\ Grant(G(i - 1), nodes[i], types[i]) \in Grants
    BY <1>2, <2>0, GrantIs
  <2>5. \A n \in Node, t \in VmType :
          Grant(G(i - 1), nodes[i], types[i])[n][t] =
            IF nodes[i] = n /\ types[i] = t THEN G(i - 1)[n][t] + 1 ELSE G(i - 1)[n][t]
    <3>1. G(i - 1) \in [Node -> [VmType -> Nat]]
      BY <1>2, <2>0 DEF Grants
    <3>. HIDE DEF G
    <3>. QED  BY <2>0, <3>1 DEF Grant
  <2>6. \A n \in Node, t \in VmType : G(i)[n][t] = Grant(G(i - 1), nodes[i], types[i])[n][t]
    <3>. HIDE DEF G, c
    <3>. QED  BY <1>1, <2>0, <2>1, <2>2, <2>3, <2>5
  <2>. DEFINE H == Grant(G(i - 1), nodes[i], types[i])
  <2>7. \A n \in Node : G(i)[n] = H[n]
    <3>. HIDE DEF G, H
    <3>1. G(i) \in [Node -> [VmType -> Nat]] /\ H \in [Node -> [VmType -> Nat]]
      BY <2>4 DEF Grants, H
    <3>. TAKE n \in Node
    <3>2. G(i)[n] \in [VmType -> Nat] /\ H[n] \in [VmType -> Nat]
      BY <3>1
    <3>3. \A t \in VmType : G(i)[n][t] = H[n][t]
      BY <2>6 DEF H
    <3>. QED  BY <3>2, <3>3
  <2>. HIDE DEF G, H
  <2>8. G(i) \in [Node -> [VmType -> Nat]] /\ H \in [Node -> [VmType -> Nat]]
    BY <2>4 DEF Grants, H
  <2>9. G(i) = H
    BY <2>7, <2>8
  <2>. QED  BY <2>9 DEF H
<1>. QED  BY <1>2, <1>3, <1>4

\* Granting the VMs of a request one after the other keeps the balance.
LEMMA RequestBalanced ==
  ASSUME NEW p, NEW h \in Grants, Balanced(p, h), NEW types, NEW nodes, NEW k,
         IsChoice(types, nodes, k, Node), NEW P, IsPlacement(P, Node, p, types, nodes, k)
  PROVE  Balanced(P[k], Granted(h, types, nodes, k))
<1>. DEFINE G(j) == Granted(h, types, nodes, j)
            Good == {j \in 0..k : Balanced(P[j], G(j))}
<1>. k \in Nat
  BY DEF IsChoice
<1>1. /\ G(0) = h /\ \A j \in 0..k : G(j) \in Grants
      /\ \A i \in 1..k : G(i) = Grant(G(i - 1), nodes[i], types[i])
  BY GrantedSteps
<1>. HIDE DEF G
<1>2. P[0] = p /\ 0 \in 0..k /\ k \in 0..k
  BY DEF IsPlacement
<1>3. 0 \in Good
  BY <1>1, <1>2
<1>4. ASSUME NEW i \in 1..k, i - 1 \in Good
      PROVE  i \in Good
  <2>1. /\ P[i - 1] \in [Node -> Counters] /\ nodes[i] \in Node /\ types[i] \in VmType
        /\ P[i] = allocateResources(P[i - 1], nodes[i], types[i])
    BY DEF IsPlacement, IsChoice
  <2>2. G(i - 1) \in Grants /\ G(i) = Grant(G(i - 1), nodes[i], types[i])
    <3>1. i - 1 \in 0..k
      OBVIOUS
    <3>. QED  BY <1>1, <3>1
  <2>3. Balanced(P[i - 1], G(i - 1))
    BY <1>4
  <2>4. Balanced(P[i], G(i))
    BY <2>1, <2>2, <2>3, GrantBalanced
  <2>. QED  BY <2>4
<1>5. 0..k \subseteq Good
  <2>. HIDE DEF Good
  <2>. QED  BY <1>3, <1>4, BoundedInduction
<1>. QED  BY <1>2, <1>5 DEF G

\* If each VM fits when its turn comes, without any wrap.
LEMMA RequestExact ==
  ASSUME NEW p, NEW h \in Grants, Exact(p, h), NEW types, NEW nodes, NEW k,
         IsChoice(types, nodes, k, Node), NEW P, IsPlacement(P, Node, p, types, nodes, k),
         \A i \in 1..k : Fits(P[i - 1], nodes[i], types[i])
  PROVE  Exact(P[k], Granted(h, types, nodes, k))
<1>. DEFINE G(j) == Granted(h, types, nodes, j)
            Good == {j \in 0..k : Exact(P[j], G(j))}
<1>. k \in Nat
  BY DEF IsChoice
<1>1. /\ G(0) = h /\ \A j \in 0..k : G(j) \in Grants
      /\ \A i \in 1..k : G(i) = Grant(G(i - 1), nodes[i], types[i])
  BY GrantedSteps
<1>. HIDE DEF G
<1>2. P[0] = p /\ 0 \in 0..k /\ k \in 0..k
  BY DEF IsPlacement
<1>3. 0 \in Good
  BY <1>1, <1>2
<1>4. ASSUME NEW i \in 1..k, i - 1 \in Good
      PROVE  i \in Good
  <2>1. /\ P[i - 1] \in [Node -> Counters] /\ nodes[i] \in Node /\ types[i] \in VmType
        /\ P[i] = allocateResources(P[i - 1], nodes[i], types[i])
    BY DEF IsPlacement, IsChoice
  <2>2. G(i - 1) \in Grants /\ G(i) = Grant(G(i - 1), nodes[i], types[i])
    <3>1. i - 1 \in 0..k
      OBVIOUS
    <3>. QED  BY <1>1, <3>1
  <2>3. Exact(P[i - 1], G(i - 1)) /\ Fits(P[i - 1], nodes[i], types[i])
    BY <1>4
  <2>4. Exact(P[i], G(i))
    BY <2>1, <2>2, <2>3, GrantExact
  <2>. QED  BY <2>4
<1>5. 0..k \subseteq Good
  <2>. HIDE DEF Good
  <2>. QED  BY <1>3, <1>4, BoundedInduction
<1>. QED  BY <1>2, <1>5 DEF G

-----------------------------------------------------------------------------
(* The steps of the manager *)

LEMMA RequestLen ==
  ASSUME NEW types \in VmRequests
  PROVE  Len(types) \in Nat \ {0} /\ types \in [1..Len(types) -> VmType]
<1>1. PICK k \in 1..MaxVms : types \in [1..k -> VmType]
  BY DEF VmRequests
<1>2. k \in Nat \ {0}
  BY ManagerConstants
<1>. QED  BY <1>1, <1>2, NodesLen

\* A way to place the first k VMs.
LEMMA PlacementChoice ==
  ASSUME pool \in [Node -> Counters], NEW types \in VmRequests, NEW k \in 0..Len(types),
         NEW nodes \in Placements(pool, types, k)
  PROVE  /\ IsChoice(types, nodes, k, Node) /\ Len(nodes) = k
         /\ IsPlacement(Placing(pool, types, nodes), Node, pool, types, nodes, k)
         /\ \A i \in 1..k :
              nodes[i] \in selectNode(Placing(pool, types, nodes)[i - 1], types[i])
<1>1. Len(types) \in Nat /\ types \in [1..Len(types) -> VmType]
  BY RequestLen
<1>2. k \in Nat /\ 1..k \subseteq 1..Len(types)
  BY <1>1
<1>3. nodes \in [1..k -> Node]
  BY DEF Placements
<1>4. IsChoice(types, nodes, k, Node)
  BY <1>1, <1>2, <1>3 DEF IsChoice
<1>5. IsPlacement(Placing(pool, types, nodes), Node, pool, types, nodes, k)
  BY <1>4, PlacingIs
<1>6. Len(nodes) = k
  BY <1>2, <1>3, NodesLen
<1>. QED  BY <1>4, <1>5, <1>6 DEF Placements

\* A request that is granted.
Granting(types) ==
  \E nodes \in Successes(pool, types) :
    /\ pool' = Placing(pool, types, nodes)[Len(types)]
    /\ hosted' = Granted(hosted, types, nodes, Len(types))

\* A request is granted, or leaves everything as it was.
LEMMA RequestStep ==
  ASSUME pool \in [Node -> Counters], NEW types \in VmRequests, allocateVms(types)
  PROVE  Granting(types) \/ (pool' = pool /\ hosted' = hosted)
<1>1. Len(types) \in Nat \ {0} /\ types \in [1..Len(types) -> VmType]
  BY RequestLen
<1>2. CASE \E nodes \in Successes(pool, types) :
             /\ pool' = Placing(pool, types, nodes)[Len(types)]
             /\ hosted' = [n \in Node |-> [t \in VmType |->
                             hosted[n][t] + Count(types, nodes, n, t)]]
  <2>1. \A nodes, n, t : Count(types, nodes, n, t) = CountFirst(types, nodes, Len(types), n, t)
    BY <1>1 DEF Count, CountFirst
  <2>. QED  BY <1>2, <2>1 DEF Granting, Granted
<1>3. CASE \E nodes \in Failures(pool, types) :
             /\ pool' = Restoring(Placing(pool, types, nodes)[Len(nodes)], types, nodes)
             /\ UNCHANGED hosted
  <2>1. PICK nodes \in Failures(pool, types) :
             /\ pool' = Restoring(Placing(pool, types, nodes)[Len(nodes)], types, nodes)
             /\ UNCHANGED hosted
    BY <1>3
  <2>2. PICK k \in 0..(Len(types) - 1) : nodes \in Placements(pool, types, k)
    BY DEF Failures
  <2>3. k \in 0..Len(types)
    BY <1>1
  <2>4. IsChoice(types, nodes, k, Node) /\ Len(nodes) = k
    BY <2>2, <2>3, PlacementChoice
  <2>5. Restoring(Placing(pool, types, nodes)[k], types, nodes) = pool
    BY <2>4, RollBackRestores
  <2>. QED  BY <2>1, <2>4, <2>5
<1>. QED  BY <1>2, <1>3 DEF allocateVms

\* The pool after a request that is granted.
LEMMA GrantingType ==
  ASSUME TypeOK, NEW types \in VmRequests, Granting(types)
  PROVE  TypeOK'
<1>1. PICK nodes \in Successes(pool, types) :
             /\ pool' = Placing(pool, types, nodes)[Len(types)]
             /\ hosted' = Granted(hosted, types, nodes, Len(types))
  BY DEF Granting
<1>2. pool \in [Node -> Counters] /\ hosted \in Grants /\ Len(types) \in Nat
  BY RequestLen DEF TypeOK, Grants
<1>3. Len(types) \in 0..Len(types)
  BY <1>2
<1>4. /\ IsChoice(types, nodes, Len(types), Node)
      /\ IsPlacement(Placing(pool, types, nodes), Node, pool, types, nodes, Len(types))
  BY <1>2, <1>3, PlacementChoice DEF Successes
<1>5. pool' \in [Node -> Counters]
  BY <1>1, <1>3, <1>4 DEF IsPlacement
<1>6. Granted(hosted, types, nodes, Len(types)) \in Grants
  BY <1>2, <1>3, <1>4, GrantedSteps
<1>. QED  BY <1>1, <1>5, <1>6 DEF TypeOK, Grants

\* What a hypervisor gives back, the node hosted.
LEMMA FreeStep ==
  ASSUME TypeOK, NEW n \in Node, NEW type \in VmType, confirmNodeDeallocation(n, type)
  PROVE  /\ TypeOK' /\ hosted = Grant(hosted', n, type)
         /\ pool' = deallocateResources(pool, n, type)
         /\ hosted' # hosted
<1>1. hosted \in [Node -> [VmType -> Nat]] /\ hosted[n] \in [VmType -> Nat]
      /\ hosted[n][type] \in Nat \ {0}
      /\ hosted' = [hosted EXCEPT ![n][type] = @ - 1]
  BY DEF TypeOK, confirmNodeDeallocation
<1>2. hosted' \in [Node -> [VmType -> Nat]]
  <2>1. hosted[n][type] - 1 \in Nat
    <3>1. \A x \in Nat \ {0} : x - 1 \in Nat
      OBVIOUS
    <3>2. hosted[n][type] \in Nat \ {0}
      BY <1>1
    <3>. QED  BY <3>1, <3>2
  <2>2. [hosted[n] EXCEPT ![type] = hosted[n][type] - 1] \in [VmType -> Nat]
    BY <1>1, <2>1
  <2>3. hosted' = [hosted EXCEPT ![n] = [hosted[n] EXCEPT ![type] = hosted[n][type] - 1]]
    BY <1>1
  <2>. QED  BY <1>1, <2>2, <2>3
<1>3. hosted'[n][type] = hosted[n][type] - 1
  BY <1>1
<1>4. Grant(hosted', n, type) = hosted
  <2>1. Grant(hosted', n, type) \in [Node -> [VmType -> Nat]]
    BY <1>2, GrantIs DEF Grants
  <2>2. \A m \in Node, t \in VmType : Grant(hosted', n, type)[m][t] = hosted[m][t]
    BY <1>1, <1>2, <1>3 DEF Grant
  <2>. DEFINE G == Grant(hosted', n, type)
  <2>3. \A m \in Node : G[m] = hosted[m]
    <3>. HIDE DEF G
    <3>. TAKE m \in Node
    <3>1. G[m] \in [VmType -> Nat] /\ hosted[m] \in [VmType -> Nat]
      BY <1>1, <2>1 DEF G
    <3>2. \A t \in VmType : G[m][t] = hosted[m][t]
      BY <2>2 DEF G
    <3>. QED  BY <3>1, <3>2
  <2>. HIDE DEF G
  <2>4. G \in [Node -> [VmType -> Nat]]
    BY <2>1 DEF G
  <2>5. G = [m \in Node |-> G[m]] /\ hosted = [m \in Node |-> hosted[m]]
    BY <1>1, <2>4
  <2>6. G = hosted
    BY <2>3, <2>5
  <2>. QED  BY <2>6 DEF G
<1>5. pool' = deallocateResources(pool, n, type)
  BY DEF confirmNodeDeallocation
<1>6. pool' \in [Node -> Counters]
  BY <1>5, DeallocateIs DEF TypeOK
<1>. QED  BY <1>1, <1>2, <1>3, <1>4, <1>5, <1>6 DEF TypeOK

LEMMA TypeInit == Init => TypeOK
BY NodesAre DEF Init, TypeOK

LEMMA TypeNext == TypeOK /\ [Next]_vars => TypeOK'
<1>. SUFFICES ASSUME TypeOK, [Next]_vars PROVE TypeOK'
  OBVIOUS
<1>1. ASSUME NEW types \in VmRequests, allocateVms(types)
      PROVE  TypeOK'
  <2>1. Granting(types) \/ (pool' = pool /\ hosted' = hosted)
    BY <1>1, RequestStep DEF TypeOK
  <2>2. CASE Granting(types)
    BY <2>2, GrantingType
  <2>3. CASE pool' = pool /\ hosted' = hosted
    BY <2>3 DEF TypeOK
  <2>. QED  BY <2>1, <2>2, <2>3
<1>2. ASSUME NEW n \in Node, NEW type \in VmType, confirmNodeDeallocation(n, type)
      PROVE  TypeOK'
  BY <1>2, FreeStep
<1>3. CASE UNCHANGED vars
  BY <1>3 DEF TypeOK, vars
<1>. QED  BY <1>1, <1>2, <1>3 DEF Next

\* The types of the counters and of what is hosted, for the theorems below:
\* that every counter stays within its width holds by their definition.
LEMMA ManagerTypeCorrect == Spec => []TypeOK
<1>. QED  BY TypeInit, TypeNext, PTL DEF Spec

-----------------------------------------------------------------------------
(* All or nothing *)

\* A request that is granted hosts a VM more: its first.
LEMMA GrantingHosts ==
  ASSUME TypeOK, NEW types \in VmRequests, Granting(types)
  PROVE  hosted' # hosted
<1>1. PICK nodes \in Successes(pool, types) :
             hosted' = Granted(hosted, types, nodes, Len(types))
  BY DEF Granting
<1>. DEFINE k == Len(types)
            n == nodes[1]
            t == types[1]
            S == {i \in 1..k : nodes[i] = n /\ types[i] = t}
<1>2. k \in Nat \ {0} /\ types \in [1..k -> VmType] /\ k \in 0..k
  BY RequestLen
<1>3. IsChoice(types, nodes, k, Node)
  BY <1>2, PlacementChoice DEF Successes, TypeOK
<1>4. n \in Node /\ t \in VmType /\ 1 \in S
  BY <1>2, <1>3 DEF IsChoice
<1>5. Cardinality(S) \in Nat /\ Cardinality(S) # 0
  <2>1. IsFiniteSet(1..k)
    BY <1>2, FS_Interval
  <2>2. IsFiniteSet(S)
    BY <2>1, FS_Subset
  <2>. HIDE DEF S
  <2>. QED  BY <1>4, <2>2, FS_CardinalityType, FS_EmptySet
<1>6. hosted'[n][t] = hosted[n][t] + Cardinality(S)
  BY <1>1, <1>4 DEF Granted, CountFirst
<1>7. hosted[n][t] \in Nat
  BY <1>4 DEF TypeOK
<1>. HIDE DEF n, t, S
<1>. QED  BY <1>5, <1>6, <1>7

\* ResourceManager::allocateVms gives back what it took of a request it
\* cannot place as a whole (ResourceManager.cc): whatever was placed before
\* the VM that found no node, the pool is the one the request found.
THEOREM RequestsAllOrNothing == Spec => AllOrNothing
<1>1. TypeOK /\ [Next]_vars => [hosted' = hosted => pool' = pool]_vars
  <2>. SUFFICES ASSUME TypeOK, Next, hosted' = hosted
                PROVE  pool' = pool
    OBVIOUS
  <2>1. ASSUME NEW types \in VmRequests, allocateVms(types)
        PROVE  pool' = pool
    <3>1. ~Granting(types)
      BY <2>1, GrantingHosts
    <3>. QED  BY <2>1, <3>1, RequestStep DEF TypeOK
  <2>2. ASSUME NEW n \in Node, NEW type \in VmType, confirmNodeDeallocation(n, type)
        PROVE  pool' = pool
    BY <2>2, FreeStep
  <2>. QED  BY <2>1, <2>2 DEF Next
<1>. QED  BY <1>1, ManagerTypeCorrect, PTL DEF Spec, AllOrNothing

-----------------------------------------------------------------------------
(* The counters tell what is free *)

LEMMA InitExact == Init => Exact(pool, hosted) /\ Balanced(pool, hosted)
<1>. SUFFICES ASSUME Init PROVE Exact(pool, hosted) /\ Balanced(pool, hosted)
  OBVIOUS
<1>1. \A n \in Node, field \in Field : Total(hosted[n], field) = 0
  <2>. TAKE n \in Node, field \in Field
  <2>1. \A t \in VmType : hosted[n][t] * Amount(t, field) = 0
    <3>1. \A t \in VmType : Amount(t, field) \in Nat
      BY AmountType, PoolConstants
    <3>2. \A x \in Nat : 0 * x = 0
      OBVIOUS
    <3>. QED  BY <3>1, <3>2 DEF Init
  <2>2. Total(hosted[n], field) = SumFunction([t \in VmType |-> 0])
    BY <2>1 DEF Total
  <2>. QED  BY <2>2, SumOfZeros, PoolConstants
<1>2. \A n \in Node, field \in Field : Capacity[n][field] \in Nat /\ pool[n][field] = Capacity[n][field]
  <2>1. \A n \in Node, field \in Field : Capacity[n][field] \in 0..(W - 1)
    BY NodesAre, CounterRange
  <2>2. pool = Capacity
    BY DEF Init
  <2>. QED  BY <2>1, <2>2, PoolConstants
<1>3. Exact(pool, hosted)
  BY <1>1, <1>2 DEF Exact
<1>4. Balanced(pool, hosted)
  <2>1. \A n \in Node, field \in Field :
          pool[n][field] + Total(hosted[n], field) = 0 * W + Capacity[n][field]
    BY <1>1, <1>2, PoolConstants
  <2>. QED  BY <2>1 DEF Balanced
<1>. QED  BY <1>3, <1>4

BalanceInv == TypeOK /\ Balanced(pool, hosted)

LEMMA BalanceNext == BalanceInv /\ [Next]_vars => BalanceInv'
<1>. SUFFICES ASSUME BalanceInv, [Next]_vars PROVE BalanceInv'
  OBVIOUS
<1>0. TypeOK /\ TypeOK' /\ Balanced(pool, hosted)
  BY TypeNext DEF BalanceInv
<1>1. ASSUME NEW types \in VmRequests, allocateVms(types)
      PROVE  Balanced(pool', hosted')
  <2>1. CASE Granting(types)
    <3>1. PICK nodes \in Successes(pool, types) :
             /\ pool' = Placing(pool, types, nodes)[Len(types)]
             /\ hosted' = Granted(hosted, types, nodes, Len(types))
      BY <2>1 DEF Granting
    <3>2. /\ IsChoice(types, nodes, Len(types), Node)
          /\ IsPlacement(Placing(pool, types, nodes), Node, pool, types, nodes, Len(types))
      <4>1. Len(types) \in 0..Len(types)
        BY RequestLen
      <4>. QED  BY <1>0, <4>1, PlacementChoice DEF Successes, TypeOK
    <3>3. hosted \in Grants
      BY <1>0 DEF TypeOK, Grants
    <3>4. Balanced(Placing(pool, types, nodes)[Len(types)], Granted(hosted, types, nodes, Len(types)))
      BY <1>0, <3>2, <3>3, RequestBalanced
    <3>. QED  BY <3>1, <3>4
  <2>2. CASE pool' = pool /\ hosted' = hosted
    BY <1>0, <2>2
  <2>. QED  BY <1>0, <1>1, <2>1, <2>2, RequestStep DEF TypeOK
<1>2. ASSUME NEW n \in Node, NEW type \in VmType, confirmNodeDeallocation(n, type)
      PROVE  Balanced(pool', hosted')
  <2>1. hosted = Grant(hosted', n, type) /\ pool' = deallocateResources(pool, n, type)
    BY <1>0, <1>2, FreeStep
  <2>2. Balanced(pool, Grant(hosted', n, type)) /\ hosted' \in Grants /\ pool \in [Node -> Counters]
    BY <1>0, <2>1 DEF TypeOK, Grants
  <2>. QED  BY <2>1, <2>2, FreeBalanced
<1>3. ASSUME UNCHANGED vars
      PROVE  Balanced(pool', hosted')
  BY <1>0, <1>3 DEF vars
<1>4. Balanced(pool', hosted') => BalanceInv'
  BY <1>0 DEF BalanceInv, Balanced
<1>5. Balanced(pool', hosted')
  BY <1>1, <1>2, <1>3 DEF Next
<1>. QED  BY <1>4, <1>5

\* Balance is what PoolMatchesHosted says, for the width of the counters.
LEMMA BalanceImplies == BalanceInv => PoolMatchesHosted
<1>. SUFFICES ASSUME BalanceInv, NEW n \in Node
              PROVE  /\ \A field \in {"cores", "disk", "mem"} :
                          (pool[n][field] + Used(n, field)) % W = Capacity[n][field]
                     /\ (pool[n].vms + SumFunction(hosted[n])) % W = Capacity[n].vms
  BY DEF PoolMatchesHosted
<1>1. hosted \in Grants /\ Balanced(pool, hosted)
  BY DEF BalanceInv, TypeOK, Grants
<1>2. \A field \in Field : (pool[n][field] + Total(hosted[n], field)) % W = Capacity[n][field]
  <2>. TAKE field \in Field
  <2>1. PICK q \in Nat : pool[n][field] + Total(hosted[n], field) = q * W + Capacity[n][field]
    BY <1>1 DEF Balanced
  <2>2. Capacity[n][field] \in 0..(W - 1)
    BY NodesAre, CounterRange
  <2>3. \A r \in 0..(W - 1) : (q * W + r) % W = r
    BY PoolConstants
  <2>. QED  BY <2>1, <2>2, <2>3
<1>3. /\ \A field \in {"cores", "disk", "mem"} : Used(n, field) = Total(hosted[n], field)
      /\ SumFunction(hosted[n]) = Total(hosted[n], "vms")
  BY <1>1, UsedIsTotal
<1>4. {"cores", "disk", "mem"} \subseteq Field /\ "vms" \in Field
  BY DEF Field
<1>5. pool[n]["vms"] = pool[n].vms /\ Capacity[n]["vms"] = Capacity[n].vms
  OBVIOUS
<1>. QED  BY <1>2, <1>3, <1>4, <1>5

\* The free resources of the pool (NodePool.cc) are always the capacity of
\* the nodes less what the VMs granted and not given back need, whichever
\* strategy places them and whatever requests failed half-way (modulo the
\* width of the counters, for FirstFit can wrap them).
THEOREM PoolAccounts == Spec => []PoolMatchesHosted
<1>1. Init => BalanceInv
  BY TypeInit, InitExact DEF BalanceInv
<1>. QED  BY <1>1, BalanceNext, BalanceImplies, PTL DEF Spec

-----------------------------------------------------------------------------
(* With BestFit no node is overcommitted *)

ExactInv == TypeOK /\ Exact(pool, hosted)

LEMMA ExactNext ==
  ASSUME Strategy = "BestFit"
  PROVE  ExactInv /\ [Next]_vars => ExactInv'
<1>. SUFFICES ASSUME ExactInv, [Next]_vars PROVE ExactInv'
  OBVIOUS
<1>0. TypeOK /\ TypeOK' /\ Exact(pool, hosted)
  BY TypeNext DEF ExactInv
<1>1. ASSUME NEW types \in VmRequests, allocateVms(types)
      PROVE  Exact(pool', hosted')
  <2>1. CASE Granting(types)
    <3>1. PICK nodes \in Successes(pool, types) :
             /\ pool' = Placing(pool, types, nodes)[Len(types)]
             /\ hosted' = Granted(hosted, types, nodes, Len(types))
      BY <2>1 DEF Granting
    <3>. DEFINE P == Placing(pool, types, nodes)
                k == Len(types)
    <3>2. /\ IsChoice(types, nodes, k, Node)
          /\ IsPlacement(P, Node, pool, types, nodes, k)
          /\ \A i \in 1..k : nodes[i] \in selectNode(P[i - 1], types[i])
      <4>1. k \in 0..k
        BY RequestLen
      <4>. QED  BY <1>0, <4>1, PlacementChoice DEF Successes, TypeOK
    <3>3. hosted \in Grants
      BY <1>0 DEF TypeOK, Grants
    <3>. HIDE DEF P, k
    <3>4. \A i \in 1..k : Fits(P[i - 1], nodes[i], types[i])
      <4>. TAKE i \in 1..k
      <4>1. P[i - 1] \in [Node -> Counters] /\ types[i] \in VmType
        BY <3>2 DEF IsPlacement, IsChoice
      <4>2. nodes[i] \in selectNode(P[i - 1], types[i])
        BY <3>2
      <4>. QED  BY <4>1, <4>2, BestFitFits DEF Fits
    <3>5. Exact(P[k], Granted(hosted, types, nodes, k))
      BY <1>0, <3>2, <3>3, <3>4, RequestExact
    <3>. QED  BY <3>1, <3>5 DEF P, k
  <2>2. CASE pool' = pool /\ hosted' = hosted
    BY <1>0, <2>2
  <2>. QED  BY <1>0, <1>1, <2>1, <2>2, RequestStep DEF TypeOK
<1>2. ASSUME NEW n \in Node, NEW type \in VmType, confirmNodeDeallocation(n, type)
      PROVE  Exact(pool', hosted')
  <2>1. hosted = Grant(hosted', n, type) /\ pool' = deallocateResources(pool, n, type)
    BY <1>0, <1>2, FreeStep
  <2>2. Exact(pool, Grant(hosted', n, type)) /\ hosted' \in Grants /\ pool \in [Node -> Counters]
    BY <1>0, <2>1 DEF TypeOK, Grants
  <2>. QED  BY <2>1, <2>2, FreeExact
<1>3. ASSUME UNCHANGED vars
      PROVE  Exact(pool', hosted')
  BY <1>0, <1>3 DEF vars
<1>4. Exact(pool', hosted') => ExactInv'
  BY <1>0 DEF ExactInv, Exact
<1>5. Exact(pool', hosted')
  BY <1>1, <1>2, <1>3 DEF Next
<1>. QED  BY <1>4, <1>5

LEMMA ExactImplies == ExactInv => NoOvercommit
<1>. SUFFICES ASSUME ExactInv, NEW n \in Node
              PROVE  /\ \A field \in {"cores", "disk", "mem"} : Used(n, field) <= Capacity[n][field]
                     /\ SumFunction(hosted[n]) <= Capacity[n].vms
  BY DEF NoOvercommit
<1>1. hosted \in Grants /\ pool \in [Node -> Counters] /\ Exact(pool, hosted)
  BY DEF ExactInv, TypeOK, Grants
<1>2. \A field \in Field : Total(hosted[n], field) <= Capacity[n][field]
  <2>. TAKE field \in Field
  <2>1. pool[n][field] + Total(hosted[n], field) = Capacity[n][field]
    BY <1>1 DEF Exact
  <2>2. pool[n][field] \in 0..(W - 1) /\ Total(hosted[n], field) \in Nat
    BY <1>1, CounterNumbers
  <2>. QED  BY <2>1, <2>2, PoolConstants
<1>3. /\ \A field \in {"cores", "disk", "mem"} : Used(n, field) = Total(hosted[n], field)
      /\ SumFunction(hosted[n]) = Total(hosted[n], "vms")
  BY <1>1, UsedIsTotal
<1>4. {"cores", "disk", "mem"} \subseteq Field /\ "vms" \in Field
  BY DEF Field
<1>. QED  BY <1>2, <1>3, <1>4

\* With BestFit (Strategies.cc) no node is promised to more VMs than it can
\* hold, in cores, disk, memory or number.  FirstFit does promise too much,
\* for it compares lexicographically.
THEOREM BestFitNeverOvercommits ==
  ASSUME Strategy = "BestFit"
  PROVE  Spec => []NoOvercommit
<1>1. Init => ExactInv
  BY TypeInit, InitExact DEF ExactInv
<1>. QED  BY <1>1, ExactNext, ExactImplies, PTL DEF Spec

=============================================================================
