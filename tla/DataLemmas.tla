----------------------------- MODULE DataLemmas -----------------------------
(***************************************************************************)
(* Facts about numbers, recursive functions and sums that the proofs of    *)
(* several components need.                                                *)
(*                                                                         *)
(* Induction is over a set: to show P(n) for every natural, a proof shows  *)
(* that {n \in Nat : P(n)} holds zero and every successor.                 *)
(***************************************************************************)
EXTENDS Integers, FiniteSets, Functions, FiniteSetTheorems, WellFoundedInduction, TLAPS

-----------------------------------------------------------------------------
(* Induction *)

\* A set that holds zero and the successor of each natural in it holds them all.
LEMMA Induction ==
  ASSUME NEW S, 0 \in S, \A n \in Nat : n \in S => n + 1 \in S
  PROVE  Nat \subseteq S
<1>. DEFINE R   == OpToRel(<, Nat)
            Bad == {n \in Nat : n \notin S}
<1>. SUFFICES ASSUME Bad # {} PROVE FALSE
  OBVIOUS
<1>1. IsWellFoundedOn(R, Nat)
  BY NatLessThanWellFounded
<1>2. PICK n \in Bad : \A m \in Bad : ~(<<m, n>> \in R)
  <2>1. Bad \in SUBSET Nat
    OBVIOUS
  <2>. HIDE DEF R, Bad
  <2>. QED  BY <1>1, <2>1, WFMin
<1>3. n # 0 /\ n - 1 \in Nat /\ n - 1 < n
  OBVIOUS
<1>4. n - 1 \notin Bad
  BY <1>2, <1>3 DEF OpToRel
<1>5. (n - 1) + 1 \in S
  BY <1>3, <1>4
<1>. QED  BY <1>5

\* The same up to a bound.
LEMMA BoundedInduction ==
  ASSUME NEW b \in Nat, NEW S, 0 \in S, \A n \in 1..b : n - 1 \in S => n \in S
  PROVE  0..b \subseteq S
<1>. DEFINE T == {n \in Nat : n <= b => n \in S}
<1>1. 0 \in T /\ \A n \in Nat : n \in T => n + 1 \in T
  <2>1. SUFFICES ASSUME NEW n \in Nat, n \in T, n + 1 <= b
                 PROVE  n + 1 \in S
    OBVIOUS
  <2>2. n + 1 \in 1..b /\ (n + 1) - 1 = n /\ n \in S
    BY <2>1
  <2>. QED  BY <2>2
<1>2. Nat \subseteq T
  <2>. HIDE DEF T
  <2>. QED  BY <1>1, Induction
<1>. QED  BY <1>2

\* Every set of naturals but the empty one has a least element.
LEMMA LeastNatural ==
  ASSUME NEW S \in SUBSET Nat, S # {}
  PROVE  \E n \in S : \A m \in S : n <= m
<1>. DEFINE R == OpToRel(<, Nat)
<1>1. IsWellFoundedOn(R, Nat)
  BY NatLessThanWellFounded
<1>2. PICK n \in S : \A m \in S : ~ (<<m, n>> \in R)
  <2>. HIDE DEF R
  <2>. QED  BY <1>1, WFMin
<1>3. \A m \in S : ~ (m < n)
  BY <1>2 DEF OpToRel
<1>. QED  BY <1>3

-----------------------------------------------------------------------------
(* Functions defined by a step on the naturals up to a bound *)

\* step says what each index makes of the value before it.
IsIteration(f, n, base, step) ==
  f = [k \in 0..n |-> IF k = 0 THEN base ELSE step[k][f[k - 1]]]

\* There is such a function, and its values are those the steps give.
LEMMA IterationExists ==
  ASSUME NEW n \in Nat, NEW S, NEW base \in S, NEW step \in [1..n -> [S -> S]]
  PROVE  \E f \in [0..n -> S] : IsIteration(f, n, base, step)
<1>. DEFINE Good == {m \in 0..n : \E f \in [0..m -> S] : IsIteration(f, m, base, step)}
<1>1. 0 \in Good
  <2>. DEFINE f == [k \in 0..0 |-> base]
  <2>1. f \in [0..0 -> S] /\ f = [k \in 0..0 |-> IF k = 0 THEN base ELSE step[k][f[k - 1]]]
    OBVIOUS
  <2>2. IsIteration(f, 0, base, step) /\ 0 \in 0..n
    BY <2>1 DEF IsIteration
  <2>. HIDE DEF f
  <2>. QED  BY <2>1, <2>2
<1>2. ASSUME NEW m \in 1..n, m - 1 \in Good
      PROVE  m \in Good
  <2>1. PICK f \in [0..(m - 1) -> S] : IsIteration(f, m - 1, base, step)
    BY <1>2
  <2>. DEFINE g == [k \in 0..m |-> IF k = m THEN step[m][f[m - 1]] ELSE f[k]]
  <2>2. \A k \in 0..(m - 1) : f[k] = IF k = 0 THEN base ELSE step[k][f[k - 1]]
    BY <2>1 DEF IsIteration
  <2>3. m - 1 \in 0..(m - 1) /\ f[m - 1] \in S /\ step[m][f[m - 1]] \in S
    OBVIOUS
  <2>4. g \in [0..m -> S]
    <3>1. \A k \in 0..m : k # m => k \in 0..(m - 1)
      OBVIOUS
    <3>. QED  BY <2>3, <3>1
  <2>5. \A k \in 0..m : g[k] = IF k = 0 THEN base ELSE step[k][g[k - 1]]
    <3>. TAKE k \in 0..m
    <3>1. CASE k = m
      <4>1. m - 1 \in 0..m /\ m - 1 # m /\ k # 0
        BY <3>1
      <4>2. g[m - 1] = f[m - 1] /\ g[k] = step[m][f[m - 1]]
        BY <3>1, <4>1
      <4>. HIDE DEF g
      <4>. QED  BY <3>1, <4>1, <4>2
    <3>2. CASE k # m
      <4>1. k \in 0..(m - 1) /\ g[k] = f[k] /\ (k # 0 => k - 1 \in 0..m /\ k - 1 # m)
        BY <3>2
      <4>2. k # 0 => g[k - 1] = f[k - 1]
        BY <4>1
      <4>. HIDE DEF g
      <4>. QED  BY <2>2, <4>1, <4>2
    <3>. QED  BY <3>1, <3>2
  <2>6. IsIteration(g, m, base, step)
    <3>1. g = [k \in 0..m |-> g[k]]
      OBVIOUS
    <3>. HIDE DEF g
    <3>. QED  BY <2>5, <3>1 DEF IsIteration
  <2>. QED  BY <2>4, <2>6
<1>3. 0..n \subseteq Good
  <2>. HIDE DEF Good
  <2>. QED  BY <1>1, <1>2, BoundedInduction
<1>. QED  BY <1>3

-----------------------------------------------------------------------------
(* Sums: SumFunction folds + over a domain, one chosen element at a time *)

Chosen(s) == CHOOSE x \in s : TRUE

\* partial holds the sum of f over each subset of its domain D.
IsPartialSums(partial, f, D) ==
  partial = [s \in D |->
               IF s = {} THEN 0 ELSE f[Chosen(s)] + partial[s \ {Chosen(s)}]]

\* Taking the chosen element leaves a smaller set.
LEMMA ChosenLess ==
  ASSUME NEW s, IsFiniteSet(s), s # {}
  PROVE  /\ Chosen(s) \in s /\ IsFiniteSet(s \ {Chosen(s)})
         /\ Cardinality(s) \in Nat \ {0}
         /\ Cardinality(s \ {Chosen(s)}) = Cardinality(s) - 1
<1>1. Chosen(s) \in s
  BY DEF Chosen
<1>. HIDE DEF Chosen
<1>2. /\ IsFiniteSet(s \ {Chosen(s)})
      /\ Cardinality(s \ {Chosen(s)}) = Cardinality(s) - 1
  BY <1>1, FS_RemoveElement
<1>3. Cardinality(s) \in Nat /\ Cardinality(s) # 0
  BY FS_CardinalityType, FS_EmptySet
<1>. QED  BY <1>1, <1>2, <1>3

\* The partial sums of a function to the naturals exist: those of the
\* subsets of at most m elements extend to those of at most m + 1.
LEMMA PartialSumsExist ==
  ASSUME NEW S, IsFiniteSet(S), NEW f \in [S -> Nat]
  PROVE  \E partial : IsPartialSums(partial, f, SUBSET S)
<1>. DEFINE Upto(m) == {s \in SUBSET S : Cardinality(s) <= m}
            Good == {m \in Nat : \E partial : IsPartialSums(partial, f, Upto(m))}
<1>0. \A s \in SUBSET S : IsFiniteSet(s) /\ Cardinality(s) \in Nat
  BY FS_Subset, FS_CardinalityType
<1>1. 0 \in Good
  <2>. DEFINE partial == [s \in Upto(0) |-> 0]
  <2>1. \A s \in Upto(0) : s = {}
    BY <1>0, FS_EmptySet
  <2>2. partial = [s \in Upto(0) |->
                     IF s = {} THEN 0 ELSE f[Chosen(s)] + partial[s \ {Chosen(s)}]]
    BY <2>1
  <2>. HIDE DEF partial, Upto
  <2>. QED  BY <2>2 DEF IsPartialSums
<1>2. ASSUME NEW m \in Nat, m \in Good
      PROVE  m + 1 \in Good
  <2>1. PICK partial : IsPartialSums(partial, f, Upto(m))
    BY <1>2
  <2>. DEFINE next == [s \in Upto(m + 1) |->
                        IF s = {} THEN 0 ELSE f[Chosen(s)] + partial[s \ {Chosen(s)}]]
  <2>2. \A s \in Upto(m) :
          partial[s] = IF s = {} THEN 0 ELSE f[Chosen(s)] + partial[s \ {Chosen(s)}]
    BY <2>1 DEF IsPartialSums
  <2>3. \A s \in Upto(m + 1) : s # {} => s \ {Chosen(s)} \in Upto(m)
    <3>. TAKE s \in Upto(m + 1)
    <3>. HAVE s # {}
    <3>1. Cardinality(s \ {Chosen(s)}) = Cardinality(s) - 1 /\ Cardinality(s) \in Nat
      BY <1>0, ChosenLess
    <3>. QED  BY <3>1
  <2>4. \A s \in Upto(m) : s \in Upto(m + 1) /\ next[s] = partial[s]
    <3>1. Upto(m) \subseteq Upto(m + 1)
      BY <1>0
    <3>. HIDE DEF Upto
    <3>. QED  BY <2>2, <3>1
  <2>5. next = [s \in Upto(m + 1) |->
                 IF s = {} THEN 0 ELSE f[Chosen(s)] + next[s \ {Chosen(s)}]]
    <3>1. \A s \in Upto(m + 1) : s # {} => next[s \ {Chosen(s)}] = partial[s \ {Chosen(s)}]
      BY <2>3, <2>4
    <3>2. \A s \in Upto(m + 1) :
            next[s] = IF s = {} THEN 0 ELSE f[Chosen(s)] + next[s \ {Chosen(s)}]
      <4>. HIDE DEF Upto
      <4>1. \A s \in Upto(m + 1) :
              next[s] = IF s = {} THEN 0 ELSE f[Chosen(s)] + partial[s \ {Chosen(s)}]
        OBVIOUS
      <4>. HIDE DEF next
      <4>. QED  BY <3>1, <4>1
    <3>3. next = [s \in Upto(m + 1) |-> next[s]]
      OBVIOUS
    <3>. HIDE DEF next, Upto
    <3>. QED  BY <3>2, <3>3
  <2>. HIDE DEF next, Upto
  <2>. QED  BY <2>5 DEF IsPartialSums
<1>3. Cardinality(S) \in Good
  <2>1. Nat \subseteq Good
    <3>. HIDE DEF Good
    <3>. QED  BY <1>1, <1>2, Induction
  <2>. QED  BY <1>0, <2>1
<1>4. Upto(Cardinality(S)) = SUBSET S
  BY FS_Subset
<1>. QED
  <2>. HIDE DEF Upto
  <2>. QED  BY <1>3, <1>4

\* The sum of a function is its last partial sum.
LEMMA SumIsPartial ==
  ASSUME NEW S, IsFiniteSet(S), NEW f \in [S -> Nat]
  PROVE  \E partial : IsPartialSums(partial, f, SUBSET S) /\ SumFunction(f) = partial[S]
<1>. DEFINE sums == CHOOSE partial : IsPartialSums(partial, f, SUBSET S)
<1>1. IsPartialSums(sums, f, SUBSET S)
  BY PartialSumsExist
<1>2. SumFunction(f) = sums[S]
  BY DEF SumFunction, SumFunctionOnSet, FoldFunctionOnSet, MapThenFoldSet,
         IsPartialSums, Chosen
<1>. HIDE DEF sums
<1>. QED  BY <1>1, <1>2

\* Of two functions that differ at most at one argument, every two partial
\* sums differ by what the functions do there.
LEMMA PartialSumsDiffer ==
  ASSUME NEW S, IsFiniteSet(S), NEW f \in [S -> Nat], NEW g \in [S -> Nat], NEW a \in S,
         \A x \in S : x # a => f[x] = g[x],
         NEW F, IsPartialSums(F, f, SUBSET S), NEW G, IsPartialSums(G, g, SUBSET S),
         NEW s \in SUBSET S
  PROVE  /\ F[s] \in Nat /\ G[s] \in Nat
         /\ IF a \in s THEN G[s] + f[a] = F[s] + g[a] ELSE G[s] = F[s]
<1>. DEFINE Fine(t) == /\ F[t] \in Nat /\ G[t] \in Nat
                       /\ IF a \in t THEN G[t] + f[a] = F[t] + g[a] ELSE G[t] = F[t]
            Good == {m \in Nat : \A t \in SUBSET S : Cardinality(t) = m => Fine(t)}
<1>0. \A t \in SUBSET S : IsFiniteSet(t) /\ Cardinality(t) \in Nat
  BY FS_Subset, FS_CardinalityType
<1>1. \A t \in SUBSET S :
        /\ F[t] = IF t = {} THEN 0 ELSE f[Chosen(t)] + F[t \ {Chosen(t)}]
        /\ G[t] = IF t = {} THEN 0 ELSE g[Chosen(t)] + G[t \ {Chosen(t)}]
  BY DEF IsPartialSums
<1>2. 0 \in Good
  <2>1. \A t \in SUBSET S : Cardinality(t) = 0 => t = {}
    BY <1>0, FS_EmptySet
  <2>2. F[{}] = 0 /\ G[{}] = 0
    <3>1. {} \in SUBSET S
      OBVIOUS
    <3>. QED  BY <1>1, <3>1
  <2>3. Fine({})
    BY <2>2
  <2>. HIDE DEF Fine
  <2>. QED  BY <2>1, <2>3
<1>3. ASSUME NEW m \in Nat, m \in Good
      PROVE  m + 1 \in Good
  <2>1. SUFFICES ASSUME NEW t \in SUBSET S, Cardinality(t) = m + 1
                 PROVE  Fine(t)
    OBVIOUS
  <2>. DEFINE c == Chosen(t)
              u == t \ {c}
  <2>2. t # {}
    <3>1. Cardinality({}) = 0
      BY FS_EmptySet
    <3>2. m + 1 # 0
      OBVIOUS
    <3>. QED  BY <2>1, <3>1, <3>2, Zenon
  <2>3. c \in t /\ c \in S /\ u \in SUBSET S /\ Cardinality(u) = m
    BY <1>0, <2>1, <2>2, ChosenLess
  <2>4. Fine(u)
    BY <1>3, <2>3
  <2>5. F[t] = f[c] + F[u] /\ G[t] = g[c] + G[u]
    BY <1>1, <2>2
  <2>6. a \in t <=> (a = c \/ a \in u)
    BY <2>3
  <2>7. a = c => a \notin u
    OBVIOUS
  <2>8. c # a => f[c] = g[c]
    BY <2>3
  <2>9. f[c] \in Nat /\ g[c] \in Nat /\ f[a] \in Nat /\ g[a] \in Nat
    BY <2>3
  <2>. HIDE DEF c, u
  <2>. QED  BY <2>4, <2>5, <2>6, <2>7, <2>8, <2>9
<1>4. Cardinality(s) \in Good
  <2>1. Nat \subseteq Good
    <3>. HIDE DEF Good
    <3>. QED  BY <1>2, <1>3, Induction
  <2>. QED  BY <1>0, <2>1
<1>. QED
  <2>. HIDE DEF Fine
  <2>. QED
    <3>1. Fine(s)
      BY <1>4
    <3>. QED  BY <3>1 DEF Fine

\* A sum of naturals is a natural.
LEMMA SumType ==
  ASSUME NEW S, IsFiniteSet(S), NEW f \in [S -> Nat]
  PROVE  SumFunction(f) \in Nat
<1>1. PICK F : IsPartialSums(F, f, SUBSET S) /\ SumFunction(f) = F[S]
  BY SumIsPartial
<1>2. CASE S = {}
  <2>1. F[S] = IF S = {} THEN 0 ELSE f[Chosen(S)] + F[S \ {Chosen(S)}]
    BY <1>1 DEF IsPartialSums
  <2>. QED  BY <1>1, <1>2, <2>1
<1>3. CASE S # {}
  <2>1. PICK a \in S : TRUE
    BY <1>3
  <2>. QED  BY <1>1, <2>1, PartialSumsDiffer
<1>. QED  BY <1>2, <1>3

\* Changing one summand changes the sum by as much.
LEMMA SumChange ==
  ASSUME NEW S, IsFiniteSet(S), NEW f \in [S -> Nat], NEW g \in [S -> Nat], NEW a \in S,
         \A x \in S : x # a => f[x] = g[x]
  PROVE  SumFunction(g) + f[a] = SumFunction(f) + g[a]
<1>1. PICK F : IsPartialSums(F, f, SUBSET S) /\ SumFunction(f) = F[S]
  BY SumIsPartial
<1>2. PICK G : IsPartialSums(G, g, SUBSET S) /\ SumFunction(g) = G[S]
  BY SumIsPartial
<1>. QED  BY <1>1, <1>2, PartialSumsDiffer

\* Nothing summed is nothing.
LEMMA SumOfZeros ==
  ASSUME NEW S, IsFiniteSet(S)
  PROVE  SumFunction([x \in S |-> 0]) = 0
<1>. DEFINE f == [x \in S |-> 0]
            Good(F) == {m \in Nat : \A t \in SUBSET S : Cardinality(t) = m => F[t] = 0}
<1>0. \A t \in SUBSET S : IsFiniteSet(t) /\ Cardinality(t) \in Nat
  BY FS_Subset, FS_CardinalityType
<1>1. PICK F : IsPartialSums(F, f, SUBSET S) /\ SumFunction(f) = F[S]
  <2>1. f \in [S -> Nat]
    OBVIOUS
  <2>. HIDE DEF f
  <2>. QED  BY <2>1, SumIsPartial
<1>2. \A t \in SUBSET S : F[t] = IF t = {} THEN 0 ELSE f[Chosen(t)] + F[t \ {Chosen(t)}]
  <2>. HIDE DEF f
  <2>. QED  BY <1>1 DEF IsPartialSums
<1>3. 0 \in Good(F)
  <2>1. \A t \in SUBSET S : Cardinality(t) = 0 => t = {}
    BY <1>0, FS_EmptySet
  <2>. QED  BY <1>2, <2>1
<1>4. ASSUME NEW m \in Nat, m \in Good(F)
      PROVE  m + 1 \in Good(F)
  <2>1. SUFFICES ASSUME NEW t \in SUBSET S, Cardinality(t) = m + 1
                 PROVE  F[t] = 0
    OBVIOUS
  <2>2. t # {}
    BY <2>1, FS_EmptySet
  <2>3. Chosen(t) \in S /\ t \ {Chosen(t)} \in SUBSET S /\ Cardinality(t \ {Chosen(t)}) = m
    BY <1>0, <2>1, <2>2, ChosenLess
  <2>4. F[t \ {Chosen(t)}] = 0 /\ f[Chosen(t)] = 0
    BY <1>4, <2>3
  <2>. HIDE DEF f
  <2>5. F[t] = f[Chosen(t)] + F[t \ {Chosen(t)}]
    BY <1>2, <2>2
  <2>. QED  BY <2>4, <2>5
<1>5. Cardinality(S) \in Good(F)
  <2>1. Nat \subseteq Good(F)
    <3>. HIDE DEF Good
    <3>. QED  BY <1>3, <1>4, Induction
  <2>. QED  BY <1>0, <2>1
<1>. QED  BY <1>1, <1>5

\* A partial sum splits off any of its summands.
LEMMA PartialSumsSplit ==
  ASSUME NEW S, IsFiniteSet(S), NEW f \in [S -> Nat], NEW F, IsPartialSums(F, f, SUBSET S),
         NEW s \in SUBSET S, NEW a \in s
  PROVE  F[s] = f[a] + F[s \ {a}]
<1>. DEFINE Fine(t) == \A x \in t : F[t] = f[x] + F[t \ {x}]
            Good == {m \in Nat : \A t \in SUBSET S : Cardinality(t) = m => Fine(t)}
<1>0. \A t \in SUBSET S : IsFiniteSet(t) /\ Cardinality(t) \in Nat
  BY FS_Subset, FS_CardinalityType
<1>1. \A t \in SUBSET S : F[t] = IF t = {} THEN 0 ELSE f[Chosen(t)] + F[t \ {Chosen(t)}]
  BY DEF IsPartialSums
<1>2. \A t \in SUBSET S : F[t] \in Nat
  <2>. SUFFICES ASSUME NEW t \in SUBSET S PROVE F[t] \in Nat
    OBVIOUS
  <2>1. CASE S = {}
    <3>1. t = {}
      BY <2>1
    <3>2. F[t] = 0
      BY <1>1, <3>1
    <3>. QED  BY <3>2
  <2>2. CASE S # {}
    <3>1. PICK y \in S : TRUE
      BY <2>2
    <3>. QED  BY <3>1, PartialSumsDiffer
  <2>. QED  BY <2>1, <2>2
<1>3. 0 \in Good
  <2>1. \A t \in SUBSET S : Cardinality(t) = 0 => t = {}
    BY <1>0, FS_EmptySet
  <2>. QED  BY <2>1
<1>4. ASSUME NEW m \in Nat, m \in Good
      PROVE  m + 1 \in Good
  <2>1. SUFFICES ASSUME NEW t \in SUBSET S, Cardinality(t) = m + 1, NEW x \in t
                 PROVE  F[t] = f[x] + F[t \ {x}]
    OBVIOUS
  <2>. DEFINE c == Chosen(t)
              u == t \ {c}
              v == t \ {x}
              w == u \ {x}
  <2>2. c \in t /\ Cardinality(u) = m /\ Cardinality(v) = m /\ t # {}
    BY SMTT(60), <1>0, <2>1, ChosenLess, FS_RemoveElement
  <2>3. u \in SUBSET S /\ v \in SUBSET S /\ w \in SUBSET S /\ c \in S /\ x \in S
    BY <2>2
  <2>4. F[t] = f[c] + F[u]
    BY <1>1, <2>2
  <2>5. CASE x = c
    BY <2>4, <2>5
  <2>6. CASE x # c
    <3>1. x \in u /\ c \in v /\ v \ {c} = w
      BY <2>2, <2>6
    <3>2. Fine(u) /\ Fine(v)
      BY <1>4, <2>2, <2>3
    <3>. HIDE DEF c, u, v, w
    <3>3. F[u] = f[x] + F[w] /\ F[v] = f[c] + F[w]
      BY <3>1, <3>2 DEF w
    <3>4. f[x] \in Nat /\ f[c] \in Nat /\ F[w] \in Nat
      BY <1>2, <2>3
    <3>. QED  BY <2>4, <3>3, <3>4 DEF v
  <2>. QED  BY <2>5, <2>6
<1>5. Nat \subseteq Good
  <2>. HIDE DEF Good
  <2>. QED  BY <1>3, <1>4, Induction
<1>6. \A t \in SUBSET S : Fine(t)
  BY <1>0, <1>5
<1>. QED  BY <1>6

\* A sum splits off any of its summands.
LEMMA SumSplit ==
  ASSUME NEW T, IsFiniteSet(T), NEW f \in [T -> Nat], NEW a \in T
  PROVE  SumFunction(f) = f[a] + SumFunction([x \in T \ {a} |-> f[x]])
<1>. DEFINE S == T \ {a}
            g == [x \in S |-> f[x]]
<1>1. IsFiniteSet(S) /\ g \in [S -> Nat] /\ S \in SUBSET T
  BY FS_RemoveElement
<1>. HIDE DEF g
<1>2. PICK F : IsPartialSums(F, f, SUBSET T) /\ SumFunction(f) = F[T]
  BY SumIsPartial
<1>. HIDE DEF S
<1>3. PICK G : IsPartialSums(G, g, SUBSET S) /\ SumFunction(g) = G[S]
  BY <1>1, SumIsPartial
<1>4. F[T] = f[a] + F[S]
  <2>1. T \in SUBSET T
    OBVIOUS
  <2>2. IsPartialSums(F, f, SUBSET T)
    BY <1>2
  <2>3. F[T] = f[a] + F[T \ {a}]
    BY <2>1, <2>2, PartialSumsSplit
  <2>. QED  BY <2>3 DEF S
<1>5. F[S] = G[S]
  <2>. DEFINE Good == {m \in Nat : \A t \in SUBSET S : Cardinality(t) = m => F[t] = G[t]}
  <2>0. \A t \in SUBSET S : IsFiniteSet(t) /\ Cardinality(t) \in Nat /\ t \in SUBSET T
    BY <1>1, FS_Subset, FS_CardinalityType
  <2>1. \A t \in SUBSET S :
          /\ F[t] = IF t = {} THEN 0 ELSE f[Chosen(t)] + F[t \ {Chosen(t)}]
          /\ G[t] = IF t = {} THEN 0 ELSE g[Chosen(t)] + G[t \ {Chosen(t)}]
    BY <1>2, <1>3, <2>0 DEF IsPartialSums
  <2>2. 0 \in Good
    <3>1. \A t \in SUBSET S : Cardinality(t) = 0 => t = {}
      BY <2>0, FS_EmptySet
    <3>. QED  BY <2>1, <3>1
  <2>3. ASSUME NEW m \in Nat, m \in Good
        PROVE  m + 1 \in Good
    <3>1. SUFFICES ASSUME NEW t \in SUBSET S, Cardinality(t) = m + 1
                   PROVE  F[t] = G[t]
      OBVIOUS
    <3>2. t # {}
      BY <3>1, FS_EmptySet
    <3>3. Chosen(t) \in S /\ t \ {Chosen(t)} \in SUBSET S /\ Cardinality(t \ {Chosen(t)}) = m
      BY <2>0, <3>1, <3>2, ChosenLess
    <3>4. F[t \ {Chosen(t)}] = G[t \ {Chosen(t)}] /\ g[Chosen(t)] = f[Chosen(t)]
      BY <2>3, <3>3 DEF g
    <3>. QED  BY <2>1, <3>2, <3>4
  <2>4. Nat \subseteq Good
    <3>. HIDE DEF Good
    <3>. QED  BY <2>2, <2>3, Induction
  <2>. QED  BY <2>0, <2>4
<1>. QED  BY <1>2, <1>3, <1>4, <1>5 DEF g, S

\* The same functions have the same sum, over nothing none.
LEMMA SumOfNothing ==
  ASSUME NEW f, f = [x \in {} |-> f[x]]
  PROVE  SumFunction(f) = 0
<1>1. f = [x \in {} |-> 0]
  OBVIOUS
<1>2. SumFunction([x \in {} |-> 0]) = 0
  BY FS_EmptySet, SumOfZeros
<1>. QED  BY <1>1, <1>2

=============================================================================
