--------------------------- MODULE Services_proofs ---------------------------
(***************************************************************************)
(* The message queue implements the mailboxes: every step of the network   *)
(* posts mail, delivers mail, loses what straddles two packets, stops the  *)
(* simulation, or leaves the mailboxes alone. And a request only reaches a *)
(* service that was asked.                                                 *)
(***************************************************************************)
EXTENDS Services, DataLemmas, SequenceTheorems

Letter == {m \in [by : Topic, id : 1..MaxPushed, to : Topic] : m.by # m.to}

-----------------------------------------------------------------------------
(* The messages of a sender to a receiver, FromTo *)

Matches(m, p, q) == m.by = p /\ m.to = q
Pick(picked, m, p, q) == IF Matches(m, p, q) THEN Append(picked, m) ELSE picked

PicksFrom(h, s, p, q) ==
  h = [i \in 0..Len(s) |->
         IF i = 0 THEN <<>>
         ELSE IF s[i].by = p /\ s[i].to = q THEN Append(h[i - 1], s[i])
         ELSE h[i - 1]]

\* h tells what is picked of each prefix of s.
Picked(h, s, p, q) ==
  /\ h \in [0..Len(s) -> Seq(Letter)] /\ h[0] = <<>>
  /\ \A i \in 1..Len(s) : h[i] = Pick(h[i - 1], s[i], p, q)

LEMMA PickType ==
  ASSUME NEW x \in Seq(Letter), NEW m \in Letter, NEW p, NEW q
  PROVE  Pick(x, m, p, q) \in Seq(Letter)
BY DEF Pick

LEMMA PicksExist ==
  ASSUME NEW s \in Seq(Letter), NEW p, NEW q
  PROVE  \E h : PicksFrom(h, s, p, q)
<1>. DEFINE n    == Len(s)
            step == [i \in 1..n |-> [x \in Seq(Letter) |-> Pick(x, s[i], p, q)]]
<1>1. n \in Nat /\ <<>> \in Seq(Letter)
  BY LenProperties
<1>2. step \in [1..n -> [Seq(Letter) -> Seq(Letter)]]
  <2>1. \A i \in 1..n : s[i] \in Letter
    BY ElementOfSeq
  <2>. QED BY <2>1, PickType
<1>3. \A i \in 1..n : \A x \in Seq(Letter) : step[i][x] = Pick(x, s[i], p, q)
  OBVIOUS
<1>. HIDE DEF step, n
<1>4. PICK h \in [0..n -> Seq(Letter)] : IsIteration(h, n, <<>>, step)
  BY <1>1, <1>2, IterationExists
<1>5. h = [k \in 0..n |-> IF k = 0 THEN <<>> ELSE step[k][h[k - 1]]]
  BY <1>4 DEF IsIteration
<1>6. \A k \in 0..n : k # 0 => h[k - 1] \in Seq(Letter) /\ k \in 1..n
  BY <1>1, <1>4
<1>7. \A k \in 0..n : h[k] = IF k = 0 THEN <<>> ELSE Pick(h[k - 1], s[k], p, q)
  BY <1>3, <1>5, <1>6
<1>8. h = [k \in 0..n |-> IF k = 0 THEN <<>> ELSE Pick(h[k - 1], s[k], p, q)]
  BY <1>5, <1>7
<1>. QED BY <1>8 DEF PicksFrom, Pick, Matches, n

LEMMA PickedIs ==
  ASSUME NEW s \in Seq(Letter), NEW p, NEW q, NEW h, PicksFrom(h, s, p, q)
  PROVE  Picked(h, s, p, q)
<1>1. Len(s) \in Nat /\ \A i \in 1..Len(s) : s[i] \in Letter
  BY LenProperties, ElementOfSeq
<1>2. /\ h = [i \in 0..Len(s) |-> h[i]]
      /\ \A i \in 0..Len(s) : h[i] = IF i = 0 THEN <<>> ELSE Pick(h[i - 1], s[i], p, q)
  BY DEF PicksFrom, Pick, Matches
<1>3. h[0] = <<>> /\ \A i \in 1..Len(s) : h[i] = Pick(h[i - 1], s[i], p, q)
  BY <1>1, <1>2
<1>. DEFINE Good == {i \in 0..Len(s) : h[i] \in Seq(Letter)}
<1>4. 0 \in Good /\ \A i \in 1..Len(s) : i - 1 \in Good => i \in Good
  <2>1. <<>> \in Seq(Letter) /\ 0 \in 0..Len(s)
    BY <1>1, EmptySeq
  <2>2. ASSUME NEW i \in 1..Len(s), i - 1 \in Good PROVE i \in Good
    <3>1. i \in 0..Len(s) /\ h[i - 1] \in Seq(Letter) /\ s[i] \in Letter
      BY <1>1, <2>2
    <3>. QED BY <1>3, <3>1, PickType
  <2>. QED BY <1>3, <2>1, <2>2
<1>5. 0..Len(s) \subseteq Good
  <2>. HIDE DEF Good
  <2>. QED BY <1>1, <1>4, BoundedInduction
<1>6. h \in [0..Len(s) -> Seq(Letter)]
  BY <1>2, <1>5
<1>. QED BY <1>3, <1>6 DEF Picked

LEMMA FromToPicks ==
  ASSUME NEW s \in Seq(Letter), NEW p, NEW q
  PROVE  \E h : Picked(h, s, p, q) /\ FromTo(s, p, q) = h[Len(s)]
<1>. DEFINE h == CHOOSE g : PicksFrom(g, s, p, q)
<1>1. PicksFrom(h, s, p, q)
  BY PicksExist
<1>2. FromTo(s, p, q) = h[Len(s)]
  BY DEF FromTo, PicksFrom
<1>. HIDE DEF h
<1>. QED BY <1>1, <1>2, PickedIs

LEMMA FromToType ==
  ASSUME NEW s \in Seq(Letter), NEW p, NEW q
  PROVE  FromTo(s, p, q) \in Seq(Letter)
<1>1. Len(s) \in Nat
  BY LenProperties
<1>. QED BY <1>1, FromToPicks DEF Picked

LEMMA FromToNothing ==
  ASSUME NEW p, NEW q
  PROVE  FromTo(<<>>, p, q) = <<>>
<1>. DEFINE s == <<>>
<1>1. s \in Seq(Letter) /\ Len(s) = 0
  BY EmptySeq
<1>. HIDE DEF s
<1>2. PICK h : Picked(h, s, p, q) /\ FromTo(s, p, q) = h[Len(s)]
  BY <1>1, FromToPicks
<1>3. FromTo(s, p, q) = <<>>
  BY <1>1, <1>2 DEF Picked
<1>. QED BY <1>3 DEF s

\* Two sequences that agree up to n have the same picks up to n.
LEMMA SamePicks ==
  ASSUME NEW s \in Seq(Letter), NEW t \in Seq(Letter), NEW p, NEW q, NEW h, NEW g,
         Picked(h, s, p, q), Picked(g, t, p, q),
         NEW n \in Nat, n <= Len(s), n <= Len(t), \A i \in 1..n : s[i] = t[i]
  PROVE  h[n] = g[n]
<1>. DEFINE Good == {i \in 0..n : h[i] = g[i]}
<1>0. Len(s) \in Nat /\ Len(t) \in Nat
  BY LenProperties
<1>1. 0 \in Good
  BY DEF Picked
<1>2. \A i \in 1..n : i - 1 \in Good => i \in Good
  <2>1. SUFFICES ASSUME NEW i \in 1..n, h[i - 1] = g[i - 1]
                 PROVE  h[i] = g[i]
    OBVIOUS
  <2>2. i \in 1..Len(s) /\ i \in 1..Len(t) /\ s[i] = t[i]
    BY <1>0
  <2>. QED BY <2>1, <2>2 DEF Picked
<1>3. 0..n \subseteq Good
  <2>. HIDE DEF Good
  <2>. QED BY <1>1, <1>2, BoundedInduction
<1>. QED BY <1>3

LEMMA FromToAppend ==
  ASSUME NEW s \in Seq(Letter), NEW m \in Letter, NEW p, NEW q
  PROVE  FromTo(Append(s, m), p, q) = Pick(FromTo(s, p, q), m, p, q)
<1>. DEFINE t == Append(s, m)
            n == Len(s)
<1>1. /\ t \in Seq(Letter) /\ Len(t) = n + 1 /\ t[n + 1] = m /\ n \in Nat
      /\ \A i \in 1..n : t[i] = s[i]
  BY AppendProperties, LenProperties
<1>. HIDE DEF t
<1>2. PICK h : Picked(h, s, p, q) /\ FromTo(s, p, q) = h[n]
  BY FromToPicks
<1>3. PICK g : Picked(g, t, p, q) /\ FromTo(t, p, q) = g[n + 1]
  BY <1>1, FromToPicks
<1>. HIDE DEF n
<1>4. h[n] = g[n]
  <2>1. n <= Len(s) /\ n <= Len(t)
    BY <1>1 DEF n
  <2>. QED BY <1>1, <1>2, <1>3, <2>1, SamePicks
<1>5. g[n + 1] = Pick(g[n], m, p, q)
  <2>1. n + 1 \in 1..Len(t) /\ (n + 1) - 1 = n
    BY <1>1
  <2>. QED BY <1>1, <1>3, <2>1 DEF Picked
<1>. QED BY <1>2, <1>3, <1>4, <1>5 DEF t

LEMMA PickOfConcat ==
  ASSUME NEW x \in Seq(Letter), NEW y \in Seq(Letter), NEW m \in Letter, NEW p, NEW q
  PROVE  Pick(x \o y, m, p, q) = x \o Pick(y, m, p, q)
<1>1. Append(x \o y, m) = x \o Append(y, m)
  <2>1. /\ x \o y \in Seq(Letter) /\ <<m>> \in Seq(Letter)
        /\ Append(x \o y, m) = (x \o y) \o <<m>> /\ Append(y, m) = y \o <<m>>
    BY ConcatProperties, AppendIsConcat
  <2>. QED BY <2>1, ConcatAssociative
<1>. QED BY <1>1 DEF Pick

LEMMA FromToConcat ==
  ASSUME NEW s \in Seq(Letter), NEW t \in Seq(Letter), NEW p, NEW q
  PROVE  FromTo(s \o t, p, q) = FromTo(s, p, q) \o FromTo(t, p, q)
<1>. DEFINE n == Len(t)
            pre(i) == SubSeq(t, 1, i)
            Good == {i \in 0..n : FromTo(s \o pre(i), p, q) = FromTo(s, p, q) \o FromTo(pre(i), p, q)}
<1>1. n \in Nat /\ \A i \in 1..n : t[i] \in Letter
  BY LenProperties, ElementOfSeq
<1>2. \A i \in 0..n : pre(i) \in Seq(Letter)
  BY <1>1, SubSeqProperties
<1>3. pre(0) = <<>> /\ pre(n) = t
  BY SubSeqEmpty, SubSeqFull
<1>4. \A i \in 1..n : pre(i) = Append(pre(i - 1), t[i])
  <2>. TAKE i \in 1..n
  <2>1. 1 \in 1..n /\ i \in 1..n /\ i - 1 \in 0..n
    BY <1>1
  <2>2. pre(i) = pre(i - 1) \o <<t[i]>>
    BY <2>1, SubSeqRecursiveSecond
  <2>3. pre(i - 1) \o <<t[i]>> = Append(pre(i - 1), t[i])
    <3>1. pre(i - 1) \in Seq(Letter) /\ t[i] \in Letter
      BY <1>1, <1>2, <2>1
    <3>. HIDE DEF pre
    <3>. QED BY <3>1, AppendIsConcat
  <2>. QED BY <2>2, <2>3
<1>. HIDE DEF pre, n
<1>5. 0 \in Good
  <2>1. s \o <<>> = s /\ FromTo(s, p, q) \o <<>> = FromTo(s, p, q)
    BY ConcatEmptySeq, FromToType
  <2>2. FromTo(pre(0), p, q) = <<>> /\ s \o pre(0) = s
    BY <1>3, <2>1, FromToNothing
  <2>3. FromTo(s \o pre(0), p, q) = FromTo(s, p, q) \o FromTo(pre(0), p, q)
    BY <2>1, <2>2
  <2>4. 0 \in 0..n
    BY <1>1
  <2>. QED BY <2>3, <2>4
<1>6. ASSUME NEW i \in 1..n, i - 1 \in Good PROVE i \in Good
  <2>. DEFINE u == pre(i - 1)
              m == t[i]
  <2>1. i \in 0..n /\ i - 1 \in 0..n /\ u \in Seq(Letter) /\ m \in Letter /\ pre(i) = Append(u, m)
    BY <1>1, <1>2, <1>4
  <2>2. FromTo(s \o u, p, q) = FromTo(s, p, q) \o FromTo(u, p, q)
    BY <1>6
  <2>. HIDE DEF u, m
  <2>3. s \o Append(u, m) = Append(s \o u, m) /\ s \o u \in Seq(Letter)
    <3>1. <<m>> \in Seq(Letter) /\ s \o u \in Seq(Letter)
      BY <2>1, ConcatProperties
    <3>2. s \o Append(u, m) = s \o (u \o <<m>>) /\ Append(s \o u, m) = (s \o u) \o <<m>>
      BY <2>1, <3>1, AppendIsConcat
    <3>. QED BY <2>1, <3>1, <3>2, ConcatAssociative
  <2>4. FromTo(Append(s \o u, m), p, q) = Pick(FromTo(s \o u, p, q), m, p, q)
    <3>. DEFINE w == s \o u
    <3>1. w \in Seq(Letter)
      BY <2>3
    <3>. HIDE DEF w, Good
    <3>2. FromTo(Append(w, m), p, q) = Pick(FromTo(w, p, q), m, p, q)
      BY <2>1, <3>1, FromToAppend
    <3>. QED BY <3>2 DEF w
  <2>5. FromTo(Append(u, m), p, q) = Pick(FromTo(u, p, q), m, p, q)
    BY <2>1, FromToAppend
  <2>6. Pick(FromTo(s, p, q) \o FromTo(u, p, q), m, p, q)
          = FromTo(s, p, q) \o Pick(FromTo(u, p, q), m, p, q)
    BY <2>1, FromToType, PickOfConcat
  <2>7. FromTo(s \o pre(i), p, q) = FromTo(s, p, q) \o FromTo(pre(i), p, q)
    BY <2>1, <2>2, <2>3, <2>4, <2>5, <2>6
  <2>. QED BY <2>1, <2>7
<1>7. n \in Good
  <2>1. 0..n \subseteq Good
    <3>. HIDE DEF Good
    <3>. QED BY <1>1, <1>5, <1>6, BoundedInduction
  <2>. QED BY <1>1, <2>1
<1>. QED BY <1>3, <1>7

LEMMA FromToOne ==
  ASSUME NEW m \in Letter, NEW p, NEW q
  PROVE  FromTo(<<m>>, p, q) = IF Matches(m, p, q) THEN <<m>> ELSE <<>>
<1>. DEFINE e == <<>>
            s == <<m>>
<1>1. e \in Seq(Letter) /\ s = Append(e, m) /\ FromTo(e, p, q) = e
  BY EmptySeq, FromToNothing
<1>. HIDE DEF s, e
<1>2. FromTo(s, p, q) = Pick(e, m, p, q)
  BY <1>1, FromToAppend
<1>. QED BY <1>1, <1>2 DEF Pick, s, e

\* Nothing is picked where nothing matches.
LEMMA FromToNone ==
  ASSUME NEW s \in Seq(Letter), NEW p, NEW q, \A i \in 1..Len(s) : ~Matches(s[i], p, q)
  PROVE  FromTo(s, p, q) = <<>>
<1>1. Len(s) \in Nat
  BY LenProperties
<1>2. PICK h : Picked(h, s, p, q) /\ FromTo(s, p, q) = h[Len(s)]
  BY FromToPicks
<1>. DEFINE Good == {i \in 0..Len(s) : h[i] = <<>>}
<1>3. 0 \in Good
  BY <1>1, <1>2 DEF Picked
<1>4. \A i \in 1..Len(s) : i - 1 \in Good => i \in Good
  BY <1>1, <1>2 DEF Picked, Pick
<1>5. 0..Len(s) \subseteq Good
  <2>. HIDE DEF Good
  <2>. QED BY <1>1, <1>3, <1>4, BoundedInduction
<1>. QED BY <1>1, <1>2, <1>5

-----------------------------------------------------------------------------
(* The broker *)

To(q) == {m \in Letter : m.to = q}

Queues    == UNION {[D -> Seq(Letter)] : D \in SUBSET Topic}
Consumers == UNION {[D -> [socketId : Topic, ready : BOOLEAN]] : D \in SUBSET Topic}
Streams   == [Topic -> Seq(Letter)]

QueuesOK(qs) == qs \in Queues /\ \A t \in DOMAIN qs : qs[t] \in Seq(To(t))
ConsumersOK(cs) == cs \in Consumers /\ \A t \in DOMAIN cs : cs[t].socketId = t
StreamsOK(ps) == ps \in Streams /\ \A t \in Topic : ps[t] \in Seq(To(t))

BrokerType == [queues : Queues, consumers : Consumers, pulling : Streams,
               failed : {Running, "topic has no consumers"}]
BrokerOK(b) == QueuesOK(b.queues) /\ ConsumersOK(b.consumers) /\ StreamsOK(b.pulling)
GoodBroker == {b \in BrokerType : BrokerOK(b)}

\* What is under way from p to q once the broker has it.
Left(queues, streams, p, q) ==
  FromTo(streams[q], p, q) \o FromTo(Queue!queueOf(queues, q), p, q)

LEMMA ToLetters ==
  ASSUME NEW q, NEW s \in Seq(To(q))
  PROVE  s \in Seq(Letter)
<1>1. To(q) \subseteq Letter
  BY DEF To
<1>. QED BY <1>1, SeqMonotonic

LEMMA QueuesAre ==
  ASSUME NEW qs
  PROVE  QueuesOK(qs) <=> /\ DOMAIN qs \subseteq Topic /\ qs = [t \in DOMAIN qs |-> qs[t]]
                          /\ \A t \in DOMAIN qs : qs[t] \in Seq(To(t))
<1>1. ASSUME QueuesOK(qs)
      PROVE  DOMAIN qs \subseteq Topic /\ qs = [t \in DOMAIN qs |-> qs[t]]
  BY <1>1 DEF QueuesOK, Queues
<1>2. ASSUME DOMAIN qs \subseteq Topic, qs = [t \in DOMAIN qs |-> qs[t]],
             \A t \in DOMAIN qs : qs[t] \in Seq(To(t))
      PROVE  qs \in Queues
  <2>1. \A t \in DOMAIN qs : qs[t] \in Seq(Letter)
    BY <1>2, ToLetters
  <2>2. qs \in [DOMAIN qs -> Seq(Letter)]
    BY <1>2, <2>1
  <2>. QED BY <1>2, <2>2 DEF Queues
<1>. QED BY <1>1, <1>2 DEF QueuesOK

LEMMA QueueLetters ==
  ASSUME NEW qs, QueuesOK(qs), NEW q
  PROVE  Queue!queueOf(qs, q) \in Seq(To(q)) /\ Queue!queueOf(qs, q) \in Seq(Letter)
<1>1. Queue!queueOf(qs, q) \in Seq(To(q))
  BY EmptySeq DEF Queue!queueOf, QueuesOK
<1>. QED BY <1>1, ToLetters

\* A queue that is replaced, or made.
LEMMA QueueSet ==
  ASSUME NEW qs, QueuesOK(qs), NEW t \in Topic, NEW s \in Seq(To(t))
  PROVE  /\ QueuesOK(Queue!With(qs, t, s))
         /\ DOMAIN Queue!With(qs, t, s) = DOMAIN qs \cup {t}
         /\ Queue!queueOf(Queue!With(qs, t, s), t) = s
         /\ \A q : q # t => Queue!queueOf(Queue!With(qs, t, s), q) = Queue!queueOf(qs, q)
<1>. DEFINE new == Queue!With(qs, t, s)
<1>1. /\ DOMAIN qs \subseteq Topic /\ qs = [x \in DOMAIN qs |-> qs[x]]
      /\ \A x \in DOMAIN qs : qs[x] \in Seq(To(x))
  BY QueuesAre
<1>2. new = [x \in DOMAIN qs \cup {t} |-> IF x = t THEN s ELSE qs[x]]
  BY DEF Queue!With
<1>3. DOMAIN new = DOMAIN qs \cup {t} /\ \A x \in DOMAIN new : new[x] = IF x = t THEN s ELSE qs[x]
  BY <1>2
<1>4. QueuesOK(new)
  <2>1. new = [x \in DOMAIN new |-> new[x]]
    BY <1>2
  <2>2. \A x \in DOMAIN new : new[x] \in Seq(To(x))
    BY <1>1, <1>3
  <2>. HIDE DEF new
  <2>. QED BY <1>1, <1>3, <2>1, <2>2, QueuesAre
<1>5. Queue!queueOf(new, t) = s /\ \A q : q # t => Queue!queueOf(new, q) = Queue!queueOf(qs, q)
  <2>. HIDE DEF new
  <2>. QED BY <1>3 DEF Queue!queueOf
<1>. QED BY <1>3, <1>4, <1>5

Replaced(f, x, y) == [f EXCEPT ![x] = y]

LEMMA WithReplaces ==
  ASSUME NEW qs, QueuesOK(qs), NEW t \in DOMAIN qs, NEW s
  PROVE  Queue!With(qs, t, s) = Replaced(qs, t, s)
<1>1. qs = [x \in DOMAIN qs |-> qs[x]] /\ DOMAIN qs \cup {t} = DOMAIN qs
  BY QueuesAre
<1>2. Queue!With(qs, t, s) = [x \in DOMAIN qs |-> IF x = t THEN s ELSE qs[x]]
  BY <1>1 DEF Queue!With
<1>3. Replaced(qs, t, s) = [x \in DOMAIN qs |-> IF x = t THEN s ELSE qs[x]]
  BY <1>1 DEF Replaced
<1>. QED BY <1>2, <1>3

LEMMA ConsumersAre ==
  ASSUME NEW cs
  PROVE  ConsumersOK(cs) <=> /\ DOMAIN cs \subseteq Topic /\ cs = [t \in DOMAIN cs |-> cs[t]]
                             /\ \A t \in DOMAIN cs : cs[t] \in [socketId : {t}, ready : BOOLEAN]
<1>1. ASSUME ConsumersOK(cs)
      PROVE  DOMAIN cs \subseteq Topic /\ cs = [t \in DOMAIN cs |-> cs[t]]
             /\ \A t \in DOMAIN cs : cs[t] \in [socketId : {t}, ready : BOOLEAN]
  <2>1. PICK D \in SUBSET Topic : cs \in [D -> [socketId : Topic, ready : BOOLEAN]]
    BY <1>1 DEF ConsumersOK, Consumers
  <2>2. \A t \in DOMAIN cs : cs[t] \in [socketId : Topic, ready : BOOLEAN] /\ cs[t].socketId = t
    BY <1>1, <2>1 DEF ConsumersOK
  <2>. QED BY <2>1, <2>2
<1>2. ASSUME DOMAIN cs \subseteq Topic, cs = [t \in DOMAIN cs |-> cs[t]],
             \A t \in DOMAIN cs : cs[t] \in [socketId : {t}, ready : BOOLEAN]
      PROVE  cs \in Consumers /\ \A t \in DOMAIN cs : cs[t].socketId = t
  <2>1. \A t \in DOMAIN cs : cs[t] \in [socketId : Topic, ready : BOOLEAN] /\ cs[t].socketId = t
    BY <1>2
  <2>2. cs \in [DOMAIN cs -> [socketId : Topic, ready : BOOLEAN]]
    BY <1>2, <2>1
  <2>. QED BY <1>2, <2>1, <2>2 DEF Consumers
<1>. QED BY <1>1, <1>2 DEF ConsumersOK

WithReady(cs, t, ready) == [cs EXCEPT ![t] = [cs[t] EXCEPT !.ready = ready]]

LEMMA ReadySet ==
  ASSUME NEW cs, ConsumersOK(cs), NEW t \in DOMAIN cs, NEW ready \in BOOLEAN
  PROVE  ConsumersOK(WithReady(cs, t, ready)) /\ DOMAIN WithReady(cs, t, ready) = DOMAIN cs
<1>. DEFINE new == WithReady(cs, t, ready)
<1>1. /\ DOMAIN cs \subseteq Topic /\ cs = [x \in DOMAIN cs |-> cs[x]]
      /\ \A x \in DOMAIN cs : cs[x] \in [socketId : {x}, ready : BOOLEAN]
  BY ConsumersAre
<1>2. /\ DOMAIN new = DOMAIN cs /\ new = [x \in DOMAIN new |-> new[x]]
      /\ new[t] = [cs[t] EXCEPT !.ready = ready]
      /\ \A x \in DOMAIN cs : x # t => new[x] = cs[x]
  BY <1>1 DEF WithReady
<1>3. new[t] \in [socketId : {t}, ready : BOOLEAN]
  BY <1>1, <1>2
<1>. HIDE DEF new
<1>. QED BY <1>1, <1>2, <1>3, ConsumersAre DEF new

LEMMA ConsumerSet ==
  ASSUME NEW cs, ConsumersOK(cs), NEW t \in Topic, t \notin DOMAIN cs
  PROVE  ConsumersOK(Queue!With(cs, t, Queue!Consumer(t))) /\ t \in DOMAIN Queue!With(cs, t, Queue!Consumer(t))
<1>. DEFINE new == Queue!With(cs, t, Queue!Consumer(t))
<1>1. /\ DOMAIN cs \subseteq Topic /\ cs = [x \in DOMAIN cs |-> cs[x]]
      /\ \A x \in DOMAIN cs : cs[x] \in [socketId : {x}, ready : BOOLEAN]
  BY ConsumersAre
<1>2. new = [x \in DOMAIN cs \cup {t} |-> IF x = t THEN Queue!Consumer(t) ELSE cs[x]]
  BY DEF Queue!With
<1>3. Queue!Consumer(t) \in [socketId : {t}, ready : BOOLEAN]
  BY DEF Queue!Consumer
<1>4. /\ DOMAIN new = DOMAIN cs \cup {t} /\ new = [x \in DOMAIN new |-> new[x]]
      /\ \A x \in DOMAIN new : new[x] \in [socketId : {x}, ready : BOOLEAN]
  BY <1>1, <1>2, <1>3
<1>. HIDE DEF new
<1>. QED BY <1>1, <1>4, ConsumersAre DEF new

LEMMA GoodFields ==
  ASSUME NEW b \in GoodBroker
  PROVE  /\ QueuesOK(b.queues) /\ ConsumersOK(b.consumers) /\ StreamsOK(b.pulling)
         /\ b.failed \in {Running, "topic has no consumers"}
         /\ b = [queues |-> b.queues, consumers |-> b.consumers, pulling |-> b.pulling,
                 failed |-> b.failed]
BY DEF GoodBroker, BrokerOK, BrokerType

LEMMA GoodRecord ==
  ASSUME NEW qs, QueuesOK(qs), NEW cs, ConsumersOK(cs), NEW ps, StreamsOK(ps),
         NEW f \in {Running, "topic has no consumers"}
  PROVE  [queues |-> qs, consumers |-> cs, pulling |-> ps, failed |-> f] \in GoodBroker
BY DEF GoodBroker, BrokerOK, BrokerType, QueuesOK, ConsumersOK, StreamsOK

\* What moves from one sequence to the next stays under way.
LEMMA FromToMoves ==
  ASSUME NEW x \in Seq(Letter), NEW y \in Seq(Letter), NEW z \in Seq(Letter), NEW p, NEW q
  PROVE  FromTo(x \o y, p, q) \o FromTo(z, p, q) = FromTo(x, p, q) \o FromTo(y \o z, p, q)
<1>1. FromTo(x \o y, p, q) = FromTo(x, p, q) \o FromTo(y, p, q)
  BY FromToConcat
<1>2. FromTo(y \o z, p, q) = FromTo(y, p, q) \o FromTo(z, p, q)
  BY FromToConcat
<1>. DEFINE a == FromTo(x, p, q)
            b == FromTo(y, p, q)
            c == FromTo(z, p, q)
<1>3. a \in Seq(Letter) /\ b \in Seq(Letter) /\ c \in Seq(Letter)
  BY FromToType
<1>4. FromTo(x \o y, p, q) \o FromTo(z, p, q) = (a \o b) \o c
  BY <1>1
<1>5. FromTo(x, p, q) \o FromTo(y \o z, p, q) = a \o (b \o c)
  BY <1>2
<1>6. (a \o b) \o c = a \o (b \o c)
  <2>. HIDE DEF a, b, c
  <2>. QED BY SMTT(60), <1>3, ConcatAssociative
<1>. QED BY <1>4, <1>5, <1>6

HeadGoes(qs, ps, t, qs2, ps2) ==
  /\ qs2 = Queue!With(qs, t, Tail(qs[t]))
  /\ ps2 = Replaced(ps, t, Append(ps[t], Head(qs[t])))
Keeps(qs, ps, qs2, ps2) ==
  \A p, q \in Topic : Left(qs2, ps2, p, q) = Left(qs, ps, p, q)

\* The oldest message of a queue goes into a stream.
LEMMA HeadSent ==
  ASSUME NEW qs, QueuesOK(qs), NEW ps, StreamsOK(ps), NEW t \in DOMAIN qs, qs[t] # <<>>,
         NEW qs2, NEW ps2, HeadGoes(qs, ps, t, qs2, ps2)
  PROVE  QueuesOK(qs2) /\ StreamsOK(ps2) /\ Keeps(qs, ps, qs2, ps2)
<1>. DEFINE s == qs[t]
            h == Head(s)
            r == Tail(s)
<1>0. qs2 = Queue!With(qs, t, r) /\ ps2 = Replaced(ps, t, Append(ps[t], h))
  BY DEF HeadGoes
<1>1. t \in Topic /\ s \in Seq(To(t)) /\ s \in Seq(Letter) /\ s # <<>>
  BY QueuesAre, ToLetters
<1>2. h \in To(t) /\ h \in Letter /\ r \in Seq(To(t)) /\ r \in Seq(Letter)
  <2>. HIDE DEF s
  <2>. QED BY <1>1, HeadTailProperties
<1>3. s = <<h>> \o r
  <2>. HIDE DEF s
  <2>1. s = SubSeq(s, 1, Len(s)) /\ r = SubSeq(s, 2, Len(s)) /\ h = s[1]
    BY <1>1, SubSeqFull, TailIsSubSeq
  <2>2. Len(s) \in Nat \ {0}
    BY <1>1, EmptySeq
  <2>3. 1 \in 1..Len(s) /\ Len(s) \in 1..Len(s)
    BY <2>2
  <2>4. SubSeq(s, 1, Len(s)) = <<s[1]>> \o SubSeq(s, 1 + 1, Len(s))
    BY <1>1, <2>3, SubSeqRecursiveFirst
  <2>. QED BY <2>1, <2>4
<1>4. /\ QueuesOK(qs2) /\ DOMAIN qs2 = DOMAIN qs /\ Queue!queueOf(qs2, t) = r
      /\ \A q : q # t => Queue!queueOf(qs2, q) = Queue!queueOf(qs, q)
  <2>1. DOMAIN qs \cup {t} = DOMAIN qs /\ qs2 = Queue!With(qs, t, r)
    BY <1>0
  <2>. HIDE DEF s, r
  <2>2. /\ QueuesOK(Queue!With(qs, t, r))
        /\ DOMAIN Queue!With(qs, t, r) = DOMAIN qs \cup {t}
        /\ Queue!queueOf(Queue!With(qs, t, r), t) = r
        /\ \A q : q # t => Queue!queueOf(Queue!With(qs, t, r), q) = Queue!queueOf(qs, q)
    BY <1>1, <1>2, QueueSet
  <2>. QED BY <2>1, <2>2
<1>5. ps[t] \in Seq(To(t)) /\ ps[t] \in Seq(Letter) /\ ps \in Streams
      /\ \A q \in Topic : ps[q] \in Seq(To(q))
  BY <1>1, ToLetters DEF StreamsOK
<1>6. ps2[t] = Append(ps[t], h) /\ \A q \in Topic : q # t => ps2[q] = ps[q]
  BY <1>0, <1>1, <1>5 DEF Streams, Replaced
<1>7. Append(ps[t], h) \in Seq(To(t)) /\ Append(ps[t], h) \in Seq(Letter)
      /\ Append(ps[t], h) = ps[t] \o <<h>>
  <2>. HIDE DEF h
  <2>. QED BY <1>2, <1>5, AppendProperties, AppendIsConcat
<1>8. StreamsOK(ps2)
  <2>1. ps2 \in Streams
    <3>1. ps2 = Replaced(ps, t, Append(ps[t], h))
      BY <1>0
    <3>. HIDE DEF h
    <3>. QED BY <3>1, <1>5, <1>7 DEF Streams, Replaced
  <2>. QED BY <1>5, <1>6, <1>7, <2>1 DEF StreamsOK
<1>9. ASSUME NEW p \in Topic, NEW q \in Topic PROVE Left(qs2, ps2, p, q) = Left(qs, ps, p, q)
  <2>1. CASE q # t
    BY <1>4, <1>6, <2>1 DEF Left
  <2>2. CASE q = t
    <3>1. Queue!queueOf(qs, t) = s
      BY DEF Queue!queueOf
    <3>. DEFINE x == ps[t]
    <3>. DEFINE one == <<h>>
    <3>2. one \in Seq(Letter) /\ x \in Seq(Letter) /\ r \in Seq(Letter)
      BY <1>2, <1>5
    <3>3. s = one \o r /\ Append(x, h) = x \o one
      BY <1>3, <1>7
    <3>. HIDE DEF x, h, r, s, one
    <3>4. FromTo(x \o one, p, q) \o FromTo(r, p, q) = FromTo(x, p, q) \o FromTo(one \o r, p, q)
      BY SMTT(60), <3>2, FromToMoves
    <3>5. Left(qs, ps, p, q) = FromTo(x, p, q) \o FromTo(s, p, q)
      BY <2>2, <3>1 DEF Left, x
    <3>6. Left(qs2, ps2, p, q) = FromTo(x \o one, p, q) \o FromTo(r, p, q)
      BY <1>4, <1>6, <2>2, <3>3 DEF Left, x
    <3>. QED BY <3>3, <3>4, <3>5, <3>6
  <2>. QED BY <2>1, <2>2
<1>. QED BY <1>4, <1>8, <1>9 DEF Keeps

SameMail(b, b2) == Keeps(b.queues, b.pulling, b2.queues, b2.pulling)

LEMMA AttemptMoves ==
  ASSUME NEW b \in GoodBroker, NEW t \in DOMAIN b.queues
  PROVE  /\ Queue!attemptToSend(b, t) \in GoodBroker
         /\ Queue!attemptToSend(b, t).failed = b.failed
         /\ SameMail(b, Queue!attemptToSend(b, t))
<1>. DEFINE qs == b.queues
            cs == b.consumers
            ps == b.pulling
            new == Queue!attemptToSend(b, t)
<1>1. /\ QueuesOK(qs) /\ ConsumersOK(cs) /\ StreamsOK(ps)
      /\ b.failed \in {Running, "topic has no consumers"}
      /\ b = [queues |-> qs, consumers |-> cs, pulling |-> ps, failed |-> b.failed]
  BY GoodFields
<1>2. CASE t \in DOMAIN cs /\ qs[t] # <<>>
  <2>. DEFINE qs2 == Queue!With(qs, t, Tail(qs[t]))
              cs2 == WithReady(cs, t, FALSE)
              ps2 == Replaced(ps, t, Append(ps[t], Head(qs[t])))
  <2>1. cs[t].socketId = t
    BY <1>1, <1>2 DEF ConsumersOK
  <2>2. qs2 = Replaced(qs, t, Tail(qs[t]))
    <3>1. t \in DOMAIN qs
      OBVIOUS
    <3>. HIDE DEF qs
    <3>. QED BY <1>1, <3>1, WithReplaces
  <2>3. new = [b EXCEPT !.queues[t] = Tail(qs[t]), !.consumers[t].ready = FALSE,
                        !.pulling[t] = Append(@, Head(qs[t]))]
    BY <1>2, <2>1 DEF Queue!attemptToSend
  <2>4. new = [queues |-> [qs EXCEPT ![t] = Tail(qs[t])], consumers |-> cs2, pulling |-> ps2,
               failed |-> b.failed]
    BY <1>1, <2>3 DEF WithReady, Replaced
  <2>5. new = [queues |-> qs2, consumers |-> cs2, pulling |-> ps2, failed |-> b.failed]
    BY <2>2, <2>4 DEF Replaced
  <2>6. /\ QueuesOK(qs2) /\ StreamsOK(ps2)
        /\ Keeps(qs, ps, qs2, ps2)
    <3>1. HeadGoes(qs, ps, t, qs2, ps2) /\ t \in DOMAIN qs /\ qs[t] # <<>>
      BY <1>2 DEF HeadGoes
    <3>. HIDE DEF qs, ps, qs2, ps2
    <3>. QED BY <1>1, <3>1, HeadSent
  <2>7. ConsumersOK(cs2)
    BY <1>1, <1>2, ReadySet
  <2>. HIDE DEF qs2, cs2, ps2, new
  <2>8. new \in GoodBroker
    BY <1>1, <2>5, <2>6, <2>7, GoodRecord
  <2>9. new.queues = qs2 /\ new.pulling = ps2 /\ new.failed = b.failed
    BY <2>5
  <2>. QED BY <2>6, <2>8, <2>9 DEF SameMail, new
<1>3. CASE ~(t \in DOMAIN cs /\ qs[t] # <<>>)
  <2>1. new = b
    BY <1>3 DEF Queue!attemptToSend
  <2>. HIDE DEF new
  <2>. QED BY <2>1 DEF SameMail, Keeps, new
<1>. QED BY <1>2, <1>3

-----------------------------------------------------------------------------
(* What the broker does with a message and with an acknowledgement *)

\* b2 has what b has under way and then s.
Gains(b, b2, s) ==
  \A p, q \in Topic : Left(b2.queues, b2.pulling, p, q)
                        = Left(b.queues, b.pulling, p, q) \o FromTo(s, p, q)

LEMMA LeftType ==
  ASSUME NEW b \in GoodBroker, NEW p \in Topic, NEW q \in Topic
  PROVE  Left(b.queues, b.pulling, p, q) \in Seq(Letter)
<1>. DEFINE x == FromTo(b.pulling[q], p, q)
            y == FromTo(Queue!queueOf(b.queues, q), p, q)
<1>1. QueuesOK(b.queues) /\ StreamsOK(b.pulling)
  BY GoodFields
<1>2. b.pulling[q] \in Seq(Letter) /\ Queue!queueOf(b.queues, q) \in Seq(Letter)
  BY <1>1, QueueLetters, ToLetters DEF StreamsOK
<1>3. x \in Seq(Letter) /\ y \in Seq(Letter)
  BY <1>2, FromToType
<1>. HIDE DEF x, y
<1>4. x \o y \in Seq(Letter)
  BY <1>3, ConcatProperties
<1>. QED BY <1>4 DEF Left, x, y

LEMMA GainsNothing ==
  ASSUME NEW b \in GoodBroker
  PROVE  Gains(b, b, <<>>)
<1>. SUFFICES ASSUME NEW p \in Topic, NEW q \in Topic
              PROVE  Left(b.queues, b.pulling, p, q)
                       = Left(b.queues, b.pulling, p, q) \o FromTo(<<>>, p, q)
  BY DEF Gains
<1>. DEFINE x == Left(b.queues, b.pulling, p, q)
<1>1. x \in Seq(Letter) /\ FromTo(<<>>, p, q) = <<>>
  BY LeftType, FromToNothing
<1>2. x \o <<>> = x
  <2>. HIDE DEF x
  <2>. QED BY <1>1, ConcatEmptySeq
<1>. QED BY <1>1, <1>2

LEMMA GainsMore ==
  ASSUME NEW b \in GoodBroker, NEW b2 \in GoodBroker, NEW b3 \in GoodBroker,
         NEW s \in Seq(Letter), NEW t \in Seq(Letter), Gains(b, b2, s), Gains(b2, b3, t)
  PROVE  Gains(b, b3, s \o t)
<1>. SUFFICES ASSUME NEW p \in Topic, NEW q \in Topic
              PROVE  Left(b3.queues, b3.pulling, p, q)
                       = Left(b.queues, b.pulling, p, q) \o FromTo(s \o t, p, q)
  BY DEF Gains
<1>. DEFINE x == Left(b.queues, b.pulling, p, q)
            y == FromTo(s, p, q)
            z == FromTo(t, p, q)
            l2 == Left(b2.queues, b2.pulling, p, q)
            l3 == Left(b3.queues, b3.pulling, p, q)
<1>1. x \in Seq(Letter) /\ y \in Seq(Letter) /\ z \in Seq(Letter)
  BY LeftType, FromToType
<1>2. l2 = x \o y
  BY DEF Gains
<1>3. l3 = l2 \o z
  BY DEF Gains
<1>4. FromTo(s \o t, p, q) = y \o z
  BY FromToConcat
<1>5. (x \o y) \o z = x \o (y \o z)
  <2>. HIDE DEF x, y, z
  <2>. QED BY <1>1, ConcatAssociative
<1>. QED BY <1>2, <1>3, <1>4, <1>5

LEMMA SameGains ==
  ASSUME NEW b, NEW b2, NEW b3, NEW s, Gains(b, b2, s), SameMail(b2, b3)
  PROVE  Gains(b, b3, s)
BY DEF Gains, SameMail, Keeps

WithQueues(b, qs) == [b EXCEPT !.queues = qs]
WithConsumers(b, cs) == [b EXCEPT !.consumers = cs]
BrokerOf(qs, cs, ps, f) == [queues |-> qs, consumers |-> cs, pulling |-> ps, failed |-> f]

LEMMA PartReplaced ==
  ASSUME NEW qs, NEW cs, NEW ps, NEW f, NEW x
  PROVE  /\ WithQueues(BrokerOf(qs, cs, ps, f), x) = BrokerOf(x, cs, ps, f)
         /\ WithConsumers(BrokerOf(qs, cs, ps, f), x) = BrokerOf(qs, x, ps, f)
BY DEF WithQueues, WithConsumers, BrokerOf

\* A message that is put into its queue.
QueuedIn(b, m) ==
  [b EXCEPT !.queues = Queue!With(@, m.to, Append(Queue!queueOf(b.queues, m.to), m))]

LEMMA Queued ==
  ASSUME NEW b \in GoodBroker, NEW m \in Letter
  PROVE  /\ QueuedIn(b, m) \in GoodBroker /\ QueuedIn(b, m).failed = b.failed
         /\ m.to \in DOMAIN QueuedIn(b, m).queues
         /\ Gains(b, QueuedIn(b, m), <<m>>)
<1>. DEFINE t  == m.to
            qs == b.queues
            old == Queue!queueOf(qs, t)
            s  == Append(old, m)
            qs2 == Queue!With(qs, t, s)
            new == QueuedIn(b, m)
            one == <<m>>
<1>1. /\ QueuesOK(qs) /\ ConsumersOK(b.consumers) /\ StreamsOK(b.pulling)
      /\ b.failed \in {Running, "topic has no consumers"}
      /\ b = [queues |-> qs, consumers |-> b.consumers, pulling |-> b.pulling, failed |-> b.failed]
  BY GoodFields
<1>2. t \in Topic /\ m \in To(t)
  BY DEF Letter, To
<1>3. old \in Seq(To(t)) /\ old \in Seq(Letter)
  BY <1>1, QueueLetters
<1>4. s \in Seq(To(t)) /\ s = old \o one /\ one \in Seq(Letter)
  <2>. HIDE DEF old, t
  <2>. QED BY <1>2, <1>3, AppendProperties, AppendIsConcat
<1>5. new = [queues |-> qs2, consumers |-> b.consumers, pulling |-> b.pulling, failed |-> b.failed]
  <2>1. new = WithQueues(b, qs2)
    BY DEF QueuedIn, WithQueues
  <2>2. b = BrokerOf(qs, b.consumers, b.pulling, b.failed)
    BY <1>1 DEF BrokerOf
  <2>. DEFINE cs == b.consumers
              ps == b.pulling
              f  == b.failed
  <2>. HIDE DEF new, qs2, qs, cs, ps, f
  <2>3. WithQueues(BrokerOf(qs, cs, ps, f), qs2) = BrokerOf(qs2, cs, ps, f)
    BY PartReplaced
  <2>4. new = BrokerOf(qs2, cs, ps, f)
    BY <2>1, <2>2, <2>3 DEF cs, ps, f
  <2>. QED BY <2>4 DEF BrokerOf, cs, ps, f
<1>6. /\ QueuesOK(qs2) /\ DOMAIN qs2 = DOMAIN qs \cup {t} /\ Queue!queueOf(qs2, t) = s
      /\ \A q : q # t => Queue!queueOf(qs2, q) = Queue!queueOf(qs, q)
  <2>1. QueuesOK(qs) /\ t \in Topic /\ s \in Seq(To(t))
    BY <1>1, <1>2, <1>4
  <2>. HIDE DEF qs, s, t
  <2>2. /\ QueuesOK(Queue!With(qs, t, s))
        /\ DOMAIN Queue!With(qs, t, s) = DOMAIN qs \cup {t}
        /\ Queue!queueOf(Queue!With(qs, t, s), t) = s
        /\ \A q : q # t => Queue!queueOf(Queue!With(qs, t, s), q) = Queue!queueOf(qs, q)
    BY <2>1, QueueSet
  <2>. QED BY <2>2
<1>. HIDE DEF qs2, new, s, old, qs, t, one
<1>7. new \in GoodBroker
  BY <1>1, <1>5, <1>6, GoodRecord
<1>8. new.queues = qs2 /\ new.pulling = b.pulling /\ new.failed = b.failed
  BY <1>5
<1>9. ASSUME NEW p \in Topic, NEW q \in Topic
      PROVE  Left(qs2, b.pulling, p, q) = Left(b.queues, b.pulling, p, q) \o FromTo(one, p, q)
  <2>1. CASE q # t
    <3>1. ~Matches(m, p, q)
      BY <2>1 DEF Matches, t
    <3>2. FromTo(one, p, q) = <<>>
      BY <3>1, FromToOne DEF one
    <3>3. Left(qs2, b.pulling, p, q) = Left(b.queues, b.pulling, p, q)
      BY <1>6, <2>1 DEF Left, qs
    <3>. DEFINE l == Left(b.queues, b.pulling, p, q)
    <3>4. l \in Seq(Letter)
      BY LeftType
    <3>5. l \o <<>> = l
      <4>. HIDE DEF l
      <4>. QED BY <3>4, ConcatEmptySeq
    <3>. QED BY <3>2, <3>3, <3>5
  <2>2. CASE q = t
    <3>. DEFINE x == FromTo(b.pulling[q], p, q)
                y == FromTo(old, p, q)
                z == FromTo(one, p, q)
    <3>1. FromTo(old \o one, p, q) = y \o z
      BY <1>3, <1>4, FromToConcat
    <3>2. Left(b.queues, b.pulling, p, q) = x \o y
      BY <2>2 DEF Left, old, qs
    <3>3. Left(qs2, b.pulling, p, q) = x \o (y \o z)
      BY <1>4, <1>6, <2>2, <3>1 DEF Left
    <3>4. b.pulling[q] \in Seq(Letter)
      BY <1>1, ToLetters DEF StreamsOK
    <3>5. x \in Seq(Letter) /\ y \in Seq(Letter) /\ z \in Seq(Letter)
      BY <1>3, <1>4, <3>4, FromToType
    <3>6. (x \o y) \o z = x \o (y \o z)
      <4>. HIDE DEF x, y, z
      <4>. QED BY <3>5, ConcatAssociative
    <3>. QED BY <3>2, <3>3, <3>6
  <2>. QED BY <2>1, <2>2
<1>10. Gains(b, new, one)
  BY <1>8, <1>9 DEF Gains
<1>11. m.to \in DOMAIN new.queues
  BY <1>6, <1>8 DEF t
<1>. QED BY <1>7, <1>8, <1>10, <1>11 DEF new, one

\* Once a topic has no consumer, nothing more is taken.
LEMMA PushedOne ==
  ASSUME NEW b \in GoodBroker, NEW m \in Letter
  PROVE  /\ Queue!pushIncomingMessage(b, m) \in GoodBroker
         /\ b.failed # Running => Queue!pushIncomingMessage(b, m) = b
         /\ b.failed = Running =>
              \/ Queue!pushIncomingMessage(b, m).failed # Running
              \/ Gains(b, Queue!pushIncomingMessage(b, m), <<m>>)
<1>. DEFINE queued == QueuedIn(b, m)
            new == Queue!pushIncomingMessage(b, m)
            one == <<m>>
<1>1. /\ queued \in GoodBroker /\ queued.failed = b.failed /\ m.to \in DOMAIN queued.queues
      /\ Gains(b, queued, one)
  BY Queued
<1>2. CASE b.failed # Running
  BY <1>2 DEF Queue!pushIncomingMessage
<1>3. CASE b.failed = Running /\ m.to \in DOMAIN b.queues
  <2>1. new = Queue!attemptToSend(queued, m.to)
    BY <1>3 DEF Queue!pushIncomingMessage, QueuedIn
  <2>2. new \in GoodBroker /\ SameMail(queued, new)
    <3>. HIDE DEF queued, new
    <3>. QED BY <1>1, <2>1, AttemptMoves
  <2>3. Gains(b, new, one)
    <3>. HIDE DEF queued, new, one
    <3>. QED BY <1>1, <2>2, SameGains
  <2>. QED BY <1>3, <2>2, <2>3
<1>4. CASE b.failed = Running /\ m.to \notin DOMAIN b.queues /\ preemptiveAlloc
  <2>1. new = queued
    BY <1>4 DEF Queue!pushIncomingMessage, QueuedIn
  <2>. HIDE DEF queued, new
  <2>. QED BY <1>1, <1>4, <2>1 DEF new
<1>5. CASE b.failed = Running /\ m.to \notin DOMAIN b.queues /\ ~preemptiveAlloc
  <2>1. new = [b EXCEPT !.failed = "topic has no consumers"]
    BY <1>5 DEF Queue!pushIncomingMessage
  <2>2. /\ QueuesOK(b.queues) /\ ConsumersOK(b.consumers) /\ StreamsOK(b.pulling)
        /\ b = [queues |-> b.queues, consumers |-> b.consumers, pulling |-> b.pulling,
                failed |-> b.failed]
    BY GoodFields
  <2>3. new = [queues |-> b.queues, consumers |-> b.consumers, pulling |-> b.pulling,
               failed |-> "topic has no consumers"]
    BY <2>1, <2>2
  <2>. HIDE DEF new
  <2>4. new \in GoodBroker /\ new.failed # Running
    BY <2>2, <2>3, GoodRecord, ServicesConstants
  <2>. QED BY <1>5, <2>4 DEF new
<1>. QED BY <1>2, <1>3, <1>4, <1>5

LEMMA AcknowledgedOne ==
  ASSUME NEW b \in GoodBroker, NEW t \in Topic
  PROVE  /\ Queue!acknowledged(b, t) \in GoodBroker
         /\ Queue!acknowledged(b, t).failed = b.failed
         /\ SameMail(b, Queue!acknowledged(b, t))
<1>. DEFINE qs  == b.queues
            old == Queue!queueOf(qs, t)
            qs2 == Queue!With(qs, t, old)
            cs2 == IF t \in DOMAIN b.consumers THEN WithReady(b.consumers, t, TRUE)
                   ELSE Queue!With(b.consumers, t, Queue!Consumer(t))
            mid == [queues |-> qs2, consumers |-> cs2, pulling |-> b.pulling, failed |-> b.failed]
            new == Queue!acknowledged(b, t)
<1>1. /\ QueuesOK(qs) /\ ConsumersOK(b.consumers) /\ StreamsOK(b.pulling)
      /\ b.failed \in {Running, "topic has no consumers"}
      /\ b = [queues |-> qs, consumers |-> b.consumers, pulling |-> b.pulling, failed |-> b.failed]
  BY GoodFields
<1>0. /\ WithConsumers(WithQueues(b, qs2), cs2) = mid
      /\ WithQueues(WithConsumers(b, cs2), qs2) = mid
      /\ WithConsumers(b, cs2).queues = qs
  <2>1. b = BrokerOf(qs, b.consumers, b.pulling, b.failed)
    BY <1>1 DEF BrokerOf
  <2>. DEFINE cs == b.consumers
              ps == b.pulling
              f  == b.failed
  <2>2. mid = BrokerOf(qs2, cs2, ps, f)
    BY DEF BrokerOf
  <2>. HIDE DEF qs2, cs2, qs, cs, ps, f, mid
  <2>3. WithQueues(BrokerOf(qs, cs, ps, f), qs2) = BrokerOf(qs2, cs, ps, f)
    BY PartReplaced
  <2>4. WithConsumers(BrokerOf(qs2, cs, ps, f), cs2) = BrokerOf(qs2, cs2, ps, f)
    BY PartReplaced
  <2>5. WithConsumers(BrokerOf(qs, cs, ps, f), cs2) = BrokerOf(qs, cs2, ps, f)
    BY PartReplaced
  <2>6. WithQueues(BrokerOf(qs, cs2, ps, f), qs2) = BrokerOf(qs2, cs2, ps, f)
    BY PartReplaced
  <2>7. BrokerOf(qs, cs2, ps, f).queues = qs
    BY DEF BrokerOf
  <2>8. b = BrokerOf(qs, cs, ps, f)
    BY <2>1 DEF cs, ps, f
  <2>. QED BY <2>2, <2>3, <2>4, <2>5, <2>6, <2>7, <2>8
<1>2. new = Queue!attemptToSend(mid, t)
  <2>1. CASE t \in DOMAIN b.consumers
    <3>1. new = Queue!attemptToSend([b EXCEPT !.queues = Queue!With(@, t, Queue!queueOf(@, t)),
                                              !.consumers[t].ready = TRUE], t)
      BY <2>1 DEF Queue!acknowledged
    <3>2. [b EXCEPT !.queues = Queue!With(@, t, Queue!queueOf(@, t)),
                    !.consumers[t].ready = TRUE]
            = WithConsumers(WithQueues(b, qs2), WithReady(b.consumers, t, TRUE))
      BY DEF WithReady, WithConsumers, WithQueues
    <3>3. cs2 = WithReady(b.consumers, t, TRUE)
      BY <2>1
    <3>4. new = Queue!attemptToSend(WithConsumers(WithQueues(b, qs2), cs2), t)
      BY <3>1, <3>2, <3>3
    <3>. HIDE DEF new, cs2, qs2, mid
    <3>. QED BY <1>0, <3>4
  <2>2. CASE t \notin DOMAIN b.consumers
    <3>1. new = Queue!attemptToSend([Queue!registerConsumerToTopic(b, t) EXCEPT
                                       !.queues = Queue!With(@, t, Queue!queueOf(@, t))], t)
      BY <2>2 DEF Queue!acknowledged
    <3>. DEFINE r == Queue!registerConsumerToTopic(b, t)
    <3>2. cs2 = Queue!With(b.consumers, t, Queue!Consumer(t))
      BY <2>2
    <3>3. r = WithConsumers(b, cs2)
      BY <3>2 DEF Queue!registerConsumerToTopic, WithConsumers
    <3>4. new = Queue!attemptToSend(WithQueues(r, Queue!With(r.queues, t, Queue!queueOf(r.queues, t))), t)
      BY <3>1 DEF WithQueues
    <3>. HIDE DEF new, cs2, qs2, mid, r, qs
    <3>5. r.queues = qs
      BY <1>0, <3>3
    <3>. QED BY <1>0, <3>3, <3>4, <3>5 DEF qs2
  <2>. QED BY <2>1, <2>2
<1>3. old \in Seq(To(t))
  BY <1>1, QueueLetters
<1>4. /\ QueuesOK(qs2) /\ DOMAIN qs2 = DOMAIN qs \cup {t} /\ Queue!queueOf(qs2, t) = old
      /\ \A q : q # t => Queue!queueOf(qs2, q) = Queue!queueOf(qs, q)
  <2>. HIDE DEF qs, old
  <2>1. /\ QueuesOK(Queue!With(qs, t, old))
        /\ DOMAIN Queue!With(qs, t, old) = DOMAIN qs \cup {t}
        /\ Queue!queueOf(Queue!With(qs, t, old), t) = old
        /\ \A q : q # t => Queue!queueOf(Queue!With(qs, t, old), q) = Queue!queueOf(qs, q)
    BY <1>1, <1>3, QueueSet
  <2>. QED BY <2>1
<1>5. ConsumersOK(cs2)
  BY <1>1, ReadySet, ConsumerSet
<1>. HIDE DEF qs2, cs2, new
<1>6. mid \in GoodBroker
  BY <1>1, <1>4, <1>5, GoodRecord
<1>7. mid.queues = qs2 /\ mid.pulling = b.pulling /\ mid.failed = b.failed /\ t \in DOMAIN mid.queues
  BY <1>4
<1>8. SameMail(b, mid)
  <2>1. \A q : Queue!queueOf(qs2, q) = Queue!queueOf(qs, q)
    BY <1>4
  <2>. QED BY <1>7, <2>1 DEF SameMail, Keeps, Left
<1>. HIDE DEF mid
<1>9. new \in GoodBroker /\ new.failed = mid.failed /\ SameMail(mid, new)
  BY <1>2, <1>6, <1>7, AttemptMoves
<1>10. SameMail(b, new)
  BY <1>8, <1>9 DEF SameMail, Keeps
<1>. QED BY <1>7, <1>9, <1>10 DEF new

-----------------------------------------------------------------------------
(* The messages of a packet, and the acknowledgements of one *)

PushesFrom(h, b, s, k) ==
  h = [i \in 0..k |-> IF i = 0 THEN b ELSE Queue!pushIncomingMessage(h[i - 1], s[i])]

LEMMA PushesExist ==
  ASSUME NEW b \in GoodBroker, NEW s \in Seq(Letter), NEW k \in 0..Len(s)
  PROVE  \E h : PushesFrom(h, b, s, k)
<1>. DEFINE step == [i \in 1..k |-> [x \in GoodBroker |-> Queue!pushIncomingMessage(x, s[i])]]
<1>1. k \in Nat /\ \A i \in 1..k : s[i] \in Letter
  BY LenProperties, ElementOfSeq
<1>2. step \in [1..k -> [GoodBroker -> GoodBroker]]
  BY <1>1, PushedOne
<1>3. \A i \in 1..k : \A x \in GoodBroker : step[i][x] = Queue!pushIncomingMessage(x, s[i])
  OBVIOUS
<1>. HIDE DEF step
<1>4. PICK h \in [0..k -> GoodBroker] : IsIteration(h, k, b, step)
  BY <1>1, <1>2, IterationExists
<1>5. h = [i \in 0..k |-> IF i = 0 THEN b ELSE step[i][h[i - 1]]]
  BY <1>4 DEF IsIteration
<1>6. \A i \in 0..k : i # 0 => h[i - 1] \in GoodBroker /\ i \in 1..k
  BY <1>1, <1>4
<1>7. h = [i \in 0..k |-> IF i = 0 THEN b ELSE Queue!pushIncomingMessage(h[i - 1], s[i])]
  BY <1>3, <1>5, <1>6
<1>. QED BY <1>7 DEF PushesFrom

\* Unless it stops, the broker has under way what it had and the packet.
LEMMA PacketPushed ==
  ASSUME NEW b \in GoodBroker, b.failed = Running, NEW s \in Seq(Letter), NEW k \in 0..Len(s),
         NEW h, PushesFrom(h, b, s, k)
  PROVE  /\ h[k] \in GoodBroker
         /\ h[k].failed # Running \/ Gains(b, h[k], SubSeq(s, 1, k))
<1>. DEFINE pre(i) == SubSeq(s, 1, i)
            Good == {i \in 0..k : /\ h[i] \in GoodBroker
                                  /\ h[i].failed # Running \/ Gains(b, h[i], pre(i))}
<1>1. k \in Nat /\ \A i \in 1..k : s[i] \in Letter /\ i \in 1..Len(s)
  BY LenProperties, ElementOfSeq
<1>2. h[0] = b /\ \A i \in 1..k : h[i] = Queue!pushIncomingMessage(h[i - 1], s[i])
  <2>1. \A i \in 0..k : h[i] = IF i = 0 THEN b ELSE Queue!pushIncomingMessage(h[i - 1], s[i])
    BY DEF PushesFrom
  <2>. QED BY <1>1, <2>1
<1>3. \A i \in 0..k : pre(i) \in Seq(Letter)
  BY <1>1, LenProperties, SubSeqProperties
<1>4. pre(0) = <<>>
  BY SubSeqEmpty
<1>5. \A i \in 1..k : pre(i) = pre(i - 1) \o <<s[i]>>
  <2>. TAKE i \in 1..k
  <2>1. 1 \in 1..Len(s) /\ i \in 1..Len(s) /\ i - 1 \in 0..Len(s)
    BY <1>1, LenProperties
  <2>. QED BY <2>1, SubSeqRecursiveSecond
<1>. HIDE DEF pre
<1>6. 0 \in Good
  <2>1. Gains(b, b, pre(0))
    <3>1. Gains(b, b, <<>>)
      BY GainsNothing
    <3>. QED BY <1>4, <3>1
  <2>2. 0 \in 0..k
    BY <1>1
  <2>. QED BY <1>2, <2>1, <2>2
<1>7. ASSUME NEW i \in 1..k, i - 1 \in Good PROVE i \in Good
  <2>. DEFINE x == h[i - 1]
              y == h[i]
              m == s[i]
              one == <<m>>
              u == pre(i - 1)
  <2>1. /\ x \in GoodBroker /\ (x.failed # Running \/ Gains(b, x, u))
        /\ m \in Letter /\ i \in 0..k /\ i - 1 \in 0..k
    BY <1>1, <1>7
  <2>2. y = Queue!pushIncomingMessage(x, m) /\ pre(i) = u \o one
    BY <1>2, <1>5
  <2>3. one \in Seq(Letter) /\ u \in Seq(Letter)
    BY <1>3, <2>1
  <2>. HIDE DEF x, y, m, u, Good
  <2>4. /\ y \in GoodBroker
        /\ x.failed # Running => y = x
        /\ x.failed = Running => y.failed # Running \/ Gains(x, y, one)
    <3>1. /\ Queue!pushIncomingMessage(x, m) \in GoodBroker
          /\ x.failed # Running => Queue!pushIncomingMessage(x, m) = x
          /\ x.failed = Running =>
               \/ Queue!pushIncomingMessage(x, m).failed # Running
               \/ Gains(x, Queue!pushIncomingMessage(x, m), <<m>>)
      BY <2>1, PushedOne
    <3>. QED BY <2>2, <3>1 DEF one
  <2>. HIDE DEF one
  <2>5. CASE x.failed # Running
    BY <2>1, <2>4, <2>5 DEF Good, y
  <2>6. CASE x.failed = Running /\ y.failed # Running
    BY <2>1, <2>4, <2>6 DEF Good, y
  <2>7. CASE x.failed = Running /\ Gains(x, y, one)
    <3>0. Gains(b, x, u) /\ Gains(x, y, one)
      BY <2>1, <2>7
    <3>1. Gains(b, y, u \o one)
      BY <2>1, <2>3, <2>4, <3>0, GainsMore
    <3>2. Gains(b, y, pre(i))
      BY <2>2, <3>1
    <3>. QED BY <2>1, <2>4, <3>2 DEF Good, y
  <2>. QED BY <2>4, <2>5, <2>6, <2>7
<1>8. 0..k \subseteq Good
  <2>. HIDE DEF Good
  <2>. QED BY <1>1, <1>6, <1>7, BoundedInduction
<1>9. k \in Good
  BY <1>1, <1>8
<1>. QED BY <1>9 DEF pre

AcksFrom(h, b, t, k) ==
  h = [i \in 0..k |-> IF i = 0 THEN b ELSE Queue!acknowledged(h[i - 1], t)]

LEMMA AcksExist ==
  ASSUME NEW b \in GoodBroker, NEW t \in Topic, NEW k \in Nat
  PROVE  \E h : AcksFrom(h, b, t, k)
<1>. DEFINE step == [i \in 1..k |-> [x \in GoodBroker |-> Queue!acknowledged(x, t)]]
<1>2. step \in [1..k -> [GoodBroker -> GoodBroker]]
  BY AcknowledgedOne
<1>3. \A i \in 1..k : \A x \in GoodBroker : step[i][x] = Queue!acknowledged(x, t)
  OBVIOUS
<1>. HIDE DEF step
<1>4. PICK h \in [0..k -> GoodBroker] : IsIteration(h, k, b, step)
  BY <1>2, IterationExists
<1>5. h = [i \in 0..k |-> IF i = 0 THEN b ELSE step[i][h[i - 1]]]
  BY <1>4 DEF IsIteration
<1>6. \A i \in 0..k : i # 0 => h[i - 1] \in GoodBroker /\ i \in 1..k
  BY <1>4
<1>7. h = [i \in 0..k |-> IF i = 0 THEN b ELSE Queue!acknowledged(h[i - 1], t)]
  BY <1>3, <1>5, <1>6
<1>. QED BY <1>7 DEF AcksFrom

\* Acknowledgements move messages, and lose none.
LEMMA PacketAcknowledged ==
  ASSUME NEW b \in GoodBroker, NEW t \in Topic, NEW k \in Nat, NEW h, AcksFrom(h, b, t, k)
  PROVE  h[k] \in GoodBroker /\ h[k].failed = b.failed /\ SameMail(b, h[k])
<1>. DEFINE Good == {i \in 0..k : h[i] \in GoodBroker /\ h[i].failed = b.failed /\ SameMail(b, h[i])}
<1>1. h[0] = b /\ \A i \in 1..k : h[i] = Queue!acknowledged(h[i - 1], t)
  <2>1. \A i \in 0..k : h[i] = IF i = 0 THEN b ELSE Queue!acknowledged(h[i - 1], t)
    BY DEF AcksFrom
  <2>. QED BY <2>1
<1>2. 0 \in Good
  BY <1>1 DEF SameMail, Keeps
<1>3. ASSUME NEW i \in 1..k, i - 1 \in Good PROVE i \in Good
  <2>. DEFINE x == h[i - 1]
              y == h[i]
  <2>1. x \in GoodBroker /\ x.failed = b.failed /\ SameMail(b, x) /\ i \in 0..k
    BY <1>3
  <2>2. y = Queue!acknowledged(x, t)
    BY <1>1
  <2>. HIDE DEF x, y, Good
  <2>3. y \in GoodBroker /\ y.failed = x.failed /\ SameMail(x, y)
    BY <2>1, <2>2, AcknowledgedOne
  <2>4. SameMail(b, y)
    BY <2>1, <2>3 DEF SameMail, Keeps
  <2>. QED BY <2>1, <2>3, <2>4 DEF Good, y
<1>4. 0..k \subseteq Good
  <2>. HIDE DEF Good
  <2>. QED BY <1>2, <1>3, BoundedInduction
<1>. QED BY <1>4

-----------------------------------------------------------------------------
(* The mailboxes: what is under way between two nodes, and handed over *)

By(p) == {m \in Letter : m.by = p}
OutsOK(out) == out \in Streams /\ \A p \in Topic : out[p] \in Seq(By(p))

Way(p, q) == Left(topicToQueueMap, pulling, p, q) \o FromTo(pushing[p], p, q)
Boxed == [p \in Topic |-> [q \in Topic |-> Way(p, q)]]
Received == [p \in Topic |-> [q \in Topic |-> FromTo(handed[q], p, q)]]
MailStep == [Mail!Next]_(Mail!boxVars)

\* A packet only begins inside a message where packets may straddle.
CutInv == straddling \in BOOLEAN /\ (straddling \/ cut = {})

\* A node never has more mail under way than it has pushed.
MailInv ==
  /\ usesQueue \subseteq Topic /\ CutInv
  /\ failed = Running =>
       /\ Queue!Broker \in GoodBroker
       /\ pushed \in [Topic -> 0..MaxPushed] /\ acks \in [Topic -> Nat]
       /\ OutsOK(pushing) /\ handed \in Streams
       /\ \A p, q \in Topic : Len(Way(p, q)) <= pushed[p]

LEMMA MailIs ==
  /\ Mail!boxVars = <<Boxed, Received, straddling, failed # Running>>
  /\ Mail!boxVars' = <<Boxed', Received', straddling', failed' # Running>>
BY DEF Mail!boxVars, Boxed, Received, Way, Left, QueueOf, Queue!queueOf

LEMMA MailStops ==
  ASSUME handed' = handed, straddling' = straddling, failed' # Running
  PROVE  MailStep
<1>1. Mail!Stop
  BY DEF Mail!Stop
<1>. QED BY <1>1 DEF MailStep, Mail!Next

LEMMA MailStays ==
  ASSUME \A p, q \in Topic : Way(p, q)' = Way(p, q), handed' = handed, failed' = failed,
         straddling' = straddling
  PROVE  MailStep
<1>1. Boxed' = Boxed
  BY DEF Boxed
<1>2. Received' = Received
  BY DEF Received
<1>3. UNCHANGED Mail!boxVars
  BY <1>1, <1>2, MailIs
<1>. QED BY <1>3 DEF MailStep

LEMMA MailPosted ==
  ASSUME NEW p \in Topic, NEW q \in Topic, NEW m \in Letter, failed = Running, failed' = Running,
         handed' = handed, straddling' = straddling,
         \A x, y \in Topic : Way(x, y)' = IF x = p /\ y = q THEN Append(Way(x, y), m) ELSE Way(x, y)
  PROVE  MailStep
<1>1. Boxed' = [Boxed EXCEPT ![p][q] = Append(@, m)]
  <2>1. Boxed' = [x \in Topic |-> [y \in Topic |->
                    IF x = p /\ y = q THEN Append(Way(x, y), m) ELSE Way(x, y)]]
    BY DEF Boxed
  <2>2. [Boxed EXCEPT ![p][q] = Append(@, m)]
          = [x \in Topic |-> [y \in Topic |->
               IF x = p /\ y = q THEN Append(Way(x, y), m) ELSE Way(x, y)]]
    BY DEF Boxed
  <2>. QED BY <2>1, <2>2
<1>2. Received' = Received
  BY DEF Received
<1>3. Mail!Post(p, q)
  <2>1. Mail!Post(p, q) <=> /\ ~(failed # Running)
                            /\ \E x \in Letter : Boxed' = [Boxed EXCEPT ![p][q] = Append(@, x)]
                            /\ Received' = Received /\ straddling' = straddling
                            /\ (failed' # Running) = (failed # Running)
    BY DEF Mail!Post, Boxed, Received, Way, Left, QueueOf, Queue!queueOf, Letter
  <2>. QED BY <1>1, <1>2, <2>1
<1>. QED BY <1>3 DEF MailStep, Mail!Next

LEMMA MailTaken ==
  ASSUME NEW q \in Topic, NEW n \in [Topic -> 0..MaxPushed], failed = Running, failed' = Running,
         straddling' = straddling,
         \E p \in Topic : n[p] > 0, \A p \in Topic : n[p] <= Len(Way(p, q)),
         \A p, y \in Topic : Way(p, y)' = IF y = q THEN SubSeq(Way(p, y), n[p] + 1, Len(Way(p, y)))
                                          ELSE Way(p, y),
         \A p, y \in Topic : FromTo(handed[y], p, y)'
                               = IF y = q THEN FromTo(handed[y], p, y) \o SubSeq(Way(p, y), 1, n[p])
                                 ELSE FromTo(handed[y], p, y)
  PROVE  MailStep
<1>1. Boxed' = [p \in Topic |-> [Boxed[p] EXCEPT ![q] = SubSeq(@, n[p] + 1, Len(@))]]
  <2>1. ASSUME NEW p \in Topic
        PROVE  Boxed'[p] = [Boxed[p] EXCEPT ![q] = SubSeq(@, n[p] + 1, Len(@))]
    <3>1. Boxed'[p] = [y \in Topic |-> IF y = q THEN SubSeq(Way(p, y), n[p] + 1, Len(Way(p, y)))
                                       ELSE Way(p, y)]
      BY DEF Boxed
    <3>2. Boxed[p] = [y \in Topic |-> Way(p, y)]
      BY DEF Boxed
    <3>. QED BY <3>1, <3>2
  <2>2. Boxed' = [p \in Topic |-> Boxed'[p]]
    BY DEF Boxed
  <2>. QED BY <2>1, <2>2
<1>2. Received' = [p \in Topic |-> [Received[p] EXCEPT ![q] = @ \o SubSeq(Boxed[p][q], 1, n[p])]]
  <2>1. ASSUME NEW p \in Topic
        PROVE  Received'[p] = [Received[p] EXCEPT ![q] = @ \o SubSeq(Boxed[p][q], 1, n[p])]
    <3>1. Received'[p] = [y \in Topic |-> IF y = q THEN FromTo(handed[y], p, y) \o SubSeq(Way(p, y), 1, n[p])
                                          ELSE FromTo(handed[y], p, y)]
      BY DEF Received
    <3>2. Received[p] = [y \in Topic |-> FromTo(handed[y], p, y)] /\ Boxed[p][q] = Way(p, q)
      BY DEF Boxed, Received
    <3>. QED BY <3>1, <3>2
  <2>2. Received' = [p \in Topic |-> Received'[p]]
    BY DEF Received
  <2>. QED BY <2>1, <2>2
<1>3. \A p \in Topic : n[p] <= Len(Boxed[p][q])
  BY DEF Boxed
<1>4. Mail!Deliver(q)
  <2>1. Mail!Deliver(q) <=>
          \E k \in [Topic -> 0..MaxPushed] :
            /\ ~(failed # Running) /\ \E p \in Topic : k[p] > 0
            /\ \A p \in Topic : k[p] <= Len(Boxed[p][q])
            /\ Boxed' = [p \in Topic |-> [Boxed[p] EXCEPT ![q] = SubSeq(@, k[p] + 1, Len(@))]]
            /\ Received' = [p \in Topic |->
                 [Received[p] EXCEPT ![q] = @ \o SubSeq(Boxed[p][q], 1, k[p])]]
            /\ straddling' = straddling
            /\ (failed' # Running) = (failed # Running)
    BY DEF Mail!Deliver, Boxed, Received, Way, Left, QueueOf, Queue!queueOf
  <2>. QED BY <1>1, <1>2, <1>3, <2>1
<1>. QED BY <1>4 DEF MailStep, Mail!Next

LEMMA MailLost ==
  ASSUME straddling, straddling' = straddling, failed = Running, failed' = Running,
         handed' = handed, \A p, q \in Topic : Mail!Dropped(Way(p, q), Way(p, q)')
  PROVE  MailStep
<1>1. Boxed' = [p \in Topic |-> [q \in Topic |-> Boxed'[p][q]]]
  BY DEF Boxed
<1>2. \A p, q \in Topic : Mail!Dropped(Boxed[p][q], Boxed'[p][q])
  BY DEF Boxed
<1>3. Received' = Received
  BY DEF Received
<1>4. Mail!Lose
  <2>1. Mail!Lose <=> /\ straddling /\ ~(failed # Running)
                      /\ Boxed' = [p \in Topic |-> [q \in Topic |-> Boxed'[p][q]]]
                      /\ \A p, q \in Topic : Mail!Dropped(Boxed[p][q], Boxed'[p][q])
                      /\ Received' = Received /\ straddling' = straddling
                      /\ (failed' # Running) = (failed # Running)
    BY DEF Mail!Lose, Boxed, Received, Way, Left, QueueOf, Queue!queueOf
  <2>. QED BY <1>1, <1>2, <1>3, <2>1
<1>. QED BY <1>4 DEF MailStep, Mail!Next

-----------------------------------------------------------------------------
(* Packets *)

LEMMA PacketRead ==
  ASSUME CutInv, NEW stream, NEW n \in Nat, NEW seg \in Queue!Packet(n),
         Queue!Cut(stream, seg), straddling' = straddling
  PROVE  /\ CutInv' /\ seg[1] \in 1..n
         /\ Queue!read(stream, seg) \in {0, seg[1]}
         /\ straddling \/ Queue!read(stream, seg) = seg[1]
<1>1. seg[1] \in 1..n /\ seg[2] \in BOOLEAN /\ (seg[2] => straddling)
  BY DEF Queue!Packet
<1>2. CutInv'
  BY <1>1 DEF CutInv, Queue!Cut
<1>3. straddling \/ stream \notin cut
  BY DEF CutInv
<1>. QED BY <1>1, <1>2, <1>3 DEF Queue!read

-----------------------------------------------------------------------------
(* The first state, and the steps of the nodes *)

LEMMA WayType ==
  ASSUME NEW b \in GoodBroker, NEW out, OutsOK(out), NEW p \in Topic, NEW q \in Topic
  PROVE  /\ Left(b.queues, b.pulling, p, q) \in Seq(Letter)
         /\ out[p] \in Seq(Letter) /\ FromTo(out[p], p, q) \in Seq(Letter)
         /\ Left(b.queues, b.pulling, p, q) \o FromTo(out[p], p, q) \in Seq(Letter)
<1>. DEFINE x == Left(b.queues, b.pulling, p, q)
            y == FromTo(out[p], p, q)
<1>1. x \in Seq(Letter)
  BY LeftType
<1>2. out[p] \in Seq(Letter)
  BY DEF OutsOK, Streams
<1>3. y \in Seq(Letter)
  BY <1>2, FromToType
<1>4. x \o y \in Seq(Letter)
  <2>. HIDE DEF x, y
  <2>. QED BY <1>1, <1>3, ConcatProperties
<1>. QED BY <1>1, <1>2, <1>3, <1>4

LEMMA MailStarts ==
  ASSUME Init
  PROVE  MailInv /\ Mail!Init
<1>1. /\ setup \in Setups /\ usesQueue = setup.usesQueue /\ failed = Running
      /\ straddling = setup.straddling /\ cut = {}
      /\ pushed = [t \in Topic |-> 0] /\ pushing = [t \in Topic |-> <<>>]
      /\ acks = [t \in Topic |-> 0] /\ pulling = [t \in Topic |-> <<>>]
      /\ topicToQueueMap = <<>> /\ topicToConsumerMap = <<>> /\ handed = [t \in Topic |-> <<>>]
  BY DEF Init, EndpointsInit, StackInit, Queue!QueueInit
<1>2. usesQueue \subseteq Topic /\ MaxPushed \in Nat /\ straddling \in BOOLEAN /\ CutInv
  BY <1>1, ServicesConstants DEF CutInv
<1>. DEFINE e == <<>>
<1>3. /\ e \in Seq(Letter) /\ \A t \in Topic : e \in Seq(To(t)) /\ e \in Seq(By(t))
      /\ Len(e) = 0 /\ e \o e = e /\ DOMAIN e = {} /\ e = [t \in {} |-> e[t]]
  OBVIOUS
<1>4. \A p, q \in Topic : FromTo(e, p, q) = e
  BY FromToNothing
<1>5. \A q \in Topic : Queue!queueOf(topicToQueueMap, q) = e
  BY <1>1 DEF Queue!queueOf
<1>. HIDE DEF e
<1>6. QueuesOK(e) /\ ConsumersOK(e)
  BY <1>3, QueuesAre, ConsumersAre
<1>7. pulling = [t \in Topic |-> e] /\ pushing = [t \in Topic |-> e] /\ handed = [t \in Topic |-> e]
      /\ topicToQueueMap = e /\ topicToConsumerMap = e
  BY <1>1 DEF e
<1>8. StreamsOK(pulling) /\ OutsOK(pushing) /\ handed \in Streams
  BY <1>3, <1>7 DEF StreamsOK, OutsOK, Streams
<1>9. Queue!Broker \in GoodBroker
  BY <1>1, <1>6, <1>7, <1>8, GoodRecord DEF Queue!Broker
<1>10. \A p, q \in Topic : Way(p, q) = e
  BY <1>3, <1>4, <1>5, <1>7 DEF Way, Left
<1>11. pushed \in [Topic -> 0..MaxPushed] /\ acks \in [Topic -> Nat]
       /\ \A p, q \in Topic : Len(Way(p, q)) <= pushed[p]
  BY <1>1, <1>2, <1>3, <1>10
<1>12. MailInv
  BY <1>2, <1>8, <1>9, <1>11 DEF MailInv
<1>13. Boxed = [p \in Topic |-> [q \in Topic |-> e]] /\ Received = [p \in Topic |-> [q \in Topic |-> e]]
  BY <1>4, <1>7, <1>10 DEF Boxed, Received
<1>14. Mail!Init <=> Boxed = [p \in Topic |-> [q \in Topic |-> <<>>]]
                     /\ Received = [p \in Topic |-> [q \in Topic |-> <<>>]]
                     /\ (failed # Running) = FALSE /\ straddling \in BOOLEAN
  BY DEF Mail!Init, Mail!NoMail, Boxed, Received, Way, Left, QueueOf, Queue!queueOf
<1>. QED BY <1>1, <1>2, <1>12, <1>13, <1>14 DEF e

LEMMA PushPosts ==
  ASSUME MailInv, NEW t \in Topic, Queue!push(t)
  PROVE  MailInv' /\ MailStep
<1>. DEFINE b == Queue!Broker
<1>1. /\ failed = Running /\ t \in usesQueue /\ pushed[t] < MaxPushed
      /\ pushed' = [pushed EXCEPT ![t] = @ + 1]
      /\ UNCHANGED <<usesQueue, straddling, cut, acks, pulling, topicToQueueMap, topicToConsumerMap,
                     handed, failed>>
  BY DEF Queue!push, Queue!scenarioVars
<1>2. PICK to \in usesQueue \ {t} : pushing' = [pushing EXCEPT ![t] = Append(@, Queue!Message(t, to))]
  BY DEF Queue!push
<1>3. /\ b \in GoodBroker /\ pushed \in [Topic -> 0..MaxPushed] /\ acks \in [Topic -> Nat]
      /\ OutsOK(pushing) /\ handed \in Streams /\ usesQueue \subseteq Topic /\ CutInv
      /\ \A p, q \in Topic : Len(Way(p, q)) <= pushed[p]
  BY <1>1 DEF MailInv
<1>. DEFINE m == Queue!Message(t, to)
<1>4. to \in Topic /\ to # t /\ MaxPushed \in Nat /\ pushed[t] + 1 \in 1..MaxPushed
  <2>1. pushed[t] \in 0..MaxPushed /\ MaxPushed \in Nat
    BY <1>3, ServicesConstants
  <2>2. pushed[t] + 1 \in 1..MaxPushed
    BY <1>1, <2>1
  <2>. QED BY <1>2, <1>3, <2>1, <2>2
<1>5. m \in Letter /\ m.by = t /\ m.to = to
  BY <1>4 DEF Queue!Message, Letter
<1>. HIDE DEF m, b
<1>6. /\ pushing'[t] = Append(pushing[t], m) /\ \A p \in Topic : p # t => pushing'[p] = pushing[p]
      /\ pushing[t] \in Seq(By(t)) /\ pushing[t] \in Seq(Letter) /\ DOMAIN pushing = Topic
  BY <1>2, <1>3 DEF OutsOK, Streams, m
<1>7. Append(pushing[t], m) \in Seq(By(t)) /\ Append(pushing[t], m) \in Seq(Letter)
  <2>1. m \in By(t)
    BY <1>5 DEF By
  <2>. QED BY <1>5, <1>6, <2>1, AppendProperties
<1>8. OutsOK(pushing')
  <2>1. pushing' \in Streams
    BY <1>2, <1>3, <1>7 DEF OutsOK, Streams, m
  <2>. QED BY <1>3, <1>6, <1>7, <2>1 DEF OutsOK
<1>9. ASSUME NEW p \in Topic, NEW q \in Topic
      PROVE  Way(p, q)' = IF p = t /\ q = to THEN Append(Way(p, q), m) ELSE Way(p, q)
  <2>1. Way(p, q)' = Left(topicToQueueMap, pulling, p, q) \o FromTo(pushing'[p], p, q)
    BY <1>1 DEF Way, Left
  <2>2. CASE p # t
    BY <1>6, <2>1, <2>2 DEF Way
  <2>3. CASE p = t
    <3>. DEFINE x == Left(topicToQueueMap, pulling, p, q)
                y == FromTo(pushing[p], p, q)
    <3>1. x \in Seq(Letter) /\ y \in Seq(Letter)
      BY <1>3, WayType DEF b, Queue!Broker
    <3>2. FromTo(pushing'[p], p, q) = Pick(y, m, p, q)
      <4>. DEFINE s == pushing[t]
      <4>1. s \in Seq(Letter) /\ pushing'[p] = Append(s, m)
        BY <1>6, <2>3
      <4>. HIDE DEF s
      <4>2. FromTo(Append(s, m), p, q) = Pick(FromTo(s, p, q), m, p, q)
        BY <1>5, <4>1, FromToAppend
      <4>. QED BY <2>3, <4>1, <4>2 DEF s
    <3>3. Way(p, q) = x \o y /\ Way(p, q)' = x \o Pick(y, m, p, q)
      BY <2>1, <3>2 DEF Way
    <3>. HIDE DEF x, y
    <3>4. x \o Pick(y, m, p, q) = Pick(x \o y, m, p, q)
      BY <1>5, <3>1, PickOfConcat
    <3>5. Way(p, q)' = Pick(Way(p, q), m, p, q)
      BY <3>3, <3>4
    <3>. QED BY <1>5, <2>3, <3>5 DEF Pick, Matches
  <2>. QED BY <2>2, <2>3
<1>10. \A p, q \in Topic : Way(p, q) \in Seq(Letter)
  BY <1>3, WayType DEF Way, b, Queue!Broker
<1>11. \A p, q \in Topic : Len(Way(p, q)') <= pushed'[p]
  <2>. TAKE p \in Topic, q \in Topic
  <2>. DEFINE w == Way(p, q)
  <2>1. w \in Seq(Letter) /\ Len(w) \in Nat /\ Len(w) <= pushed[p] /\ pushed[p] \in Nat
    BY <1>3, <1>10, LenProperties
  <2>2. Len(Append(w, m)) = Len(w) + 1
    BY <1>5, <2>1, AppendProperties
  <2>3. pushed'[p] = IF p = t THEN pushed[p] + 1 ELSE pushed[p]
    BY <1>1, <1>3
  <2>4. w' = IF p = t /\ q = to THEN Append(w, m) ELSE w
    BY <1>9
  <2>. HIDE DEF w
  <2>5. CASE p = t /\ q = to
    BY <2>1, <2>2, <2>3, <2>4, <2>5 DEF w
  <2>6. CASE ~(p = t /\ q = to)
    BY <2>1, <2>3, <2>4, <2>6 DEF w
  <2>. QED BY <2>5, <2>6
<1>12. pushed' \in [Topic -> 0..MaxPushed] /\ Queue!Broker' = b
  <2>1. pushed' \in [Topic -> 0..MaxPushed]
    BY <1>1, <1>3, <1>4
  <2>2. Queue!Broker' = b
    BY <1>1 DEF Queue!Broker, b
  <2>. QED BY <2>1, <2>2
<1>13. MailInv'
  <2>1. handed' \in Streams /\ acks' \in [Topic -> Nat] /\ usesQueue' \subseteq Topic /\ CutInv'
    BY <1>1, <1>3 DEF CutInv
  <2>. QED BY <1>3, <1>8, <1>11, <1>12, <2>1 DEF MailInv
<1>14. MailStep
  BY <1>1, <1>4, <1>5, <1>9, MailPosted
<1>. QED BY <1>13, <1>14

LEMMA PullClientStartsMail ==
  ASSUME MailInv, NEW t \in Topic, Queue!pullClientStarts(t)
  PROVE  MailInv' /\ MailStep
<1>1. /\ failed = Running /\ acks' = [acks EXCEPT ![t] = @ + 1]
      /\ UNCHANGED <<usesQueue, straddling, cut, pushed, pushing, pulling, topicToQueueMap,
                     topicToConsumerMap, handed, failed>>
  BY DEF Queue!pullClientStarts, Queue!scenarioVars
<1>2. \A p, q \in Topic : Way(p, q)' = Way(p, q)
  BY <1>1 DEF Way, Left
<1>3. acks' \in [Topic -> Nat] /\ Queue!Broker' = Queue!Broker
  <2>1. acks \in [Topic -> Nat]
    BY <1>1 DEF MailInv
  <2>. QED BY <1>1, <2>1 DEF Queue!Broker
<1>4. MailInv'
  BY <1>1, <1>2, <1>3 DEF MailInv, CutInv
<1>. QED BY <1>1, <1>2, <1>4, MailStays

-----------------------------------------------------------------------------
(* The steps of the broker *)

LEMMA TakenApart ==
  ASSUME NEW S, NEW s \in Seq(S), NEW k \in 0..Len(s)
  PROVE  /\ s = SubSeq(s, 1, k) \o SubSeq(s, k + 1, Len(s))
         /\ SubSeq(s, 1, k) \in Seq(S) /\ SubSeq(s, k + 1, Len(s)) \in Seq(S)
         /\ Len(SubSeq(s, 1, k)) = k
<1>. DEFINE x == SubSeq(s, 1, k)
            y == SubSeq(s, k + 1, Len(s))
<1>1. Len(s) \in Nat /\ k \in Nat /\ k <= Len(s) /\ s \in [1..Len(s) -> S]
  BY LenProperties
<1>2. x \in Seq(S) /\ Len(x) = k /\ \A i \in 1..k : x[i] = s[i]
  BY <1>1, SubSeqProperties
<1>3. y \in Seq(S) /\ Len(y) = Len(s) - k /\ \A i \in 1..(Len(s) - k) : y[i] = s[k + i]
  <2>. DEFINE m == k + 1
              l == Len(s)
  <2>1. m \in Nat /\ l \in Nat /\ m \in 1..(l + 1) /\ l \in (m - 1)..l
        /\ l - m + 1 = l - k /\ m <= l + 1
    BY <1>1
  <2>2. /\ SubSeq(s, m, l) \in Seq(S)
        /\ Len(SubSeq(s, m, l)) = l - m + 1
        /\ \A i \in 1..(l - m + 1) : SubSeq(s, m, l)[i] = s[m + i - 1]
    <3>. HIDE DEF m, l
    <3>1. IF m <= l THEN l - m + 1 \in Nat ELSE l - m + 1 = 0
      BY <2>1
    <3>2. \A i \in m..l : i \in 1..Len(s)
      BY <2>1 DEF l
    <3>. QED BY <2>1, <3>1, <3>2, SubSeqProperties
  <2>3. \A i \in 1..(l - k) : m + i - 1 = k + i
    BY <1>1
  <2>. QED BY <2>1, <2>2, <2>3
<1>. HIDE DEF x, y
<1>4. /\ x \o y \in Seq(S) /\ Len(x \o y) = Len(x) + Len(y)
      /\ \A i \in 1..(Len(x) + Len(y)) : (x \o y)[i] = IF i <= Len(x) THEN x[i] ELSE y[i - Len(x)]
  BY <1>2, <1>3, ConcatProperties
<1>5. Len(x \o y) = Len(s)
  BY <1>1, <1>2, <1>3, <1>4
<1>6. ASSUME NEW i \in 1..Len(s) PROVE (x \o y)[i] = s[i]
  <2>1. i \in 1..(Len(x) + Len(y))
    BY <1>4, <1>5
  <2>2. CASE i <= k
    BY <1>1, <1>2, <1>4, <2>1, <2>2
  <2>3. CASE i > k
    <3>. DEFINE j == i - k
    <3>1. j \in 1..(Len(s) - k) /\ k + j = i
      BY <1>1, <2>3
    <3>2. (x \o y)[i] = y[j]
      BY <1>1, <1>2, <1>4, <2>1, <2>3
    <3>. HIDE DEF j
    <3>3. y[j] = s[i]
      BY <1>3, <3>1
    <3>. QED BY <3>2, <3>3
  <2>4. i <= k \/ i > k
    BY <1>1
  <2>. QED BY <2>2, <2>3, <2>4
<1>7. x \o y = s
  <2>. DEFINE z == x \o y
  <2>1. z \in Seq(S) /\ Len(z) = Len(s) /\ \A i \in 1..Len(s) : z[i] = s[i]
    BY <1>4, <1>5, <1>6
  <2>. HIDE DEF z
  <2>. QED BY <2>1, SeqEqual DEF z
<1>. QED BY <1>2, <1>3, <1>7 DEF x, y

LEMMA HeadAndRest ==
  ASSUME NEW S, NEW x \in Seq(S), NEW y \in Seq(S)
  PROVE  /\ SubSeq(x \o y, 1, Len(x)) = x
         /\ SubSeq(x \o y, Len(x) + 1, Len(x \o y)) = y
         /\ Len(x \o y) = Len(x) + Len(y)
<1>. DEFINE s == x \o y
            k == Len(x)
            u == SubSeq(s, 1, k)
            v == SubSeq(s, k + 1, Len(s))
<1>1. /\ s \in Seq(S) /\ Len(s) = Len(x) + Len(y) /\ Len(x) \in Nat /\ Len(y) \in Nat
      /\ \A i \in 1..(Len(x) + Len(y)) : s[i] = IF i <= Len(x) THEN x[i] ELSE y[i - Len(x)]
  BY ConcatProperties, LenProperties
<1>. HIDE DEF s
<1>2. u \in Seq(S) /\ Len(u) = k /\ \A i \in 1..k : u[i] = s[i]
  BY <1>1, SubSeqProperties
<1>3. v \in Seq(S) /\ Len(v) = Len(y) /\ \A i \in 1..Len(y) : v[i] = s[k + i]
  BY <1>1, SubSeqProperties
<1>. HIDE DEF u, v
<1>4. \A i \in 1..k : s[i] = x[i]
  BY <1>1
<1>5. \A i \in 1..Len(y) : s[k + i] = y[i]
  BY <1>1
<1>6. u = x
  BY <1>1, <1>2, <1>4, SeqEqual
<1>7. v = y
  BY <1>1, <1>3, <1>5, SeqEqual
<1>. QED BY <1>1, <1>6, <1>7 DEF u, v, s

\* What is in the middle is dropped.
LEMMA LostMiddle ==
  ASSUME NEW S, NEW x \in Seq(S), NEW y \in Seq(S), NEW z \in Seq(S)
  PROVE  Mail!Dropped(x \o (y \o z), x \o z) /\ Len(x \o z) <= Len(x \o (y \o z))
<1>. DEFINE r == y \o z
            l == x \o y
            s == x \o r
            i == Len(x)
            j == Len(l)
<1>1. r \in Seq(S) /\ l \in Seq(S) /\ s = l \o z
  BY SMTT(60), ConcatProperties, ConcatAssociative
<1>2. Len(x) \in Nat /\ Len(y) \in Nat /\ Len(z) \in Nat
  BY LenProperties
<1>3. Len(r) = Len(y) + Len(z) /\ Len(l) = Len(x) + Len(y) /\ Len(x \o z) = Len(x) + Len(z)
  BY HeadAndRest
<1>. HIDE DEF r, l
<1>4. SubSeq(s, 1, i) = x /\ Len(s) = Len(x) + Len(r)
  BY <1>1, HeadAndRest
<1>5. SubSeq(s, j + 1, Len(s)) = z
  BY <1>1, HeadAndRest
<1>. HIDE DEF s
<1>6. i \in 0..Len(s) /\ j \in 0..Len(s) /\ i <= j /\ Len(x \o z) <= Len(s)
  BY <1>2, <1>3, <1>4
<1>7. x \o z = SubSeq(s, 1, i) \o SubSeq(s, j + 1, Len(s))
  BY <1>4, <1>5
<1>8. Mail!Dropped(s, x \o z)
  <2>. HIDE DEF i, j
  <2>. QED BY <1>6, <1>7 DEF Mail!Dropped
<1>. QED BY <1>6, <1>8 DEF s, r

LEMMA LostNone ==
  ASSUME NEW S, NEW s \in Seq(S)
  PROVE  Mail!Dropped(s, s)
<1>. DEFINE n == Len(s)
<1>1. n \in Nat /\ n \in 0..n
  BY LenProperties
<1>2. s = SubSeq(s, 1, n) \o SubSeq(s, n + 1, Len(s)) /\ n <= n
  BY <1>1, TakenApart
<1>3. \E i, j \in 0..Len(s) : i <= j /\ s = SubSeq(s, 1, i) \o SubSeq(s, j + 1, Len(s))
  <2>1. n \in 0..Len(s)
    BY <1>1
  <2>. HIDE DEF n
  <2>. WITNESS n \in 0..Len(s), n \in 0..Len(s)
  <2>. QED BY <1>2
<1>. QED BY <1>3 DEF Mail!Dropped

Keeping(b, b2, out, out2) ==
  \A p, q \in Topic : Left(b2.queues, b2.pulling, p, q) \o FromTo(out2[p], p, q)
                        = Left(b.queues, b.pulling, p, q) \o FromTo(out[p], p, q)

\* What the broker takes from a stream it has under way instead.
LEMMA TakenStays ==
  ASSUME NEW b \in GoodBroker, NEW b2 \in GoodBroker, NEW out, OutsOK(out), NEW t \in Topic,
         NEW k \in 0..Len(out[t]), Gains(b, b2, SubSeq(out[t], 1, k)),
         NEW out2, out2 = Replaced(out, t, SubSeq(out[t], k + 1, Len(out[t])))
  PROVE  OutsOK(out2) /\ Keeping(b, b2, out, out2)
<1>. DEFINE s == out[t]
            packet == SubSeq(s, 1, k)
            rest == SubSeq(s, k + 1, Len(s))
<1>1. /\ s \in Seq(By(t)) /\ s \in Seq(Letter) /\ out \in Streams
      /\ \A p \in Topic : out[p] \in Seq(By(p)) /\ out[p] \in Seq(Letter)
  BY DEF OutsOK, Streams
<1>2. /\ s = packet \o rest /\ packet \in Seq(By(t)) /\ rest \in Seq(By(t)) /\ Len(packet) = k
      /\ packet \in Seq(Letter) /\ rest \in Seq(Letter)
  <2>1. k \in 0..Len(s)
    OBVIOUS
  <2>. HIDE DEF s
  <2>. QED BY <1>1, <2>1, TakenApart
<1>3. Gains(b, b2, packet)
  OBVIOUS
<1>4. out2[t] = rest /\ \A p \in Topic : p # t => out2[p] = out[p]
  BY <1>1 DEF Replaced, Streams
<1>5. OutsOK(out2)
  <2>1. out2 \in Streams
    <3>1. out2 = Replaced(out, t, rest)
      OBVIOUS
    <3>. HIDE DEF rest
    <3>. QED BY <1>1, <1>2, <3>1 DEF Streams, Replaced
  <2>. HIDE DEF rest
  <2>. QED BY <1>1, <1>2, <1>4, <2>1 DEF OutsOK
<1>. HIDE DEF packet, rest, s
<1>6. ASSUME NEW p \in Topic, NEW q \in Topic
      PROVE  Left(b2.queues, b2.pulling, p, q) \o FromTo(out2[p], p, q)
               = Left(b.queues, b.pulling, p, q) \o FromTo(out[p], p, q)
  <2>. DEFINE x == Left(b.queues, b.pulling, p, q)
              y == FromTo(packet, p, q)
  <2>1. Left(b2.queues, b2.pulling, p, q) = x \o y
    BY <1>3 DEF Gains
  <2>2. x \in Seq(Letter) /\ y \in Seq(Letter)
    BY <1>2, LeftType, FromToType
  <2>3. CASE p # t
    <3>1. \A i \in 1..Len(packet) : ~Matches(packet[i], p, q)
      <4>. TAKE i \in 1..Len(packet)
      <4>1. packet[i] \in By(t)
        BY <1>2, ElementOfSeq
      <4>. QED BY <2>3, <4>1 DEF By, Matches
    <3>2. y = <<>>
      BY <1>2, <3>1, FromToNone
    <3>3. x \o <<>> = x
      <4>. HIDE DEF x
      <4>. QED BY <2>2, ConcatEmptySeq
    <3>. QED BY <1>4, <2>1, <2>3, <3>2, <3>3
  <2>4. CASE p = t
    <3>. DEFINE z == FromTo(rest, p, q)
    <3>1. FromTo(s, p, q) = y \o z
      BY <1>2, FromToConcat
    <3>2. z \in Seq(Letter)
      BY <1>2, FromToType
    <3>3. (x \o y) \o z = x \o (y \o z)
      <4>. HIDE DEF x, y, z
      <4>. QED BY <2>2, <3>2, ConcatAssociative
    <3>4. FromTo(out2[p], p, q) = z /\ FromTo(out[p], p, q) = y \o z
      BY <1>4, <2>4, <3>1 DEF s
    <3>. HIDE DEF x, y, z
    <3>. QED BY <2>1, <3>3, <3>4 DEF x
  <2>. QED BY <2>3, <2>4
<1>. QED BY <1>5, <1>6 DEF Keeping

\* The broker becomes what the model computes.
LEMMA Becoming ==
  ASSUME NEW b \in GoodBroker, Queue!Becomes(b)
  PROVE  /\ Queue!Broker' = b /\ failed' = b.failed
         /\ topicToQueueMap' = b.queues /\ pulling' = b.pulling
<1>1. /\ topicToQueueMap' = b.queues /\ topicToConsumerMap' = b.consumers
      /\ pulling' = b.pulling /\ failed' = b.failed
  BY DEF Queue!Becomes
<1>2. b = [queues |-> b.queues, consumers |-> b.consumers, pulling |-> b.pulling,
           failed |-> b.failed]
  BY GoodFields
<1>3. Queue!Broker' = [queues |-> b.queues, consumers |-> b.consumers, pulling |-> b.pulling,
                       failed |-> b.failed]
  BY <1>1 DEF Queue!Broker
<1>. QED BY <1>1, <1>2, <1>3

\* Unread packets lose a run of the mail of their sender.
LEMMA PushLost ==
  ASSUME Queue!Broker \in GoodBroker, OutsOK(pushing), NEW t \in Topic,
         NEW k \in 0..Len(pushing[t]), UNCHANGED <<topicToQueueMap, pulling>>,
         pushing' = Replaced(pushing, t, SubSeq(pushing[t], k + 1, Len(pushing[t])))
  PROVE  /\ OutsOK(pushing')
         /\ \A p, q \in Topic : Mail!Dropped(Way(p, q), Way(p, q)')
                                 /\ Len(Way(p, q)') <= Len(Way(p, q))
<1>. DEFINE s == pushing[t]
            head == SubSeq(s, 1, k)
            rest == SubSeq(s, k + 1, Len(s))
<1>1. /\ s \in Seq(By(t)) /\ s \in Seq(Letter) /\ pushing \in Streams
      /\ \A p \in Topic : pushing[p] \in Seq(By(p))
  BY DEF OutsOK, Streams
<1>2. /\ s = head \o rest /\ rest \in Seq(By(t)) /\ head \in Seq(Letter) /\ rest \in Seq(Letter)
  <2>1. k \in 0..Len(s)
    OBVIOUS
  <2>. HIDE DEF s
  <2>. QED BY <1>1, <2>1, TakenApart
<1>3. pushing' = Replaced(pushing, t, rest)
  OBVIOUS
<1>. HIDE DEF head, rest
<1>4. pushing'[t] = rest /\ \A p \in Topic : p # t => pushing'[p] = pushing[p]
  BY <1>1, <1>3 DEF Replaced, Streams
<1>5. OutsOK(pushing')
  <2>1. pushing' \in Streams
    BY <1>1, <1>2, <1>3 DEF Streams, Replaced
  <2>. QED BY <1>1, <1>2, <1>4, <2>1 DEF OutsOK
<1>6. ASSUME NEW p \in Topic, NEW q \in Topic
      PROVE  Mail!Dropped(Way(p, q), Way(p, q)') /\ Len(Way(p, q)') <= Len(Way(p, q))
  <2>. DEFINE x == Left(topicToQueueMap, pulling, p, q)
              y == FromTo(head, p, q)
              z == FromTo(rest, p, q)
              w == Way(p, q)
  <2>1. x \in Seq(Letter) /\ w \in Seq(Letter)
    BY WayType DEF Way, Queue!Broker
  <2>2. y \in Seq(Letter) /\ z \in Seq(Letter)
    BY <1>2, FromToType
  <2>3. x' = x
    BY DEF Left
  <2>4. CASE p # t
    <3>1. w' = w
      BY <1>4, <2>3, <2>4 DEF Way
    <3>. HIDE DEF w
    <3>2. Mail!Dropped(w, w) /\ Len(w) <= Len(w)
      BY <2>1, LostNone, LenProperties
    <3>. QED BY <3>1, <3>2 DEF w
  <2>5. CASE p = t
    <3>1. FromTo(s, p, q) = y \o z
      BY <1>2, FromToConcat
    <3>2. w = x \o (y \o z) /\ w' = x \o z
      BY <1>4, <2>3, <2>5, <3>1 DEF Way, s
    <3>. HIDE DEF w, x, y, z
    <3>3. Mail!Dropped(x \o (y \o z), x \o z) /\ Len(x \o z) <= Len(x \o (y \o z))
      BY <2>1, <2>2, LostMiddle
    <3>. QED BY <3>2, <3>3 DEF w
  <2>. QED BY <2>4, <2>5
<1>. QED BY <1>5, <1>6

LEMMA WayLen ==
  ASSUME Queue!Broker \in GoodBroker, OutsOK(pushing), NEW p \in Topic, NEW q \in Topic
  PROVE  Way(p, q) \in Seq(Letter) /\ Len(Way(p, q)) \in Nat
<1>1. Way(p, q) \in Seq(Letter)
  BY WayType DEF Way, Queue!Broker
<1>. QED BY <1>1, LenProperties

\* Lengths that do not grow stay within what was pushed.
LEMMA StillCounted ==
  ASSUME Queue!Broker \in GoodBroker, OutsOK(pushing),
         Queue!Broker' \in GoodBroker, OutsOK(pushing'),
         pushed \in [Topic -> 0..MaxPushed], pushed' = pushed,
         \A p, q \in Topic : Len(Way(p, q)) <= pushed[p],
         \A p, q \in Topic : Len(Way(p, q)') <= Len(Way(p, q))
  PROVE  \A p, q \in Topic : Len(Way(p, q)') <= pushed'[p]
<1>. TAKE p \in Topic, q \in Topic
<1>1. Len(Way(p, q)) \in Nat
  BY WayLen
<1>2. Way(p, q)' \in Seq(Letter)
  BY WayType DEF Way, Queue!Broker
<1>. DEFINE w == Way(p, q)'
            n == Len(Way(p, q))
            m == Len(w)
<1>3. m \in Nat
  <2>. HIDE DEF w
  <2>. QED BY <1>2, LenProperties
<1>4. m <= n /\ n <= pushed[p] /\ pushed[p] \in Nat /\ n \in Nat
  BY <1>1
<1>5. m <= pushed[p]
  <2>. HIDE DEF m, n
  <2>. QED BY <1>3, <1>4
<1>. QED BY <1>5

LEMMA MessagesTaken ==
  ASSUME MailInv, NEW t \in Topic, Queue!messagesPushed(t)
  PROVE  MailInv' /\ MailStep
<1>. DEFINE b == Queue!Broker
            s == pushing[t]
            stream == <<"push", t>>
            length == Len(s)
<1>1. PICK seg \in Queue!Packet(length) :
        LET k == Queue!read(stream, seg) IN
        /\ failed = Running
        /\ Queue!Becomes((CHOOSE g : PushesFrom(g, b, s, k))[k])
        /\ pushing' = [pushing EXCEPT ![t] = SubSeq(@, seg[1] + 1, Len(@))]
        /\ Queue!Cut(stream, seg)
        /\ UNCHANGED <<usesQueue, straddling, pushed, acks, handed>>
  BY DEF Queue!messagesPushed, Queue!scenarioVars, PushesFrom
<1>. DEFINE k == Queue!read(stream, seg)
            j == seg[1]
<1>2. /\ b \in GoodBroker /\ pushed \in [Topic -> 0..MaxPushed] /\ acks \in [Topic -> Nat]
      /\ OutsOK(pushing) /\ handed \in Streams /\ usesQueue \subseteq Topic /\ CutInv
      /\ \A p, q \in Topic : Len(Way(p, q)) <= pushed[p]
  BY <1>1 DEF MailInv
<1>3. b.failed = Running /\ b.queues = topicToQueueMap /\ b.pulling = pulling
  BY <1>1 DEF Queue!Broker
<1>4. /\ s \in Seq(Letter) /\ DOMAIN pushing = Topic /\ CutInv'
      /\ k \in 0..Len(s) /\ j \in 0..Len(s) /\ k \in {0, j} /\ (straddling \/ k = j)
  <2>1. s \in Seq(Letter) /\ DOMAIN pushing = Topic
    BY <1>2 DEF OutsOK, Streams
  <2>2. length \in Nat
    <3>. HIDE DEF s
    <3>. QED BY <2>1, LenProperties
  <2>3. Queue!Cut(stream, seg) /\ straddling' = straddling
    BY <1>1
  <2>. HIDE DEF length, stream
  <2>4. /\ CutInv' /\ j \in 1..length /\ Queue!read(stream, seg) \in {0, j}
        /\ straddling \/ Queue!read(stream, seg) = j
    BY <1>2, <2>2, <2>3, PacketRead
  <2>5. j \in 0..length /\ k \in 0..length
    BY <2>2, <2>4
  <2>. QED BY <2>1, <2>4, <2>5 DEF length
<1>. HIDE DEF stream, length
<1>. HIDE DEF k, j
<1>. DEFINE h == CHOOSE g : PushesFrom(g, b, s, k)
            new == h[k]
<1>5. PushesFrom(h, b, s, k)
  <2>1. \E g : PushesFrom(g, b, s, k)
    <3>. HIDE DEF b, s
    <3>. QED BY <1>2, <1>4, PushesExist
  <2>. QED BY <2>1
<1>6. Queue!Becomes(new) /\ failed = Running /\ handed' = handed /\ straddling' = straddling
      /\ UNCHANGED <<usesQueue, pushed, acks>>
      /\ pushing' = [pushing EXCEPT ![t] = SubSeq(@, j + 1, Len(@))]
  BY <1>1 DEF k, j
<1>. HIDE DEF h
<1>7. new \in GoodBroker /\ (new.failed # Running \/ Gains(b, new, SubSeq(s, 1, k)))
  <2>. HIDE DEF b, s
  <2>. QED BY <1>2, <1>3, <1>4, <1>5, PacketPushed
<1>. HIDE DEF new
<1>8. /\ Queue!Broker' = new /\ failed' = new.failed
      /\ topicToQueueMap' = new.queues /\ pulling' = new.pulling
  BY <1>6, <1>7, Becoming
<1>9. CASE new.failed # Running
  <2>1. MailInv'
    BY <1>2, <1>4, <1>6, <1>8, <1>9 DEF MailInv
  <2>. QED BY <1>6, <1>8, <1>9, <2>1, MailStops
<1>10. CASE new.failed = Running /\ k = j
  <2>1. Gains(b, new, SubSeq(pushing[t], 1, k))
    BY <1>7, <1>10
  <2>2. pushing' = Replaced(pushing, t, SubSeq(pushing[t], k + 1, Len(pushing[t])))
    BY <1>4, <1>6, <1>10 DEF Replaced
  <2>. HIDE DEF b
  <2>3. /\ OutsOK(pushing')
        /\ \A p, q \in Topic : Left(new.queues, new.pulling, p, q) \o FromTo(pushing'[p], p, q)
                                 = Left(b.queues, b.pulling, p, q) \o FromTo(pushing[p], p, q)
    <3>. DEFINE out  == pushing
                out2 == pushing'
    <3>1. k \in 0..Len(out[t]) /\ OutsOK(out) /\ Gains(b, new, SubSeq(out[t], 1, k))
      BY <1>2, <1>4, <2>1
    <3>2. out2 = Replaced(out, t, SubSeq(out[t], k + 1, Len(out[t])))
      BY <2>2
    <3>. HIDE DEF out, out2
    <3>3. OutsOK(out2) /\ Keeping(b, new, out, out2)
      BY <1>2, <1>7, <3>1, <3>2, TakenStays
    <3>. QED BY <3>3 DEF Keeping, out, out2
  <2>4. \A p, q \in Topic : Way(p, q)' = Way(p, q)
    BY <1>3, <1>8, <2>3 DEF Way
  <2>5. MailInv'
    BY <1>2, <1>4, <1>6, <1>7, <1>8, <2>3, <2>4 DEF MailInv
  <2>. QED BY <1>6, <1>8, <1>10, <2>4, <2>5, MailStays
<1>11. CASE k # j
  <2>1. k = 0 /\ straddling
    BY <1>4, <1>11
  <2>2. new = b
    BY <1>5, <2>1 DEF PushesFrom, new
  <2>3. Queue!Broker' = b /\ failed' = Running /\ topicToQueueMap' = topicToQueueMap
        /\ pulling' = pulling
    BY <1>3, <1>8, <2>2
  <2>4. j \in 0..Len(pushing[t])
        /\ pushing' = Replaced(pushing, t, SubSeq(pushing[t], j + 1, Len(pushing[t])))
    BY <1>4, <1>6 DEF Replaced
  <2>. HIDE DEF b, s
  <2>5. /\ OutsOK(pushing')
        /\ \A p, q \in Topic : Mail!Dropped(Way(p, q), Way(p, q)')
                                /\ Len(Way(p, q)') <= Len(Way(p, q))
    BY <1>2, <2>3, <2>4, PushLost DEF b
  <2>6. \A p, q \in Topic : Len(Way(p, q)') <= pushed'[p]
    BY <1>2, <1>6, <2>3, <2>5, StillCounted DEF b
  <2>7. MailInv'
    BY <1>2, <1>4, <1>6, <2>3, <2>5, <2>6 DEF MailInv, b
  <2>. QED BY <1>6, <2>1, <2>3, <2>5, <2>7, MailLost
<1>. QED BY <1>9, <1>10, <1>11

LEMMA AcknowledgementsTaken ==
  ASSUME MailInv, NEW t \in Topic, Queue!handleIncomingMessage(t)
  PROVE  MailInv' /\ MailStep
<1>. DEFINE b == Queue!Broker
            stream == <<"ack", t>>
<1>1. PICK seg \in Queue!Packet(acks[t]) :
        LET k == Queue!read(stream, seg) IN
        /\ failed = Running
        /\ Queue!Becomes((CHOOSE g : AcksFrom(g, b, t, k))[k])
        /\ acks' = [acks EXCEPT ![t] = @ - seg[1]]
        /\ Queue!Cut(stream, seg)
        /\ UNCHANGED <<usesQueue, straddling, pushed, pushing, handed>>
  BY DEF Queue!handleIncomingMessage, Queue!scenarioVars, AcksFrom
<1>. DEFINE k == Queue!read(stream, seg)
            j == seg[1]
<1>2. /\ b \in GoodBroker /\ pushed \in [Topic -> 0..MaxPushed] /\ acks \in [Topic -> Nat]
      /\ OutsOK(pushing) /\ handed \in Streams /\ usesQueue \subseteq Topic /\ CutInv
      /\ \A p, q \in Topic : Len(Way(p, q)) <= pushed[p]
  BY <1>1 DEF MailInv
<1>3. b.failed = Running /\ b.queues = topicToQueueMap /\ b.pulling = pulling
  BY <1>1 DEF Queue!Broker
<1>4. k \in Nat /\ acks' \in [Topic -> Nat] /\ CutInv'
  <2>. DEFINE n == acks[t]
  <2>1. n \in Nat /\ Queue!Cut(stream, seg) /\ straddling' = straddling
        /\ seg \in Queue!Packet(n)
    BY <1>1, <1>2
  <2>. HIDE DEF n, stream
  <2>2. CutInv' /\ j \in 1..n /\ Queue!read(stream, seg) \in {0, j}
    BY <1>2, <2>1, PacketRead
  <2>3. n - j \in Nat /\ k \in Nat
    BY <2>1, <2>2
  <2>. HIDE DEF k
  <2>4. acks' = [acks EXCEPT ![t] = n - j]
    BY <1>1 DEF n
  <2>. QED BY <1>2, <2>2, <2>3, <2>4
<1>5. UNCHANGED <<usesQueue, straddling, pushed, pushing, handed>> /\ failed = Running
  BY <1>1
<1>. HIDE DEF stream, k
<1>. DEFINE h == CHOOSE g : AcksFrom(g, b, t, k)
            new == h[k]
<1>6. AcksFrom(h, b, t, k)
  <2>1. \E g : AcksFrom(g, b, t, k)
    <3>. HIDE DEF b
    <3>. QED BY <1>2, <1>4, AcksExist
  <2>. QED BY <2>1
<1>7. Queue!Becomes(new)
  BY <1>1 DEF k
<1>. HIDE DEF h
<1>8. new \in GoodBroker /\ new.failed = b.failed /\ SameMail(b, new)
  <2>. HIDE DEF b
  <2>. QED BY <1>2, <1>4, <1>6, PacketAcknowledged
<1>. HIDE DEF new, b
<1>9. /\ Queue!Broker' = new /\ failed' = new.failed
      /\ topicToQueueMap' = new.queues /\ pulling' = new.pulling
  BY <1>7, <1>8, Becoming
<1>10. \A p, q \in Topic : Way(p, q)' = Way(p, q)
  BY <1>3, <1>5, <1>8, <1>9 DEF Way, SameMail, Keeps
<1>11. MailInv'
  BY <1>2, <1>4, <1>5, <1>8, <1>9, <1>10 DEF MailInv
<1>12. failed' = failed
  BY <1>3, <1>5, <1>8, <1>9
<1>. QED BY <1>5, <1>10, <1>11, <1>12, MailStays

-----------------------------------------------------------------------------
(* What a pull client hands over *)

LEMMA Regrouped ==
  ASSUME NEW S, NEW a \in Seq(S), NEW b \in Seq(S), NEW c \in Seq(S), NEW d \in Seq(S)
  PROVE  ((a \o b) \o c) \o d = a \o ((b \o c) \o d) /\ (b \o c) \o d \in Seq(S)
<1>1. (a \o b) \o c = a \o (b \o c)
  BY SMTT(60), ConcatAssociative
<1>. DEFINE e == b \o c
<1>2. e \in Seq(S)
  BY ConcatProperties
<1>. HIDE DEF e
<1>3. (a \o e) \o d = a \o (e \o d)
  BY SMTT(60), <1>2, ConcatAssociative
<1>4. e \o d \in Seq(S)
  BY <1>2, ConcatProperties
<1>. QED BY <1>1, <1>3, <1>4 DEF e

\* The sender of the first message of a packet has a message in it.
LEMMA SomeSender ==
  ASSUME NEW s \in Seq(Letter), NEW q, s # <<>>, \A i \in 1..Len(s) : s[i].to = q
  PROVE  \E p \in Topic : Len(FromTo(s, p, q)) > 0
<1>. DEFINE h == s[1]
            r == SubSeq(s, 2, Len(s))
            one == <<h>>
            p == h.by
<1>1. Len(s) \in Nat /\ Len(s) >= 1 /\ 1 \in 1..Len(s) /\ Len(s) \in 1..Len(s)
  <2>1. Len(s) \in Nat /\ Len(s) # 0
    BY LenProperties, EmptySeq
  <2>. QED BY <2>1
<1>2. h \in Letter /\ h.to = q /\ p \in Topic
  <2>1. h \in Letter /\ h.to = q
    BY <1>1, ElementOfSeq
  <2>. QED BY <2>1 DEF Letter
<1>3. s = one \o r /\ r \in Seq(Letter)
  <2>1. SubSeq(s, 1, Len(s)) = <<s[1]>> \o SubSeq(s, 1 + 1, Len(s))
    BY <1>1, SubSeqRecursiveFirst
  <2>2. SubSeq(s, 1, Len(s)) = s
    BY SubSeqFull
  <2>3. r \in Seq(Letter)
    BY <1>1, TakenApart
  <2>. QED BY <2>1, <2>2, <2>3
<1>4. one \in Seq(Letter)
  BY <1>2
<1>. HIDE DEF r, h, one
<1>5. FromTo(s, p, q) = FromTo(one, p, q) \o FromTo(r, p, q)
  BY <1>3, <1>4, FromToConcat
<1>6. FromTo(one, p, q) = one /\ Len(one) = 1
  BY <1>2, FromToOne DEF Matches, one
<1>. DEFINE y == FromTo(r, p, q)
<1>7. y \in Seq(Letter)
  BY <1>3, FromToType
<1>. HIDE DEF y
<1>8. Len(one \o y) = Len(one) + Len(y) /\ Len(y) \in Nat
  BY <1>4, <1>7, HeadAndRest, LenProperties
<1>9. Len(FromTo(s, p, q)) > 0
  BY <1>5, <1>6, <1>8 DEF y
<1>. QED BY <1>2, <1>9

LEMMA PacketHanded ==
  ASSUME MailInv, NEW t \in Topic, Queue!pullClientHands(t)
  PROVE  MailInv' /\ MailStep
<1>. DEFINE b == Queue!Broker
            s == pulling[t]
            stream == <<"pull", t>>
            length == Len(s)
<1>1. PICK seg \in Queue!Packet(length) :
        /\ failed = Running
        /\ handed' = [handed EXCEPT ![t] = @ \o SubSeq(pulling[t], 1, Queue!read(stream, seg))]
        /\ pulling' = [pulling EXCEPT ![t] = SubSeq(@, seg[1] + 1, Len(@))]
        /\ acks' = [acks EXCEPT ![t] = @ + 1]
        /\ Queue!Cut(stream, seg)
        /\ UNCHANGED <<usesQueue, straddling, pushed, pushing, topicToQueueMap, topicToConsumerMap,
                       failed>>
  BY DEF Queue!pullClientHands, Queue!scenarioVars
<1>. DEFINE k == seg[1]
            whole == Queue!read(stream, seg) = k
<1>2. /\ b \in GoodBroker /\ pushed \in [Topic -> 0..MaxPushed] /\ acks \in [Topic -> Nat]
      /\ OutsOK(pushing) /\ handed \in Streams /\ usesQueue \subseteq Topic /\ CutInv
      /\ \A p, q \in Topic : Len(Way(p, q)) <= pushed[p]
  BY <1>1 DEF MailInv
<1>3. /\ QueuesOK(topicToQueueMap) /\ ConsumersOK(topicToConsumerMap) /\ StreamsOK(pulling)
  BY <1>2, GoodFields DEF Queue!Broker
<1>. DEFINE packet == SubSeq(s, 1, k)
            rest == SubSeq(s, k + 1, Len(s))
<1>4. /\ s \in Seq(To(t)) /\ s \in Seq(Letter) /\ k \in 0..Len(s) /\ k \in Nat /\ k > 0
      /\ DOMAIN pulling = Topic /\ pulling \in Streams
      /\ CutInv' /\ (whole \/ (straddling /\ Queue!read(stream, seg) = 0))
  <2>1. s \in Seq(To(t)) /\ s \in Seq(Letter) /\ DOMAIN pulling = Topic /\ pulling \in Streams
    BY <1>3, ToLetters DEF StreamsOK, Streams
  <2>2. length \in Nat
    <3>. HIDE DEF s
    <3>. QED BY <2>1, LenProperties
  <2>3. Queue!Cut(stream, seg) /\ straddling' = straddling
    BY <1>1
  <2>. HIDE DEF length, stream
  <2>4. /\ CutInv' /\ k \in 1..length /\ Queue!read(stream, seg) \in {0, k}
        /\ straddling \/ Queue!read(stream, seg) = k
    BY <1>2, <2>2, <2>3, PacketRead
  <2>5. k \in 0..length /\ k \in Nat /\ k > 0
    BY <2>2, <2>4
  <2>. QED BY <2>1, <2>4, <2>5 DEF length
<1>5. /\ s = packet \o rest /\ packet \in Seq(To(t)) /\ rest \in Seq(To(t)) /\ Len(packet) = k
      /\ packet \in Seq(Letter) /\ rest \in Seq(Letter)
  <2>. HIDE DEF s
  <2>. QED BY <1>4, TakenApart
<1>6. /\ pulling'[t] = rest /\ \A q \in Topic : q # t => pulling'[q] = pulling[q]
      /\ handed[t] \in Seq(Letter) /\ DOMAIN handed = Topic
  BY <1>1, <1>2, <1>4 DEF Streams
<1>7. /\ pulling' = Replaced(pulling, t, rest)
      /\ whole => handed' = Replaced(handed, t, handed[t] \o packet)
      /\ UNCHANGED <<usesQueue, straddling, pushed, pushing, topicToQueueMap, topicToConsumerMap,
                     failed>>
      /\ failed = Running /\ acks' = [acks EXCEPT ![t] = @ + 1]
  BY <1>1 DEF Replaced
<1>8a. ~whole => handed' = handed
  <2>. DEFINE g == handed[t]
              none == SubSeq(pulling[t], 1, 0)
  <2>1. none = <<>> /\ g \in Seq(Letter)
    BY <1>6, SubSeqEmpty
  <2>2. g \o none = g
    <3>. HIDE DEF g, none
    <3>. QED BY <2>1, ConcatEmptySeq
  <2>3. ~whole => handed' = [handed EXCEPT ![t] = @ \o none]
    BY <1>1, <1>4
  <2>. HIDE DEF none, whole
  <2>. QED BY <1>2, <2>2, <2>3 DEF Streams
<1>. HIDE DEF packet, rest, s, b, stream, length, whole, k
<1>8. StreamsOK(pulling')
  <2>1. pulling' \in Streams
    BY <1>4, <1>5, <1>7 DEF Replaced, Streams
  <2>. QED BY <1>3, <1>5, <1>6, <2>1 DEF StreamsOK
<1>9. handed' \in Streams
  <2>0. CASE ~whole
    BY <1>2, <1>8a, <2>0
  <2>1. handed[t] \o packet \in Seq(Letter)
    BY <1>5, <1>6, ConcatProperties
  <2>. DEFINE w == handed[t] \o packet
  <2>2. CASE whole
    <3>1. handed' = Replaced(handed, t, w) /\ w \in Seq(Letter)
      BY <1>7, <2>1, <2>2
    <3>. HIDE DEF w
    <3>. QED BY <1>2, <3>1 DEF Replaced, Streams
  <2>. QED BY <2>0, <2>2
<1>. DEFINE taken(p) == FromTo(packet, p, t)
            left(p) == Way(p, t)'
            n == [p \in Topic |-> Len(taken(p))]
<1>10. ASSUME NEW p \in Topic
       PROVE  /\ Way(p, t) = taken(p) \o left(p) /\ taken(p) \in Seq(Letter) /\ left(p) \in Seq(Letter)
  <2>. DEFINE x == FromTo(rest, p, t)
              y == FromTo(Queue!queueOf(topicToQueueMap, t), p, t)
              z == FromTo(pushing[p], p, t)
  <2>1. taken(p) \in Seq(Letter) /\ x \in Seq(Letter)
    BY <1>5, FromToType
  <2>2. y \in Seq(Letter) /\ z \in Seq(Letter)
    BY <1>2, <1>3, QueueLetters, FromToType, WayType
  <2>3. FromTo(s, p, t) = taken(p) \o x
    BY <1>5, FromToConcat
  <2>4. Way(p, t) = ((taken(p) \o x) \o y) \o z
    BY <2>3 DEF Way, Left, s
  <2>5. left(p) = (x \o y) \o z
    BY <1>6, <1>7 DEF Way, Left
  <2>. DEFINE u == taken(p)
  <2>6. u \in Seq(Letter)
    BY <2>1
  <2>. HIDE DEF x, y, z, u
  <2>7. ((u \o x) \o y) \o z = u \o ((x \o y) \o z) /\ (x \o y) \o z \in Seq(Letter)
    BY <2>1, <2>2, <2>6, Regrouped
  <2>8. Way(p, t) = ((u \o x) \o y) \o z
    BY <2>4 DEF u
  <2>. QED BY <2>1, <2>5, <2>7, <2>8 DEF u
<1>11. \A p \in Topic : /\ n[p] = Len(taken(p))
                        /\ SubSeq(Way(p, t), 1, n[p]) = taken(p)
                        /\ SubSeq(Way(p, t), n[p] + 1, Len(Way(p, t))) = left(p)
                        /\ Len(Way(p, t)) = n[p] + Len(left(p)) /\ n[p] \in Nat /\ Len(left(p)) \in Nat
  <2>. TAKE p \in Topic
  <2>1. n[p] = Len(taken(p))
    OBVIOUS
  <2>. HIDE DEF taken, left, n
  <2>2. Len(taken(p)) \in Nat /\ Len(left(p)) \in Nat
    BY <1>10, LenProperties
  <2>. DEFINE u == taken(p)
              v == left(p)
              w == Way(p, t)
  <2>3. u \in Seq(Letter) /\ v \in Seq(Letter) /\ w = u \o v /\ n[p] = Len(u)
    BY <1>10, <2>1
  <2>. HIDE DEF u, v, w
  <2>4. /\ SubSeq(u \o v, 1, Len(u)) = u /\ SubSeq(u \o v, Len(u) + 1, Len(u \o v)) = v
        /\ Len(u \o v) = Len(u) + Len(v)
    BY <2>3, HeadAndRest
  <2>5. SubSeq(w, 1, n[p]) = u /\ SubSeq(w, n[p] + 1, Len(w)) = v /\ Len(w) = n[p] + Len(v)
    BY <2>3, <2>4
  <2>. QED BY <2>1, <2>2, <2>5 DEF u, v, w
<1>12. n \in [Topic -> 0..MaxPushed] /\ \A p \in Topic : n[p] <= Len(Way(p, t))
  <2>1. ASSUME NEW p \in Topic PROVE n[p] \in 0..MaxPushed /\ n[p] <= Len(Way(p, t))
    <3>1. Len(Way(p, t)) = n[p] + Len(left(p)) /\ n[p] \in Nat /\ Len(left(p)) \in Nat
      BY <1>11
    <3>2. Len(Way(p, t)) <= pushed[p] /\ pushed[p] \in 0..MaxPushed /\ MaxPushed \in Nat
      BY <1>2, ServicesConstants
    <3>. HIDE DEF n, left
    <3>. QED BY <3>1, <3>2
  <2>. QED BY <2>1
<1>13. \E p \in Topic : n[p] > 0
  <2>1. \A i \in 1..Len(packet) : packet[i].to = t
    <3>. TAKE i \in 1..Len(packet)
    <3>1. packet[i] \in To(t)
      BY <1>5, ElementOfSeq
    <3>. QED BY <3>1 DEF To
  <2>2. packet # <<>>
    BY <1>4, <1>5, EmptySeq
  <2>3. PICK p \in Topic : Len(FromTo(packet, p, t)) > 0
    BY <1>5, <2>1, <2>2, SomeSender
  <2>. QED BY <2>3
<1>14. \A p, q \in Topic : Way(p, q)' = IF q = t THEN SubSeq(Way(p, q), n[p] + 1, Len(Way(p, q)))
                                        ELSE Way(p, q)
  <2>. TAKE p \in Topic, q \in Topic
  <2>1. CASE q = t
    BY <1>11, <2>1
  <2>2. CASE q # t
    BY <1>6, <1>7, <2>2 DEF Way, Left
  <2>. QED BY <2>1, <2>2
<1>15. ASSUME whole
       PROVE  \A p, q \in Topic : FromTo(handed[q], p, q)'
                                     = IF q = t THEN FromTo(handed[q], p, q) \o SubSeq(Way(p, q), 1, n[p])
                                       ELSE FromTo(handed[q], p, q)
  <2>0. handed'[t] = handed[t] \o packet /\ \A q \in Topic : q # t => handed'[q] = handed[q]
    BY <1>6, <1>7, <1>15 DEF Replaced
  <2>. TAKE p \in Topic, q \in Topic
  <2>1. CASE q = t
    <3>1. FromTo(handed'[t], p, t) = FromTo(handed[t], p, t) \o FromTo(packet, p, t)
      <4>. DEFINE g == handed[t]
      <4>1. g \in Seq(Letter) /\ handed'[t] = g \o packet
        BY <1>6, <2>0
      <4>. HIDE DEF g
      <4>2. FromTo(g \o packet, p, t) = FromTo(g, p, t) \o FromTo(packet, p, t)
        BY <1>5, <4>1, FromToConcat
      <4>. QED BY <4>1, <4>2 DEF g
    <3>2. SubSeq(Way(p, t), 1, n[p]) = FromTo(packet, p, t)
      BY <1>11
    <3>. QED BY <2>1, <3>1, <3>2
  <2>2. CASE q # t
    BY <2>0, <2>2
  <2>. QED BY <2>1, <2>2
<1>. HIDE DEF n
<1>16. MailStep
  <2>1. failed = Running /\ failed' = Running /\ straddling' = straddling
    BY <1>7
  <2>2. CASE whole
    <3>. HIDE DEF taken, left
    <3>. QED BY <1>12, <1>13, <1>14, <1>15, <2>1, <2>2, MailTaken
  <2>3. CASE ~whole
    <3>1. ASSUME NEW p \in Topic, NEW q \in Topic
          PROVE  Mail!Dropped(Way(p, q), Way(p, q)')
      <4>. DEFINE w == Way(p, q)
                  m == n[p]
      <4>1. w \in Seq(Letter) /\ Len(w) \in Nat
        BY <1>2, WayLen DEF b
      <4>2. CASE q = t
        <5>1. w' = SubSeq(w, m + 1, Len(w)) /\ m \in 0..Len(w)
          <6>1. w' = SubSeq(w, m + 1, Len(w))
            BY <1>14, <4>2
          <6>2. m \in Nat /\ m <= Len(w)
            <7>. HIDE DEF left, taken
            <7>. QED BY <1>11, <1>12, <4>2
          <6>. HIDE DEF w, m
          <6>. QED BY <4>1, <6>1, <6>2
        <5>. HIDE DEF w, m
        <5>. DEFINE rst == SubSeq(w, m + 1, Len(w))
                    e == SubSeq(w, 1, 0)
        <5>2. rst \in Seq(Letter) /\ e = <<>>
          BY <4>1, <5>1, TakenApart, SubSeqEmpty
        <5>3. rst = e \o rst
          <6>. HIDE DEF rst, e
          <6>. QED BY <5>2, ConcatEmptySeq
        <5>4. w' = SubSeq(w, 1, 0) \o SubSeq(w, m + 1, Len(w)) /\ 0 \in 0..Len(w) /\ 0 <= m
          BY <4>1, <5>1, <5>3
        <5>5. Mail!Dropped(w, w')
          BY <5>1, <5>4 DEF Mail!Dropped
        <5>. QED BY <5>5 DEF w
      <4>3. CASE q # t
        <5>1. w' = w
          BY <1>14, <4>3
        <5>. HIDE DEF w
        <5>2. Mail!Dropped(w, w)
          BY <4>1, LostNone
        <5>. QED BY <5>1, <5>2 DEF w
      <4>. QED BY <4>2, <4>3
    <3>2. straddling /\ handed' = handed
      BY <1>4, <1>8a, <2>3
    <3>. QED BY <2>1, <3>1, <3>2, MailLost
  <2>. QED BY <2>2, <2>3
<1>17. \A p, q \in Topic : Len(Way(p, q)') <= pushed'[p]
  <2>. TAKE p \in Topic, q \in Topic
  <2>0. pushed' = pushed /\ Len(Way(p, q)) <= pushed[p]
    BY <1>2, <1>7
  <2>1. CASE q # t
    BY <1>14, <2>0, <2>1
  <2>2. CASE q = t
    <3>1. Len(Way(p, t)) = n[p] + Len(left(p)) /\ n[p] \in Nat /\ Len(left(p)) \in Nat
      BY <1>11
    <3>2. pushed[p] \in Nat
      BY <1>2
    <3>3. Len(left(p)) <= Len(Way(p, t))
      <4>. HIDE DEF left
      <4>. QED BY <3>1
    <3>. DEFINE l == Len(left(p))
                w == Len(Way(p, t))
    <3>4. l <= w /\ w <= pushed[p] /\ l \in Nat /\ w \in Nat
      <4>1. w \in Nat
        <5>. HIDE DEF left
        <5>. QED BY <3>1
      <4>. QED BY <2>0, <2>2, <3>1, <3>3, <4>1
    <3>5. l <= pushed[p]
      <4>. HIDE DEF l, w
      <4>. QED BY <3>2, <3>4
    <3>. QED BY <2>0, <2>2, <3>5
  <2>. QED BY <2>1, <2>2
<1>18. MailInv'
  <2>1. acks' \in [Topic -> Nat]
    BY <1>2, <1>7
  <2>2. Queue!Broker' \in GoodBroker
    <3>1. Queue!Broker' = [queues |-> topicToQueueMap, consumers |-> topicToConsumerMap,
                           pulling |-> pulling', failed |-> Running]
      BY <1>7 DEF Queue!Broker
    <3>. DEFINE ps == pulling'
                x == [queues |-> topicToQueueMap, consumers |-> topicToConsumerMap,
                      pulling |-> ps, failed |-> Running]
    <3>2. StreamsOK(ps)
      BY <1>8
    <3>3. Queue!Broker' = x
      BY <3>1
    <3>. HIDE DEF ps
    <3>4. x \in GoodBroker
      BY <1>3, <3>2, GoodRecord
    <3>. QED BY <3>3, <3>4
  <2>. QED BY <1>2, <1>4, <1>7, <1>9, <1>17, <2>1, <2>2 DEF MailInv
<1>. QED BY <1>16, <1>18

-----------------------------------------------------------------------------
(* The applications and their connections *)

\* They do nothing once the simulation has stopped.
LEMMA HandlesWhileRunning ==
  ASSUME NEW a \in App, Handles(a)
  PROVE  failed = Running
<1>1. CASE unregisteredSocket(a)
  BY <1>1 DEF unregisteredSocket
<1>2. CASE socketAvailable(a)
  BY <1>2 DEF socketAvailable, Receives
<1>3. CASE socketEstablished(a)
  BY <1>3 DEF socketEstablished, Receives
<1>4. CASE socketFailure(a)
  BY <1>4 DEF socketFailure, Receives
<1>5. CASE socketPeerClosed(a)
  BY <1>5 DEF socketPeerClosed, Receives
<1>6. CASE serverReplies(a)
  BY <1>6 DEF serverReplies, ReceivesData, Receives
<1>7. CASE serviceReassembles(a)
  BY <1>7 DEF serviceReassembles, ReceivesData, Receives
<1>8. CASE clientAsksAgain(a)
  BY <1>8 DEF clientAsksAgain, ReceivesData, Receives
<1>9. CASE probeAnswered(a)
  BY <1>9 DEF probeAnswered, ReceivesData, Receives
<1>10. CASE controllerAnswered(a)
  BY <1>10 DEF controllerAnswered, ReceivesData, Receives
<1>. QED BY <1>1, <1>2, <1>3, <1>4, <1>5, <1>6, <1>7, <1>8, <1>9, <1>10 DEF Handles

LEMMA ActsWhileRunning ==
  ASSUME NEW a \in App, Acts(a) \/ TileStep(a) \/ Requested(a)
  PROVE  failed = Running
<1>1. CASE initialize(a)
  BY <1>1 DEF initialize
<1>2. CASE execStart(a)
  BY <1>2 DEF execStart
<1>3. CASE handleResolutionFinished(a)
  BY <1>3 DEF handleResolutionFinished
<1>4. CASE sendDelayed(a)
  BY <1>4 DEF sendDelayed
<1>5. CASE probeTimer(a)
  BY <1>5 DEF probeTimer
<1>6. CASE poll(a)
  BY <1>6 DEF poll
<1>7. CASE returnExec(a)
  BY <1>7 DEF returnExec
<1>8. CASE sampleArrives(a)
  BY <1>8 DEF sampleArrives
<1>9. CASE processSend(a)
  BY <1>9 DEF processSend
<1>10. CASE sampleLost(a)
  BY <1>10 DEF sampleLost
<1>11. CASE commandArrives(a)
  BY <1>11 DEF commandArrives
<1>12. CASE changePowerState(a)
  BY <1>12 DEF changePowerState
<1>13. CASE handleParameterChange(a)
  BY <1>13 DEF handleParameterChange
<1>14. CASE close(a)
  BY <1>14 DEF close
<1>15. CASE initializeAlone(a)
  BY <1>15 DEF initializeAlone
<1>. QED BY <1>1, <1>2, <1>3, <1>4, <1>5, <1>6, <1>7, <1>8, <1>9, <1>10, <1>11, <1>12, <1>13,
            <1>14, <1>15 DEF Acts, TileStep, Requested

LEMMA ProxyWhileRunning ==
  ASSUME NEW a \in App, FromApp(a)
  PROVE  failed = Running
<1>1. CASE handOver(a)
  BY <1>1 DEF handOver, Takes
<1>2. CASE openSocket(a)
  BY <1>2 DEF openSocket, Takes
<1>3. CASE handleAppPacket(a)
  BY <1>3 DEF handleAppPacket, Takes
<1>4. CASE handleServiceRequest(a)
  BY <1>4 DEF handleServiceRequest, Takes
<1>5. CASE acceptSession(a)
  BY <1>5 DEF acceptSession, Takes
<1>6. CASE closeSocket(a)
  BY <1>6 DEF closeSocket, Takes
<1>7. CASE addressInUse(a)
  BY <1>7 DEF addressInUse, Takes
<1>. QED BY <1>1, <1>2, <1>3, <1>4, <1>5, <1>6, <1>7 DEF FromApp

LEMMA TcpWhileRunning ==
  ASSUME NEW e, FromTcp(e)
  PROVE  failed = Running
<1>1. ASSUME NEW a \in App, handUp(a, e) PROVE failed = Running
  BY <1>1 DEF handUp, Arrives
<1>2. ASSUME NEW a \in App, forwardToConnection(a, e) PROVE failed = Running
  BY <1>2 DEF forwardToConnection, Arrives
<1>3. ASSUME NEW n \in Node, accept(n) PROVE failed = Running
  BY <1>3 DEF accept, Arrives
<1>4. ASSUME NEW n \in Node, handleSessionIndication(n, e) PROVE failed = Running
  BY <1>4 DEF handleSessionIndication, ArrivesInSession, Arrives
<1>5. ASSUME NEW n \in Node, handleSessionInitialize(n, e) PROVE failed = Running
  BY <1>5 DEF handleSessionInitialize, ArrivesInSession, Arrives
<1>6. ASSUME NEW n \in Node, sendServiceUnavailable(n, e) PROVE failed = Running
  BY <1>6 DEF sendServiceUnavailable, ArrivesInSession, Arrives
<1>7. ASSUME NEW n \in Node, handleTransportPacket(n, e) PROVE failed = Running
  BY <1>7 DEF handleTransportPacket, ArrivesInSession, Arrives
<1>8. CASE arrivesLate(e)
  BY <1>8 DEF arrivesLate, Arrives
<1>. QED BY <1>1, <1>2, <1>3, <1>4, <1>5, <1>6, <1>7, <1>8 DEF FromTcp

LEMMA MailApart ==
  ASSUME MailInv, UNCHANGED brokerVars, failed = Running \/ failed' = failed
  PROVE  MailInv' /\ MailStep
<1>1. UNCHANGED <<usesQueue, straddling, cut, pushed, pushing, acks, pulling, topicToQueueMap,
                  topicToConsumerMap, handed>>
  BY DEF brokerVars
<1>2. \A p, q \in Topic : Way(p, q)' = Way(p, q)
  BY <1>1 DEF Way, Left
<1>3. CASE failed' = failed
  <2>1. Queue!Broker' = Queue!Broker
    BY <1>1, <1>3 DEF Queue!Broker
  <2>2. MailInv'
    BY <1>1, <1>2, <1>3, <2>1 DEF MailInv, CutInv
  <2>. QED BY <1>1, <1>2, <1>3, <2>2, MailStays
<1>4. CASE failed' # Running
  <2>1. MailInv'
    BY <1>1, <1>4 DEF MailInv, CutInv
  <2>. QED BY <1>1, <1>4, <2>1, MailStops
<1>. QED BY <1>3, <1>4

-----------------------------------------------------------------------------
(* The message queue implements the mailboxes *)

LEMMA MailKept ==
  ASSUME MailInv, [Next]_vars
  PROVE  MailInv' /\ MailStep
<1>1. CASE UNCHANGED vars
  <2>1. UNCHANGED brokerVars /\ failed' = failed
    BY <1>1 DEF vars
  <2>. QED BY <2>1, MailApart
<1>2. ASSUME NEW a \in App, AppAnswers(a) PROVE MailInv' /\ MailStep
  <2>1. failed = Running /\ UNCHANGED brokerVars
    BY <1>2, HandlesWhileRunning, ActsWhileRunning DEF AppAnswers
  <2>. QED BY <2>1, MailApart
<1>3. ASSUME NEW a \in App, ProxyTakes(a) PROVE MailInv' /\ MailStep
  <2>1. failed = Running /\ UNCHANGED brokerVars
    BY <1>3, ProxyWhileRunning DEF ProxyTakes
  <2>. QED BY <2>1, MailApart
<1>4. ASSUME NEW a \in App, TileStep(a) \/ Requested(a), UNCHANGED brokerVars
      PROVE  MailInv' /\ MailStep
  <2>1. failed = Running
    BY <1>4, ActsWhileRunning
  <2>. QED BY <1>4, <2>1, MailApart
<1>5. ASSUME NEW e \in End, TcpDelivers(e) PROVE MailInv' /\ MailStep
  <2>1. failed = Running /\ UNCHANGED brokerVars
    BY <1>5, TcpWhileRunning DEF TcpDelivers
  <2>. QED BY <2>1, MailApart
<1>6. ASSUME NEW t \in Topic, QueueDelivers(t) PROVE MailInv' /\ MailStep
  BY <1>6, PullClientStartsMail, PacketHanded, MessagesTaken, AcknowledgementsTaken DEF QueueDelivers
<1>7. ASSUME NEW t \in Topic, Queue!push(t) PROVE MailInv' /\ MailStep
  BY <1>7, PushPosts
<1>8. CASE Next
  BY <1>2, <1>3, <1>4, <1>5, <1>6, <1>7, <1>8 DEF Next
<1>. QED BY <1>1, <1>8

\* No node ever has more mail under way than it has pushed, what is under way
\* is where the broker and the streams can hold it, and no packet begins
\* inside a message unless messages may straddle.
THEOREM MailCounted == Spec => []MailInv
<1>1. Init => MailInv
  BY MailStarts
<1>2. MailInv /\ [Next]_vars => MailInv'
  BY MailKept
<1>. QED BY <1>1, <1>2, PTL DEF Spec

\* What a node pushes to another is handed to it at most once and in the order
\* it was pushed, whenever its consumer registers and however it is put in
\* packets; and only where messages straddle packets, whose start each reader
\* takes for the start of a message, is any of it lost: the safety of
\* MailDelivered (MessageQueueIn, MessageQueueOut, PushClient, PullClient).
THEOREM MailImplemented == Spec => Mail!Init /\ [][Mail!Next]_(Mail!boxVars)
<1>1. Init => Mail!Init
  BY MailStarts
<1>2. MailInv /\ [Next]_vars => [Mail!Next]_(Mail!boxVars)
  BY MailKept DEF MailStep
<1>. QED BY <1>1, <1>2, MailCounted, PTL DEF Spec
-----------------------------------------------------------------------------
(* The sockets of a scenario *)

Own(a)       == {a} \X (1..MaxSockets)
ClientSocket == {s \in Socket : ~IsServer(s[1])}
ClientPeer   == {Peer(s) : s \in ClientSocket}
Known(a)     == Own(a) \cup {e \in ClientPeer : IsServer(a)}

LEMMA SocketIs ==
  ASSUME NEW a \in App, NEW s \in Own(a)
  PROVE  s \in Socket /\ s[1] = a
BY DEF Own, Socket

LEMMA OneMore ==
  ASSUME NEW X, NEW s \in Seq(X), NEW x \in X
  PROVE  Len(s) = 2 => /\ Len(Append(s, x)) = 3 /\ Append(s, x)[1] = s[1]
                       /\ SubSeq(Append(s, x), 1, 2) = s
<1>1. /\ Append(s, x) \in Seq(X) /\ Len(Append(s, x)) = Len(s) + 1
      /\ \A i \in 1..Len(s) : Append(s, x)[i] = s[i]
  BY AppendProperties
<1>. HAVE Len(s) = 2
<1>. DEFINE e == Append(s, x)
<1>2. e \in Seq(X) /\ Len(e) = 3 /\ \A i \in 1..2 : e[i] = s[i]
  BY <1>1
<1>. HIDE DEF e
<1>3. \A i \in 1..2 : e[i] \in X
  BY <1>2, ElementOfSeq
<1>4. /\ SubSeq(e, 1, 2) \in Seq(X) /\ Len(SubSeq(e, 1, 2)) = 2
      /\ \A i \in 1..2 : SubSeq(e, 1, 2)[i] = e[i]
  BY <1>3, SubSeqProperties
<1>5. \A i \in 1..Len(s) : SubSeq(e, 1, 2)[i] = s[i]
  BY <1>2, <1>4
<1>6. SubSeq(e, 1, 2) = s
  BY <1>4, <1>5, SeqEqual
<1>. QED BY <1>2, <1>6 DEF e

\* The two ends of a connection, and which is which.
LEMMA TwoEnds ==
  ASSUME NEW s \in Socket
  PROVE  /\ s[1] \in App /\ s \in Own(s[1])
         /\ s \in End /\ Peer(s) \in End /\ Peer(s) # s /\ Peer(s) \notin Socket
         /\ OtherEnd(s) = Peer(s) /\ OtherEnd(Peer(s)) = s /\ Peer(s)[1] = s[1]
<1>. DEFINE X == App \cup (1..MaxSockets) \cup {"peer"}
<1>1. PICK a \in App, k \in 1..MaxSockets : s = <<a, k>>
  BY DEF Socket
<1>2. s \in Seq(X) /\ Len(s) = 2 /\ s[1] = a /\ s[2] = k
  BY <1>1
<1>3. s \in Own(s[1])
  BY <1>1 DEF Own
<1>4. Len(Peer(s)) = 3 /\ Peer(s)[1] = s[1] /\ SubSeq(Peer(s), 1, 2) = s
  <2>1. "peer" \in X
    OBVIOUS
  <2>. HIDE DEF X
  <2>. QED BY <1>2, <2>1, OneMore DEF Peer
<1>5. \A t \in Socket : Len(t) = 2
  BY DEF Socket
<1>6. s \in End /\ Peer(s) \in End
  BY DEF End
<1>. HIDE DEF X
<1>7. OtherEnd(s) = Peer(s) /\ OtherEnd(Peer(s)) = s
  BY <1>2, <1>4 DEF OtherEnd
<1>8. Peer(s) \notin Socket /\ Peer(s) # s
  BY <1>2, <1>4, <1>5
<1>. QED BY <1>1, <1>2, <1>3, <1>4, <1>6, <1>7, <1>8

LEMMA ClientEnds ==
  ASSUME NEW e \in ClientPeer
  PROVE  /\ e \in End /\ e \notin Socket /\ e[1] \in App /\ ~IsServer(e[1])
         /\ OtherEnd(e) \in ClientSocket /\ OtherEnd(e) \in Own(e[1])
<1>1. PICK s \in ClientSocket : e = Peer(s)
  BY DEF ClientPeer
<1>2. s \in Socket /\ ~IsServer(s[1])
  BY DEF ClientSocket
<1>. QED BY <1>1, <1>2, TwoEnds

-----------------------------------------------------------------------------
(* What may be sent on them *)

Packet(a) == [verb : {"HEAD", "GET", "DATA"}, host : {"none", serviceOf(a)}]
Answer    == {ok, unavailable}

Told(sockets)           == [kind : {"ESTABLISHED", "FAILURE", "PEER_CLOSED", "CLOSED"},
                            socket : sockets, body : {"none"}]
DataOn(sockets, bodies) == [kind : {"DATA"}, socket : sockets, body : bodies]
Offered(sockets)        == [kind : {"AVAILABLE"}, socket : sockets, body : ClientPeer]

\* What TCP may bring to an end.
Incoming(e) ==
  Told({e}) \cup Offered({e} \cap {ServerSocket(n) : n \in Node})
    \cup DataOn({e} \cap ClientSocket, Answer) \cup DataOn({e} \cap ClientPeer, Packet(e[1]))

\* What may be on its way to an application: a server is only asked for what it offers.
MailOf(a) ==
  Told(Known(a)) \cup
    (IF IsServer(a) THEN Offered(Own(a)) \cup DataOn(ClientPeer, Packet(a))
                    ELSE DataOn(Own(a), Answer))

Order(ops, sockets, bodies) == [op : ops, socket : sockets, body : bodies]
OrdersOf(a) ==
  Order({"CLOSE"}, Known(a), {"none"}) \cup
    (IF IsServer(a)
       THEN Order({"OPEN_PASSIVE"}, Own(a), {"none"}) \cup Order({"REGISTER"}, Own(a), {serviceOf(a)})
              \cup Order({"ACCEPT"}, ClientPeer, {"none"}) \cup Order({"SEND"}, ClientPeer, {ok})
       ELSE Order({"OPEN_ACTIVE"}, Own(a), {setup.serverNode}) \cup Order({"SEND"}, Own(a), Packet(a)))

\* An application that offers what another asks for.
Serves(b, a) == IsServer(b) /\ serviceOf(b) = serviceOf(a)

-----------------------------------------------------------------------------
(* The invariant *)

SocketsOK ==
  /\ DOMAIN opened = App /\ DOMAIN socketMap = App /\ DOMAIN tcpSocket = App
  /\ \A a \in App : /\ opened[a] \in 0..MaxSockets
                    /\ socketMap[a] \subseteq Known(a)
                    /\ socketMap[a] # {} => opened[a] > 0
                    /\ opened[a] > 0 => tcpSocket[a] \in Own(a)

\* What makes an application send on its own socket is in no server, and not before the socket
\* is opened.
Sends(a) == probeTimers[a] > 0 \/ event[a] = "POLL" \/ serviceUp[a]
SendersOK ==
  /\ DOMAIN resolving = App /\ DOMAIN probeTimers = App /\ DOMAIN event = App
  /\ DOMAIN serviceUp = App /\ DOMAIN executing = App
  /\ \A a \in App :
       /\ Sends(a) => ~IsServer(a) /\ opened[a] > 0
       /\ resolving[a] > 0 => ~IsServer(a) /\ (kindOf(a) = "IotApplication" \/ opened[a] > 0)
       /\ executing[a] > 0 => ~IsServer(a) /\ (IsLocal(a) \/ opened[a] > 0)

DebtsOK == DOMAIN delayed = App /\ \A a \in App : DOMAIN delayed[a] \subseteq Known(a) \cap ClientPeer

ConnectionOf(s) == [app : {s[1]}, type : {"EDGE", "PASSTHROUGH"}, bound : BOOLEAN]
ConnectionsOK ==
  /\ DOMAIN socketToConnectionMap = Node
  /\ \A n \in Node : /\ DOMAIN socketToConnectionMap[n] \subseteq Socket
                     /\ \A s \in DOMAIN socketToConnectionMap[n] :
                          socketToConnectionMap[n][s] \in ConnectionOf(s)

\* A session is bound to an application that offers what its client asks for.
SessionOf(e) ==
  [state : {"INIT", "PENDING", "ESTABLISHED"}, app : {b \in App : Serves(b, e[1])} \cup {"none"},
   queue : Seq(DataOn({e}, Packet(e[1])))]
SessionsOK ==
  /\ DOMAIN socketToSessionMap = Node
  /\ \A n \in Node : /\ DOMAIN socketToSessionMap[n] \subseteq ClientPeer
                     /\ \A e \in DOMAIN socketToSessionMap[n] :
                          socketToSessionMap[n][e] \in SessionOf(e)

Offers(v) == {a \in App : IsServer(a) /\ serviceOf(a) = v}
TablesOK ==
  /\ DOMAIN serviceTable = Node
  /\ \A n \in Node : \A v \in DOMAIN serviceTable[n] :
       v # "none" /\ serviceTable[n][v] \in Seq(Offers(v))

OrdersOK   == DOMAIN toProxy = App /\ \A a \in App : toProxy[a] \in Seq(OrdersOf(a))
MailOK     == DOMAIN toApp = App /\ \A a \in App : toApp[a] \in Seq(MailOf(a))
ArrivalsOK(arrivals) == DOMAIN arrivals = End /\ \A e \in End : arrivals[e] \in Seq(Incoming(e))

NetInv ==
  /\ setup \in Setups
  /\ SocketsOK /\ SendersOK /\ DebtsOK
  /\ ConnectionsOK /\ SessionsOK /\ TablesOK
  /\ OrdersOK /\ MailOK /\ ArrivalsOK(arriving)

-----------------------------------------------------------------------------
(* What stays, and what is sent and taken *)

\* What a scenario installs does not change.
LEMMA SameSetup ==
  ASSUME UNCHANGED setup
  PROVE  /\ ClientSocket' = ClientSocket /\ ClientPeer' = ClientPeer
         /\ \A a : /\ kindOf(a)' = kindOf(a) /\ IsServer(a)' = IsServer(a)
                   /\ IsLocal(a)' = IsLocal(a) /\ serviceOf(a)' = serviceOf(a)
                   /\ Known(a)' = Known(a) /\ Packet(a)' = Packet(a)
                   /\ OrdersOf(a)' = OrdersOf(a) /\ MailOf(a)' = MailOf(a)
         /\ \A e : Incoming(e)' = Incoming(e) /\ SessionOf(e)' = SessionOf(e)
         /\ \A v : Offers(v)' = Offers(v)
<1>1. /\ \A a : kindOf(a)' = kindOf(a) /\ serviceOf(a)' = serviceOf(a)
  BY DEF kindOf, serviceOf
<1>2. \A a : IsServer(a)' = IsServer(a) /\ IsLocal(a)' = IsLocal(a)
  BY <1>1 DEF IsServer, IsLocal
<1>3. ClientSocket' = ClientSocket
  BY <1>2 DEF ClientSocket
<1>4. ClientPeer' = ClientPeer
  BY <1>3 DEF ClientPeer
<1>5. \A a : Known(a)' = Known(a)
  BY <1>2, <1>4 DEF Known
<1>6. \A a : Packet(a)' = Packet(a)
  BY <1>1 DEF Packet
<1>7. \A a : OrdersOf(a)' = OrdersOf(a)
  BY <1>1, <1>2, <1>4, <1>5, <1>6 DEF OrdersOf
<1>8. \A S : Offered(S)' = Offered(S)
  BY <1>4 DEF Offered
<1>9. \A a : MailOf(a)' = MailOf(a)
  BY <1>2, <1>4, <1>5, <1>6, <1>8 DEF MailOf
<1>10. \A e : Incoming(e)' = Incoming(e)
  BY <1>3, <1>4, <1>6, <1>8 DEF Incoming
<1>11. \A v : Offers(v)' = Offers(v)
  BY <1>1, <1>2 DEF Offers
<1>12. \A b, a : Serves(b, a)' = Serves(b, a)
  BY <1>1, <1>2 DEF Serves
<1>13. \A e : SessionOf(e)' = SessionOf(e)
  <2>1. ASSUME NEW e
        PROVE  {b \in App : Serves(b, e[1])}' = {b \in App : Serves(b, e[1])}
    BY <1>12
  <2>2. ASSUME NEW e PROVE DataOn({e}, Packet(e[1]))' = DataOn({e}, Packet(e[1]))
    BY <1>6 DEF DataOn
  <2>. QED BY <2>1, <2>2 DEF SessionOf
<1>. QED BY <1>1, <1>2, <1>3, <1>4, <1>5, <1>6, <1>7, <1>9, <1>10, <1>11, <1>13

\* A part of the invariant is kept by a step that changes nothing it speaks of.
LEMMA Stays ==
  ASSUME NetInv, UNCHANGED setup
  PROVE  /\ setup' \in Setups
         /\ UNCHANGED <<opened, socketMap, tcpSocket>> => SocketsOK'
         /\ UNCHANGED <<resolving, probeTimers, event, serviceUp, executing, opened>> => SendersOK'
         /\ UNCHANGED delayed => DebtsOK'
         /\ UNCHANGED socketToConnectionMap => ConnectionsOK'
         /\ UNCHANGED socketToSessionMap => SessionsOK'
         /\ UNCHANGED serviceTable => TablesOK'
         /\ UNCHANGED toProxy => OrdersOK'
         /\ UNCHANGED toApp => MailOK'
         /\ UNCHANGED arriving => ArrivalsOK(arriving)'
<1>1. setup' \in Setups
  BY DEF NetInv
<1>2. ASSUME UNCHANGED <<opened, socketMap, tcpSocket>> PROVE SocketsOK'
  BY <1>2, SameSetup DEF NetInv, SocketsOK
<1>3. ASSUME UNCHANGED <<resolving, probeTimers, event, serviceUp, executing, opened>>
      PROVE  SendersOK'
  BY <1>3, SameSetup DEF NetInv, SendersOK, Sends
<1>4. ASSUME UNCHANGED delayed PROVE DebtsOK'
  BY <1>4, SameSetup DEF NetInv, DebtsOK
<1>5. ASSUME UNCHANGED socketToConnectionMap PROVE ConnectionsOK'
  BY <1>5 DEF NetInv, ConnectionsOK
<1>6. ASSUME UNCHANGED socketToSessionMap PROVE SessionsOK'
  BY <1>6, SameSetup DEF NetInv, SessionsOK
<1>7. ASSUME UNCHANGED serviceTable PROVE TablesOK'
  BY <1>7, SameSetup DEF NetInv, TablesOK
<1>8. ASSUME UNCHANGED toProxy PROVE OrdersOK'
  BY <1>8, SameSetup DEF NetInv, OrdersOK
<1>9. ASSUME UNCHANGED toApp PROVE MailOK'
  BY <1>9, SameSetup DEF NetInv, MailOK
<1>10. ASSUME UNCHANGED arriving PROVE ArrivalsOK(arriving)'
  BY <1>10, SameSetup DEF NetInv, ArrivalsOK
<1>. QED BY <1>1, <1>2, <1>3, <1>4, <1>5, <1>6, <1>7, <1>8, <1>9, <1>10

LEMMA HeadOf ==
  ASSUME NEW S, NEW s \in Seq(S), s # <<>>
  PROVE  Head(s) \in S /\ Tail(s) \in Seq(S)
BY HeadTailProperties

LEMMA OneOf ==
  ASSUME NEW S, NEW x \in S
  PROVE  <<x>> \in Seq(S)
OBVIOUS

LEMMA OrdersGiven ==
  ASSUME OrdersOK, UNCHANGED setup, NEW a \in App, NEW orders \in Seq(OrdersOf(a)),
         Calls(a, orders)
  PROVE  OrdersOK'
<1>1. toProxy[a] \o orders \in Seq(OrdersOf(a))
  BY ConcatProperties DEF OrdersOK
<1>. QED BY <1>1, SameSetup DEF OrdersOK, Calls

LEMMA NoOrders ==
  ASSUME NEW a
  PROVE  <<>> \in Seq(OrdersOf(a))
BY EmptySeq

LEMMA PacketsSent ==
  ASSUME NEW a, NEW s, NEW P, NEW packets \in Seq(P),
         \A p \in P : Command("SEND", s, p) \in OrdersOf(a)
  PROVE  _send(s, packets) \in Seq(OrdersOf(a))
<1>1. Len(packets) \in Nat /\ DOMAIN packets = 1..Len(packets)
      /\ \A i \in 1..Len(packets) : packets[i] \in P
  BY LenProperties, ElementOfSeq
<1>2. \A i \in 1..Len(packets) : Command("SEND", s, packets[i]) \in OrdersOf(a)
  BY <1>1
<1>. DEFINE sent == [i \in 1..Len(packets) |-> Command("SEND", s, packets[i])]
<1>3. _send(s, packets) = sent
  BY <1>1 DEF _send
<1>4. sent \in [1..Len(packets) -> OrdersOf(a)]
  BY <1>2
<1>. HIDE DEF sent
<1>5. sent \in Seq(OrdersOf(a))
  BY <1>1, <1>4, SeqDef
<1>. QED BY <1>3, <1>5

LEMMA OrdersTaken ==
  ASSUME OrdersOK, UNCHANGED setup, NEW a \in App, toProxy[a] # <<>>,
         toProxy' = [toProxy EXCEPT ![a] = Tail(@)]
  PROVE  OrdersOK' /\ Head(toProxy[a]) \in OrdersOf(a)
<1>1. Head(toProxy[a]) \in OrdersOf(a) /\ Tail(toProxy[a]) \in Seq(OrdersOf(a))
  BY HeadOf DEF OrdersOK
<1>. QED BY <1>1, SameSetup DEF OrdersOK

LEMMA MailRead ==
  ASSUME MailOK, UNCHANGED setup, NEW a \in App, toApp[a] # <<>>
  PROVE  /\ Head(toApp[a]) \in MailOf(a)
         /\ toApp' = [toApp EXCEPT ![a] = Tail(@)] => MailOK'
<1>1. Head(toApp[a]) \in MailOf(a) /\ Tail(toApp[a]) \in Seq(MailOf(a))
  BY HeadOf DEF MailOK
<1>. QED BY <1>1, SameSetup DEF MailOK

\* What is sent to nobody is lost.
LEMMA MailSent ==
  ASSUME MailOK, UNCHANGED setup, NEW b, NEW q, b \in App => q \in Seq(MailOf(b)),
         toApp' = [toApp EXCEPT ![b] = @ \o q]
  PROVE  MailOK'
<1>1. CASE b \in App
  <2>1. toApp[b] \o q \in Seq(MailOf(b))
    BY <1>1, ConcatProperties DEF MailOK
  <2>. QED BY <1>1, <2>1, SameSetup DEF MailOK
<1>2. CASE b \notin App
  BY <1>2, SameSetup DEF MailOK
<1>. QED BY <1>1, <1>2

LEMMA MailForwarded ==
  ASSUME MailOK, UNCHANGED setup, NEW b, NEW m, b \in App => m \in MailOf(b), Forwarded(b, m)
  PROVE  MailOK'
<1>1. CASE b \in App
  <2>1. Append(toApp[b], m) \in Seq(MailOf(b))
    BY <1>1, AppendProperties DEF MailOK
  <2>. QED BY <1>1, <2>1, SameSetup DEF MailOK, Forwarded
<1>2. CASE b \notin App
  BY <1>2, SameSetup DEF MailOK, Forwarded
<1>. QED BY <1>1, <1>2

Brought(arrivals, e, kind, body) ==
  [arrivals EXCEPT ![e] = Append(@, Indication(kind, e, body))]

LEMMA ArrivalsBrought ==
  ASSUME NEW f, ArrivalsOK(f), NEW e \in End, NEW kind, NEW body,
         Indication(kind, e, body) \in Incoming(e)
  PROVE  ArrivalsOK(Brought(f, e, kind, body))
<1>1. Append(f[e], Indication(kind, e, body)) \in Seq(Incoming(e))
  BY AppendProperties DEF ArrivalsOK
<1>. QED BY <1>1 DEF ArrivalsOK, Brought

LEMMA ArrivalTaken ==
  ASSUME ArrivalsOK(arriving), NEW e \in End, arriving[e] # <<>>
  PROVE  Head(arriving[e]) \in Incoming(e) /\ ArrivalsOK(Taken(e))
<1>1. Head(arriving[e]) \in Incoming(e) /\ Tail(arriving[e]) \in Seq(Incoming(e))
  BY HeadOf DEF ArrivalsOK
<1>. QED BY <1>1 DEF ArrivalsOK, Taken

LEMMA ArrivalsAre ==
  ASSUME UNCHANGED setup, NEW f, ArrivalsOK(f), arriving' = f
  PROVE  ArrivalsOK(arriving)'
BY SameSetup DEF ArrivalsOK

-----------------------------------------------------------------------------
(* What a message tells *)

LEMMA OrderTells ==
  ASSUME NEW a, NEW m \in OrdersOf(a)
  PROVE  /\ m.op = "CLOSE" => m.socket \in Known(a)
         /\ m.op = "OPEN_PASSIVE" => IsServer(a) /\ m.socket \in Own(a)
         /\ m.op = "OPEN_ACTIVE" => ~IsServer(a) /\ m.socket \in Own(a)
         /\ m.op = "REGISTER" => IsServer(a) /\ m.socket \in Own(a) /\ m.body = serviceOf(a)
         /\ m.op = "ACCEPT" => IsServer(a) /\ m.socket \in ClientPeer
         /\ m.op = "SEND" => \/ IsServer(a) /\ m.socket \in ClientPeer /\ m.body = ok
                             \/ ~IsServer(a) /\ m.socket \in Own(a) /\ m.body \in Packet(a)
<1>1. CASE m \in Order({"CLOSE"}, Known(a), {"none"})
  BY <1>1 DEF Order
<1>2. CASE IsServer(a) /\ m \notin Order({"CLOSE"}, Known(a), {"none"})
  BY <1>2 DEF OrdersOf, Order
<1>3. CASE ~IsServer(a) /\ m \notin Order({"CLOSE"}, Known(a), {"none"})
  BY <1>3 DEF OrdersOf, Order
<1>. QED BY <1>1, <1>2, <1>3

LEMMA MayOrder ==
  ASSUME NEW a
  PROVE  /\ \A s \in Known(a) : Command("CLOSE", s, "none") \in OrdersOf(a)
         /\ IsServer(a) =>
              /\ \A s \in Own(a) : /\ Command("OPEN_PASSIVE", s, "none") \in OrdersOf(a)
                                   /\ Command("REGISTER", s, serviceOf(a)) \in OrdersOf(a)
              /\ \A s \in ClientPeer : /\ Command("ACCEPT", s, "none") \in OrdersOf(a)
                                       /\ Command("SEND", s, ok) \in OrdersOf(a)
         /\ ~IsServer(a) =>
              \A s \in Own(a) : /\ Command("OPEN_ACTIVE", s, setup.serverNode) \in OrdersOf(a)
                                /\ \A p \in Packet(a) : Command("SEND", s, p) \in OrdersOf(a)
BY DEF OrdersOf, Order, Command

LEMMA MailTells ==
  ASSUME NEW a, NEW m \in MailOf(a)
  PROVE  /\ m.socket \in Known(a)
         /\ m.kind = "AVAILABLE" => IsServer(a) /\ m.body \in ClientPeer
         /\ m.kind = "DATA" => \/ IsServer(a) /\ m.socket \in ClientPeer /\ m.body \in Packet(a)
                               \/ ~IsServer(a) /\ m.socket \in Own(a)
BY DEF MailOf, Told, Offered, DataOn, Known

LEMMA MayArrive ==
  ASSUME NEW e
  PROVE  /\ \A kind \in {"ESTABLISHED", "FAILURE", "PEER_CLOSED", "CLOSED"} :
              Indication(kind, e, "none") \in Incoming(e)
         /\ e \in ClientSocket => \A p \in Answer : Indication("DATA", e, p) \in Incoming(e)
         /\ e \in ClientPeer => \A p \in Packet(e[1]) : Indication("DATA", e, p) \in Incoming(e)
BY DEF Incoming, Told, DataOn, Indication

LEMMA MayOffer ==
  ASSUME NEW n \in Node, NEW body \in ClientPeer
  PROVE  Indication("AVAILABLE", ServerSocket(n), body) \in Incoming(ServerSocket(n))
BY DEF Incoming, Offered, Indication

LEMMA ArrivalTells ==
  ASSUME NEW e, NEW m \in Incoming(e)
  PROVE  /\ m.socket = e
         /\ m.kind = "AVAILABLE" => m.body \in ClientPeer
         /\ m.kind = "DATA" => \/ e \in ClientSocket
                               \/ e \in ClientPeer /\ m \in DataOn({e}, Packet(e[1]))
         /\ m.kind # "DATA" /\ m.kind # "AVAILABLE" => m \in Told({e})
BY DEF Incoming, Told, Offered, DataOn

LEMMA OwnMail ==
  ASSUME NEW e \in Socket, NEW m \in Incoming(e), m.kind # "AVAILABLE"
  PROVE  m \in MailOf(e[1])
<1>1. e \in Own(e[1]) /\ e[1] \in App
  BY TwoEnds
<1>2. e \notin ClientPeer
  BY ClientEnds
<1>3. CASE m \in Told({e})
  BY <1>1, <1>3 DEF MailOf, Told, Known
<1>4. CASE e \in ClientSocket /\ m \in DataOn({e}, Answer)
  <2>1. ~IsServer(e[1])
    BY <1>4 DEF ClientSocket
  <2>. QED BY <1>1, <1>4, <2>1 DEF MailOf, DataOn
<1>. QED BY <1>2, <1>3, <1>4 DEF Incoming, Offered, DataOn

LEMMA SessionMail ==
  ASSUME NEW e \in ClientPeer, NEW m \in Incoming(e), m.kind # "AVAILABLE",
         NEW b, Serves(b, e[1])
  PROVE  m \in MailOf(b)
<1>1. IsServer(b) /\ Packet(b) = Packet(e[1]) /\ e \in Known(b)
  BY DEF Serves, Packet, Known
<1>2. e \notin Socket
  BY ClientEnds
<1>3. CASE m \in Told({e})
  BY <1>1, <1>3 DEF MailOf, Told
<1>4. CASE m \in DataOn({e}, Packet(e[1]))
  BY <1>1, <1>4 DEF MailOf, DataOn
<1>. QED BY <1>2, <1>3, <1>4 DEF Incoming, Offered, DataOn, ClientSocket

\* An application that is told something has opened its socket.
LEMMA Reads ==
  ASSUME NetInv, UNCHANGED setup, NEW a \in App, NEW kind, Receives(a, kind)
  PROVE  /\ MailOK' /\ Head(toApp[a]) \in MailOf(a) /\ Head(toApp[a]).kind = kind
         /\ opened[a] > 0 /\ tcpSocket[a] \in Own(a)
<1>1. /\ toApp[a] # <<>> /\ Head(toApp[a]).kind = kind /\ Head(toApp[a]).socket \in socketMap[a]
      /\ toApp' = [toApp EXCEPT ![a] = Tail(@)]
  BY DEF Receives
<1>2. opened[a] > 0 /\ tcpSocket[a] \in Own(a)
  BY <1>1 DEF NetInv, SocketsOK
<1>. QED BY <1>1, <1>2, MailRead DEF NetInv

LEMMA RequestIs ==
  ASSUME NEW a, NEW verb \in {"HEAD", "GET"}
  PROVE  Request(verb, a) \in Packet(a) /\ Segment \in Packet(a)
BY DEF Request, Segment, Packet

\* What a client sends on its own socket.
LEMMA ClientSends ==
  ASSUME OrdersOK, UNCHANGED setup, NEW a \in App, ~IsServer(a), NEW s \in Own(a),
         \/ Calls(a, sendProbe(a, s)) \/ Calls(a, sendRequest(a, s)) \/ Calls(a, sendServer(a, s))
  PROVE  OrdersOK'
<1>1. \A p \in Packet(a) : Command("SEND", s, p) \in OrdersOf(a)
  BY MayOrder
<1>2. <<Request("HEAD", a)>> \in Seq(Packet(a)) /\ <<Request("GET", a)>> \in Seq(Packet(a))
  BY RequestIs, OneOf
<1>3. [i \in 1..Segments |-> Segment] \in Seq(Packet(a))
  <2>1. Segment \in Packet(a) /\ Segments \in Nat
    BY RequestIs, EndpointsConstants
  <2>2. [i \in 1..Segments |-> Segment] \in [1..Segments -> Packet(a)]
    BY <2>1
  <2>. QED BY <2>1, <2>2, SeqDef
<1>4. /\ sendProbe(a, s) \in Seq(OrdersOf(a)) /\ sendRequest(a, s) \in Seq(OrdersOf(a))
      /\ sendServer(a, s) \in Seq(OrdersOf(a))
  BY <1>1, <1>2, <1>3, PacketsSent DEF sendProbe, sendRequest, sendServer
<1>. QED BY <1>4, OrdersGiven

LEMMA ServerSends ==
  ASSUME OrdersOK, UNCHANGED setup, NEW a \in App, IsServer(a), NEW s \in ClientPeer,
         Calls(a, _send(s, <<ok>>))
  PROVE  OrdersOK'
<1>1. \A p \in {ok} : Command("SEND", s, p) \in OrdersOf(a)
  BY MayOrder
<1>2. <<ok>> \in Seq({ok})
  BY OneOf
<1>3. _send(s, <<ok>>) \in Seq(OrdersOf(a))
  <2>. DEFINE P       == {ok}
              packets == <<ok>>
  <2>1. packets \in Seq(P) /\ \A p \in P : Command("SEND", s, p) \in OrdersOf(a)
    BY <1>1, <1>2
  <2>. HIDE DEF P, packets
  <2>2. _send(s, packets) \in Seq(OrdersOf(a))
    BY <2>1, PacketsSent
  <2>. QED BY <2>2 DEF packets
<1>. QED BY <1>3, OrdersGiven

-----------------------------------------------------------------------------
(* The applications *)

LEMMA NetUnregistered ==
  ASSUME NetInv, NEW a \in App, unregisteredSocket(a)
  PROVE  NetInv'
BY Stays DEF unregisteredSocket, NetInv, socketVars, clientVars, controllerVars, serverVars,
   networkVars, proxyVars

LEMMA NetAvailable ==
  ASSUME NetInv, NEW a \in App, socketAvailable(a)
  PROVE  NetInv'
<1>. DEFINE s == Head(toApp[a]).body
            orders == <<Command("ACCEPT", s, "none")>>
<1>1. /\ Receives(a, "AVAILABLE") /\ UNCHANGED setup
      /\ socketMap' = [socketMap EXCEPT ![a] = @ \cup {s}]
      /\ Calls(a, orders)
      /\ UNCHANGED <<opened, tcpSocket, connected, event, probeTimers, resolving, serviceUp,
                     executing, delayed, proxyVars, arriving>>
  BY DEF socketAvailable, clientVars, controllerVars, networkVars
<1>2. MailOK' /\ opened[a] > 0 /\ IsServer(a) /\ s \in ClientPeer
  BY <1>1, Reads, MailTells
<1>3. orders \in Seq(OrdersOf(a))
  BY <1>2, MayOrder, OneOf
<1>4. OrdersOK'
  BY <1>1, <1>3, OrdersGiven DEF NetInv
<1>5. s \in Known(a)
  BY <1>2 DEF Known
<1>6. SocketsOK'
  BY <1>1, <1>2, <1>5, SameSetup DEF NetInv, SocketsOK
<1>. QED BY <1>1, <1>2, <1>4, <1>6, Stays DEF NetInv, proxyVars

LEMMA NetEstablished ==
  ASSUME NetInv, NEW a \in App, socketEstablished(a)
  PROVE  NetInv'
<1>. DEFINE s == Head(toApp[a]).socket
<1>1. /\ Receives(a, "ESTABLISHED") /\ UNCHANGED setup
      /\ Calls(a, CASE kindOf(a) = "ClientEndpoint" -> sendRequest(a, s)
                    [] kindOf(a) = "ProbingClient" -> sendProbe(a, s)
                    [] kindOf(a) = "IotApplication" /\ s = tcpSocket[a] -> sendProbe(a, s)
                    [] OTHER -> <<>>)
      /\ UNCHANGED <<socketMap, opened, tcpSocket, event, probeTimers, resolving, serviceUp,
                     executing, delayed, proxyVars, arriving>>
  BY DEF socketEstablished, clientVars, controllerVars, serverVars, networkVars
<1>2. MailOK' /\ s \in Known(a)
  BY <1>1, Reads, MailTells
<1>3. ~IsServer(a) => s \in Own(a)
  BY <1>2 DEF Known
<1>4. OrdersOK'
  <2>1. CASE kindOf(a) = "ClientEndpoint"
    <3>1. ~IsServer(a) /\ Calls(a, sendRequest(a, s))
      BY <1>1, <2>1 DEF IsServer
    <3>. QED BY <1>1, <1>3, <3>1, ClientSends DEF NetInv
  <2>2. CASE kindOf(a) = "ProbingClient" \/ (kindOf(a) = "IotApplication" /\ s = tcpSocket[a])
    <3>1. ~IsServer(a) /\ Calls(a, sendProbe(a, s))
      BY <1>1, <2>2 DEF IsServer
    <3>. QED BY <1>1, <1>3, <3>1, ClientSends DEF NetInv
  <2>3. CASE /\ kindOf(a) # "ClientEndpoint" /\ kindOf(a) # "ProbingClient"
             /\ ~(kindOf(a) = "IotApplication" /\ s = tcpSocket[a])
    <3>1. Calls(a, <<>>)
      BY <1>1, <2>3
    <3>. QED BY <1>1, <3>1, NoOrders, OrdersGiven DEF NetInv
  <2>. QED BY <2>1, <2>2, <2>3
<1>. QED BY <1>1, <1>2, <1>4, Stays DEF NetInv, proxyVars

LEMMA NetFailure ==
  ASSUME NetInv, NEW a \in App, socketFailure(a)
  PROVE  NetInv'
<1>1. Receives(a, "FAILURE") /\ UNCHANGED setup
  BY DEF socketFailure
<1>2. MailOK'
  BY <1>1, Reads
<1>. QED BY <1>2, Stays DEF socketFailure, NetInv, socketVars, clientVars, controllerVars,
         serverVars, networkVars, proxyVars

LEMMA NetPeerClosed ==
  ASSUME NetInv, NEW a \in App, socketPeerClosed(a)
  PROVE  NetInv'
<1>. DEFINE s == Head(toApp[a]).socket
            orders == <<Command("CLOSE", s, "none")>>
<1>1. /\ Receives(a, "PEER_CLOSED") /\ UNCHANGED setup
      /\ \/ UNCHANGED <<socketMap, toProxy>>
         \/ socketMap' = [socketMap EXCEPT ![a] = @ \ {s}] /\ Calls(a, orders)
      /\ UNCHANGED <<opened, tcpSocket, event, probeTimers, resolving, serviceUp,
                     executing, delayed, proxyVars, arriving>>
  BY DEF socketPeerClosed, clientVars, controllerVars, networkVars
<1>2. MailOK' /\ s \in Known(a)
  BY <1>1, Reads, MailTells
<1>3. orders \in Seq(OrdersOf(a))
  BY <1>2, MayOrder, OneOf
<1>4. OrdersOK'
  BY <1>1, <1>3, OrdersGiven, Stays DEF NetInv
<1>5. SocketsOK'
  <2>1. CASE UNCHANGED socketMap
    BY <1>1, <2>1, Stays
  <2>2. CASE socketMap' = [socketMap EXCEPT ![a] = @ \ {s}]
    BY <1>1, <2>2, SameSetup DEF NetInv, SocketsOK
  <2>. QED BY <1>1, <2>1, <2>2
<1>. QED BY <1>1, <1>2, <1>4, <1>5, Stays DEF NetInv, proxyVars

LEMMA NetReplies ==
  ASSUME NetInv, NEW a \in App, serverReplies(a)
  PROVE  NetInv'
<1>. DEFINE s == Head(toApp[a]).socket
<1>1. /\ Receives(a, "DATA") /\ UNCHANGED setup /\ kindOf(a) = "ServerEndpoint"
      /\ Calls(a, _send(s, <<ok>>)) \/ UNCHANGED toProxy
      /\ UNCHANGED <<socketVars, tcpSocket, event, probeTimers, resolving, serviceUp,
                     executing, delayed, proxyVars, arriving>>
  BY DEF serverReplies, ReceivesData, clientVars, controllerVars, serverVars, networkVars
<1>2. MailOK' /\ IsServer(a) /\ s \in ClientPeer
  BY <1>1, Reads, MailTells DEF IsServer
<1>3. OrdersOK'
  BY <1>1, <1>2, ServerSends, Stays DEF NetInv
<1>. QED BY <1>1, <1>2, <1>3, Stays DEF NetInv, proxyVars, socketVars

LEMMA NetReassembles ==
  ASSUME NetInv, NEW a \in App, serviceReassembles(a)
  PROVE  NetInv'
<1>. DEFINE s == Head(toApp[a]).socket
            owed == delayed[a] (+) SetToBag({s})
<1>1. /\ Receives(a, "DATA") /\ UNCHANGED setup /\ kindOf(a) = "IotService"
      /\ delayed' = [delayed EXCEPT ![a] = owed] \/ delayed' = [delayed EXCEPT ![a] = @]
      /\ UNCHANGED <<socketVars, tcpSocket, event, probeTimers, resolving, serviceUp,
                     executing, proxyVars, arriving, toProxy>>
  BY DEF serviceReassembles, ReceivesData, clientVars, controllerVars, networkVars
<1>2. MailOK' /\ IsServer(a) /\ s \in ClientPeer
  BY <1>1, Reads, MailTells DEF IsServer
<1>3. s \in Known(a) \cap ClientPeer
  BY <1>2 DEF Known
<1>4. DOMAIN owed = DOMAIN delayed[a] \cup {s}
  BY DEF (+), SetToBag
<1>. HIDE DEF owed, s
<1>5. DebtsOK'
  BY <1>1, <1>3, <1>4, SameSetup DEF NetInv, DebtsOK
<1>. QED BY <1>1, <1>2, <1>5, Stays DEF NetInv, proxyVars, socketVars

LEMMA NetDelayed ==
  ASSUME NetInv, NEW a \in App, sendDelayed(a)
  PROVE  NetInv'
<1>1. PICK s \in BagToSet(delayed[a]) :
        /\ UNCHANGED setup
        /\ \/ /\ Calls(a, _send(s, <<ok>>))
              /\ delayed' = [delayed EXCEPT ![a] = @ (-) SetToBag({s})]
           \/ UNCHANGED <<toProxy, delayed>>
        /\ UNCHANGED <<socketVars, tcpSocket, event, probeTimers, resolving, serviceUp,
                       executing, proxyVars, arriving, toApp>>
  BY DEF sendDelayed, clientVars, controllerVars, networkVars
<1>2. s \in Known(a) \cap ClientPeer
  BY DEF BagToSet, NetInv, DebtsOK
<1>3. IsServer(a)
  BY <1>2, SocketIs, ClientEnds DEF Known
<1>4. OrdersOK'
  BY <1>1, <1>2, <1>3, ServerSends, Stays DEF NetInv
<1>. DEFINE owed == delayed[a] (-) SetToBag({s})
<1>5. DOMAIN owed \subseteq DOMAIN delayed[a]
  BY DEF (-), SetToBag
<1>6. delayed' = [delayed EXCEPT ![a] = owed] \/ UNCHANGED delayed
  BY <1>1
<1>. HIDE DEF owed
<1>7. DebtsOK'
  BY <1>1, <1>5, <1>6, SameSetup DEF NetInv, DebtsOK
<1>. QED BY <1>1, <1>4, <1>7, Stays DEF NetInv, proxyVars, socketVars

LEMMA NetAsksAgain ==
  ASSUME NetInv, NEW a \in App, clientAsksAgain(a)
  PROVE  NetInv'
<1>1. /\ Receives(a, "DATA") /\ UNCHANGED setup /\ kindOf(a) = "ClientEndpoint"
      /\ Calls(a, sendRequest(a, tcpSocket[a]))
      /\ UNCHANGED <<socketVars, tcpSocket, event, probeTimers, resolving, serviceUp,
                     executing, delayed, proxyVars, arriving>>
  BY DEF clientAsksAgain, ReceivesData, clientVars, controllerVars, serverVars, networkVars
<1>2. MailOK' /\ ~IsServer(a) /\ tcpSocket[a] \in Own(a)
  BY <1>1, Reads DEF IsServer
<1>3. OrdersOK'
  BY <1>1, <1>2, ClientSends DEF NetInv
<1>. QED BY <1>1, <1>2, <1>3, Stays DEF NetInv, proxyVars, socketVars

LEMMA NetProbeAnswered ==
  ASSUME NetInv, NEW a \in App, probeAnswered(a)
  PROVE  NetInv'
<1>1. /\ Receives(a, "DATA") /\ UNCHANGED setup /\ kindOf(a) = "ProbingClient"
      /\ \/ Calls(a, sendRequest(a, tcpSocket[a])) /\ UNCHANGED probeTimers
         \/ probeTimers' = [probeTimers EXCEPT ![a] = @ + 1] /\ UNCHANGED toProxy
      /\ UNCHANGED <<socketVars, tcpSocket, event, resolving, serviceUp,
                     executing, delayed, proxyVars, arriving>>
  BY DEF probeAnswered, ReceivesData, controllerVars, serverVars, networkVars
<1>2. MailOK' /\ ~IsServer(a) /\ opened[a] > 0 /\ tcpSocket[a] \in Own(a)
  BY <1>1, Reads DEF IsServer
<1>3. OrdersOK'
  BY <1>1, <1>2, ClientSends, Stays DEF NetInv
<1>4. SendersOK'
  BY <1>1, <1>2, SameSetup DEF NetInv, SendersOK, Sends, socketVars
<1>. QED BY <1>1, <1>2, <1>3, <1>4, Stays DEF NetInv, proxyVars, socketVars

LEMMA NetControllerAnswered ==
  ASSUME NetInv, NEW a \in App, controllerAnswered(a)
  PROVE  NetInv'
<1>1. /\ Receives(a, "DATA") /\ UNCHANGED setup /\ kindOf(a) = "IotApplication"
      /\ UNCHANGED <<socketVars, tcpSocket, probeTimers, resolving, executing, delayed,
                     proxyVars, arriving, toProxy>>
  BY DEF controllerAnswered, ReceivesData, serverVars, networkVars
<1>2. \/ UNCHANGED <<serviceUp, event>>
      \/ /\ serviceUp' = [serviceUp EXCEPT ![a] = TRUE]
         /\ event' = [event EXCEPT ![a] = "none"]
      \/ event' = [event EXCEPT ![a] = "POLL"] /\ UNCHANGED serviceUp
  BY DEF controllerAnswered
<1>3. MailOK' /\ ~IsServer(a) /\ opened[a] > 0
  BY <1>1, Reads DEF IsServer
<1>4. SendersOK'
  BY <1>1, <1>2, <1>3, SameSetup DEF NetInv, SendersOK, Sends, socketVars
<1>. QED BY <1>1, <1>3, <1>4, Stays DEF NetInv, proxyVars, socketVars

LEMMA NetHandles ==
  ASSUME NetInv, NEW a \in App, Handles(a)
  PROVE  NetInv'
BY NetUnregistered, NetAvailable, NetEstablished, NetFailure, NetPeerClosed, NetReplies,
   NetReassembles, NetAsksAgain, NetProbeAnswered, NetControllerAnswered DEF Handles

LEMMA SocketOpened ==
  ASSUME NetInv, UNCHANGED setup, NEW a \in App, open(a),
         tcpSocket' = [tcpSocket EXCEPT ![a] = <<a, opened[a] + 1>>]
  PROVE  /\ SocketsOK' /\ <<a, opened[a] + 1>> \in Own(a)
         /\ DOMAIN opened' = App /\ \A b \in App : opened[b] > 0 => opened'[b] > 0
<1>. DEFINE s == <<a, opened[a] + 1>>
<1>1. /\ opened[a] < MaxSockets /\ opened' = [opened EXCEPT ![a] = @ + 1]
      /\ socketMap' = [socketMap EXCEPT ![a] = @ \cup {s}]
  BY DEF open
<1>2. opened[a] \in 0..MaxSockets /\ DOMAIN opened = App
  BY DEF NetInv, SocketsOK
<1>3. opened[a] + 1 \in 1..MaxSockets /\ opened[a] + 1 > 0
  BY <1>1, <1>2, StackConstants
<1>4. s \in Own(a) /\ s \in Known(a)
  BY <1>3 DEF Own, Known
<1>. HIDE DEF s
<1>5. SocketsOK'
  <2>1. ASSUME NEW b \in App
        PROVE  /\ opened'[b] \in 0..MaxSockets /\ socketMap'[b] \subseteq Known(b)
               /\ socketMap'[b] # {} => opened'[b] > 0
               /\ opened'[b] > 0 => tcpSocket'[b] \in Own(b)
    <3>1. CASE b = a
      BY <1>1, <1>2, <1>3, <1>4, <3>1 DEF NetInv, SocketsOK, s
    <3>2. CASE b # a
      BY <1>1, <3>2 DEF NetInv, SocketsOK
    <3>. QED BY <3>1, <3>2
  <2>2. DOMAIN opened' = App /\ DOMAIN socketMap' = App /\ DOMAIN tcpSocket' = App
    BY <1>1 DEF NetInv, SocketsOK
  <2>. QED BY <2>1, <2>2, SameSetup DEF SocketsOK
<1>6. \A b \in App : opened[b] > 0 => opened'[b] > 0
  BY <1>1, <1>2, <1>3
<1>. QED BY <1>1, <1>2, <1>4, <1>5, <1>6 DEF s

LEMMA NetInitialize ==
  ASSUME NetInv, NEW a \in App, initialize(a)
  PROVE  NetInv'
<1>1. /\ UNCHANGED setup /\ opened[a] = 0 /\ open(a)
      /\ tcpSocket' = [tcpSocket EXCEPT ![a] = <<a, 1>>]
      /\ Calls(a, IF IsServer(a) THEN listen(<<a, 1>>) ELSE <<>>)
      /\ UNCHANGED <<event, probeTimers, resolving, serviceUp, executing, delayed, proxyVars,
                     arriving, toApp>>
  BY DEF initialize, controllerVars, serverVars, networkVars
<1>2. /\ SocketsOK' /\ <<a, 1>> \in Own(a)
      /\ DOMAIN opened' = App /\ \A b \in App : opened[b] > 0 => opened'[b] > 0
  <2>1. tcpSocket' = [tcpSocket EXCEPT ![a] = <<a, opened[a] + 1>>]
    BY <1>1
  <2>2. <<a, opened[a] + 1>> \in Own(a) => <<a, 1>> \in Own(a)
    BY <1>1
  <2>. QED BY <1>1, <2>1, <2>2, SocketOpened
<1>3. OrdersOK'
  <2>1. IsServer(a) => listen(<<a, 1>>) \in Seq(OrdersOf(a))
    BY <1>2, MayOrder, OneOf DEF listen
  <2>. QED BY <1>1, <2>1, NoOrders, OrdersGiven DEF NetInv
<1>4. SendersOK'
  BY <1>1, <1>2, SameSetup DEF NetInv, SendersOK, Sends
<1>. QED BY <1>1, <1>2, <1>3, <1>4, Stays DEF NetInv, proxyVars

LEMMA NetExecStart ==
  ASSUME NetInv, NEW a \in App, installed(a), execStart(a)
  PROVE  NetInv'
<1>1. /\ UNCHANGED setup
      /\ opened[a] > 0 \/ kindOf(a) \in {"IotApplication", "LocalIotApplication"}
      /\ event' = [event EXCEPT ![a] = "none"]
      /\ UNCHANGED <<socketVars, tcpSocket, probeTimers, serviceUp, executing, delayed, proxyVars,
                     arriving, toApp>>
  BY DEF execStart, controllerVars, serverVars, networkVars
<1>2. /\ \/ UNCHANGED toProxy
         \/ IsServer(a) /\ Calls(a, registerService(tcpSocket[a], serviceOf(a)))
         \/ kindOf(a) = "ClientEndpoint" /\ Calls(a, connect(tcpSocket[a], setup.serverNode))
      /\ \/ UNCHANGED resolving
         \/ /\ kindOf(a) \in {"ClientEndpoint", "ProbingClient", "IotApplication"}
            /\ resolve(a)
  <2>1. CASE IsServer(a)
    BY <2>1 DEF execStart
  <2>2. CASE ~IsServer(a) /\ kindOf(a) = "ClientEndpoint"
    BY <2>2 DEF execStart, IsLocal
  <2>3. CASE ~IsServer(a) /\ kindOf(a) = "ProbingClient"
    BY <2>3 DEF execStart, IsLocal
  <2>4. CASE ~IsServer(a) /\ kindOf(a) = "IotApplication"
    BY <2>4 DEF execStart, IsLocal
  <2>5. CASE /\ ~IsServer(a)
             /\ kindOf(a) \notin {"ClientEndpoint", "ProbingClient", "IotApplication"}
    <3>1. kindOf(a) = "LocalIotApplication"
      BY <2>5 DEF installed, Endpoint, IsServer
    <3>. QED BY <2>5, <3>1 DEF execStart, IsLocal
  <2>. QED BY <2>1, <2>2, <2>3, <2>4, <2>5
<1>3. OrdersOK'
  <2>1. CASE IsServer(a) /\ Calls(a, registerService(tcpSocket[a], serviceOf(a)))
    <3>1. tcpSocket[a] \in Own(a)
      BY <1>1, <2>1 DEF NetInv, SocketsOK, IsServer
    <3>2. registerService(tcpSocket[a], serviceOf(a)) \in Seq(OrdersOf(a))
      BY <2>1, <3>1, MayOrder, OneOf DEF registerService
    <3>. QED BY <1>1, <2>1, <3>2, OrdersGiven DEF NetInv
  <2>2. CASE kindOf(a) = "ClientEndpoint" /\ Calls(a, connect(tcpSocket[a], setup.serverNode))
    <3>1. tcpSocket[a] \in Own(a) /\ ~IsServer(a)
      BY <1>1, <2>2 DEF NetInv, SocketsOK, IsServer
    <3>2. connect(tcpSocket[a], setup.serverNode) \in Seq(OrdersOf(a))
      BY <3>1, MayOrder, OneOf DEF connect
    <3>. QED BY <1>1, <2>2, <3>2, OrdersGiven DEF NetInv
  <2>. QED BY <1>1, <1>2, <2>1, <2>2, Stays
<1>4. SendersOK'
  <2>1. CASE UNCHANGED resolving
    BY <1>1, <2>1, SameSetup DEF NetInv, SendersOK, Sends, socketVars
  <2>2. CASE kindOf(a) \in {"ClientEndpoint", "ProbingClient", "IotApplication"} /\ resolve(a)
    <3>1. ~IsServer(a) /\ (kindOf(a) = "IotApplication" \/ opened[a] > 0)
      BY <1>1, <2>2 DEF IsServer
    <3>. QED BY <1>1, <2>2, <3>1, SameSetup DEF NetInv, SendersOK, Sends, socketVars, resolve
  <2>. QED BY <1>2, <2>1, <2>2
<1>. QED BY <1>1, <1>3, <1>4, Stays DEF NetInv, proxyVars, socketVars

LEMMA NetNamed ==
  ASSUME NetInv, NEW a \in App, handleParameterChange(a)
  PROVE  NetInv'
<1>1. /\ UNCHANGED setup
      /\ kindOf(a) \in {"ProbingClient", "IotApplication"}
      /\ kindOf(a) = "ProbingClient" => opened[a] > 0
      /\ UNCHANGED <<socketVars, tcpSocket, event, probeTimers, serviceUp, executing, delayed,
                     proxyVars, arriving, toApp, toProxy>>
  BY DEF handleParameterChange, controllerVars, serverVars, networkVars
<1>2. UNCHANGED resolving \/ resolve(a)
  BY DEF handleParameterChange
<1>3. ~IsServer(a) /\ (kindOf(a) = "IotApplication" \/ opened[a] > 0)
  BY <1>1 DEF IsServer
<1>4. SendersOK'
  BY <1>1, <1>2, <1>3, SameSetup DEF NetInv, SendersOK, Sends, socketVars, resolve
<1>. QED BY <1>1, <1>4, Stays DEF NetInv, proxyVars, socketVars

LEMMA NetResolved ==
  ASSUME NetInv, NEW a \in App, handleResolutionFinished(a)
  PROVE  NetInv'
<1>1. /\ UNCHANGED setup /\ resolving[a] > 0
      /\ resolving' = [resolving EXCEPT ![a] = @ - 1]
      /\ UNCHANGED <<event, probeTimers, serviceUp, executing, delayed,
                     proxyVars, arriving, toApp>>
  BY DEF handleResolutionFinished, controllerVars, serverVars, networkVars
<1>2. ~IsServer(a) /\ (kindOf(a) = "IotApplication" \/ opened[a] > 0)
  BY <1>1 DEF NetInv, SendersOK
<1>3. \/ /\ kindOf(a) = "IotApplication" /\ open(a)
         /\ tcpSocket' = [tcpSocket EXCEPT ![a] = <<a, opened[a] + 1>>]
         /\ Calls(a, connect(<<a, opened[a] + 1>>, setup.serverNode))
      \/ /\ kindOf(a) # "IotApplication"
         /\ Calls(a, connect(tcpSocket[a], setup.serverNode))
         /\ UNCHANGED <<opened, socketMap, tcpSocket>>
      \/ UNCHANGED <<opened, socketMap, tcpSocket, toProxy>>
  BY DEF handleResolutionFinished, socketVars
<1>4. \A s \in Own(a) : connect(s, setup.serverNode) \in Seq(OrdersOf(a))
  BY <1>2, MayOrder, OneOf DEF connect
<1>5. SocketsOK' /\ OrdersOK' /\ DOMAIN opened' = App /\ \A b \in App : opened[b] > 0 => opened'[b] > 0
  <2>0. DOMAIN opened = App
    BY DEF NetInv, SocketsOK
  <2>1. CASE /\ open(a) /\ tcpSocket' = [tcpSocket EXCEPT ![a] = <<a, opened[a] + 1>>]
             /\ Calls(a, connect(<<a, opened[a] + 1>>, setup.serverNode))
    <3>1. /\ SocketsOK' /\ <<a, opened[a] + 1>> \in Own(a)
          /\ DOMAIN opened' = App /\ \A b \in App : opened[b] > 0 => opened'[b] > 0
      BY <1>1, <2>1, SocketOpened
    <3>2. OrdersOK'
      BY <1>1, <1>4, <2>1, <3>1, OrdersGiven DEF NetInv
    <3>. QED BY <3>1, <3>2
  <2>2. CASE /\ kindOf(a) # "IotApplication" /\ UNCHANGED <<opened, socketMap, tcpSocket>>
             /\ Calls(a, connect(tcpSocket[a], setup.serverNode))
    <3>1. tcpSocket[a] \in Own(a)
      BY <1>2, <2>2 DEF NetInv, SocketsOK
    <3>2. OrdersOK'
      BY <1>1, <1>4, <2>2, <3>1, OrdersGiven DEF NetInv
    <3>. QED BY <1>1, <2>0, <2>2, <3>2, Stays
  <2>3. CASE UNCHANGED <<opened, socketMap, tcpSocket, toProxy>>
    BY <1>1, <2>0, <2>3, Stays
  <2>. QED BY <1>3, <2>1, <2>2, <2>3
<1>6. \A b \in App : resolving'[b] > 0 => resolving[b] > 0
  BY <1>1 DEF NetInv, SendersOK
<1>7. SendersOK'
  BY <1>1, <1>5, <1>6, SameSetup DEF NetInv, SendersOK, Sends
<1>. QED BY <1>1, <1>5, <1>7, Stays DEF NetInv, proxyVars

LEMMA NetProbeTimer ==
  ASSUME NetInv, NEW a \in App, probeTimer(a)
  PROVE  NetInv'
<1>1. /\ UNCHANGED setup /\ probeTimers[a] > 0
      /\ probeTimers' = [probeTimers EXCEPT ![a] = @ - 1]
      /\ Calls(a, sendProbe(a, tcpSocket[a]))
      /\ UNCHANGED <<socketVars, tcpSocket, event, resolving, serviceUp, executing, delayed,
                     proxyVars, arriving, toApp>>
  BY DEF probeTimer, controllerVars, serverVars, networkVars
<1>2. ~IsServer(a) /\ opened[a] > 0 /\ tcpSocket[a] \in Own(a)
  BY <1>1 DEF NetInv, SendersOK, SocketsOK, Sends
<1>3. OrdersOK'
  BY <1>1, <1>2, ClientSends DEF NetInv
<1>4. SendersOK'
  BY <1>1, <1>2, SameSetup DEF NetInv, SendersOK, Sends, socketVars
<1>. QED BY <1>1, <1>3, <1>4, Stays DEF NetInv, proxyVars, socketVars

LEMMA NetPoll ==
  ASSUME NetInv, NEW a \in App, poll(a)
  PROVE  NetInv'
<1>1. /\ UNCHANGED setup /\ event[a] = "POLL"
      /\ event' = [event EXCEPT ![a] = "none"]
      /\ Calls(a, sendProbe(a, tcpSocket[a]))
      /\ UNCHANGED <<socketVars, tcpSocket, probeTimers, resolving, serviceUp, executing, delayed,
                     proxyVars, arriving, toApp>>
  BY DEF poll, controllerVars, serverVars, networkVars
<1>2. ~IsServer(a) /\ opened[a] > 0 /\ tcpSocket[a] \in Own(a)
  BY <1>1 DEF NetInv, SendersOK, SocketsOK, Sends
<1>3. OrdersOK'
  BY <1>1, <1>2, ClientSends DEF NetInv
<1>4. SendersOK'
  BY <1>1, <1>2, SameSetup DEF NetInv, SendersOK, Sends, socketVars
<1>. QED BY <1>1, <1>3, <1>4, Stays DEF NetInv, proxyVars, socketVars

LEMMA NetExecuted ==
  ASSUME NetInv, NEW a \in App, returnExec(a)
  PROVE  NetInv'
<1>1. /\ UNCHANGED setup /\ executing[a] > 0
      /\ executing' = [executing EXCEPT ![a] = @ - 1]
      /\ \/ UNCHANGED toProxy
         \/ ~IsLocal(a) /\ Calls(a, sendServer(a, tcpSocket[a]))
      /\ UNCHANGED <<socketVars, tcpSocket, event, probeTimers, resolving, serviceUp, delayed,
                     proxyVars, arriving, toApp>>
  BY DEF returnExec, clientVars, serverVars, networkVars
<1>2. ~IsServer(a) /\ (IsLocal(a) \/ (opened[a] > 0 /\ tcpSocket[a] \in Own(a)))
  BY <1>1 DEF NetInv, SendersOK, SocketsOK
<1>3. OrdersOK'
  BY <1>1, <1>2, ClientSends, Stays DEF NetInv
<1>4. SendersOK'
  BY <1>1, <1>2, SameSetup DEF NetInv, SendersOK, Sends, socketVars
<1>. QED BY <1>1, <1>3, <1>4, Stays DEF NetInv, proxyVars, socketVars

LEMMA NetAlone ==
  ASSUME NetInv, NEW a \in App, initializeAlone(a)
  PROVE  NetInv'
<1>1. UNCHANGED <<setup, socketVars, tcpSocket, event, probeTimers, resolving, serviceUp, executing,
                  delayed, proxyVars, arriving, toProxy, toApp>>
  BY DEF initializeAlone, clientVars, controllerVars, serverVars, networkVars
<1>. QED BY <1>1, Stays DEF NetInv, proxyVars, socketVars

LEMMA NetActs ==
  ASSUME NetInv, NEW a \in App, Acts(a)
  PROVE  NetInv'
BY NetInitialize, NetAlone, NetExecStart, NetResolved, NetDelayed, NetProbeTimer, NetPoll, NetExecuted
   DEF Acts

LEMMA NetClose ==
  ASSUME NetInv, NEW a \in App, close(a)
  PROVE  NetInv'
<1>1. PICK s \in socketMap[a] :
        /\ UNCHANGED setup
        /\ socketMap' = [socketMap EXCEPT ![a] = @ \ {s}]
        /\ Calls(a, <<Command("CLOSE", s, "none")>>)
        /\ UNCHANGED <<opened, tcpSocket, event, probeTimers, resolving, serviceUp, executing,
                       delayed, proxyVars, arriving, toApp>>
  BY DEF close, clientVars, controllerVars, serverVars, networkVars
<1>2. s \in Known(a)
  BY DEF NetInv, SocketsOK
<1>3. <<Command("CLOSE", s, "none")>> \in Seq(OrdersOf(a))
  BY <1>2, MayOrder, OneOf
<1>4. OrdersOK'
  BY <1>1, <1>3, OrdersGiven DEF NetInv
<1>5. SocketsOK'
  BY <1>1, SameSetup DEF NetInv, SocketsOK
<1>. QED BY <1>1, <1>4, <1>5, Stays DEF NetInv, proxyVars

\* The sensors and actuators send nothing on these sockets.
LEMMA NetTile ==
  ASSUME NetInv, NEW a \in App, TileStep(a)
  PROVE  NetInv'
<1>1. /\ UNCHANGED <<setup, socketVars, tcpSocket, event, probeTimers, resolving, serviceUp,
                     delayed, proxyVars, arriving, toApp, toProxy>>
      /\ \/ UNCHANGED executing
         \/ executing' = [executing EXCEPT ![a] = @]
         \/ /\ serviceUp[a] \/ IsLocal(a)
            /\ executing' = [executing EXCEPT ![a] = @ + 1]
  <2>1. CASE sampleArrives(a)
    BY <2>1 DEF sampleArrives, clientVars, serverVars, networkVars
  <2>2. CASE processSend(a)
    BY <2>2 DEF processSend, clientVars, controllerVars, serverVars, networkVars
  <2>3. CASE sampleLost(a)
    BY <2>3 DEF sampleLost, clientVars, controllerVars, serverVars, networkVars
  <2>4. CASE commandArrives(a)
    BY <2>4 DEF commandArrives, clientVars, controllerVars, serverVars, networkVars
  <2>5. CASE changePowerState(a)
    BY <2>5 DEF changePowerState, clientVars, controllerVars, serverVars, networkVars
  <2>. QED BY <2>1, <2>2, <2>3, <2>4, <2>5 DEF TileStep
<1>2. serviceUp[a] \/ IsLocal(a) => ~IsServer(a) /\ (IsLocal(a) \/ opened[a] > 0)
  BY DEF NetInv, SendersOK, Sends, IsServer, IsLocal
<1>3. SendersOK'
  BY <1>1, <1>2, SameSetup DEF NetInv, SendersOK, Sends, socketVars
<1>. QED BY <1>1, <1>3, Stays DEF NetInv, proxyVars, socketVars

-----------------------------------------------------------------------------
(* The proxy and TCP *)

\* Everything but the channels and what the proxy keeps.
programs == <<setup, opened, socketMap, tcpSocket, resolving, probeTimers, event, serviceUp,
              executing, delayed>>

LEMMA TransportMoves ==
  ASSUME ArrivalsOK(arriving), UNCHANGED setup, NEW a \in App, NEW m \in OrdersOf(a),
         m.op \in {"OPEN_ACTIVE", "SEND", "CLOSE"}, transport(m)
  PROVE  ArrivalsOK(arriving)'
<1>. DEFINE s     == m.socket
            There == OtherEnd(s)
<1>1. CASE m.op = "OPEN_ACTIVE"
  <2>1. ~IsServer(a) /\ s \in Own(a)
    BY <1>1, OrderTells
  <2>2. s \in Socket /\ s \in ClientSocket /\ There = Peer(s) /\ There \in ClientPeer
        /\ s \in End /\ There \in End
    BY <2>1, SocketIs, TwoEnds DEF ClientSocket, ClientPeer
  <2>3. CASE m.body \in proxied
    <3>. DEFINE n  == m.body
                f1 == Brought(arriving, ServerSocket(n), "AVAILABLE", There)
                f2 == Brought(f1, s, "ESTABLISHED", "none")
                f3 == Brought(f2, There, "ESTABLISHED", "none")
    <3>1. n \in Node /\ ServerSocket(n) \in End
      BY <2>3, StackConstants DEF End
    <3>2. arriving' = f3
      BY <1>1, <2>3 DEF transport, Brought
    <3>3. ArrivalsOK(f1)
      BY <2>2, <3>1, MayOffer, ArrivalsBrought
    <3>. HIDE DEF f1
    <3>4. ArrivalsOK(f2)
      BY <2>2, <3>3, MayArrive, ArrivalsBrought
    <3>. HIDE DEF f2
    <3>5. ArrivalsOK(f3)
      BY <2>2, <3>4, MayArrive, ArrivalsBrought
    <3>. HIDE DEF f3
    <3>. QED BY <3>2, <3>5, ArrivalsAre
  <2>4. CASE m.body \notin proxied
    <3>1. arriving' = Brought(arriving, s, "FAILURE", "none")
      BY <1>1, <2>4 DEF transport, Brought
    <3>2. ArrivalsOK(Brought(arriving, s, "FAILURE", "none"))
      BY <2>2, MayArrive, ArrivalsBrought
    <3>. QED BY <3>1, <3>2, ArrivalsAre
  <2>. QED BY <2>3, <2>4
<1>2. CASE m.op = "SEND"
  <2>1. arriving' = Brought(arriving, There, "DATA", m.body)
    BY <1>2 DEF transport, Brought
  <2>2. There \in End /\ Indication("DATA", There, m.body) \in Incoming(There)
    <3>1. CASE IsServer(a)
      <4>1. s \in ClientPeer /\ m.body \in Answer
        BY <1>2, <3>1, OrderTells DEF Answer
      <4>2. There \in ClientSocket /\ There \in End
        BY <4>1, ClientEnds, TwoEnds DEF ClientSocket
      <4>. QED BY <4>1, <4>2, MayArrive
    <3>2. CASE ~IsServer(a)
      <4>1. s \in Own(a) /\ m.body \in Packet(a)
        BY <1>2, <3>2, OrderTells
      <4>2. s \in Socket /\ s[1] = a
        BY <4>1, SocketIs
      <4>3. There = Peer(s) /\ There \in ClientPeer /\ There \in End /\ There[1] = a
        BY <3>2, <4>2, TwoEnds DEF ClientSocket, ClientPeer
      <4>. QED BY <4>1, <4>3, MayArrive
    <3>. QED BY <3>1, <3>2
  <2>3. ArrivalsOK(Brought(arriving, There, "DATA", m.body))
    BY <2>2, ArrivalsBrought
  <2>. QED BY <2>1, <2>3, ArrivalsAre
<1>3. CASE m.op = "CLOSE"
  <2>. DEFINE f1 == Brought(arriving, There, "PEER_CLOSED", "none")
              f2 == Brought(f1, s, "CLOSED", "none")
              f3 == Brought(f2, There, "CLOSED", "none")
  <2>1. s \in Known(a)
    BY <1>3, OrderTells
  <2>2. s \in End /\ There \in End
    <3>1. CASE s \in Own(a)
      BY <3>1, SocketIs, TwoEnds
    <3>2. CASE s \in ClientPeer
      <4>1. There \in Socket
        BY <3>2, ClientEnds DEF ClientSocket
      <4>. QED BY <3>2, <4>1, ClientEnds, TwoEnds
    <3>. QED BY <2>1, <3>1, <3>2 DEF Known
  <2>3. arriving' = f1 \/ arriving' = f3
    BY <1>3 DEF transport, Brought
  <2>4. ArrivalsOK(f1)
    BY <2>2, MayArrive, ArrivalsBrought
  <2>. HIDE DEF f1
  <2>5. ArrivalsOK(f2)
    BY <2>2, <2>4, MayArrive, ArrivalsBrought
  <2>. HIDE DEF f2
  <2>6. ArrivalsOK(f3)
    BY <2>2, <2>5, MayArrive, ArrivalsBrought
  <2>. HIDE DEF f3
  <2>. QED BY <2>3, <2>4, <2>6, ArrivalsAre
<1>. QED BY <1>1, <1>2, <1>3

LEMMA OrderRead ==
  ASSUME NetInv, UNCHANGED programs, NEW a \in App, NEW op, Takes(a, op)
  PROVE  OrdersOK' /\ Head(toProxy[a]) \in OrdersOf(a) /\ Head(toProxy[a]).op = op
BY OrdersTaken DEF Takes, NetInv, programs

\* A step of the proxy keeps what it does not speak of.
LEMMA NetProxy ==
  ASSUME NetInv, UNCHANGED programs, OrdersOK', MailOK', ArrivalsOK(arriving)',
         ConnectionsOK', SessionsOK', TablesOK'
  PROVE  NetInv'
BY Stays DEF NetInv, programs

LEMMA NetHandOver ==
  ASSUME NetInv, UNCHANGED programs, NEW a \in App, handOver(a)
  PROVE  NetInv'
<1>. DEFINE m == Head(toProxy[a])
<1>1. PICK op \in {"OPEN_ACTIVE", "SEND", "CLOSE"} : Takes(a, op)
  BY DEF handOver
<1>2. transport(m) /\ UNCHANGED <<setup, proxyVars, toApp>>
  BY DEF handOver, programs
<1>3. OrdersOK' /\ m \in OrdersOf(a) /\ m.op = op
  BY <1>1, OrderRead
<1>. HIDE DEF m
<1>4. ArrivalsOK(arriving)'
  BY <1>1, <1>2, <1>3, TransportMoves DEF NetInv
<1>. QED BY <1>2, <1>3, <1>4, NetProxy, Stays DEF proxyVars

LEMMA NetInUse ==
  ASSUME NetInv, UNCHANGED programs, NEW a \in App, addressInUse(a)
  PROVE  NetInv'
<1>1. Takes(a, "OPEN_ACTIVE") /\ UNCHANGED <<setup, proxyVars, toApp, arriving>>
  BY DEF addressInUse, Stops, programs
<1>2. OrdersOK'
  BY <1>1, OrderRead
<1>. QED BY <1>1, <1>2, NetProxy, Stays DEF proxyVars

LEMMA NetPacket ==
  ASSUME NetInv, UNCHANGED programs, NEW a \in App, handleAppPacket(a)
  PROVE  NetInv'
<1>. DEFINE m == Head(toProxy[a])
<1>1. Takes(a, "SEND") /\ transport(m) /\ UNCHANGED <<setup, proxyVars, toApp>>
  BY DEF handleAppPacket, programs
<1>2. OrdersOK' /\ m \in OrdersOf(a) /\ m.op = "SEND"
  BY <1>1, OrderRead
<1>. HIDE DEF m
<1>3. ArrivalsOK(arriving)'
  BY <1>1, <1>2, TransportMoves DEF NetInv
<1>. QED BY <1>1, <1>2, <1>3, NetProxy, Stays DEF proxyVars

LEMMA NetOpen ==
  ASSUME NetInv, UNCHANGED programs, NEW a \in App, openSocket(a)
  PROVE  NetInv'
<1>. DEFINE m    == Head(toProxy[a])
            type == IF m.op = "OPEN_PASSIVE" THEN "EDGE" ELSE "PASSTHROUGH"
            n    == nodeOf[a]
            more == Emplaced(socketToConnectionMap[n], m.socket, connectionTo(a, type))
<1>1. PICK op \in {"OPEN_ACTIVE", "OPEN_PASSIVE"} : Takes(a, op)
  BY DEF openSocket
<1>2. \/ UNCHANGED <<proxyVars, toApp, arriving>>
      \/ /\ socketToConnectionMap' = [socketToConnectionMap EXCEPT ![n] = more]
         /\ \/ m.op # "OPEN_PASSIVE" /\ transport(m)
            \/ UNCHANGED arriving
         /\ UNCHANGED <<socketToSessionMap, serviceTable, toApp>>
  BY DEF openSocket, Stops
<1>3. OrdersOK' /\ m \in OrdersOf(a) /\ m.op = op /\ UNCHANGED setup
  BY <1>1, OrderRead DEF programs
<1>4. m.socket \in Socket /\ m.socket[1] = a
  BY <1>1, <1>3, OrderTells, SocketIs
<1>5. ASSUME socketToConnectionMap' = [socketToConnectionMap EXCEPT ![n] = more]
      PROVE  ConnectionsOK'
  <2>1. n \in Node
    BY StackConstants
  <2>2. /\ DOMAIN more = DOMAIN socketToConnectionMap[n] \cup {m.socket}
        /\ \A s \in DOMAIN more :
             more[s] = IF s \in DOMAIN socketToConnectionMap[n] THEN socketToConnectionMap[n][s]
                       ELSE connectionTo(a, type)
    BY DEF Emplaced
  <2>3. \A s : s[1] = a => connectionTo(a, type) \in ConnectionOf(s)
    BY DEF connectionTo, ConnectionOf
  <2>. HIDE DEF more, n, m, type
  <2>4. \A s \in DOMAIN more : s \in Socket /\ more[s] \in ConnectionOf(s)
    BY <1>4, <2>1, <2>2, <2>3 DEF NetInv, ConnectionsOK
  <2>. QED BY <1>5, <2>1, <2>4 DEF NetInv, ConnectionsOK
<1>. HIDE DEF m, n, type, more
<1>6. ASSUME m.op # "OPEN_PASSIVE", transport(m) PROVE ArrivalsOK(arriving)'
  BY <1>1, <1>3, <1>6, TransportMoves DEF NetInv
<1>. QED BY <1>2, <1>3, <1>5, <1>6, NetProxy, Stays DEF proxyVars

LEMMA NetRegisters ==
  ASSUME NetInv, UNCHANGED programs, NEW a \in App, handleServiceRequest(a)
  PROVE  NetInv'
<1>. DEFINE m   == Head(toProxy[a])
            n   == nodeOf[a]
            v   == m.body
            old == serviceTable[n]
            new == Registered(old, v, a)
<1>1. /\ Takes(a, "REGISTER")
      /\ serviceTable' = [serviceTable EXCEPT ![n] = new]
      /\ socketToConnectionMap' = [socketToConnectionMap EXCEPT ![n] =
           [socketToConnectionMap[n] EXCEPT ![m.socket] = Bound(socketToConnectionMap[n][m.socket])]]
      /\ UNCHANGED <<setup, socketToSessionMap, toApp, arriving>>
  BY DEF handleServiceRequest, programs
<1>2. OrdersOK' /\ IsServer(a) /\ v = serviceOf(a)
  BY <1>1, OrderRead, OrderTells
<1>3. n \in Node
  BY StackConstants
<1>4. v # "none" /\ a \in Offers(v)
  BY <1>2, ServicesConstants DEF NetInv, Offers, IsServer, kindOf, serviceOf
<1>5. TablesOK'
  <2>1. /\ DOMAIN new = DOMAIN old \cup {v}
        /\ \A w \in DOMAIN new :
             \/ w = v /\ (new[w] = <<a>> \/ (w \in DOMAIN old /\ new[w] = Append(old[w], a)))
             \/ w \in DOMAIN old /\ new[w] = old[w]
    <3>1. CASE v \in DOMAIN old
      BY <3>1 DEF Registered
    <3>2. CASE v \notin DOMAIN old
      <4>1. new = Emplaced(old, v, <<a>>)
        BY <3>2 DEF Registered
      <4>. HIDE DEF new
      <4>. QED BY <3>2, <4>1 DEF Emplaced
    <3>. QED BY <3>1, <3>2
  <2>2. \A w \in DOMAIN old : w # "none" /\ old[w] \in Seq(Offers(w))
    BY <1>3 DEF NetInv, TablesOK
  <2>3. <<a>> \in Seq(Offers(v)) /\ \A q \in Seq(Offers(v)) : Append(q, a) \in Seq(Offers(v))
    BY <1>4, OneOf, AppendProperties
  <2>. HIDE DEF new, old, v
  <2>4. \A w \in DOMAIN new : w # "none" /\ new[w] \in Seq(Offers(w))
    BY <1>4, <2>1, <2>2, <2>3
  <2>. HIDE DEF n
  <2>. QED BY <1>1, <1>3, <2>4, SameSetup DEF NetInv, TablesOK
<1>6. ConnectionsOK'
  <2>. DEFINE was == socketToConnectionMap[n]
              now == [was EXCEPT ![m.socket] = Bound(was[m.socket])]
  <2>1. socketToConnectionMap' = [socketToConnectionMap EXCEPT ![n] = now]
    BY <1>1
  <2>2. DOMAIN now = DOMAIN was /\ \A s \in DOMAIN was : now[s] \in ConnectionOf(s)
    <3>1. \A s \in DOMAIN was : was[s] \in ConnectionOf(s)
      BY <1>3 DEF NetInv, ConnectionsOK
    <3>2. \A s : \A c \in ConnectionOf(s) : Bound(c) \in ConnectionOf(s)
      BY DEF Bound, ConnectionOf
    <3>. HIDE DEF was, m
    <3>. QED BY <3>1, <3>2
  <2>3. DOMAIN was \subseteq Socket
    BY <1>3 DEF NetInv, ConnectionsOK
  <2>. HIDE DEF now, was, n
  <2>. QED BY <1>3, <2>1, <2>2, <2>3 DEF NetInv, ConnectionsOK
<1>. QED BY <1>1, <1>2, <1>5, <1>6, NetProxy, Stays

LEMMA SessionSet ==
  ASSUME NetInv, UNCHANGED setup, NEW n \in Node, NEW e \in DOMAIN socketToSessionMap[n],
         NEW session \in SessionOf(e),
         socketToSessionMap' = [socketToSessionMap EXCEPT ![n] =
           [socketToSessionMap[n] EXCEPT ![e] = session]]
  PROVE  SessionsOK'
<1>. DEFINE was == socketToSessionMap[n]
            now == [was EXCEPT ![e] = session]
<1>1. socketToSessionMap' = [socketToSessionMap EXCEPT ![n] = now]
  OBVIOUS
<1>2. DOMAIN was \subseteq ClientPeer /\ \A x \in DOMAIN was : was[x] \in SessionOf(x)
  BY DEF NetInv, SessionsOK
<1>. HIDE DEF was
<1>3. DOMAIN now \subseteq ClientPeer /\ \A x \in DOMAIN now : now[x] \in SessionOf(x)
  BY <1>2
<1>. HIDE DEF now
<1>. QED BY <1>1, <1>3, SameSetup DEF NetInv, SessionsOK

LEMMA NetAccepts ==
  ASSUME NetInv, UNCHANGED programs, NEW a \in App, acceptSession(a)
  PROVE  NetInv'
<1>. DEFINE m       == Head(toProxy[a])
            n       == nodeOf[a]
            session == socketToSessionMap[n][m.socket]
<1>1. /\ Takes(a, "ACCEPT") /\ UNCHANGED setup
      /\ \/ UNCHANGED <<proxyVars, toApp, arriving>>
         \/ /\ m.socket \in DOMAIN socketToSessionMap[n]
            /\ socketToSessionMap' = [socketToSessionMap EXCEPT ![n] =
                 [socketToSessionMap[n] EXCEPT ![m.socket] = setSessionEstablished(session)]]
            /\ toApp' = [toApp EXCEPT ![session.app] = @ \o session.queue]
            /\ UNCHANGED <<socketToConnectionMap, serviceTable, arriving>>
  BY DEF acceptSession, Stops, programs, flushed
<1>2. OrdersOK'
  BY <1>1, OrderRead
<1>3. n \in Node
  BY StackConstants
<1>4. CASE UNCHANGED <<proxyVars, toApp, arriving>>
  BY <1>1, <1>2, <1>4, NetProxy, Stays DEF proxyVars
<1>5. CASE /\ m.socket \in DOMAIN socketToSessionMap[n]
           /\ socketToSessionMap' = [socketToSessionMap EXCEPT ![n] =
                [socketToSessionMap[n] EXCEPT ![m.socket] = setSessionEstablished(session)]]
           /\ toApp' = [toApp EXCEPT ![session.app] = @ \o session.queue]
           /\ UNCHANGED <<socketToConnectionMap, serviceTable, arriving>>
  <2>. DEFINE e == m.socket
  <2>1. session \in SessionOf(e) /\ e \in ClientPeer
    BY <1>3, <1>5 DEF NetInv, SessionsOK
  <2>2. setSessionEstablished(session) \in SessionOf(e)
    BY <2>1, EmptySeq DEF setSessionEstablished, SessionOf
  <2>3. SessionsOK'
    BY <1>1, <1>3, <1>5, <2>2, SessionSet
  <2>. HIDE DEF e, session
  <2>4. session.queue \in Seq(DataOn({e}, Packet(e[1])))
        /\ (session.app \in App => Serves(session.app, e[1]))
    BY <2>1, ServicesConstants DEF SessionOf
  <2>5. session.app \in App => session.queue \in Seq(MailOf(session.app))
    <3>1. SUFFICES ASSUME session.app \in App PROVE session.queue \in Seq(MailOf(session.app))
      OBVIOUS
    <3>2. DataOn({e}, Packet(e[1])) \subseteq MailOf(session.app)
      BY <2>1, <2>4, <3>1 DEF Serves, MailOf, Packet, DataOn
    <3>. QED BY <2>4, <3>2, SeqMonotonic
  <2>6. MailOK'
    BY <1>1, <1>5, <2>5, MailSent DEF NetInv, session
  <2>. QED BY <1>1, <1>2, <1>5, <2>3, <2>6, NetProxy, Stays
<1>. QED BY <1>1, <1>4, <1>5

LEMMA WithoutKeeps ==
  ASSUME NEW map, NEW k
  PROVE  /\ DOMAIN Without(map, k) \subseteq DOMAIN map
         /\ \A x \in DOMAIN Without(map, k) : Without(map, k)[x] = map[x]
BY DEF Without

LEMMA NetCloses ==
  ASSUME NetInv, UNCHANGED programs, NEW a \in App, closeSocket(a)
  PROVE  NetInv'
<1>. DEFINE m == Head(toProxy[a])
            n == nodeOf[a]
<1>1. Takes(a, "CLOSE") /\ UNCHANGED setup
  BY DEF closeSocket, programs
<1>2. \/ UNCHANGED <<proxyVars, toApp, arriving>>
      \/ /\ socketToConnectionMap' = [socketToConnectionMap EXCEPT ![n] =
              Without(socketToConnectionMap[n], m.socket)]
         /\ UNCHANGED <<socketToSessionMap, serviceTable, arriving, toApp>>
      \/ /\ transport(m)
         /\ socketToSessionMap' = [socketToSessionMap EXCEPT ![n] =
              Without(socketToSessionMap[n], m.socket)]
         /\ UNCHANGED <<socketToConnectionMap, serviceTable, toApp>>
  <2>. DEFINE cs == socketToConnectionMap[n]
  <2>1. CASE m.socket \in DOMAIN cs /\ cs[m.socket].type = "EDGE"
    BY <2>1 DEF closeSocket, Stops
  <2>2. CASE m.socket \in DOMAIN cs /\ cs[m.socket].type = "PASSTHROUGH"
    BY <2>2 DEF closeSocket
  <2>3. CASE m.socket \notin DOMAIN cs /\ m.socket \in DOMAIN socketToSessionMap[n]
    BY <2>3 DEF closeSocket
  <2>4. CASE m.socket \notin DOMAIN cs /\ m.socket \notin DOMAIN socketToSessionMap[n]
    BY <2>4 DEF closeSocket, Stops
  <2>5. m.socket \in DOMAIN cs => cs[m.socket].type \in {"EDGE", "PASSTHROUGH"}
    BY StackConstants DEF NetInv, ConnectionsOK, ConnectionOf
  <2>. QED BY <2>1, <2>2, <2>3, <2>4, <2>5
<1>3. OrdersOK' /\ m \in OrdersOf(a) /\ m.op = "CLOSE"
  BY <1>1, OrderRead
<1>4. n \in Node
  BY StackConstants
<1>5. CASE UNCHANGED <<proxyVars, toApp, arriving>>
  BY <1>1, <1>3, <1>5, NetProxy, Stays DEF proxyVars
<1>6. CASE /\ socketToConnectionMap' = [socketToConnectionMap EXCEPT ![n] =
                Without(socketToConnectionMap[n], m.socket)]
           /\ UNCHANGED <<socketToSessionMap, serviceTable, arriving, toApp>>
  <2>. HIDE DEF n, m
  <2>1. ConnectionsOK'
    BY <1>4, <1>6, WithoutKeeps DEF NetInv, ConnectionsOK
  <2>. QED BY <1>1, <1>3, <1>6, <2>1, NetProxy, Stays
<1>7. CASE /\ transport(m)
           /\ socketToSessionMap' = [socketToSessionMap EXCEPT ![n] =
                Without(socketToSessionMap[n], m.socket)]
           /\ UNCHANGED <<socketToConnectionMap, serviceTable, toApp>>
  <2>. HIDE DEF n, m
  <2>1. SessionsOK'
    BY <1>1, <1>4, <1>7, WithoutKeeps, SameSetup DEF NetInv, SessionsOK
  <2>2. ArrivalsOK(arriving)'
    BY <1>1, <1>3, <1>7, TransportMoves DEF NetInv
  <2>. QED BY <1>1, <1>3, <1>7, <2>1, <2>2, NetProxy, Stays
<1>. QED BY <1>2, <1>5, <1>6, <1>7

LEMMA NetTakes ==
  ASSUME NetInv, NEW a \in App, ProxyTakes(a)
  PROVE  NetInv'
<1>1. UNCHANGED programs
  <2>1. UNCHANGED <<setup, clientVars, controllerVars, serverVars>>
    BY DEF ProxyTakes
  <2>2. \E op : Takes(a, op)
    BY DEF ProxyTakes, FromApp, handOver, openSocket, handleAppPacket, handleServiceRequest,
       acceptSession, closeSocket, addressInUse
  <2>3. UNCHANGED socketVars
    BY <2>2 DEF Takes
  <2>. QED BY <2>1, <2>3 DEF clientVars, controllerVars, serverVars, socketVars, programs
<1>. QED BY <1>1, NetHandOver, NetOpen, NetInUse, NetPacket, NetRegisters, NetAccepts, NetCloses
         DEF ProxyTakes, FromApp

-----------------------------------------------------------------------------
(* What TCP brings *)

LEMMA ArrivalRead ==
  ASSUME NetInv, UNCHANGED setup, NEW e \in End, NEW kinds, Arrives(e, kinds)
  PROVE  /\ Head(arriving[e]) \in Incoming(e) /\ Head(arriving[e]).kind \in kinds
         /\ ArrivalsOK(Taken(e))
         /\ arriving' = Taken(e) => ArrivalsOK(arriving)'
<1>1. Head(arriving[e]) \in Incoming(e) /\ ArrivalsOK(Taken(e))
  BY ArrivalTaken DEF Arrives, NetInv
<1>. QED BY <1>1, ArrivalsAre DEF Arrives

\* A message of TCP leaves what the applications have asked for alone.
LEMMA NetTcp ==
  ASSUME NetInv, UNCHANGED <<programs, toProxy>>, MailOK', ArrivalsOK(arriving)',
         UNCHANGED <<socketToConnectionMap, serviceTable>>, SessionsOK'
  PROVE  NetInv'
BY Stays DEF NetInv, programs

LEMMA NetHandUp ==
  ASSUME NetInv, UNCHANGED programs, NEW a \in App, NEW e \in End, handUp(a, e)
  PROVE  NetInv'
<1>1. /\ e \in Socket /\ e[1] = a
      /\ Arrives(e, {"ESTABLISHED", "FAILURE", "DATA", "PEER_CLOSED", "CLOSED"})
      /\ Forwarded(a, Head(arriving[e])) /\ arriving' = Taken(e)
      /\ UNCHANGED <<setup, proxyVars, toProxy>>
  BY DEF handUp, programs
<1>2. Head(arriving[e]) \in MailOf(a) /\ ArrivalsOK(arriving)'
  BY <1>1, ArrivalRead, OwnMail
<1>3. MailOK'
  BY <1>1, <1>2, MailForwarded DEF NetInv
<1>. QED BY <1>1, <1>2, <1>3, NetTcp, Stays DEF proxyVars

LEMMA NetToConnection ==
  ASSUME NetInv, UNCHANGED programs, NEW a \in App, NEW e \in End, forwardToConnection(a, e)
  PROVE  NetInv'
<1>. DEFINE connection == socketToConnectionMap[nodeOf[a]][e]
<1>1. /\ e \in Socket /\ e[1] = a
      /\ Arrives(e, {"ESTABLISHED", "FAILURE", "DATA", "PEER_CLOSED", "CLOSED"})
      /\ \/ /\ e \in DOMAIN socketToConnectionMap[nodeOf[a]]
            /\ Forwarded(connection.app, Head(arriving[e])) /\ arriving' = Taken(e)
         \/ UNCHANGED <<toApp, arriving>>
      /\ UNCHANGED <<setup, proxyVars, toProxy>>
  BY DEF forwardToConnection, programs
<1>2. e \in DOMAIN socketToConnectionMap[nodeOf[a]] => connection.app = a
  BY <1>1, StackConstants DEF NetInv, ConnectionsOK, ConnectionOf
<1>3. /\ Head(arriving[e]) \in MailOf(a)
      /\ arriving' = Taken(e) => ArrivalsOK(arriving)'
  BY <1>1, ArrivalRead, OwnMail
<1>. HIDE DEF connection
<1>4. MailOK' /\ ArrivalsOK(arriving)'
  BY <1>1, <1>2, <1>3, MailForwarded, Stays DEF NetInv
<1>. QED BY <1>1, <1>4, NetTcp, Stays DEF proxyVars

LEMMA NetAccept ==
  ASSUME NetInv, UNCHANGED programs, NEW n \in Node, NEW e \in End, e = ServerSocket(n), accept(n)
  PROVE  NetInv'
<1>. DEFINE c    == Head(arriving[e]).body
            was  == socketToSessionMap[n]
            more == Emplaced(was, c, NewSession)
<1>1. /\ Arrives(e, {"AVAILABLE"}) /\ arriving' = Taken(e)
      /\ socketToSessionMap' = [socketToSessionMap EXCEPT ![n] = more]
      /\ UNCHANGED <<setup, socketToConnectionMap, serviceTable, toProxy, toApp>>
  BY DEF accept, programs
<1>2. c \in ClientPeer /\ ArrivalsOK(arriving)'
  <2>1. /\ Head(arriving[e]) \in Incoming(e) /\ Head(arriving[e]).kind = "AVAILABLE"
        /\ ArrivalsOK(arriving)'
    BY <1>1, ArrivalRead
  <2>. QED BY <2>1, ArrivalTells
<1>3. NewSession \in SessionOf(c)
  BY EmptySeq DEF NewSession, SessionOf
<1>4. DOMAIN was \subseteq ClientPeer /\ \A x \in DOMAIN was : was[x] \in SessionOf(x)
  BY DEF NetInv, SessionsOK
<1>. HIDE DEF c, was
<1>5. DOMAIN more \subseteq ClientPeer /\ \A x \in DOMAIN more : more[x] \in SessionOf(x)
  BY <1>2, <1>3, <1>4 DEF Emplaced
<1>. HIDE DEF more
<1>6. SessionsOK'
  BY <1>1, <1>5, SameSetup DEF NetInv, SessionsOK
<1>. QED BY <1>1, <1>2, <1>6, NetTcp, Stays

\* What a session gives its application.
LEMMA SessionForwards ==
  ASSUME NetInv, UNCHANGED setup, NEW n \in Node, NEW e \in DOMAIN socketToSessionMap[n],
         NEW m \in Incoming(e), m.kind # "AVAILABLE", Forwarded(Session(n, e).app, m)
  PROVE  MailOK'
<1>. DEFINE b == Session(n, e).app
<1>1. e \in ClientPeer /\ Session(n, e) \in SessionOf(e)
  BY DEF NetInv, SessionsOK, Session
<1>2. b \in App => Serves(b, e[1])
  BY <1>1, ServicesConstants DEF SessionOf
<1>. HIDE DEF b
<1>3. b \in App => m \in MailOf(b)
  BY <1>1, <1>2, SessionMail
<1>. QED BY <1>3, MailForwarded DEF NetInv, b

LEMMA NetIndication ==
  ASSUME NetInv, UNCHANGED programs, NEW n \in Node, NEW e \in End, handleSessionIndication(n, e)
  PROVE  NetInv'
<1>. DEFINE m == Head(arriving[e])
<1>1. /\ e \in DOMAIN socketToSessionMap[n]
      /\ Arrives(e, {"ESTABLISHED", "PEER_CLOSED", "CLOSED"})
      /\ UNCHANGED <<setup, proxyVars, toProxy>>
  BY DEF handleSessionIndication, ArrivesInSession, programs
<1>2. /\ Forwarded(Session(n, e).app, m) \/ UNCHANGED toApp
      /\ arriving' = Taken(e) \/ UNCHANGED arriving
  <2>1. CASE Session(n, e).state = "ESTABLISHED"
    BY <2>1 DEF handleSessionIndication
  <2>2. CASE Session(n, e).state # "ESTABLISHED" /\ m.kind = "ESTABLISHED"
    BY <2>2 DEF handleSessionIndication
  <2>3. CASE Session(n, e).state # "ESTABLISHED" /\ m.kind # "ESTABLISHED"
    BY <2>3 DEF handleSessionIndication
  <2>. QED BY <2>1, <2>2, <2>3
<1>3. m \in Incoming(e) /\ m.kind # "AVAILABLE" /\ (arriving' = Taken(e) => ArrivalsOK(arriving)')
  BY <1>1, ArrivalRead
<1>. HIDE DEF m
<1>4. MailOK' /\ ArrivalsOK(arriving)'
  BY <1>1, <1>2, <1>3, SessionForwards, Stays
<1>. QED BY <1>1, <1>4, NetTcp, Stays DEF proxyVars

\* The first request chooses an application that offers the service it names.
LEMMA NetSessionStarts ==
  ASSUME NetInv, UNCHANGED programs, NEW n \in Node, NEW e \in End, handleSessionInitialize(n, e)
  PROVE  NetInv'
<1>. DEFINE packet == Head(arriving[e])
            v      == getServiceName(packet)
            old    == socketToSessionMap[n][e]
<1>1. /\ e \in DOMAIN socketToSessionMap[n] /\ Arrives(e, {"DATA"})
      /\ v \in DOMAIN serviceTable[n]
      /\ UNCHANGED <<setup, socketToConnectionMap, serviceTable, toProxy>>
  BY DEF handleSessionInitialize, ArrivesInSession, programs
<1>2. PICK i \in DOMAIN serviceTable[n][v] :
        \/ UNCHANGED <<socketToSessionMap, toApp, arriving>>
        \/ \E s \in findConnection(n, serviceTable[n][v][i]) :
             /\ socketToSessionMap' = [socketToSessionMap EXCEPT ![n] =
                  [socketToSessionMap[n] EXCEPT ![e] =
                     setSessionPending(old, socketToConnectionMap[n][s].app, packet)]]
             /\ Forwarded(socketToConnectionMap[n][s].app, Indication("AVAILABLE", s, e))
             /\ arriving' = Taken(e)
  BY DEF handleSessionInitialize
<1>3. /\ e \in ClientPeer /\ e \notin Socket /\ old \in SessionOf(e)
      /\ packet \in Incoming(e) /\ packet.kind = "DATA"
      /\ arriving' = Taken(e) => ArrivalsOK(arriving)'
  BY <1>1, ArrivalRead, ClientEnds DEF NetInv, SessionsOK
<1>4. packet \in DataOn({e}, Packet(e[1]))
  BY <1>3, ArrivalTells DEF ClientSocket
<1>. DEFINE b == serviceTable[n][v][i]
<1>5. v # "none" /\ b \in Offers(v)
  <2>1. v # "none" /\ serviceTable[n][v] \in Seq(Offers(v))
    BY <1>1 DEF NetInv, TablesOK
  <2>. HIDE DEF v
  <2>. QED BY <1>2, <2>1, ElementOfSeq, LenProperties
<1>6. b \in App /\ IsServer(b) /\ serviceOf(b) = v /\ v = serviceOf(e[1]) /\ Serves(b, e[1])
  <2>1. v \in {"none", serviceOf(e[1])}
    BY <1>4 DEF DataOn, Packet, getServiceName
  <2>. HIDE DEF v, b
  <2>. QED BY <1>5, <2>1 DEF Offers, Serves
<1>7. CASE UNCHANGED <<socketToSessionMap, toApp, arriving>>
  BY <1>1, <1>7, NetTcp, Stays
<1>8. ASSUME NEW s \in findConnection(n, b),
             socketToSessionMap' = [socketToSessionMap EXCEPT ![n] =
               [socketToSessionMap[n] EXCEPT ![e] =
                  setSessionPending(old, socketToConnectionMap[n][s].app, packet)]],
             Forwarded(socketToConnectionMap[n][s].app, Indication("AVAILABLE", s, e)),
             arriving' = Taken(e)
      PROVE  NetInv'
  <2>1. socketToConnectionMap[n][s].app = b /\ s \in Own(b)
    <3>1. /\ s \in DOMAIN socketToConnectionMap[n] /\ socketToConnectionMap[n][s].app = b
      BY <1>8 DEF findConnection, findConnectionByPort
    <3>2. s \in Socket /\ s[1] = b
      BY <3>1 DEF NetInv, ConnectionsOK, ConnectionOf
    <3>. QED BY <3>1, <3>2, TwoEnds
  <2>. HIDE DEF b, v, packet, old
  <2>2. setSessionPending(old, b, packet) \in SessionOf(e)
    <3>1. <<packet>> \in Seq(DataOn({e}, Packet(e[1])))
      BY <1>4, OneOf
    <3>. QED BY <1>3, <1>6, <3>1 DEF setSessionPending, SessionOf
  <2>3. SessionsOK'
    BY <1>1, <1>8, <2>1, <2>2, SessionSet
  <2>4. Indication("AVAILABLE", s, e) \in MailOf(b)
    BY <1>3, <1>6, <2>1 DEF Indication, MailOf, Offered
  <2>5. MailOK'
    BY <1>1, <1>8, <2>1, <2>4, MailForwarded DEF NetInv
  <2>. QED BY <1>1, <1>3, <1>8, <2>3, <2>5, NetTcp
<1>. QED BY <1>2, <1>7, <1>8

LEMMA NetUnavailable ==
  ASSUME NetInv, UNCHANGED programs, NEW n \in Node, NEW e \in End, sendServiceUnavailable(n, e)
  PROVE  NetInv'
<1>. DEFINE There == OtherEnd(e)
<1>1. /\ e \in DOMAIN socketToSessionMap[n] /\ Arrives(e, {"DATA"})
      /\ arriving' = Brought(Taken(e), There, "DATA", unavailable) \/ UNCHANGED arriving
      /\ UNCHANGED <<setup, proxyVars, toProxy, toApp>>
  BY DEF sendServiceUnavailable, ArrivesInSession, programs, Brought
<1>2. There \in ClientSocket /\ There \in End
  <2>1. e \in ClientPeer
    BY <1>1 DEF NetInv, SessionsOK
  <2>. QED BY <2>1, ClientEnds, TwoEnds DEF ClientSocket
<1>3. Indication("DATA", There, unavailable) \in Incoming(There)
  BY <1>2, MayArrive DEF Answer
<1>4. ArrivalsOK(Brought(Taken(e), There, "DATA", unavailable))
  BY <1>1, <1>2, <1>3, ArrivalRead, ArrivalsBrought
<1>5. ArrivalsOK(arriving)'
  BY <1>1, <1>4, ArrivalsAre, Stays
<1>. QED BY <1>1, <1>5, NetTcp, Stays DEF proxyVars

LEMMA NetTransportPacket ==
  ASSUME NetInv, UNCHANGED programs, NEW n \in Node, NEW e \in End, handleTransportPacket(n, e)
  PROVE  NetInv'
<1>. DEFINE m    == Head(arriving[e])
            old  == socketToSessionMap[n][e]
            held == [old EXCEPT !.queue = Append(old.queue, m)]
<1>1. /\ e \in DOMAIN socketToSessionMap[n] /\ Arrives(e, {"DATA"}) /\ arriving' = Taken(e)
      /\ \/ /\ socketToSessionMap' = [socketToSessionMap EXCEPT ![n] =
                 [socketToSessionMap[n] EXCEPT ![e] = held]]
            /\ UNCHANGED toApp
         \/ Forwarded(Session(n, e).app, m) /\ UNCHANGED socketToSessionMap
      /\ UNCHANGED <<setup, socketToConnectionMap, serviceTable, toProxy>>
  BY DEF handleTransportPacket, ArrivesInSession, programs
<1>2. /\ e \in ClientPeer /\ e \notin Socket /\ old \in SessionOf(e)
      /\ m \in Incoming(e) /\ m.kind = "DATA" /\ ArrivalsOK(arriving)'
  BY <1>1, ArrivalRead, ClientEnds DEF NetInv, SessionsOK
<1>3. m \in DataOn({e}, Packet(e[1]))
  BY <1>2, ArrivalTells DEF ClientSocket
<1>. HIDE DEF m, old
<1>4. held \in SessionOf(e)
  <2>1. Append(old.queue, m) \in Seq(DataOn({e}, Packet(e[1])))
    BY <1>2, <1>3, AppendProperties DEF SessionOf
  <2>. QED BY <1>2, <2>1 DEF SessionOf
<1>. HIDE DEF held
<1>5. SessionsOK'
  BY <1>1, <1>4, SessionSet, Stays
<1>6. MailOK'
  BY <1>1, <1>2, SessionForwards, Stays
<1>. QED BY <1>1, <1>2, <1>5, <1>6, NetTcp

LEMMA NetDelivers ==
  ASSUME NetInv, NEW e \in End, TcpDelivers(e)
  PROVE  NetInv'
<1>1. /\ FromTcp(e) /\ UNCHANGED <<setup, clientVars, controllerVars, serverVars>>
  BY DEF TcpDelivers
<1>2. UNCHANGED socketVars
  BY <1>1 DEF FromTcp, handUp, forwardToConnection, accept, handleSessionIndication,
     handleSessionInitialize, sendServiceUnavailable, handleTransportPacket, arrivesLate
<1>3. UNCHANGED programs
  BY <1>1, <1>2 DEF clientVars, controllerVars, serverVars, socketVars, programs
<1>4. CASE arrivesLate(e)
  BY <1>3, <1>4, NetTcp, Stays DEF arrivesLate, proxyVars, programs
<1>. QED BY <1>1, <1>3, <1>4, NetHandUp, NetToConnection, NetAccept, NetIndication,
         NetSessionStarts, NetUnavailable, NetTransportPacket DEF FromTcp

-----------------------------------------------------------------------------
(* Requests reach an application that offers what they ask for *)

LEMMA NetStarts ==
  ASSUME Init
  PROVE  NetInv
<1>1. setup \in Setups /\ EndpointsInit /\ StackInit
  BY DEF Init, EndpointsInit
<1>2. \A S : <<>> \in Seq(S)
  BY EmptySeq
<1>3. SocketsOK
  BY <1>1, StackConstants DEF StackInit, EndpointsInit, SocketsOK
<1>4. SendersOK
  BY <1>1 DEF EndpointsInit, SendersOK, Sends
<1>5. DebtsOK
  BY <1>1 DEF EndpointsInit, DebtsOK, EmptyBag, SetToBag
<1>6. ConnectionsOK /\ SessionsOK /\ TablesOK
  BY <1>1 DEF StackInit, ConnectionsOK, SessionsOK, TablesOK
<1>7. OrdersOK /\ MailOK /\ ArrivalsOK(arriving)
  BY <1>1, <1>2 DEF StackInit, OrdersOK, MailOK, ArrivalsOK
<1>. QED BY <1>1, <1>3, <1>4, <1>5, <1>6, <1>7 DEF NetInv

LEMMA NetKept ==
  ASSUME NetInv, [Next]_vars
  PROVE  NetInv'
<1>1. CASE UNCHANGED <<setup, endpointVars>>
  BY <1>1, Stays DEF NetInv, endpointVars, socketVars, networkVars, proxyVars, clientVars,
     controllerVars, serverVars
<1>2. ASSUME NEW a \in App, AppAnswers(a) \/ ProxyTakes(a) \/ TileStep(a) \/ Requested(a)
      PROVE  NetInv'
  BY <1>2, NetHandles, NetActs, NetTakes, NetTile, NetNamed, NetClose DEF AppAnswers, Requested
<1>3. ASSUME NEW e \in End, TcpDelivers(e) PROVE NetInv'
  BY <1>3, NetDelivers
<1>4. ASSUME NEW t \in Topic, QueueDelivers(t) PROVE UNCHANGED <<setup, endpointVars>>
  BY <1>4 DEF QueueDelivers
<1>5. CASE UNCHANGED vars
  <2>1. UNCHANGED <<setup, endpointVars>>
    BY <1>5 DEF vars
  <2>. QED BY <1>1, <2>1
<1>. QED BY <1>1, <1>2, <1>3, <1>4, <1>5 DEF Next

LEMMA NetServesRight ==
  ASSUME NetInv
  PROVE  RightService
<1>1. SUFFICES ASSUME NEW a \in App, NEW i \in DOMAIN toApp[a],
                      IsServer(a), toApp[a][i].kind = "DATA", toApp[a][i].body.host # "none"
               PROVE  toApp[a][i].body.host = serviceOf(a)
  BY DEF RightService
<1>2. toApp[a][i] \in MailOf(a)
  <2>1. toApp[a] \in Seq(MailOf(a))
    BY DEF NetInv, MailOK
  <2>. QED BY <2>1, ElementOfSeq, LenProperties
<1>3. toApp[a][i].body \in Packet(a)
  BY <1>1, <1>2, MailTells
<1>. QED BY <1>1, <1>3 DEF Packet

\* A request for a service is only given to an application that offers it,
\* whichever application the proxy binds the session to, and however the
\* registrations and the sessions at the shared port interleave
\* (AppProxy::handleTransportPacket, handleTransportIndication).
THEOREM RequestsReachTheirService == Spec => []RightService
<1>1. Init => NetInv
  BY NetStarts
<1>2. NetInv /\ [Next]_vars => NetInv'
  BY NetKept
<1>3. NetInv => RightService
  BY NetServesRight
<1>. QED BY <1>1, <1>2, <1>3, PTL DEF Spec
=============================================================================
