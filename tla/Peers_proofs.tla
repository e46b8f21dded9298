---------------------------- MODULE Peers_proofs ----------------------------
(***************************************************************************)
(* What holds of a peer-to-peer network of any nodes: the tables of a node *)
(* and of its peers agree, and the simulation stops for no other reasons   *)
(* than those given.                                                       *)
(***************************************************************************)
EXTENDS Peers, DataLemmas

-----------------------------------------------------------------------------
(* What a socket has received *)

Types ==
  {"ESTABLISHED", "FAILURE", "version", "verack", "getaddr", "addr", "ping", "pong"}
Letter == {m \in [type : Types, addresses : SUBSET Address] :
             m.type # "addr" => m.addresses = {}}

Has(box, type) == \E i \in DOMAIN box : box[i].type = type
Single(box, type) ==
  \A i, j \in DOMAIN box : box[i].type = type /\ box[j].type = type => i = j
\* TCP reports the connection before anything else.
FirstOnly(box) == \A i \in DOMAIN box : box[i].type = "ESTABLISHED" => i = 1

\* What is left of a box whose first messages were read as one.
Left(left, box) ==
  /\ left \in Seq(Letter)
  /\ \A type : Has(left, type) => Has(box, type)
  /\ \A type : Single(box, type) => Single(left, type)
  /\ Single(box, Head(box).type) => ~Has(left, Head(box).type)
  /\ FirstOnly(box) => FirstOnly(left) /\ ~Has(left, "ESTABLISHED")
  /\ \A i \in DOMAIN left : \E j \in DOMAIN box : left[i] = box[j]

LEMMA LeftIs ==
  ASSUME NEW box \in Seq(Letter), NEW k \in 1..Len(box)
  PROVE  Left(SubSeq(box, k + 1, Len(box)), box)
<1>. DEFINE left == SubSeq(box, k + 1, Len(box))
<1>1. /\ left \in Seq(Letter) /\ Len(left) = Len(box) - k /\ DOMAIN left = 1..(Len(box) - k)
      /\ \A i \in 1..(Len(box) - k) : left[i] = box[i + k]
  OBVIOUS
<1>2. /\ DOMAIN box = 1..Len(box) /\ Len(box) \in Nat /\ Head(box) = box[1]
      /\ \A i \in DOMAIN left :
           i + k \in DOMAIN box /\ i + k # 1 /\ left[i] = box[i + k] /\ i \in Nat
      /\ 1 \in DOMAIN box
  BY <1>1
<1>. HIDE DEF left
<1>3. \A type : Has(left, type) => Has(box, type)
  BY <1>2 DEF Has
<1>4. \A type : Single(box, type) => Single(left, type)
  <2>. SUFFICES ASSUME NEW type, Single(box, type), NEW i \in DOMAIN left, NEW j \in DOMAIN left,
                       left[i].type = type, left[j].type = type
                PROVE  i = j
    BY DEF Single
  <2>1. i + k = j + k
    BY <1>2 DEF Single
  <2>. QED  BY <1>2, <2>1
<1>5. Single(box, Head(box).type) => ~Has(left, Head(box).type)
  BY <1>2 DEF Has, Single
<1>6. FirstOnly(box) => FirstOnly(left) /\ ~Has(left, "ESTABLISHED")
  BY <1>2 DEF FirstOnly, Has
<1>. QED  BY <1>1, <1>2, <1>3, <1>4, <1>5, <1>6 DEF Left, left

LEMMA TailIsLeft ==
  ASSUME NEW box \in Seq(Letter), box # <<>>
  PROVE  Left(Tail(box), box)
<1>1. 1 \in 1..Len(box) /\ Tail(box) = SubSeq(box, 1 + 1, Len(box))
  OBVIOUS
<1>. QED  BY <1>1, LeftIs

\* A box that got one more message.
Grown(grown, box, m) ==
  /\ grown \in Seq(Letter) /\ grown # <<>>
  /\ \A type : Has(grown, type) <=> Has(box, type) \/ m.type = type
  /\ \A type : (m.type = type => ~Has(box, type)) /\ Single(box, type) => Single(grown, type)
  /\ (m.type = "ESTABLISHED" => box = <<>>) /\ FirstOnly(box) => FirstOnly(grown)
  /\ \A i \in DOMAIN grown : grown[i] = m \/ \E j \in DOMAIN box : grown[i] = box[j]

LEMMA GrownIs ==
  ASSUME NEW box \in Seq(Letter), NEW m \in Letter
  PROVE  Grown(box \o <<m>>, box, m)
<1>. DEFINE grown == box \o <<m>>
            n == Len(box)
<1>1. /\ grown \in Seq(Letter) /\ n \in Nat /\ DOMAIN grown = 1..(n + 1) /\ DOMAIN box = 1..n
      /\ \A i \in 1..n : grown[i] = box[i]
      /\ grown[n + 1] = m
  OBVIOUS
<1>2. /\ \A i \in DOMAIN grown : i # n + 1 => i \in DOMAIN box /\ grown[i] = box[i]
      /\ n + 1 \in DOMAIN grown /\ \A i \in DOMAIN box : i \in DOMAIN grown /\ grown[i] = box[i]
  BY <1>1
<1>3. grown # <<>> /\ (box = <<>> => n + 1 = 1)
  BY <1>1
<1>. HIDE DEF grown, n
<1>4. \A type : Has(grown, type) <=> Has(box, type) \/ m.type = type
  BY <1>1, <1>2 DEF Has
<1>5. \A type : (m.type = type => ~Has(box, type)) /\ Single(box, type) => Single(grown, type)
  <2>. SUFFICES ASSUME NEW type, m.type = type => ~Has(box, type), Single(box, type),
                       NEW i \in DOMAIN grown, NEW j \in DOMAIN grown,
                       grown[i].type = type, grown[j].type = type
                PROVE  i = j
    BY DEF Single
  <2>. QED  BY <1>1, <1>2 DEF Has, Single
<1>6. (m.type = "ESTABLISHED" => box = <<>>) /\ FirstOnly(box) => FirstOnly(grown)
  BY <1>1, <1>2, <1>3 DEF FirstOnly
<1>. QED  BY <1>1, <1>2, <1>3, <1>4, <1>5, <1>6 DEF Grown, grown

-----------------------------------------------------------------------------
(* How a connection is introduced: at either end, first it is reported,    *)
(* then the version this end sent is on its way to the other, then the     *)
(* verack is on its way back.  Pings start after that.                     *)

Opening(here, there) ==
  Has(here, "ESTABLISHED") \/ Has(here, "verack") \/ Has(there, "version")
InStep(here, there, kept, idle) ==
  /\ FirstOnly(here) /\ Single(here, "verack") /\ Single(there, "version")
  /\ Has(here, "ESTABLISHED") => ~Has(here, "verack") /\ ~Has(there, "version")
  /\ Has(here, "verack") => ~Has(there, "version") /\ kept
  /\ Has(there, "version") => kept
  /\ Opening(here, there) => ~Has(here, "pong") /\ ~Has(there, "ping") /\ (kept => idle)

\* Reading what arrived, at either end, starts no step of the introduction.
LEMMA ReadHere ==
  ASSUME NEW a, NEW b, NEW kept, NEW idle, NEW left,
         InStep(a, b, kept, idle), Left(left, a)
  PROVE  InStep(left, b, kept, idle)
<1>1. /\ Has(left, "ESTABLISHED") => Has(a, "ESTABLISHED")
      /\ Has(left, "verack") => Has(a, "verack")
      /\ Has(left, "pong") => Has(a, "pong")
      /\ FirstOnly(a) => FirstOnly(left)
      /\ Single(a, "verack") => Single(left, "verack")
  BY Zenon DEF Left
<1>. QED  BY <1>1, Zenon DEF InStep, Opening

LEMMA ReadThere ==
  ASSUME NEW a, NEW b, NEW kept, NEW idle, NEW left,
         InStep(a, b, kept, idle), Left(left, b)
  PROVE  InStep(a, left, kept, idle)
<1>1. /\ Has(left, "version") => Has(b, "version")
      /\ Has(left, "ping") => Has(b, "ping")
      /\ Single(b, "version") => Single(left, "version")
  BY Zenon DEF Left
<1>. QED  BY <1>1, Zenon DEF InStep, Opening

\* Nor do the messages an end receives that are no step of its own introduction.
LEMMA ReceivesHere ==
  ASSUME NEW a, NEW b, NEW kept, NEW idle, NEW grown, NEW m,
         InStep(a, b, kept, idle), Grown(grown, a, m),
         m.type \in {"version", "getaddr", "addr", "ping"}
  PROVE  InStep(grown, b, kept, idle)
<1>1. m.type # "ESTABLISHED" /\ m.type # "verack" /\ m.type # "pong"
  OBVIOUS
<1>2. /\ Has(grown, "ESTABLISHED") => Has(a, "ESTABLISHED")
      /\ Has(grown, "verack") => Has(a, "verack")
      /\ Has(grown, "pong") => Has(a, "pong")
      /\ FirstOnly(a) => FirstOnly(grown)
      /\ Single(a, "verack") => Single(grown, "verack")
  BY <1>1, Zenon DEF Grown
<1>. QED  BY <1>2, Zenon DEF InStep, Opening

LEMMA ReceivesThere ==
  ASSUME NEW a, NEW b, NEW kept, NEW idle, NEW grown, NEW m,
         InStep(a, b, kept, idle), Grown(grown, b, m),
         m.type \in {"verack", "getaddr", "addr", "pong"}
  PROVE  InStep(a, grown, kept, idle)
<1>1. m.type # "version" /\ m.type # "ping"
  OBVIOUS
<1>2. /\ Has(grown, "version") => Has(b, "version")
      /\ Has(grown, "ping") => Has(b, "ping")
      /\ Single(b, "version") => Single(grown, "version")
  BY <1>1, Zenon DEF Grown
<1>. QED  BY <1>2, Zenon DEF InStep, Opening

\* Two new boxes.
LEMMA StartsInStep ==
  ASSUME NEW a \in Seq(Letter), NEW b \in Seq(Letter), NEW kept, NEW idle, ~kept,
         Len(a) = 1, Len(b) = 1, a[1].type = "ESTABLISHED", b[1].type = "ESTABLISHED"
  PROVE  InStep(a, b, kept, idle)
<1>1. DOMAIN a = {1} /\ DOMAIN b = {1}
  OBVIOUS
<1>2. ~Has(a, "verack") /\ ~Has(b, "version") /\ ~Has(a, "pong") /\ ~Has(b, "ping")
  BY <1>1 DEF Has
<1>3. FirstOnly(a) /\ Single(a, "verack") /\ Single(b, "version")
  BY <1>1 DEF FirstOnly, Single
<1>. QED  BY <1>2, <1>3, Zenon DEF InStep, Opening

LEMMA HeadIsHad ==
  ASSUME NEW a \in Seq(Letter), a # <<>>
  PROVE  Has(a, Head(a).type)
<1>1. 1 \in DOMAIN a /\ Head(a) = a[1]
  OBVIOUS
<1>. QED  BY <1>1 DEF Has

\* An end that keeps the connection reported sends its version.
LEMMA KeepsInStep ==
  ASSUME NEW a \in Seq(Letter), NEW b, NEW kept, NEW idle, NEW left, NEW grown, NEW m,
         InStep(a, b, kept, idle), Left(left, a), Grown(grown, b, m), a # <<>>,
         Head(a).type = "ESTABLISHED", m.type = "version"
  PROVE  InStep(left, grown, TRUE, TRUE)
<1>1. Has(a, "ESTABLISHED")
  BY HeadIsHad
<1>2. /\ ~Has(a, "verack") /\ ~Has(b, "version") /\ Single(b, "version") /\ Single(a, "verack")
      /\ FirstOnly(a) /\ ~Has(a, "pong") /\ ~Has(b, "ping")
  BY <1>1, Zenon DEF InStep, Opening
<1>3. /\ FirstOnly(left) /\ ~Has(left, "ESTABLISHED") /\ ~Has(left, "verack") /\ ~Has(left, "pong")
      /\ Single(left, "verack")
  BY <1>2, Zenon DEF Left
<1>4. m.type # "ping"
  OBVIOUS
<1>5. ~Has(grown, "ping") /\ Single(grown, "version")
  BY <1>2, <1>4, Zenon DEF Grown
<1>. QED  BY <1>3, <1>5, Zenon DEF InStep, Opening

\* A version that is read is answered.
LEMMA VersionInStep ==
  ASSUME NEW a, NEW b \in Seq(Letter), NEW kept, NEW idle, NEW left, NEW grown, NEW m,
         InStep(a, b, kept, idle), Left(left, b), Grown(grown, a, m), b # <<>>,
         Head(b).type = "version", m.type = "verack"
  PROVE  InStep(grown, left, kept, idle)
<1>1. Has(b, "version")
  BY HeadIsHad
<1>2. /\ ~Has(a, "verack") /\ ~Has(a, "ESTABLISHED") /\ Single(b, "version") /\ Single(a, "verack")
      /\ FirstOnly(a) /\ ~Has(a, "pong") /\ ~Has(b, "ping") /\ kept /\ idle
  BY <1>1, Zenon DEF InStep, Opening
<1>3. ~Has(left, "version") /\ ~Has(left, "ping") /\ Single(left, "version")
  BY <1>2, Zenon DEF Left
<1>4. m.type # "pong" /\ m.type # "ESTABLISHED"
  OBVIOUS
<1>5. /\ ~Has(grown, "pong") /\ ~Has(grown, "ESTABLISHED") /\ Single(grown, "verack")
      /\ FirstOnly(grown)
  BY <1>2, <1>4, Zenon DEF Grown
<1>. QED  BY <1>2, <1>3, <1>5, Zenon DEF InStep, Opening

\* A verack that is read ends the introduction, and pings may start.
LEMMA VerackInStep ==
  ASSUME NEW a \in Seq(Letter), NEW b, NEW kept, NEW idle, NEW left, NEW status,
         InStep(a, b, kept, idle), Left(left, a), a # <<>>, Head(a).type = "verack"
  PROVE  InStep(left, b, kept, status)
<1>1. Has(a, "verack")
  BY HeadIsHad
<1>2. /\ ~Has(b, "version") /\ ~Has(a, "ESTABLISHED") /\ Single(b, "version")
      /\ Single(a, "verack") /\ FirstOnly(a) /\ kept
  BY <1>1, Zenon DEF InStep, Opening
<1>3. ~Has(left, "verack") /\ ~Has(left, "ESTABLISHED") /\ FirstOnly(left) /\ Single(left, "verack")
  BY <1>2, Zenon DEF Left
<1>. QED  BY <1>2, <1>3, Zenon DEF InStep, Opening

\* A ping is sent, read and answered only after the introduction.
LEMMA PingInStep ==
  ASSUME NEW a, NEW b, NEW kept, NEW idle, NEW grown, NEW m,
         InStep(a, b, kept, idle), Grown(grown, b, m), m.type = "ping", kept, ~idle
  PROVE  InStep(a, grown, kept, FALSE)
<1>1. m.type # "version"
  OBVIOUS
<1>2. ~Has(grown, "version") /\ ~Has(a, "verack") /\ ~Has(a, "ESTABLISHED") /\ Single(b, "version")
      /\ Single(a, "verack") /\ FirstOnly(a)
  BY <1>1, Zenon DEF Grown, InStep, Opening
<1>3. Single(grown, "version")
  BY <1>1, <1>2, Zenon DEF Grown
<1>. QED  BY <1>2, <1>3, Zenon DEF InStep, Opening

LEMMA PongInStep ==
  ASSUME NEW a, NEW b \in Seq(Letter), NEW kept, NEW idle, NEW left, NEW grown, NEW m,
         InStep(a, b, kept, idle), Left(left, b), Grown(grown, a, m), b # <<>>,
         Head(b).type = "ping", m.type = "pong"
  PROVE  InStep(grown, left, kept, idle)
<1>1. Has(b, "ping")
  BY HeadIsHad
<1>2. /\ ~Has(b, "version") /\ ~Has(a, "ESTABLISHED") /\ ~Has(a, "verack") /\ Single(b, "version")
      /\ Single(a, "verack") /\ FirstOnly(a)
  BY <1>1, Zenon DEF InStep, Opening
<1>3. ~Has(left, "version") /\ Single(left, "version")
  BY <1>2, Zenon DEF Left
<1>4. m.type # "verack" /\ m.type # "ESTABLISHED"
  OBVIOUS
<1>5. /\ ~Has(grown, "verack") /\ ~Has(grown, "ESTABLISHED") /\ Single(grown, "verack")
      /\ FirstOnly(grown)
  BY <1>2, <1>4, Zenon DEF Grown
<1>. QED  BY <1>3, <1>5, Zenon DEF InStep, Opening

LEMMA AnsweredInStep ==
  ASSUME NEW a \in Seq(Letter), NEW b, NEW kept, NEW idle, NEW left, NEW status,
         InStep(a, b, kept, idle), Left(left, a), a # <<>>, Head(a).type = "pong"
  PROVE  InStep(left, b, kept, status)
<1>1. Has(a, "pong")
  BY HeadIsHad
<1>2. /\ ~Has(b, "version") /\ ~Has(a, "ESTABLISHED") /\ ~Has(a, "verack") /\ Single(b, "version")
      /\ Single(a, "verack") /\ FirstOnly(a)
  BY <1>1, Zenon DEF InStep, Opening
<1>3. ~Has(left, "verack") /\ ~Has(left, "ESTABLISHED") /\ FirstOnly(left) /\ Single(left, "verack")
  BY <1>2, Zenon DEF Left
<1>. QED  BY <1>2, <1>3, Zenon DEF InStep, Opening

\* A connection whose timer is idle again is still in step.
LEMMA IdleInStep ==
  ASSUME NEW a, NEW b, NEW kept, NEW idle, InStep(a, b, kept, idle)
  PROVE  InStep(a, b, kept, TRUE)
BY Zenon DEF InStep, Opening

-----------------------------------------------------------------------------
(* The invariant *)

Over(f, S) == f = [x \in S |-> f[x]]
Ends(c) == {c[1], c[2]}

Shapes ==
  /\ setup \in Setups
  /\ Over(timer, Node) /\ Over(discovering, Node)
  /\ Over(resolutionList, Node) /\ Over(discoveryAttempts, Node)
  /\ Over(peers, Node) /\ Over(powPeers, Node) /\ Over(peerConnection, Node)

\* A node connects only while it has an attempt left and no service to wait for.
Searching(p) ==
  /\ discoveryAttempts[p] \in 0..setup.discoveryAttempts
  /\ discovering[p] \subseteq setup.services
  /\ discovering[p] # {} => discoveryAttempts[p] > 0 /\ timer[p] = NoTimer
  /\ timer[p] = kind.PEER_CONNECTION => discoveryAttempts[p] > 0
  /\ resolutionList[p] \subseteq Node \cup setup.addressList
\* As it looks for peers for the first time, it connects to each address once.
FirstSearch(p) ==
  discoveryAttempts[p] = setup.discoveryAttempts =>
    \A c \in tried :
      c[1] = p => /\ timer[p] \notin {kind.EXEC_START, kind.PEER_DISCOVERY} /\ discovering[p] = {}
                  /\ c[2] \notin resolutionList[p]
Discovery ==
  /\ registering \subseteq Node /\ registered \subseteq Node
  /\ \A p \in Node : Searching(p) /\ FirstSearch(p)

Connections ==
  \A c \in tried : /\ c \in Socket /\ c[1] # c[2] /\ c[3] = 1
                   /\ c[2] \notin Node => c[2] = Absent /\ Absent \in setup.addressList
Link(c) == c \in tried /\ c[2] \in Node

\* An entry is a socket of the node with the address at its other end.
Entries(p, entries) ==
  /\ entries = [c \in DOMAIN entries |-> OtherEnd(p, c)]
  /\ \A c \in DOMAIN entries : c \in Socket /\ p \in Ends(c) /\ c[1] # c[2]
  /\ \A c, d \in DOMAIN entries : OtherEnd(p, c) = OtherEnd(p, d) => c = d
\* A timer runs for each active peer, on a connection that was made.
Timers(p) ==
  /\ DOMAIN peerConnection[p] \subseteq DOMAIN powPeers[p]
  /\ \A c \in DOMAIN peerConnection[p] : Link(c)
  /\ peers[p] = {OtherEnd(p, c) : c \in DOMAIN peerConnection[p]}
Tables == \A p \in Node : Entries(p, powPeers[p]) /\ Timers(p)

\* What TCP brings concerns a connection that was tried, and fails for an absent node.
Fits(p, c, box) ==
  \A i \in DOMAIN box :
    c \in tried /\ p \in Ends(c) /\ (box[i].type = "FAILURE" <=> c[2] \notin Node)
Boxes ==
  /\ inbox \in [Node -> [Socket -> Seq(Letter)]]
  /\ \A p \in Node, c \in Socket : Fits(p, c, inbox[p][c])

Idle(p, c) == Kept(p, c) => peerConnection[p][c] = "idle"
InStepAt(p, c) ==
  InStep(inbox[p][c], inbox[OtherEnd(p, c)][c], Kept(p, c), Idle(p, c))
\* An end that does not keep a connection keeps another to the same peer.
KeptOther(p, c) == \E d \in tried : d # c /\ Ends(d) = Ends(c) /\ Kept(p, d)
Joined(p, c) == Kept(p, c) \/ Has(inbox[p][c], "ESTABLISHED") \/ KeptOther(p, c)
Introduced(p, c) == InStepAt(p, c) /\ Joined(p, c)
Introductions == \A c \in tried : c[2] \in Node => \A p \in Ends(c) : Introduced(p, c)

Network == Connections /\ Tables /\ Boxes /\ Introductions
PeersInv == Shapes /\ Discovery /\ Network

\* Nodes with a connection besides the one that is kept have connected to each other.
LEMMA OtherConnects ==
  ASSUME Connections, NEW p, NEW q, NEW r, NEW c \in tried, Ends(c) = {p, q}, KeptOther(r, c)
  PROVE  ConnectedTwice(p, q)
<1>1. PICK d \in tried : d # c /\ Ends(d) = Ends(c)
  BY DEF KeptOther
<1>2. /\ c \in Socket /\ c[1] # c[2] /\ c[3] = 1 /\ d \in Socket /\ d[1] # d[2] /\ d[3] = 1
  BY DEF Connections
<1>3. c = <<c[1], c[2], 1>> /\ d = <<d[1], d[2], 1>>
  BY <1>2 DEF Socket
<1>4. d[1] = c[2] /\ d[2] = c[1]
  BY <1>1, <1>2, <1>3 DEF Ends
<1>5. (p = c[1] /\ q = c[2]) \/ (p = c[2] /\ q = c[1])
  BY <1>2 DEF Ends
<1>. QED  BY <1>3, <1>4, <1>5 DEF ConnectedTwice

\* The two ends of a connection.
LEMMA TwoEnds ==
  ASSUME NEW c \in Socket, c[2] \in Node, c[1] # c[2], NEW p \in Ends(c)
  PROVE  /\ p \in Node /\ OtherEnd(p, c) \in Node /\ OtherEnd(p, c) # p
         /\ OtherEnd(p, c) \in Ends(c) /\ OtherEnd(OtherEnd(p, c), c) = p
         /\ Ends(c) = {p, OtherEnd(p, c)}
BY DEF Ends, OtherEnd, Socket

LEMMA PlainIsLetter ==
  ASSUME NEW type \in Types
  PROVE  Plain(type) \in Letter /\ Plain(type).type = type
BY DEF Plain, Message, Letter

LEMMA AddrIsLetter ==
  ASSUME NEW addresses \in SUBSET Address
  PROVE  Message("addr", addresses) \in Letter /\ Message("addr", addresses).type = "addr"
BY DEF Message, Letter, Types

-----------------------------------------------------------------------------
(* A node and its peer exchange messages on one connection *)

\* Here is what is left to the node, there what its peer has.
Exchanged(p, c, here, there) ==
  /\ inbox' \in [Node -> [Socket -> Seq(Letter)]]
  /\ inbox'[p][c] = here /\ inbox'[OtherEnd(p, c)][c] = there
  /\ \A r \in Node, d \in Socket :
       d # c \/ r \notin {p, OtherEnd(p, c)} => inbox'[r][d] = inbox[r][d]

\* The other connections of a node keep their timers.
Elsewhere(p, c) ==
  /\ \A d : Kept(p, d) => Kept(p, d)'
  /\ \A r \in Node, d \in Socket :
       d # c \/ r # p => /\ Kept(r, d)' <=> Kept(r, d)
                         /\ Idle(r, d)' <=> Idle(r, d)

\* The boxes differ at most in the one of a at c.
Beside(after, before, a, c) ==
  \A r \in Node, d \in Socket : d # c \/ r # a => after[r][d] = before[r][d]

Brought(after, before, a, c, messages) ==
  /\ after \in [Node -> [Socket -> Seq(Letter)]]
  /\ after[a][c] = before[a][c] \o messages
  /\ Beside(after, before, a, c)

LEMMA BringIs ==
  ASSUME NEW start \in [Node -> [Socket -> Seq(Letter)]], NEW a \in Node, NEW c \in Socket,
         NEW messages \in Seq(Letter)
  PROVE  Brought(Bring(start, a, c, messages), start, a, c, messages)
<1>1. start[a][c] \o messages \in Seq(Letter)
  OBVIOUS
<1>. QED  BY <1>1 DEF Bring, Beside, Brought

LEMMA ExchangedIs ==
  ASSUME inbox \in [Node -> [Socket -> Seq(Letter)]],
         NEW c \in Socket, NEW p \in Node, OtherEnd(p, c) \in Node, OtherEnd(p, c) # p,
         NEW left \in Seq(Letter), NEW messages \in Seq(Letter),
         inbox' = Bring([inbox EXCEPT ![p][c] = left], OtherEnd(p, c), c, messages)
  PROVE  Exchanged(p, c, left, inbox[OtherEnd(p, c)][c] \o messages)
<1>. DEFINE q == OtherEnd(p, c)
            boxes == [inbox EXCEPT ![p][c] = left]
<1>1. /\ boxes \in [Node -> [Socket -> Seq(Letter)]] /\ boxes[p][c] = left
      /\ boxes[q][c] = inbox[q][c] /\ Beside(boxes, inbox, p, c)
  BY DEF Beside
<1>2. inbox' = Bring(boxes, q, c, messages) /\ q \in Node /\ p # q
  OBVIOUS
<1>. HIDE DEF boxes, q
<1>3. Brought(Bring(boxes, q, c, messages), boxes, q, c, messages)
  BY <1>1, <1>2, BringIs
<1>4. Brought(inbox', boxes, q, c, messages)
  BY <1>2, <1>3, Zenon
<1>. QED  BY <1>1, <1>2, <1>4 DEF Exchanged, Brought, Beside, q

LEMMA NothingSent ==
  ASSUME NEW box \in Seq(Letter)
  PROVE  box \o <<>> = box
OBVIOUS

\* A reply is sent once the messages that came as one are read.
LEMMA RepliesExchange ==
  ASSUME inbox \in [Node -> [Socket -> Seq(Letter)]],
         NEW c \in Socket, NEW p \in Node, OtherEnd(p, c) \in Node, OtherEnd(p, c) # p,
         inbox[p][c] # <<>>, NEW messages \in Seq(Letter),
         readWhole(p, c, messages) \/ readFirst(p, c, messages)
  PROVE  \E left \in Seq(Letter) :
           /\ Left(left, inbox[p][c])
           /\ Exchanged(p, c, left, inbox[OtherEnd(p, c)][c] \o messages)
<1>1. inbox[p][c] \in Seq(Letter) /\ 1 \in 1..Len(inbox[p][c])
  OBVIOUS
<1>2. \E left \in Seq(Letter) :
        /\ Left(left, inbox[p][c])
        /\ inbox' = Bring([inbox EXCEPT ![p][c] = left], OtherEnd(p, c), c, messages)
  <2>1. CASE readWhole(p, c, messages)
    <3>1. inbox' = Bring([inbox EXCEPT ![p][c] = Tail(inbox[p][c])], OtherEnd(p, c), c, messages)
      BY <2>1 DEF readWhole, Sends, Taken
    <3>. QED  BY <1>1, <3>1, TailIsLeft DEF Left
  <2>2. CASE readFirst(p, c, messages)
    <3>1. PICK k \in 1..Len(inbox[p][c]) :
                 inbox' = Bring([inbox EXCEPT ![p][c] = SubSeq(inbox[p][c], k + 1, Len(inbox[p][c]))],
                                OtherEnd(p, c), c, messages)
      BY <1>1, <2>2 DEF readFirst, Sends
    <3>2. Left(SubSeq(inbox[p][c], k + 1, Len(inbox[p][c])), inbox[p][c])
      BY <1>1, LeftIs
    <3>. QED  BY <3>1, <3>2 DEF Left
  <2>. QED  BY <2>1, <2>2
<1>3. PICK left \in Seq(Letter) :
        /\ Left(left, inbox[p][c])
        /\ inbox' = Bring([inbox EXCEPT ![p][c] = left], OtherEnd(p, c), c, messages)
  BY <1>2
<1>. QED  BY <1>3, ExchangedIs

\* What an exchange leaves in the boxes fits.
LEMMA LeftFits ==
  ASSUME NEW p, NEW c, NEW box, NEW left, Left(left, box), Fits(p, c, box)
  PROVE  Fits(p, c, left)
BY DEF Left, Fits

LEMMA GrownFits ==
  ASSUME NEW p, NEW c, NEW box, NEW grown, NEW m, Grown(grown, box, m), Fits(p, c, box),
         Link(c), p \in Ends(c), m.type # "FAILURE"
  PROVE  Fits(p, c, grown)
BY DEF Grown, Fits, Link

\* An exchange keeps the network in step when its two ends stay in step.
LEMMA ExchangeInStep ==
  ASSUME Connections, Boxes, Introductions, UNCHANGED <<setup, tried>>,
         NEW c \in tried, c[2] \in Node, NEW p \in Ends(c), NEW here, NEW there,
         Exchanged(p, c, here, there), Elsewhere(p, c),
         Fits(p, c, here), Fits(OtherEnd(p, c), c, there),
         Has(inbox[OtherEnd(p, c)][c], "ESTABLISHED") => Has(there, "ESTABLISHED"),
         Has(inbox[p][c], "ESTABLISHED") =>
           Has(here, "ESTABLISHED") \/ Kept(p, c)' \/ KeptOther(p, c),
         InStep(here, there, Kept(p, c)', Idle(p, c)'),
         InStep(there, here, Kept(OtherEnd(p, c), c),
                Idle(OtherEnd(p, c), c))
  PROVE  Connections' /\ Boxes' /\ Introductions'
<1>. DEFINE q == OtherEnd(p, c)
<1>0. /\ c \in Socket /\ p \in Node /\ q \in Node /\ q # p /\ q \in Ends(c) /\ OtherEnd(q, c) = p
      /\ Ends(c) = {p, q} /\ c[1] # c[2]
  BY TwoEnds DEF Connections
<1>1. Connections'
  BY DEF Connections
<1>2. Boxes'
  <2>. SUFFICES ASSUME NEW r \in Node, NEW d \in Socket PROVE Fits(r, d, inbox[r][d])'
    BY DEF Boxes, Exchanged
  <2>1. Fits(r, d, inbox'[r][d])
    BY <1>0 DEF Boxes, Exchanged
  <2>. QED  BY <2>1 DEF Fits
<1>3. ASSUME NEW d \in tried, d[2] \in Node, NEW r \in Ends(d)
      PROVE  Introduced(r, d)'
  <2>1. /\ d \in Socket /\ r \in Node /\ OtherEnd(r, d) \in Node /\ OtherEnd(r, d) # r
        /\ OtherEnd(r, d) \in Ends(d)
    BY <1>3, TwoEnds DEF Connections
  <2>2. Introduced(r, d)
    BY <1>3 DEF Introductions
  <2>3. Joined(r, d)'
    <3>1. Kept(r, d) => Kept(r, d)'
      BY <2>1 DEF Elsewhere
    <3>2. KeptOther(r, d) => KeptOther(r, d)'
      <4>. SUFFICES ASSUME NEW e \in tried, e # d, Ends(e) = Ends(d), Kept(r, e)
                    PROVE  Kept(r, e)'
        BY DEF KeptOther
      <4>1. e \in Socket
        BY DEF Connections
      <4>. QED  BY <2>1, <4>1 DEF Elsewhere
    <3>3. Has(inbox[r][d], "ESTABLISHED") =>
            Has(inbox'[r][d], "ESTABLISHED") \/ Kept(r, d)' \/ KeptOther(r, d)
      <4>1. CASE d = c /\ r = p
        BY <4>1 DEF Exchanged
      <4>2. CASE d = c /\ r = q
        BY <4>2 DEF Exchanged
      <4>3. CASE d # c \/ r \notin {p, q}
        BY <2>1, <4>3 DEF Exchanged
      <4>. QED  BY <4>1, <4>2, <4>3
    <3>4. Joined(r, d)
      BY <2>2 DEF Introduced
    <3>. QED  BY <3>1, <3>2, <3>3, <3>4 DEF Joined
  <2>4. InStepAt(r, d)'
    <3>1. CASE d = c /\ r = p
      BY <3>1 DEF Exchanged, InStepAt
    <3>2. CASE d = c /\ r = q
      <4>1. (Kept(q, c)' <=> Kept(q, c)) /\ (Idle(q, c)' <=> Idle(q, c))
        BY <1>0 DEF Elsewhere
      <4>2. Kept(q, c)' = Kept(q, c) /\ Idle(q, c)' = Idle(q, c)
        BY <4>1 DEF Kept, Idle
      <4>. QED  BY <1>0, <3>2, <4>1, <4>2 DEF Exchanged, InStepAt
    <3>3. CASE d # c \/ r \notin {p, q}
      <4>1. d # c
        BY <1>0, <3>3
      <4>2. inbox'[r][d] = inbox[r][d] /\ inbox'[OtherEnd(r, d)][d] = inbox[OtherEnd(r, d)][d]
        BY <2>1, <4>1 DEF Exchanged
      <4>3. /\ Kept(r, d)' <=> Kept(r, d)
            /\ Idle(r, d)' <=> Idle(r, d)
        BY <2>1, <4>1 DEF Elsewhere
      <4>4. Kept(r, d)' = Kept(r, d) /\ Idle(r, d)' = Idle(r, d)
        BY <4>3 DEF Kept, Idle
      <4>. QED  BY <2>2, <4>2, <4>3, <4>4 DEF InStepAt, Introduced
    <3>. QED  BY <3>1, <3>2, <3>3
  <2>. QED  BY <2>3, <2>4 DEF Introduced
<1>4. Introductions'
  BY <1>3 DEF Introductions, Ends
<1>. QED  BY <1>1, <1>2, <1>4

-----------------------------------------------------------------------------
(* The tables of a node *)

\* A change of what one timer is scheduled for.
SameTimers == \A r \in Node : DOMAIN peerConnection'[r] = DOMAIN peerConnection[r]
Retimed(p, c, status) == peerConnection' = [peerConnection EXCEPT ![p][c] = status]

LEMMA RetimedIs ==
  ASSUME Over(peerConnection, Node), NEW p \in Node, NEW c, NEW status, Retimed(p, c, status)
  PROVE  /\ Over(peerConnection, Node)' /\ SameTimers /\ Elsewhere(p, c)
         /\ Kept(p, c)' = Kept(p, c)
         /\ Kept(p, c) => peerConnection'[p][c] = status
<1>. DEFINE table == [peerConnection[p] EXCEPT ![c] = status]
<1>1. /\ DOMAIN peerConnection = Node /\ peerConnection' = [peerConnection EXCEPT ![p] = table]
  BY DEF Over, Retimed
<1>2. /\ DOMAIN table = DOMAIN peerConnection[p]
      /\ \A d : d # c /\ d \in DOMAIN peerConnection[p] => table[d] = peerConnection[p][d]
      /\ c \in DOMAIN peerConnection[p] => table[c] = status
  OBVIOUS
<1>3. \A d : d # c => table[d] = peerConnection[p][d]
  OBVIOUS
<1>. HIDE DEF table
<1>4. /\ DOMAIN peerConnection' = Node /\ peerConnection'[p] = table
      /\ \A r \in Node : r # p => peerConnection'[r] = peerConnection[r]
  BY <1>1
<1>5. Over(peerConnection, Node)'
  BY <1>1 DEF Over
<1>6. SameTimers
  BY <1>2, <1>4 DEF SameTimers
<1>7. \A r \in Node : \A d : Kept(r, d)' <=> Kept(r, d)
  BY <1>6 DEF SameTimers, Kept
<1>8. Elsewhere(p, c)
  BY <1>3, <1>4, <1>7 DEF Elsewhere, Idle, Kept
<1>9. Kept(p, c)' = Kept(p, c)
  BY <1>6 DEF SameTimers, Kept
<1>. QED  BY <1>2, <1>4, <1>5, <1>6, <1>8, <1>9 DEF Kept

LEMMA TimersStay ==
  ASSUME UNCHANGED peerConnection, NEW p, NEW c
  PROVE  /\ SameTimers /\ Elsewhere(p, c)
         /\ Kept(p, c)' = Kept(p, c) /\ Idle(p, c)' = Idle(p, c)
BY DEF SameTimers, Elsewhere, Kept, Idle

LEMMA TablesStay ==
  ASSUME Tables, UNCHANGED <<tried, peers, powPeers>>, SameTimers
  PROVE  Tables'
BY DEF Tables, SameTimers, Timers, Link

\* The addresses of a node's peers are the other ends of its sockets.
LEMMA EntriesAre ==
  ASSUME NEW p \in Node, Entries(p, powPeers[p])
  PROVE  /\ Range(powPeers[p]) = {OtherEnd(p, c) : c \in DOMAIN powPeers[p]}
         /\ Range(powPeers[p]) \subseteq Address /\ p \notin Range(powPeers[p])
         /\ IsInjective(powPeers[p])
<1>1. \A c \in DOMAIN powPeers[p] : powPeers[p][c] = OtherEnd(p, c)
  BY DEF Entries
<1>2. \A c \in DOMAIN powPeers[p] : OtherEnd(p, c) \in Address /\ OtherEnd(p, c) # p
  BY DEF Entries, OtherEnd, Ends, Socket, Address
<1>. QED  BY <1>1, <1>2 DEF Range, IsInjective, Entries

-----------------------------------------------------------------------------
(* A message that arrives *)

\* Its connection joins two nodes, and both ends are in step.
LEMMA ArrivedOn ==
  ASSUME PeersInv, NEW p \in Node, NEW c \in Socket, inbox[p][c] # <<>>,
         Head(inbox[p][c]).type # "FAILURE"
  PROVE  /\ c \in tried /\ c[2] \in Node /\ p \in Ends(c) /\ Link(c)
         /\ OtherEnd(p, c) \in Node /\ OtherEnd(p, c) # p /\ OtherEnd(p, c) \in Ends(c)
         /\ Ends(c) = {p, OtherEnd(p, c)}
         /\ inbox[p][c] \in Seq(Letter) /\ inbox[OtherEnd(p, c)][c] \in Seq(Letter)
         /\ InStep(inbox[p][c], inbox[OtherEnd(p, c)][c], Kept(p, c), Idle(p, c))
         /\ InStep(inbox[OtherEnd(p, c)][c], inbox[p][c], Kept(OtherEnd(p, c), c),
                   Idle(OtherEnd(p, c), c))
         /\ Joined(p, c)
<1>1. inbox[p][c] \in Seq(Letter) /\ Fits(p, c, inbox[p][c])
  BY DEF PeersInv, Network, Boxes
<1>2. 1 \in DOMAIN inbox[p][c] /\ Head(inbox[p][c]) = inbox[p][c][1]
  BY <1>1
<1>3. c \in tried /\ p \in Ends(c) /\ c[2] \in Node
  BY <1>1, <1>2 DEF Fits
<1>4. c[1] # c[2]
  BY <1>3 DEF PeersInv, Network, Connections
<1>5. /\ OtherEnd(p, c) \in Node /\ OtherEnd(p, c) # p /\ OtherEnd(p, c) \in Ends(c)
      /\ OtherEnd(OtherEnd(p, c), c) = p /\ Ends(c) = {p, OtherEnd(p, c)}
  BY <1>3, <1>4, TwoEnds
<1>6. Introduced(p, c) /\ Introduced(OtherEnd(p, c), c)
  BY <1>3, <1>5 DEF PeersInv, Network, Introductions
<1>7. inbox[OtherEnd(p, c)][c] \in Seq(Letter)
  BY <1>5 DEF PeersInv, Network, Boxes
<1>. QED  BY <1>1, <1>3, <1>5, <1>6, <1>7 DEF Introduced, InStepAt, Link

\* Nothing comes before the report of a connection.
LEMMA ReportIsFirst ==
  ASSUME NEW a \in Seq(Letter), FirstOnly(a), a # <<>>, Head(a).type # "ESTABLISHED"
  PROVE  ~Has(a, "ESTABLISHED")
BY DEF FirstOnly, Has

\* Handling any message but the report of a connection.
LEMMA HandledInStep ==
  ASSUME PeersInv, NEW p \in Node, NEW c \in Socket, inbox[p][c] # <<>>,
         Head(inbox[p][c]).type \notin {"FAILURE", "ESTABLISHED"},
         UNCHANGED <<setup, tried>>, Elsewhere(p, c),
         NEW left, NEW there, NEW m,
         Left(left, inbox[p][c]), Exchanged(p, c, left, there),
         \/ there = inbox[OtherEnd(p, c)][c]
         \/ Grown(there, inbox[OtherEnd(p, c)][c], m) /\ m.type # "FAILURE",
         InStep(left, there, Kept(p, c)', Idle(p, c)'),
         InStep(there, left, Kept(OtherEnd(p, c), c), Idle(OtherEnd(p, c), c))
  PROVE  Connections' /\ Boxes' /\ Introductions'
<1>. DEFINE q == OtherEnd(p, c)
<1>1. /\ c \in tried /\ c[2] \in Node /\ p \in Ends(c) /\ Link(c) /\ q \in Node /\ q \in Ends(c)
      /\ inbox[p][c] \in Seq(Letter)
      /\ InStep(inbox[p][c], inbox[q][c], Kept(p, c), Idle(p, c))
  BY ArrivedOn
<1>2. Fits(p, c, inbox[p][c]) /\ Fits(q, c, inbox[q][c]) /\ Connections /\ Boxes /\ Introductions
  BY <1>1 DEF PeersInv, Network, Boxes
<1>3. Fits(p, c, left)
  BY <1>2, LeftFits
<1>4. Fits(q, c, there)
  BY <1>1, <1>2, GrownFits
<1>5. ~Has(inbox[p][c], "ESTABLISHED")
  BY <1>1, ReportIsFirst DEF InStep
<1>6. Has(inbox[q][c], "ESTABLISHED") => Has(there, "ESTABLISHED")
  BY DEF Grown
<1>. QED  BY <1>1, <1>2, <1>3, <1>4, <1>5, <1>6, ExchangeInStep

\* A message changes nothing of how a node searches.
LEMMA SearchStays ==
  ASSUME Shapes, Discovery, UNCHANGED <<setup, discoveryVars, P2PVars>>,
         Over(peers, Node)', Over(powPeers, Node)', Over(peerConnection, Node)'
  PROVE  Shapes' /\ Discovery'
BY DEF Shapes, Discovery, Searching, FirstSearch, Over, kind, discoveryVars, P2PVars

-----------------------------------------------------------------------------
(* The handlers: each keeps the invariant, and stops only for a reason *)

\* What a handler that keeps the node running has to show.
LEMMA NetworkStays ==
  ASSUME Shapes, Discovery, UNCHANGED <<setup, discoveryVars, P2PVars>>,
         Over(peers, Node)', Over(powPeers, Node)', Over(peerConnection, Node)',
         Connections' /\ Boxes' /\ Introductions', Tables'
  PROVE  PeersInv'
BY SearchStays DEF PeersInv, Network

LEMMA UnchangedInv ==
  ASSUME PeersInv, UNCHANGED <<setup, discoveryVars, P2PVars, PowVars, inbox>>
  PROVE  PeersInv'
<1>1. UNCHANGED <<setup, registering, registered, timer, discovering, resolutionList,
                  discoveryAttempts, tried, peers, powPeers, peerConnection, inbox>>
  BY DEF discoveryVars, P2PVars, PowVars
<1>2. Shapes' /\ Discovery'
  BY <1>1 DEF PeersInv, Shapes, Discovery, Searching, FirstSearch, Over, kind
<1>3. Connections'
  BY <1>1 DEF PeersInv, Network, Connections
<1>4. Tables'
  BY <1>1, TablesStay DEF PeersInv, Network, SameTimers
<1>5. Boxes'
  BY <1>1 DEF PeersInv, Network, Boxes, Fits
<1>6. Introductions'
  BY <1>1 DEF PeersInv, Network, Introductions, Introduced, InStepAt, Joined, KeptOther, Kept, Idle
<1>. QED  BY <1>2, <1>3, <1>4, <1>5, <1>6 DEF PeersInv, Network

LEMMA versionStep ==
  ASSUME PeersInv, NEW p \in Node, NEW c \in Socket, version(p, c)
  PROVE  PeersInv' /\ StopsExplained'
<1>. DEFINE q == OtherEnd(p, c)
            a == inbox[p][c]
            b == inbox[q][c]
            m == Plain("verack")
<1>1. failed = Running /\ a # <<>> /\ Head(a).type = "version"
  BY DEF version, Arrives
<1>2. /\ c \in tried /\ c[2] \in Node /\ Link(c) /\ q \in Node /\ q # p /\ Ends(c) = {p, q}
      /\ a \in Seq(Letter) /\ b \in Seq(Letter)
      /\ InStep(a, b, Kept(p, c), Idle(p, c))
      /\ InStep(b, a, Kept(q, c), Idle(q, c))
      /\ Joined(p, c)
  BY <1>1, ArrivedOn
<1>3. CASE c \in DOMAIN powPeers[p]
  <2>1. readWhole(p, c, <<m>>) /\ UNCHANGED <<setup, discoveryVars, P2PVars, PowVars, failed>>
    BY <1>3 DEF version
  <2>2. m \in Letter /\ m.type = "verack" /\ <<m>> \in Seq(Letter)
    BY PlainIsLetter DEF Types
  <2>3. PICK left \in Seq(Letter) : Left(left, a) /\ Exchanged(p, c, left, b \o <<m>>)
    BY <1>1, <1>2, <2>1, <2>2, RepliesExchange DEF PeersInv, Network, Boxes
  <2>4. Grown(b \o <<m>>, b, m)
    BY <1>2, <2>2, GrownIs
  <2>5. Elsewhere(p, c) /\ SameTimers /\ Kept(p, c)' = Kept(p, c)
    BY <2>1, TimersStay DEF PowVars
  <2>6. Idle(p, c)' = Idle(p, c)
    BY <2>1, TimersStay DEF PowVars
  <2>. HIDE DEF m
  <2>7. InStep(left, b \o <<m>>, Kept(p, c), Idle(p, c))
    <3>1. InStep(left, b, Kept(p, c), Idle(p, c))
      BY <1>2, <2>3, ReadHere
    <3>. QED  BY <2>2, <2>4, <3>1, ReceivesThere
  <2>8. InStep(b \o <<m>>, left, Kept(q, c), Idle(q, c))
    BY <1>1, <1>2, <2>2, <2>3, <2>4, VersionInStep
  <2>9. Connections' /\ Boxes' /\ Introductions'
    BY <1>1, <2>1, <2>2, <2>3, <2>4, <2>5, <2>6, <2>7, <2>8, HandledInStep DEF P2PVars
  <2>10. Tables'
    BY <2>1, <2>5, TablesStay DEF PeersInv, Network, P2PVars, PowVars
  <2>. QED  BY <1>1, <2>1, <2>9, <2>10, NetworkStays DEF PeersInv, Shapes, Over, PowVars, StopsExplained
<1>4. CASE c \notin DOMAIN powPeers[p]
  <2>1. /\ failed' = "no peer for a connection"
        /\ UNCHANGED <<setup, discoveryVars, P2PVars, PowVars, inbox>>
    BY <1>4 DEF version, Fails
  <2>2. ~Kept(p, c)
    BY <1>4 DEF PeersInv, Network, Tables, Timers, Kept
  <2>3. ~Has(a, "ESTABLISHED")
    BY <1>1, <1>2, ReportIsFirst DEF InStep
  <2>4. KeptOther(p, c)
    BY <1>2, <2>2, <2>3 DEF Joined
  <2>5. ConnectedTwice(p, q)
    BY <1>2, <2>4, OtherConnects DEF PeersInv, Network
  <2>6. ConnectedTwice(p, q)' /\ p # q /\ q \in Node
    BY <1>2, <2>1, <2>5 DEF ConnectedTwice, P2PVars
  <2>7. \E r, s \in Node : r # s /\ ConnectedTwice(r, s)'
    BY <2>6
  <2>8. StopsExplained'
    BY <2>1, <2>7 DEF StopsExplained
  <2>. QED  BY <2>1, <2>8, UnchangedInv
<1>. QED  BY <1>3, <1>4

LEMMA verackStep ==
  ASSUME PeersInv, NEW p \in Node, NEW c \in Socket, verack(p, c)
  PROVE  PeersInv' /\ StopsExplained'
<1>. DEFINE q == OtherEnd(p, c)
            a == inbox[p][c]
            b == inbox[q][c]
            m == Plain("getaddr")
            messages == IF isClient(p, c) THEN <<m>> ELSE <<>>
<1>1. failed = Running /\ a # <<>> /\ Head(a).type = "verack"
  BY DEF verack, Arrives
<1>2. /\ c \in tried /\ c[2] \in Node /\ Link(c) /\ q \in Node /\ q # p /\ Ends(c) = {p, q}
      /\ a \in Seq(Letter) /\ b \in Seq(Letter)
      /\ InStep(a, b, Kept(p, c), Idle(p, c))
      /\ InStep(b, a, Kept(q, c), Idle(q, c))
  BY <1>1, ArrivedOn
<1>3. Kept(p, c) /\ Idle(p, c)
  <2>1. Has(a, "verack")
    BY <1>1, <1>2, HeadIsHad
  <2>. QED  BY <1>2, <2>1, Zenon DEF InStep, Opening
<1>4. /\ Retimed(p, c, "SEND_PING") /\ readFirst(p, c, messages)
      /\ UNCHANGED <<setup, discoveryVars, P2PVars, peers, powPeers, failed>>
  BY <1>3 DEF verack, Kept, Idle, Retimed
<1>5. m \in Letter /\ m.type = "getaddr" /\ messages \in Seq(Letter)
  BY PlainIsLetter DEF Types
<1>6. PICK left \in Seq(Letter) : Left(left, a) /\ Exchanged(p, c, left, b \o messages)
  <2>. HIDE DEF messages
  <2>. QED  BY <1>1, <1>2, <1>4, <1>5, RepliesExchange DEF PeersInv, Network, Boxes
<1>. DEFINE there == b \o messages
<1>7. there = b \/ Grown(there, b, m)
  BY <1>2, <1>5, GrownIs, NothingSent
<1>8. Exchanged(p, c, left, there)
  BY <1>6
<1>9. Over(peerConnection, Node)' /\ SameTimers /\ Elsewhere(p, c) /\ Kept(p, c)' = Kept(p, c)
  BY <1>4, RetimedIs DEF PeersInv, Shapes
<1>. HIDE DEF m, messages, there
<1>10. InStep(left, there, Kept(p, c), Idle(p, c)')
  <2>1. InStep(left, b, Kept(p, c), Idle(p, c)')
    BY <1>1, <1>2, <1>6, VerackInStep
  <2>. QED  BY <1>5, <1>7, <2>1, ReceivesThere
<1>11. InStep(there, left, Kept(q, c), Idle(q, c))
  <2>1. InStep(b, left, Kept(q, c), Idle(q, c))
    BY <1>2, <1>6, ReadThere
  <2>. QED  BY <1>5, <1>7, <2>1, ReceivesHere
<1>12. Connections' /\ Boxes' /\ Introductions'
  BY <1>1, <1>4, <1>5, <1>6, <1>7, <1>8, <1>9, <1>10, <1>11, HandledInStep DEF P2PVars
<1>13. Tables'
  BY <1>4, <1>9, TablesStay DEF PeersInv, Network, P2PVars
<1>. QED
  BY <1>1, <1>4, <1>9, <1>12, <1>13, NetworkStays DEF PeersInv, Shapes, Over, StopsExplained

LEMMA getaddrStep ==
  ASSUME PeersInv, NEW p \in Node, NEW c \in Socket, getaddr(p, c)
  PROVE  PeersInv' /\ StopsExplained'
<1>. DEFINE q == OtherEnd(p, c)
            a == inbox[p][c]
            b == inbox[q][c]
            m == Message("addr", Range(powPeers[p]))
<1>1. /\ failed = Running /\ a # <<>> /\ Head(a).type = "getaddr" /\ readFirst(p, c, <<m>>)
      /\ UNCHANGED <<setup, discoveryVars, P2PVars, PowVars, failed>>
  BY DEF getaddr, Arrives
<1>2. /\ c \in tried /\ c[2] \in Node /\ Link(c) /\ q \in Node /\ q # p /\ Ends(c) = {p, q}
      /\ a \in Seq(Letter) /\ b \in Seq(Letter)
      /\ InStep(a, b, Kept(p, c), Idle(p, c))
      /\ InStep(b, a, Kept(q, c), Idle(q, c))
  BY <1>1, ArrivedOn
<1>3. m \in Letter /\ m.type = "addr" /\ <<m>> \in Seq(Letter)
  BY EntriesAre, AddrIsLetter DEF PeersInv, Network, Tables
<1>4. PICK left \in Seq(Letter) : Left(left, a) /\ Exchanged(p, c, left, b \o <<m>>)
  BY <1>1, <1>2, <1>3, RepliesExchange DEF PeersInv, Network, Boxes
<1>5. Grown(b \o <<m>>, b, m)
  BY <1>2, <1>3, GrownIs
<1>6. Elsewhere(p, c) /\ SameTimers /\ Kept(p, c)' = Kept(p, c)
  BY <1>1, TimersStay DEF PowVars
<1>7. Idle(p, c)' = Idle(p, c)
  BY <1>1, TimersStay DEF PowVars
<1>. HIDE DEF m
<1>8. InStep(left, b \o <<m>>, Kept(p, c), Idle(p, c))
  <2>1. InStep(left, b, Kept(p, c), Idle(p, c))
    BY <1>2, <1>4, ReadHere
  <2>. QED  BY <1>3, <1>5, <2>1, ReceivesThere
<1>9. InStep(b \o <<m>>, left, Kept(q, c), Idle(q, c))
  <2>1. InStep(b, left, Kept(q, c), Idle(q, c))
    BY <1>2, <1>4, ReadThere
  <2>. QED  BY <1>3, <1>5, <2>1, ReceivesHere
<1>10. Connections' /\ Boxes' /\ Introductions'
  BY <1>1, <1>3, <1>4, <1>5, <1>6, <1>7, <1>8, <1>9, HandledInStep DEF P2PVars
<1>11. Tables'
  BY <1>1, <1>6, TablesStay DEF PeersInv, Network, P2PVars, PowVars
<1>. QED
  BY <1>1, <1>10, <1>11, NetworkStays DEF PeersInv, Shapes, Over, PowVars, StopsExplained

LEMMA pingStep ==
  ASSUME PeersInv, NEW p \in Node, NEW c \in Socket, ping(p, c)
  PROVE  PeersInv' /\ StopsExplained'
<1>. DEFINE q == OtherEnd(p, c)
            a == inbox[p][c]
            b == inbox[q][c]
            m == Plain("pong")
<1>1. /\ failed = Running /\ a # <<>> /\ Head(a).type = "ping" /\ readWhole(p, c, <<m>>)
      /\ UNCHANGED <<setup, discoveryVars, P2PVars, PowVars, failed>>
  BY DEF ping, Arrives
<1>2. /\ c \in tried /\ c[2] \in Node /\ Link(c) /\ q \in Node /\ q # p /\ Ends(c) = {p, q}
      /\ a \in Seq(Letter) /\ b \in Seq(Letter)
      /\ InStep(a, b, Kept(p, c), Idle(p, c))
      /\ InStep(b, a, Kept(q, c), Idle(q, c))
  BY <1>1, ArrivedOn
<1>3. m \in Letter /\ m.type = "pong" /\ <<m>> \in Seq(Letter)
  BY PlainIsLetter DEF Types
<1>4. PICK left \in Seq(Letter) : Left(left, a) /\ Exchanged(p, c, left, b \o <<m>>)
  BY <1>1, <1>2, <1>3, RepliesExchange DEF PeersInv, Network, Boxes
<1>5. Grown(b \o <<m>>, b, m)
  BY <1>2, <1>3, GrownIs
<1>6. Elsewhere(p, c) /\ SameTimers /\ Kept(p, c)' = Kept(p, c)
  BY <1>1, TimersStay DEF PowVars
<1>7. Idle(p, c)' = Idle(p, c)
  BY <1>1, TimersStay DEF PowVars
<1>. HIDE DEF m
<1>8. InStep(left, b \o <<m>>, Kept(p, c), Idle(p, c))
  <2>1. InStep(left, b, Kept(p, c), Idle(p, c))
    BY <1>2, <1>4, ReadHere
  <2>. QED  BY <1>3, <1>5, <2>1, ReceivesThere
<1>9. InStep(b \o <<m>>, left, Kept(q, c), Idle(q, c))
  BY <1>1, <1>2, <1>3, <1>4, <1>5, PongInStep
<1>10. Connections' /\ Boxes' /\ Introductions'
  BY <1>1, <1>3, <1>4, <1>5, <1>6, <1>7, <1>8, <1>9, HandledInStep DEF P2PVars
<1>11. Tables'
  BY <1>1, <1>6, TablesStay DEF PeersInv, Network, P2PVars, PowVars
<1>. QED
  BY <1>1, <1>10, <1>11, NetworkStays DEF PeersInv, Shapes, Over, PowVars, StopsExplained

LEMMA pongStep ==
  ASSUME PeersInv, NEW p \in Node, NEW c \in Socket, pong(p, c)
  PROVE  PeersInv' /\ StopsExplained'
<1>. DEFINE q == OtherEnd(p, c)
            a == inbox[p][c]
            b == inbox[q][c]
<1>1. /\ failed = Running /\ a # <<>> /\ Head(a).type = "pong" /\ readFirst(p, c, <<>>)
      /\ Retimed(p, c, "SEND_PING")
      /\ UNCHANGED <<setup, discoveryVars, P2PVars, peers, powPeers, failed>>
  BY DEF pong, Arrives, Retimed, afterPong
<1>2. /\ c \in tried /\ c[2] \in Node /\ Link(c) /\ q \in Node /\ q # p /\ Ends(c) = {p, q}
      /\ a \in Seq(Letter) /\ b \in Seq(Letter)
      /\ InStep(a, b, Kept(p, c), Idle(p, c))
      /\ InStep(b, a, Kept(q, c), Idle(q, c))
  BY <1>1, ArrivedOn
<1>3. PICK left \in Seq(Letter) : Left(left, a) /\ Exchanged(p, c, left, b)
  <2>1. <<>> \in Seq(Letter) /\ b \o <<>> = b
    BY <1>2, NothingSent
  <2>2. \E left \in Seq(Letter) : Left(left, a) /\ Exchanged(p, c, left, b \o <<>>)
    BY <1>1, <1>2, <2>1, RepliesExchange DEF PeersInv, Network, Boxes
  <2>. QED  BY <2>1, <2>2
<1>4. Over(peerConnection, Node)' /\ SameTimers /\ Elsewhere(p, c) /\ Kept(p, c)' = Kept(p, c)
  BY <1>1, RetimedIs DEF PeersInv, Shapes
<1>5. InStep(left, b, Kept(p, c), Idle(p, c)')
  BY <1>1, <1>2, <1>3, AnsweredInStep
<1>6. InStep(b, left, Kept(q, c), Idle(q, c))
  BY <1>2, <1>3, ReadThere
<1>7. Connections' /\ Boxes' /\ Introductions'
  BY <1>1, <1>3, <1>4, <1>5, <1>6, HandledInStep DEF P2PVars
<1>8. Tables'
  BY <1>1, <1>4, TablesStay DEF PeersInv, Network, P2PVars
<1>. QED
  BY <1>1, <1>4, <1>7, <1>8, NetworkStays DEF PeersInv, Shapes, Over, StopsExplained

\* The sockets opened for addresses no socket of the node has.
LEMMA HearsEntries ==
  ASSUME NEW p \in Node, NEW entries, Entries(p, entries),
         NEW new \in SUBSET Address, p \notin new,
         \A c \in DOMAIN entries : OtherEnd(p, c) \notin new
  PROVE  /\ Entries(p, hears(entries, {<<p, a, 0>> : a \in new}))
         /\ DOMAIN entries \subseteq DOMAIN hears(entries, {<<p, a, 0>> : a \in new})
<1>. DEFINE opened == {<<p, a, 0>> : a \in new}
            more == hears(entries, opened)
<1>1. \A s \in opened : /\ s \in Socket /\ s[1] = p /\ s[2] \in new /\ s[2] # p
                        /\ OtherEnd(p, s) = s[2] /\ p \in Ends(s) /\ s[1] # s[2]
  <2>. SUFFICES ASSUME NEW a \in new, NEW s, s = <<p, a, 0>>
                PROVE  /\ s \in Socket /\ s[1] = p /\ s[2] \in new /\ s[2] # p
                       /\ OtherEnd(p, s) = s[2] /\ p \in Ends(s) /\ s[1] # s[2]
    OBVIOUS
  <2>1. s[1] = p /\ s[2] = a /\ a # p
    OBVIOUS
  <2>2. s \in Socket
    BY PeersConstants DEF Socket
  <2>. QED  BY <2>1, <2>2 DEF OtherEnd, Ends
<1>2. \A s, t \in opened : s[2] = t[2] => s = t
  OBVIOUS
<1>. HIDE DEF opened
<1>3. more = [c \in DOMAIN entries \cup opened |-> OtherEnd(p, c)]
  <2>1. \A c \in DOMAIN entries \cup opened :
          (IF c \in opened THEN c[2] ELSE entries[c]) = OtherEnd(p, c)
    BY <1>1 DEF Entries
  <2>. QED  BY <2>1 DEF hears
<1>. HIDE DEF more
<1>4. DOMAIN more = DOMAIN entries \cup opened
  BY <1>3
<1>5. \A c \in DOMAIN more : c \in Socket /\ p \in Ends(c) /\ c[1] # c[2]
  BY <1>1, <1>4 DEF Entries
<1>6. ASSUME NEW c \in DOMAIN more, NEW d \in DOMAIN more, OtherEnd(p, c) = OtherEnd(p, d)
      PROVE  c = d
  <2>1. CASE c \in opened /\ d \in opened
    BY <1>1, <1>2, <1>6, <2>1
  <2>2. CASE c \in DOMAIN entries /\ d \in DOMAIN entries
    BY <1>6, <2>2 DEF Entries
  <2>3. CASE c \in opened /\ d \in DOMAIN entries
    BY <1>1, <1>6, <2>3
  <2>4. CASE c \in DOMAIN entries /\ d \in opened
    BY <1>1, <1>6, <2>4
  <2>. QED  BY <1>4, <2>1, <2>2, <2>3, <2>4
<1>7. Entries(p, more)
  BY <1>3, <1>4, <1>5, <1>6 DEF Entries
<1>. QED  BY <1>4, <1>7 DEF more, opened

LEMMA addrStep ==
  ASSUME PeersInv, NEW p \in Node, NEW c \in Socket, addr(p, c)
  PROVE  PeersInv' /\ StopsExplained'
<1>. DEFINE q == OtherEnd(p, c)
            a == inbox[p][c]
            b == inbox[q][c]
            new == newPeers(p, Head(a).addresses)
            opened == {<<p, x, 0>> : x \in new}
<1>1. /\ failed = Running /\ a # <<>> /\ Head(a).type = "addr" /\ readWhole(p, c, <<>>)
      /\ powPeers' = [powPeers EXCEPT ![p] = hears(powPeers[p], opened)]
      /\ UNCHANGED <<setup, discoveryVars, P2PVars, peers, peerConnection, failed>>
  BY DEF addr, Arrives
<1>2. /\ c \in tried /\ c[2] \in Node /\ Link(c) /\ q \in Node /\ q # p /\ Ends(c) = {p, q}
      /\ a \in Seq(Letter) /\ b \in Seq(Letter)
      /\ InStep(a, b, Kept(p, c), Idle(p, c))
      /\ InStep(b, a, Kept(q, c), Idle(q, c))
  BY <1>1, ArrivedOn
<1>3. PICK left \in Seq(Letter) : Left(left, a) /\ Exchanged(p, c, left, b)
  <2>1. <<>> \in Seq(Letter) /\ b \o <<>> = b
    BY <1>2, NothingSent
  <2>2. \E left \in Seq(Letter) : Left(left, a) /\ Exchanged(p, c, left, b \o <<>>)
    BY <1>1, <1>2, <2>1, RepliesExchange DEF PeersInv, Network, Boxes
  <2>. QED  BY <2>1, <2>2
<1>4. Elsewhere(p, c) /\ Kept(p, c)' = Kept(p, c)
  BY <1>1, TimersStay
<1>5. InStep(left, b, Kept(p, c), Idle(p, c)')
  <2>1. Idle(p, c)' = Idle(p, c)
    BY <1>1, TimersStay
  <2>. QED  BY <1>2, <1>3, <2>1, ReadHere
<1>6. InStep(b, left, Kept(q, c), Idle(q, c))
  BY <1>2, <1>3, ReadThere
<1>7. Connections' /\ Boxes' /\ Introductions'
  BY <1>1, <1>3, <1>4, <1>5, <1>6, HandledInStep DEF P2PVars
<1>8. Entries(p, powPeers[p]) /\ DOMAIN powPeers = Node
  BY DEF PeersInv, Shapes, Over, Network, Tables
<1>9. /\ new \in SUBSET Address /\ p \notin new
      /\ \A d \in DOMAIN powPeers[p] : OtherEnd(p, d) \notin new
  <2>1. Head(a).addresses \in SUBSET Address
    BY <1>1, <1>2 DEF Letter
  <2>. QED  BY <1>8, <2>1, EntriesAre DEF newPeers
<1>. HIDE DEF new
<1>10. /\ Entries(p, hears(powPeers[p], opened))
       /\ DOMAIN powPeers[p] \subseteq DOMAIN hears(powPeers[p], opened)
  BY <1>8, <1>9, HearsEntries
<1>. HIDE DEF opened
<1>11. /\ powPeers'[p] = hears(powPeers[p], opened)
       /\ \A r \in Node : r # p => powPeers'[r] = powPeers[r]
       /\ Over(powPeers, Node)'
  BY <1>1, <1>8 DEF Over
<1>12. Tables'
  <2>. SUFFICES ASSUME NEW r \in Node PROVE Entries(r, powPeers'[r]) /\ Timers(r)'
    BY DEF Tables
  <2>1. Entries(r, powPeers[r]) /\ Timers(r)
    BY DEF PeersInv, Network, Tables
  <2>2. Entries(r, powPeers'[r]) /\ DOMAIN powPeers[r] \subseteq DOMAIN powPeers'[r]
    BY <1>10, <1>11, <2>1
  <2>. QED  BY <1>1, <2>1, <2>2 DEF Timers, Link, P2PVars
<1>. QED
  BY <1>1, <1>7, <1>11, <1>12, NetworkStays DEF PeersInv, Shapes, Over, StopsExplained

LEMMA wrongChunkStep ==
  ASSUME PeersInv, NEW p \in Node, NEW c \in Socket, wrongChunk(p, c)
  PROVE  PeersInv' /\ StopsExplained'
<1>1. /\ setup.coalescing /\ failed' = "wrong chunk"
      /\ UNCHANGED <<setup, discoveryVars, P2PVars, PowVars, inbox>>
  BY DEF wrongChunk, Fails
<1>. QED  BY <1>1, UnchangedInv DEF StopsExplained

LEMMA handleConnectFailureStep ==
  ASSUME PeersInv, NEW p \in Node, NEW c \in Socket, handleConnectFailure(p, c)
  PROVE  PeersInv' /\ StopsExplained'
<1>1. /\ inbox[p][c] # <<>> /\ Head(inbox[p][c]).type = "FAILURE"
      /\ failed' = "no peer for a failed connection"
      /\ UNCHANGED <<setup, discoveryVars, P2PVars, PowVars, inbox>>
  BY DEF handleConnectFailure, Arrives, Fails
<1>2. inbox[p][c] \in Seq(Letter) /\ Fits(p, c, inbox[p][c])
  BY DEF PeersInv, Network, Boxes
<1>3. Has(inbox[p][c], "FAILURE")
  BY <1>1, <1>2, HeadIsHad
<1>4. c \in tried /\ c[2] \notin Node
  BY <1>2, <1>3 DEF Fits, Has
<1>5. Absent \in setup.addressList
  BY <1>4 DEF PeersInv, Network, Connections
<1>6. StopsExplained'
  BY <1>1, <1>5 DEF StopsExplained
<1>. QED  BY <1>1, <1>6, UnchangedInv

\* The entry of a peer moves to the socket it is connected by.
SocketsTo(entries, address) == {d \in DOMAIN entries : entries[d] = address}
MovedTo(p, entries, c) == moves(entries, SocketsTo(entries, OtherEnd(p, c)), c, OtherEnd(p, c))
LEMMA MovesEntries ==
  ASSUME NEW p \in Node, NEW entries, Entries(p, entries), NEW c \in Socket, p \in Ends(c),
         c[1] # c[2]
  PROVE  /\ Entries(p, MovedTo(p, entries, c))
         /\ DOMAIN MovedTo(p, entries, c) =
              (DOMAIN entries \ SocketsTo(entries, OtherEnd(p, c))) \cup {c}
<1>. DEFINE heardOf == SocketsTo(entries, OtherEnd(p, c))
            kept == DOMAIN entries \ heardOf
            more == MovedTo(p, entries, c)
<1>1. \A d \in kept : /\ d \in DOMAIN entries /\ entries[d] = OtherEnd(p, d)
                      /\ OtherEnd(p, d) # OtherEnd(p, c)
  BY DEF Entries, SocketsTo
<1>2. more = [d \in kept \cup {c} |-> OtherEnd(p, d)]
  BY <1>1 DEF MovedTo, moves, With, Restrict
<1>. HIDE DEF kept, more
<1>3. DOMAIN more = kept \cup {c}
  BY <1>2
<1>4. \A d \in DOMAIN more : d \in Socket /\ p \in Ends(d) /\ d[1] # d[2]
  BY <1>1, <1>3 DEF Entries
<1>5. ASSUME NEW d \in DOMAIN more, NEW e \in DOMAIN more, OtherEnd(p, d) = OtherEnd(p, e)
      PROVE  d = e
  BY <1>1, <1>3, <1>5 DEF Entries
<1>6. Entries(p, more)
  BY <1>2, <1>3, <1>4, <1>5 DEF Entries
<1>. QED  BY <1>3, <1>6 DEF more, kept, heardOf

\* A node with an active peer keeps a connection to it.
LEMMA ActiveIsKept ==
  ASSUME PeersInv, NEW p \in Node, NEW c \in tried, p \in Ends(c), c[2] \in Node
  PROVE  /\ OtherEnd(p, c) \in peers[p] => Kept(p, c) \/ KeptOther(p, c)
         /\ Kept(p, c) => OtherEnd(p, c) \in peers[p]
<1>1. Timers(p) /\ Entries(p, powPeers[p])
  BY DEF PeersInv, Network, Tables
<1>2. ASSUME NEW d \in DOMAIN peerConnection[p], OtherEnd(p, d) = OtherEnd(p, c)
      PROVE  d \in tried /\ Ends(d) = Ends(c)
  <2>1. Link(d) /\ d \in DOMAIN powPeers[p]
    BY <1>1 DEF Timers
  <2>2. p \in Ends(d) /\ d[1] # d[2] /\ c[1] # c[2]
    BY <1>1, <2>1 DEF Entries, PeersInv, Network, Connections
  <2>. QED  BY <1>2, <2>1, <2>2 DEF Link, Ends, OtherEnd
<1>3. OtherEnd(p, c) \in peers[p] => Kept(p, c) \/ KeptOther(p, c)
  BY <1>1, <1>2 DEF Timers, Kept, KeptOther
<1>. QED  BY <1>1, <1>3 DEF Timers, Kept

LEMMA handleConnectReturnStep ==
  ASSUME PeersInv, NEW p \in Node, NEW c \in Socket, handleConnectReturn(p, c)
  PROVE  PeersInv' /\ StopsExplained'
<1>. DEFINE q == OtherEnd(p, c)
            a == inbox[p][c]
            b == inbox[q][c]
            m == Plain("version")
            heardOf == getSockFd(p, q)
<1>1. /\ failed = Running /\ a # <<>> /\ Head(a).type = "ESTABLISHED"
      /\ UNCHANGED <<setup, discoveryVars, P2PVars, failed>>
  BY DEF handleConnectReturn, Arrives
<1>2. /\ c \in tried /\ c[2] \in Node /\ Link(c) /\ q \in Node /\ q # p /\ Ends(c) = {p, q}
      /\ q \in Ends(c) /\ p \in Ends(c) /\ a \in Seq(Letter) /\ b \in Seq(Letter)
      /\ InStep(a, b, Kept(p, c), Idle(p, c))
      /\ InStep(b, a, Kept(q, c), Idle(q, c))
  BY <1>1, ArrivedOn
<1>3. /\ Shapes /\ Discovery /\ Connections /\ Boxes /\ Introductions /\ Tables
      /\ Fits(p, c, a) /\ Fits(q, c, b) /\ inbox \in [Node -> [Socket -> Seq(Letter)]]
  BY <1>2 DEF PeersInv, Network, Boxes
<1>4. Tail(a) \in Seq(Letter) /\ Left(Tail(a), a)
  BY <1>1, <1>2, TailIsLeft DEF Left
<1>5. Fits(p, c, Tail(a))
  BY <1>3, <1>4, LeftFits
<1>6. CASE q \in peers[p]
  <2>1. inbox' = Taken(p, c) /\ UNCHANGED PowVars
    BY <1>6 DEF handleConnectReturn
  <2>2. inbox' = [inbox EXCEPT ![p][c] = Tail(a)]
    BY <2>1 DEF Taken
  <2>3. /\ inbox' \in [Node -> [Socket -> Seq(Letter)]] /\ inbox'[p][c] = Tail(a)
        /\ \A r \in Node, d \in Socket : d # c \/ r # p => inbox'[r][d] = inbox[r][d]
    BY <1>3, <1>4, <2>2
  <2>4. Exchanged(p, c, Tail(a), b)
    BY <1>2, <2>3 DEF Exchanged
  <2>5. Elsewhere(p, c) /\ SameTimers /\ Kept(p, c)' = Kept(p, c)
    BY <2>1, TimersStay DEF PowVars
  <2>6. InStep(Tail(a), b, Kept(p, c)', Idle(p, c)')
    <3>1. Idle(p, c)' = Idle(p, c)
      BY <2>1, TimersStay DEF PowVars
    <3>. QED  BY <1>2, <1>4, <2>5, <3>1, ReadHere
  <2>7. InStep(b, Tail(a), Kept(q, c), Idle(q, c))
    BY <1>2, <1>4, ReadThere
  <2>8. Kept(p, c)' \/ KeptOther(p, c)
    BY <1>2, <1>6, <2>5, ActiveIsKept
  <2>9. Connections' /\ Boxes' /\ Introductions'
    BY <1>1, <1>2, <1>3, <1>5, <2>4, <2>5, <2>6, <2>7, <2>8, ExchangeInStep DEF P2PVars
  <2>10. Tables'
    BY <1>1, <1>3, <2>1, <2>5, TablesStay DEF P2PVars, PowVars
  <2>. QED
    BY <1>1, <1>3, <2>1, <2>9, <2>10, NetworkStays DEF Shapes, Over, PowVars, StopsExplained
<1>7. CASE q \notin peers[p]
  <2>. DEFINE there == b \o <<m>>
              entries == moves(powPeers[p], heardOf, c, q)
              table == With(peerConnection[p], c, "idle")
  <2>1. /\ peers' = [peers EXCEPT ![p] = peers[p] \cup {q}]
        /\ powPeers' = [powPeers EXCEPT ![p] = entries]
        /\ peerConnection' = [peerConnection EXCEPT ![p] = table]
        /\ inbox' = Bring(Taken(p, c), q, c, <<m>>)
    BY <1>7 DEF handleConnectReturn
  <2>2. m \in Letter /\ m.type = "version" /\ <<m>> \in Seq(Letter)
    BY PlainIsLetter DEF Types
  <2>3. Exchanged(p, c, Tail(a), there)
    <3>1. inbox' = Bring([inbox EXCEPT ![p][c] = Tail(a)], q, c, <<m>>)
      BY <2>1 DEF Taken
    <3>. QED  BY <1>2, <1>3, <1>4, <2>2, <3>1, ExchangedIs
  <2>4. Grown(there, b, m)
    BY <1>2, <2>2, GrownIs
  <2>5. ~Kept(p, c)
    BY <1>2, <1>7, ActiveIsKept
  <2>6. /\ DOMAIN peers = Node /\ DOMAIN powPeers = Node /\ DOMAIN peerConnection = Node
    BY <1>3 DEF Shapes, Over
  <2>7. /\ DOMAIN table = DOMAIN peerConnection[p] \cup {c} /\ table[c] = "idle"
        /\ \A d \in DOMAIN peerConnection[p] : d # c => table[d] = peerConnection[p][d]
    BY DEF With
  <2>8. Entries(p, entries) /\ DOMAIN entries = (DOMAIN powPeers[p] \ heardOf) \cup {c}
    <3>1. Entries(p, powPeers[p]) /\ c[1] # c[2]
      BY <1>2, <1>3 DEF Tables, Connections
    <3>2. heardOf = SocketsTo(powPeers[p], q) /\ entries = MovedTo(p, powPeers[p], c)
      BY DEF getSockFd, SocketsTo, MovedTo
    <3>. HIDE DEF heardOf, entries
    <3>. QED  BY <1>2, <3>1, <3>2, MovesEntries
  <2>. HIDE DEF m, there, entries, table
  <2>9. /\ Over(peers, Node)' /\ peers'[p] = peers[p] \cup {q}
        /\ Over(powPeers, Node)' /\ powPeers'[p] = entries
        /\ Over(peerConnection, Node)' /\ peerConnection'[p] = table
        /\ \A r \in Node : r # p => /\ peers'[r] = peers[r] /\ powPeers'[r] = powPeers[r]
                                     /\ peerConnection'[r] = peerConnection[r]
    BY <2>1, <2>6 DEF Over
  <2>10. \A r \in Node : \A d : d # c \/ r # p => (Kept(r, d)' <=> Kept(r, d))
    BY <2>7, <2>9 DEF Kept
  <2>11. Kept(p, c)' /\ Idle(p, c)'
    BY <2>7, <2>9 DEF Kept, Idle
  <2>12. Elsewhere(p, c)
    <3>1. \A d : Kept(p, d) => Kept(p, d)'
      BY <2>10, <2>11
    <3>2. ASSUME NEW r \in Node, NEW d \in Socket, d # c \/ r # p
          PROVE  Idle(r, d)' <=> Idle(r, d)
      <4>1. Kept(r, d) => peerConnection'[r][d] = peerConnection[r][d]
        BY <2>7, <2>9, <3>2 DEF Kept
      <4>. QED  BY <2>10, <3>2, <4>1 DEF Idle
    <3>. QED  BY <2>10, <3>1, <3>2 DEF Elsewhere
  <2>13. InStep(Tail(a), there, Kept(p, c)', Idle(p, c)')
    <3>1. InStep(Tail(a), there, TRUE, TRUE)
      BY <1>1, <1>2, <1>4, <2>2, <2>4, KeepsInStep
    <3>2. Kept(p, c)' = TRUE /\ Idle(p, c)' = TRUE
      BY <2>11 DEF Kept, Idle
    <3>. QED  BY <3>1, <3>2
  <2>14. InStep(there, Tail(a), Kept(q, c), Idle(q, c))
    <3>1. InStep(b, Tail(a), Kept(q, c), Idle(q, c))
      BY <1>2, <1>4, ReadThere
    <3>. QED  BY <2>2, <2>4, <3>1, ReceivesHere
  <2>15. Fits(q, c, there)
    BY <1>2, <1>3, <2>2, <2>4, GrownFits
  <2>16. Has(b, "ESTABLISHED") => Has(there, "ESTABLISHED")
    BY <2>4 DEF Grown
  <2>17. Connections' /\ Boxes' /\ Introductions'
    BY <1>1, <1>2, <1>3, <1>5, <2>3, <2>11, <2>12, <2>13, <2>14, <2>15, <2>16, ExchangeInStep
       DEF P2PVars
  <2>18. ASSUME NEW r \in Node PROVE Entries(r, powPeers'[r]) /\ Timers(r)'
    <3>1. Entries(r, powPeers[r]) /\ Timers(r)
      BY <1>3 DEF Tables
    <3>2. CASE r # p
      BY <1>1, <2>9, <3>1, <3>2 DEF Timers, Link, P2PVars
    <3>3. CASE r = p
      <4>1. \A d \in DOMAIN peerConnection[p] : d \in DOMAIN powPeers[p] \ heardOf
        <5>. SUFFICES ASSUME NEW d \in DOMAIN peerConnection[p] PROVE d \notin heardOf
          BY <3>1, <3>3 DEF Timers
        <5>1. d \in DOMAIN powPeers[p] /\ powPeers[p][d] = OtherEnd(p, d)
          BY <3>1, <3>3 DEF Timers, Entries
        <5>2. OtherEnd(p, d) \in peers[p]
          BY <3>1, <3>3 DEF Timers
        <5>. QED  BY <1>7, <5>1, <5>2 DEF getSockFd
      <4>2. DOMAIN peerConnection'[p] \subseteq DOMAIN powPeers'[p]
        BY <2>7, <2>8, <2>9, <4>1
      <4>3. \A d \in DOMAIN peerConnection'[p] : Link(d)'
        BY <1>1, <1>2, <2>7, <2>9, <3>1, <3>3 DEF Timers, Link, P2PVars
      <4>4. peers'[p] = {OtherEnd(p, d) : d \in DOMAIN peerConnection'[p]}
        BY <2>7, <2>9, <3>1, <3>3 DEF Timers
      <4>. QED  BY <2>8, <2>9, <3>3, <4>2, <4>3, <4>4 DEF Timers
    <3>. QED  BY <3>2, <3>3
  <2>19. Tables'
    BY <2>18 DEF Tables
  <2>. QED
    BY <1>1, <1>3, <2>9, <2>17, <2>19, NetworkStays DEF StopsExplained
<1>. QED  BY <1>6, <1>7

-----------------------------------------------------------------------------
(* The timers of a connection *)

\* A connection that is kept joins two nodes, and both ends are in step.
LEMMA KeptIs ==
  ASSUME PeersInv, NEW p \in Node, NEW c \in Socket, Kept(p, c)
  PROVE  /\ c \in tried /\ c[2] \in Node /\ p \in Ends(c) /\ Link(c) /\ c \in DOMAIN powPeers[p]
         /\ OtherEnd(p, c) \in Node /\ OtherEnd(p, c) # p /\ OtherEnd(p, c) \in Ends(c)
         /\ inbox[p][c] \in Seq(Letter) /\ inbox[OtherEnd(p, c)][c] \in Seq(Letter)
         /\ Fits(p, c, inbox[p][c]) /\ Fits(OtherEnd(p, c), c, inbox[OtherEnd(p, c)][c])
         /\ InStep(inbox[p][c], inbox[OtherEnd(p, c)][c], Kept(p, c), Idle(p, c))
         /\ InStep(inbox[OtherEnd(p, c)][c], inbox[p][c], Kept(OtherEnd(p, c), c),
                   Idle(OtherEnd(p, c), c))
<1>1. Link(c) /\ c \in DOMAIN powPeers[p]
  BY DEF PeersInv, Network, Tables, Timers, Kept
<1>2. p \in Ends(c) /\ c[1] # c[2]
  BY <1>1 DEF PeersInv, Network, Tables, Entries
<1>3. /\ OtherEnd(p, c) \in Node /\ OtherEnd(p, c) # p /\ OtherEnd(p, c) \in Ends(c)
      /\ OtherEnd(OtherEnd(p, c), c) = p
  BY <1>1, <1>2, TwoEnds DEF Link
<1>4. Introduced(p, c) /\ Introduced(OtherEnd(p, c), c)
  BY <1>1, <1>2, <1>3 DEF PeersInv, Network, Introductions, Link
<1>5. /\ inbox[p][c] \in Seq(Letter) /\ inbox[OtherEnd(p, c)][c] \in Seq(Letter)
      /\ Fits(p, c, inbox[p][c]) /\ Fits(OtherEnd(p, c), c, inbox[OtherEnd(p, c)][c])
  BY <1>3 DEF PeersInv, Network, Boxes
<1>. QED  BY <1>1, <1>2, <1>3, <1>4, <1>5 DEF Introduced, InStepAt, Link

LEMMA sendPingStep ==
  ASSUME PeersInv, NEW p \in Node, NEW c \in Socket, sendPing(p, c)
  PROVE  PeersInv' /\ StopsExplained'
<1>. DEFINE q == OtherEnd(p, c)
            a == inbox[p][c]
            b == inbox[q][c]
            m == Plain("ping")
            there == b \o <<m>>
<1>1. /\ failed = Running /\ Kept(p, c) /\ peerConnection[p][c] = "SEND_PING"
      /\ UNCHANGED <<setup, discoveryVars, P2PVars, peers, powPeers, failed>>
  BY DEF sendPing, Kept
<1>2. /\ c \in tried /\ c[2] \in Node /\ p \in Ends(c) /\ Link(c) /\ c \in DOMAIN powPeers[p]
      /\ q \in Node /\ q # p /\ q \in Ends(c)
      /\ a \in Seq(Letter) /\ b \in Seq(Letter) /\ Fits(p, c, a) /\ Fits(q, c, b)
      /\ InStep(a, b, Kept(p, c), Idle(p, c)) /\ InStep(b, a, Kept(q, c), Idle(q, c))
  BY <1>1, KeptIs
<1>3. Retimed(p, c, "AWAITING_POLL") /\ inbox' = Bring(inbox, q, c, <<m>>)
  BY <1>2 DEF sendPing, Retimed
<1>4. /\ Shapes /\ Discovery /\ Connections /\ Boxes /\ Introductions /\ Tables
      /\ inbox \in [Node -> [Socket -> Seq(Letter)]]
  BY DEF PeersInv, Network, Boxes
<1>5. m \in Letter /\ m.type = "ping" /\ <<m>> \in Seq(Letter)
  BY PlainIsLetter DEF Types
<1>6. Exchanged(p, c, a, there)
  <2>1. [inbox EXCEPT ![p][c] = a] = inbox
    BY <1>4
  <2>2. inbox' = Bring([inbox EXCEPT ![p][c] = a], q, c, <<m>>)
    BY <1>3, <2>1
  <2>. QED  BY <1>2, <1>4, <1>5, <2>2, ExchangedIs
<1>7. Grown(there, b, m)
  BY <1>2, <1>5, GrownIs
<1>8. /\ Over(peerConnection, Node)' /\ SameTimers /\ Elsewhere(p, c)
      /\ Kept(p, c)' = Kept(p, c) /\ peerConnection'[p][c] = "AWAITING_POLL"
  BY <1>1, <1>3, <1>4, RetimedIs DEF Shapes
<1>. HIDE DEF m, there
<1>9. Idle(p, c)' = FALSE /\ Idle(p, c) = FALSE /\ Kept(p, c) = TRUE
  BY <1>1, <1>8 DEF Idle, Kept
<1>10. InStep(a, there, Kept(p, c)', Idle(p, c)')
  <2>1. InStep(a, b, TRUE, FALSE)
    BY <1>2, <1>9
  <2>2. InStep(a, there, TRUE, FALSE)
    BY <1>5, <1>7, <2>1, PingInStep
  <2>. QED  BY <1>8, <1>9, <2>2
<1>11. InStep(there, a, Kept(q, c), Idle(q, c))
  BY <1>2, <1>5, <1>7, ReceivesHere
<1>12. Fits(q, c, there)
  BY <1>2, <1>5, <1>7, GrownFits
<1>13. Has(b, "ESTABLISHED") => Has(there, "ESTABLISHED")
  BY <1>7 DEF Grown
<1>14. Connections' /\ Boxes' /\ Introductions'
  BY <1>1, <1>2, <1>4, <1>6, <1>8, <1>10, <1>11, <1>12, <1>13, ExchangeInStep DEF P2PVars
<1>15. Tables'
  BY <1>1, <1>4, <1>8, TablesStay DEF P2PVars
<1>. QED
  BY <1>1, <1>4, <1>8, <1>14, <1>15, NetworkStays DEF Shapes, Over, StopsExplained

LEMMA pongTimeoutStep ==
  ASSUME PeersInv, NEW p \in Node, NEW c \in Socket, pongTimeout(p, c)
  PROVE  PeersInv' /\ StopsExplained'
<1>. DEFINE q == OtherEnd(p, c)
            a == inbox[p][c]
            b == inbox[q][c]
<1>1. /\ failed = Running /\ Kept(p, c) /\ Retimed(p, c, "idle")
      /\ UNCHANGED <<setup, discoveryVars, P2PVars, peers, powPeers, inbox, failed>>
  BY DEF pongTimeout, Kept, Retimed
<1>2. /\ c \in tried /\ c[2] \in Node /\ p \in Ends(c) /\ Link(c)
      /\ q \in Node /\ q # p /\ q \in Ends(c)
      /\ a \in Seq(Letter) /\ b \in Seq(Letter) /\ Fits(p, c, a) /\ Fits(q, c, b)
      /\ InStep(a, b, Kept(p, c), Idle(p, c)) /\ InStep(b, a, Kept(q, c), Idle(q, c))
  BY <1>1, KeptIs
<1>3. /\ Shapes /\ Discovery /\ Connections /\ Boxes /\ Introductions /\ Tables
      /\ inbox \in [Node -> [Socket -> Seq(Letter)]]
  BY DEF PeersInv, Network, Boxes
<1>4. Exchanged(p, c, a, b)
  BY <1>1, <1>3 DEF Exchanged
<1>5. /\ Over(peerConnection, Node)' /\ SameTimers /\ Elsewhere(p, c)
      /\ Kept(p, c)' = Kept(p, c) /\ peerConnection'[p][c] = "idle"
  BY <1>1, <1>3, RetimedIs DEF Shapes
<1>6. Idle(p, c)' = TRUE
  BY <1>5 DEF Idle
<1>7. InStep(a, b, Kept(p, c)', Idle(p, c)')
  <2>1. InStep(a, b, Kept(p, c), TRUE)
    BY <1>2, IdleInStep
  <2>. QED  BY <1>5, <1>6, <2>1
<1>8. Connections' /\ Boxes' /\ Introductions'
  BY <1>1, <1>2, <1>3, <1>4, <1>5, <1>7, ExchangeInStep DEF P2PVars
<1>9. Tables'
  BY <1>1, <1>3, <1>5, TablesStay DEF P2PVars
<1>. QED
  BY <1>1, <1>3, <1>5, <1>8, <1>9, NetworkStays DEF Shapes, Over, StopsExplained

-----------------------------------------------------------------------------
(* A node searches for peers *)

\* What leaves the connections alone keeps the network.
LEMMA NetworkUntouched ==
  ASSUME PeersInv, UNCHANGED <<setup, tried, PowVars, inbox>>
  PROVE  Network'
<1>1. UNCHANGED <<peers, powPeers, peerConnection>>
  BY DEF PowVars
<1>2. Connections'
  BY DEF PeersInv, Network, Connections
<1>3. Tables'
  BY <1>1, TablesStay DEF PeersInv, Network, SameTimers
<1>4. Boxes'
  BY DEF PeersInv, Network, Boxes, Fits
<1>5. Introductions'
  BY <1>1 DEF PeersInv, Network, Introductions, Introduced, InStepAt, Joined, KeptOther, Kept, Idle
<1>. QED  BY <1>2, <1>3, <1>4, <1>5 DEF Network

\* The kinds of the timer that the proofs tell apart.
LEMMA KindsApart ==
  ASSUME setup \in Setups
  PROVE  /\ kind.EXEC_START # NoTimer /\ kind.PEER_DISCOVERY # NoTimer
         /\ kind.PEER_CONNECTION # NoTimer /\ kind.PEER_DISCOVERY # kind.PEER_CONNECTION
         /\ setup.discoveryAttempts \in Nat /\ setup.joining \subseteq Node
BY PeersConstants DEF kind

\* The other nodes search on as they were.
OthersSearch(p) ==
  /\ \A c \in tried' : c \in tried \/ c[1] = p
  /\ \A r \in Node : r # p => /\ timer'[r] = timer[r] /\ discovering'[r] = discovering[r]
                              /\ resolutionList'[r] = resolutionList[r]
                              /\ discoveryAttempts'[r] = discoveryAttempts[r]
LEMMA SearchesOn ==
  ASSUME PeersInv, UNCHANGED <<setup, PowVars>>, NEW p \in Node, OthersSearch(p),
         Searching(p)', FirstSearch(p)',
         Over(timer, Node)', Over(discovering, Node)', Over(resolutionList, Node)',
         Over(discoveryAttempts, Node)',
         registering' \subseteq Node, registered' \subseteq Node
  PROVE  Shapes' /\ Discovery'
<1>1. Shapes'
  BY DEF PeersInv, Shapes, Over, PowVars
<1>2. ASSUME NEW r \in Node PROVE Searching(r)' /\ FirstSearch(r)'
  <2>1. CASE r # p
    <3>1. Searching(r) /\ FirstSearch(r)
      BY DEF PeersInv, Discovery
    <3>. QED  BY <2>1, <3>1 DEF OthersSearch, Searching, FirstSearch, kind
  <2>. QED  BY <2>1
<1>. QED  BY <1>1, <1>2 DEF Discovery

LEMMA registrationSteps ==
  ASSUME PeersInv, NEW p \in Node, serviceConnects(p) \/ processRequest(p)
  PROVE  PeersInv' /\ StopsExplained'
<1>1. CASE /\ UNCHANGED <<setup, discoveryVars, P2PVars, PowVars, inbox>>
           /\ failed' = "cannot connect to DNS" /\ ~setup.dnsReachable
  BY <1>1, UnchangedInv DEF StopsExplained
<1>2. CASE /\ failed' = Running /\ UNCHANGED <<setup, P2PVars, PowVars, inbox>>
           /\ registering' \subseteq Node /\ registered' \subseteq Node
  <2>1. Shapes' /\ Discovery'
    BY <1>2 DEF PeersInv, Shapes, Discovery, Searching, FirstSearch, Over, PowVars, P2PVars, kind
  <2>2. Network'
    BY <1>2, NetworkUntouched DEF P2PVars
  <2>. QED  BY <1>2, <2>1, <2>2 DEF PeersInv, StopsExplained
<1>3. \/ /\ UNCHANGED <<setup, discoveryVars, P2PVars, PowVars, inbox>>
         /\ failed' = "cannot connect to DNS" /\ ~setup.dnsReachable
      \/ /\ failed' = Running /\ UNCHANGED <<setup, P2PVars, PowVars, inbox>>
         /\ registering' \subseteq Node /\ registered' \subseteq Node
  BY DEF serviceConnects, processRequest, Fails, PeersInv, Discovery
<1>. QED  BY <1>1, <1>2, <1>3

LEMMA answeredStep ==
  ASSUME PeersInv, NEW p \in Node, NEW service, NEW addresses, answered(p, service, addresses),
         addresses \subseteq Node \cup setup.addressList
  PROVE  PeersInv'
<1>1. /\ service \in discovering[p]
      /\ discovering' = [discovering EXCEPT ![p] = discovering[p] \ {service}]
      /\ resolutionList' = [resolutionList EXCEPT ![p] = resolutionList[p] \cup addresses]
      /\ timer' = [timer EXCEPT ![p] =
                     IF discovering[p] = {service} THEN kind.PEER_CONNECTION ELSE timer[p]]
      /\ UNCHANGED <<setup, discoveryVars, discoveryAttempts, tried, PowVars, inbox>>
  BY DEF answered
<1>2. Shapes /\ Searching(p) /\ FirstSearch(p) /\ registering \subseteq Node /\ registered \subseteq Node
  BY DEF PeersInv, Discovery
<1>3. /\ DOMAIN timer = Node /\ DOMAIN discovering = Node /\ DOMAIN resolutionList = Node
  BY <1>2 DEF Shapes, Over
<1>4. /\ discovering'[p] = discovering[p] \ {service}
      /\ resolutionList'[p] = resolutionList[p] \cup addresses
      /\ timer'[p] = IF discovering[p] = {service} THEN kind.PEER_CONNECTION ELSE timer[p]
      /\ discoveryAttempts'[p] = discoveryAttempts[p]
  BY <1>1, <1>3
<1>5. OthersSearch(p)
  BY <1>1, <1>3 DEF OthersSearch
<1>6. /\ Over(timer, Node)' /\ Over(discovering, Node)' /\ Over(resolutionList, Node)'
      /\ Over(discoveryAttempts, Node)'
  BY <1>1, <1>2 DEF Shapes, Over
<1>7. Searching(p)'
  <2>1. discoveryAttempts[p] > 0 /\ timer[p] = NoTimer /\ discovering[p] \subseteq setup.services
    BY <1>1, <1>2 DEF Searching
  <2>2. discovering'[p] # {} => timer'[p] = NoTimer
    BY <1>1, <1>4, <2>1
  <2>. QED  BY <1>1, <1>2, <1>4, <2>1, <2>2 DEF Searching, kind
<1>8. FirstSearch(p)'
  BY <1>1, <1>2, <1>4 DEF FirstSearch
<1>9. Shapes' /\ Discovery'
  BY <1>1, <1>2, <1>5, <1>6, <1>7, <1>8, SearchesOn DEF discoveryVars
<1>. QED  BY <1>1, <1>9, NetworkUntouched DEF PeersInv

LEMMA hardcodedAnswersStep ==
  ASSUME PeersInv, NEW p \in Node, hardcodedAnswers(p)
  PROVE  PeersInv' /\ StopsExplained'
<1>1. failed' = Running
  BY DEF hardcodedAnswers, answered
<1>. QED  BY <1>1, answeredStep DEF hardcodedAnswers, StopsExplained

LEMMA dnsAnswersStep ==
  ASSUME PeersInv, NEW p \in Node, dnsAnswers(p)
  PROVE  PeersInv' /\ StopsExplained'
<1>1. CASE registered = {}
  <2>1. /\ "dns" \in discovering[p] /\ failed' = "no peers on the seed"
        /\ UNCHANGED <<setup, discoveryVars, P2PVars, PowVars, inbox>>
    BY <1>1 DEF dnsAnswers
  <2>2. "dns" \in setup.services
    BY <2>1 DEF PeersInv, Discovery, Searching
  <2>3. StopsExplained'
    BY <2>1, <2>2 DEF StopsExplained
  <2>. QED  BY <2>1, <2>3, UnchangedInv
<1>2. CASE registered # {}
  <2>1. answered(p, "dns", registered) /\ failed' = Running
    BY <1>2 DEF dnsAnswers, answered
  <2>2. registered \subseteq Node \cup setup.addressList
    BY DEF PeersInv, Discovery
  <2>. QED  BY <2>1, <2>2, answeredStep DEF StopsExplained
<1>. QED  BY <1>1, <1>2

LEMMA timerSteps ==
  ASSUME PeersInv, NEW p \in Node, joins(p) \/ discovers(p) \/ triedAll(p)
  PROVE  PeersInv' /\ StopsExplained'
<1>1. /\ failed = Running
      /\ UNCHANGED <<setup, discoveryVars, resolutionList, tried, PowVars, inbox, failed>>
  BY DEF joins, discovers, triedAll, Fires
<1>2. Shapes /\ Searching(p) /\ FirstSearch(p) /\ registering \subseteq Node /\ registered \subseteq Node
  BY DEF PeersInv, Discovery
<1>3. /\ DOMAIN timer = Node /\ DOMAIN discovering = Node /\ DOMAIN resolutionList = Node
      /\ DOMAIN discoveryAttempts = Node
  BY <1>2 DEF Shapes, Over
<1>4. timer[p] # NoTimer /\ setup \in Setups
  BY <1>2, KindsApart DEF joins, discovers, triedAll, Fires, Shapes
<1>5. discovering[p] = {}
  BY <1>2, <1>4 DEF Searching
<1>6. /\ Over(timer, Node)' /\ Over(discovering, Node)' /\ Over(resolutionList, Node)'
      /\ Over(discoveryAttempts, Node)' /\ OthersSearch(p)
      /\ Searching(p)' /\ FirstSearch(p)'
  <2>1. CASE joins(p)
    <3>1. /\ timer' = [timer EXCEPT ![p] = kind.PEER_DISCOVERY]
          /\ UNCHANGED <<discovering, discoveryAttempts>>
      BY <2>1 DEF joins, SetTimer
    <3>2. timer'[p] = kind.PEER_DISCOVERY /\ OthersSearch(p) /\ Over(timer, Node)'
      BY <1>1, <1>3, <3>1 DEF OthersSearch, Over
    <3>3. timer'[p] # kind.PEER_CONNECTION
      BY <1>4, <3>2, KindsApart
    <3>4. Searching(p)'
      BY <1>1, <1>2, <1>5, <3>1, <3>3 DEF Searching, kind
    <3>5. FirstSearch(p)'
      BY <1>1, <1>2, <2>1, <3>1, <3>2 DEF FirstSearch, joins, Fires, kind
    <3>. QED  BY <1>1, <1>2, <3>1, <3>2, <3>4, <3>5 DEF Shapes, Over
  <2>2. CASE discovers(p)
    <3>1. /\ timer' = [timer EXCEPT ![p] = NoTimer]
          /\ discovering' = [discovering EXCEPT ![p] =
                               IF discoveryAttempts[p] > 0 THEN setup.services ELSE discovering[p]]
          /\ UNCHANGED discoveryAttempts
      BY <2>2 DEF discovers, SetTimer
    <3>2. /\ timer'[p] = NoTimer /\ OthersSearch(p) /\ Over(timer, Node)' /\ Over(discovering, Node)'
          /\ discovering'[p] = IF discoveryAttempts[p] > 0 THEN setup.services ELSE discovering[p]
      BY <1>1, <1>3, <3>1 DEF OthersSearch, Over
    <3>3. timer'[p] # kind.PEER_CONNECTION
      BY <1>4, <3>2, KindsApart
    <3>4. Searching(p)'
      BY <1>1, <1>2, <1>5, <3>1, <3>2, <3>3 DEF Searching, kind
    <3>5. FirstSearch(p)'
      BY <1>1, <1>2, <2>2, <3>1 DEF FirstSearch, discovers, Fires, kind
    <3>. QED  BY <1>1, <1>2, <3>1, <3>2, <3>4, <3>5 DEF Shapes, Over
  <2>3. CASE triedAll(p)
    <3>1. /\ timer[p] = kind.PEER_CONNECTION /\ UNCHANGED discovering
          /\ \/ /\ timer' = [timer EXCEPT ![p] = kind.PEER_DISCOVERY]
                /\ discoveryAttempts' = [discoveryAttempts EXCEPT ![p] = discoveryAttempts[p] - 1]
             \/ timer' = [timer EXCEPT ![p] = NoTimer] /\ UNCHANGED discoveryAttempts
      BY <2>3 DEF triedAll, SetTimer, Fires
    <3>2. /\ timer'[p] \in {kind.PEER_DISCOVERY, NoTimer} /\ OthersSearch(p)
          /\ Over(timer, Node)' /\ Over(discoveryAttempts, Node)'
          /\ \/ discoveryAttempts'[p] = discoveryAttempts[p] - 1
             \/ discoveryAttempts'[p] = discoveryAttempts[p] /\ timer'[p] = NoTimer
      BY <1>1, <1>2, <1>3, <3>1 DEF OthersSearch, Over, Shapes
    <3>3. timer'[p] # kind.PEER_CONNECTION /\ setup.discoveryAttempts \in Nat
      BY <1>4, <3>2, KindsApart
    <3>4. discoveryAttempts[p] > 0 /\ discoveryAttempts[p] \in 0..setup.discoveryAttempts
      BY <1>2, <3>1 DEF Searching
    <3>5. discoveryAttempts'[p] \in 0..setup.discoveryAttempts
      BY <3>2, <3>3, <3>4
    <3>6. Searching(p)'
      BY <1>1, <1>2, <1>5, <3>1, <3>3, <3>5 DEF Searching, kind
    <3>7. FirstSearch(p)'
      <4>. SUFFICES ASSUME discoveryAttempts'[p] = setup.discoveryAttempts
                    PROVE  FirstSearch(p)'
        BY <1>1 DEF FirstSearch
      <4>1. discoveryAttempts'[p] = discoveryAttempts[p] /\ timer'[p] = NoTimer
        BY <3>2, <3>3, <3>4
      <4>2. timer'[p] \notin {kind.EXEC_START, kind.PEER_DISCOVERY}
        BY <1>4, <4>1, KindsApart
      <4>. QED  BY <1>1, <1>2, <1>5, <3>1, <4>1, <4>2 DEF FirstSearch, kind
    <3>. QED  BY <1>1, <1>2, <3>1, <3>2, <3>6, <3>7 DEF Shapes, Over
  <2>. QED  BY <2>1, <2>2, <2>3
<1>7. Shapes' /\ Discovery'
  BY <1>1, <1>2, <1>6, SearchesOn DEF discoveryVars
<1>. QED  BY <1>1, <1>7, NetworkUntouched DEF PeersInv, StopsExplained

-----------------------------------------------------------------------------
(* A node connects to the next address *)

LEMMA MinIs ==
  ASSUME NEW S \in SUBSET Nat, S # {}
  PROVE  Min(S) \in S
<1>1. \E x \in S : \A y \in S : x <= y
  BY LeastNatural
<1>. QED  BY <1>1 DEF Min

LEMMA NoMessage ==
  ASSUME NEW box \in Seq(Letter), DOMAIN box = {}
  PROVE  box = <<>>
<1>1. Len(box) \in Nat /\ DOMAIN box = 1..Len(box)
  OBVIOUS
<1>2. Len(box) = 0
  <2>1. Len(box) # 0 => 1 \in 1..Len(box)
    BY <1>1
  <2>. QED  BY <1>1, <2>1
<1>. QED  BY <1>2

LEMMA OneMessage ==
  ASSUME NEW m \in Letter
  PROVE  /\ <<m>> \in Seq(Letter) /\ Len(<<m>>) = 1 /\ <<m>>[1] = m /\ DOMAIN <<m>> = {1}
         /\ <<>> \o <<m>> = <<m>>
OBVIOUS

\* A new connection, with what its ends are told.
Connected(p, q, c) ==
  /\ c \in Socket /\ c \notin tried /\ c[1] = p /\ c[2] = q /\ c[3] = 1 /\ p # q
  /\ tried' = tried \cup {c}
  /\ inbox' \in [Node -> [Socket -> Seq(Letter)]]
  /\ \A r \in Node, d \in Socket : d # c => inbox'[r][d] = inbox[r][d]
  /\ \A r \in Node :
       inbox'[r][c] = IF r \notin Ends(c) THEN <<>>
                      ELSE IF q \in Node THEN <<Plain("ESTABLISHED")>>
                      ELSE <<Plain("FAILURE")>>

LEMMA ConnectedNetwork ==
  ASSUME PeersInv, UNCHANGED <<setup, PowVars>>, NEW p \in Node, NEW q \in Address,
         q \notin Node => Absent \in setup.addressList,
         NEW c, Connected(p, q, c)
  PROVE  Network'
<1>1. /\ Connections /\ Tables /\ Boxes /\ Introductions
      /\ UNCHANGED <<peers, powPeers, peerConnection>> /\ q \in Node \cup {Absent}
      /\ c \in Socket /\ c \notin tried /\ c[1] = p /\ c[2] = q /\ c[3] = 1 /\ p # q
      /\ tried' = tried \cup {c}
  BY DEF PeersInv, Network, PowVars, Connected, Address
<1>2. Connections'
  BY <1>1 DEF Connections
<1>3. Tables'
  BY <1>1 DEF Tables, Timers, Link
<1>4. Boxes'
  <2>. SUFFICES ASSUME NEW r \in Node, NEW d \in Socket PROVE Fits(r, d, inbox[r][d])'
    BY DEF Boxes, Connected
  <2>1. CASE d # c
    <3>1. Fits(r, d, inbox[r][d]) /\ inbox'[r][d] = inbox[r][d]
      BY <1>1, <2>1 DEF Boxes, Connected
    <3>. QED  BY <1>1, <3>1 DEF Fits
  <2>2. CASE d = c /\ r \notin Ends(c)
    <3>1. inbox'[r][d] = <<>>
      BY <2>2 DEF Connected
    <3>2. DOMAIN inbox'[r][d] = {}
      BY <3>1
    <3>. QED  BY <3>2 DEF Fits
  <2>3. CASE d = c /\ r \in Ends(c)
    <3>. DEFINE type == IF q \in Node THEN "ESTABLISHED" ELSE "FAILURE"
    <3>1. inbox'[r][d] = <<Plain(type)>> /\ type \in Types
      BY <2>3 DEF Connected, Types
    <3>2. type = "FAILURE" <=> q \notin Node
      OBVIOUS
    <3>. HIDE DEF type
    <3>3. /\ DOMAIN inbox'[r][d] = {1} /\ inbox'[r][d][1] = Plain(type)
          /\ inbox'[r][d][1].type = type
      BY <3>1, PlainIsLetter, OneMessage
    <3>. QED  BY <1>1, <2>3, <3>2, <3>3 DEF Fits
  <2>. QED  BY <2>1, <2>2, <2>3
<1>5. ASSUME NEW d \in tried', d[2] \in Node, NEW r \in Ends(d)
      PROVE  Introduced(r, d)'
  <2>1. d \in Socket /\ d[1] # d[2]
    BY <1>1, <1>2 DEF Connections
  <2>2. /\ r \in Node /\ OtherEnd(r, d) \in Node /\ OtherEnd(r, d) # r
        /\ OtherEnd(r, d) \in Ends(d)
    BY <1>5, <2>1, TwoEnds
  <2>3. Kept(r, d)' = Kept(r, d) /\ Idle(r, d)' = Idle(r, d)
    BY <1>1 DEF Kept, Idle
  <2>4. CASE d # c
    <3>1. Introduced(r, d)
      BY <1>1, <1>5, <2>4 DEF Introductions
    <3>2. inbox'[r][d] = inbox[r][d] /\ inbox'[OtherEnd(r, d)][d] = inbox[OtherEnd(r, d)][d]
      BY <2>1, <2>2, <2>4 DEF Connected
    <3>3. KeptOther(r, d) => KeptOther(r, d)'
      BY <1>1 DEF KeptOther, Kept
    <3>4. InStepAt(r, d)'
      BY <2>3, <3>1, <3>2 DEF Introduced, InStepAt
    <3>5. Joined(r, d)'
      BY <2>3, <3>1, <3>2, <3>3 DEF Introduced, Joined
    <3>. QED  BY <3>4, <3>5 DEF Introduced
  <2>5. CASE d = c
    <3>1. q \in Node
      BY <1>1, <1>5, <2>5
    <3>2. /\ inbox'[r][d] = <<Plain("ESTABLISHED")>>
          /\ inbox'[OtherEnd(r, d)][d] = <<Plain("ESTABLISHED")>>
      BY <1>5, <2>2, <2>5, <3>1 DEF Connected
    <3>. DEFINE box == <<Plain("ESTABLISHED")>>
    <3>3. /\ box \in Seq(Letter) /\ Len(box) = 1 /\ box # <<>> /\ box[1].type = "ESTABLISHED"
          /\ Head(box) = box[1]
      <4>1. "ESTABLISHED" \in Types
        BY DEF Types
      <4>. QED  BY <4>1, PlainIsLetter, OneMessage
    <3>4. ~Kept(r, d)
      BY <1>1, <2>2, <2>5 DEF Tables, Timers, Link, Kept
    <3>. HIDE DEF box
    <3>5. InStep(box, box, Kept(r, d), Idle(r, d))
      BY <3>3, <3>4, StartsInStep
    <3>6. InStepAt(r, d)'
      BY <2>3, <3>2, <3>5 DEF InStepAt, box
    <3>7. Joined(r, d)'
      <4>1. Has(box, "ESTABLISHED")
        BY <3>3, HeadIsHad
      <4>. QED  BY <3>2, <4>1 DEF Joined, box
    <3>. QED  BY <3>6, <3>7 DEF Introduced
  <2>. QED  BY <2>4, <2>5
<1>6. Introductions'
  BY <1>5 DEF Introductions, Ends
<1>. QED  BY <1>2, <1>3, <1>4, <1>6 DEF Network

LEMMA connectToPeerStep ==
  ASSUME PeersInv, NEW p \in Node, connectToPeer(p)
  PROVE  PeersInv' /\ StopsExplained'
<1>. DEFINE q == Min(resolutionList[p])
            c == <<p, q, 1>>
            fails == <<Plain("FAILURE")>>
            reported == <<Plain("ESTABLISHED")>>
            Taking ==
              /\ failed' = Running
              /\ resolutionList' = [resolutionList EXCEPT ![p] = resolutionList[p] \ {q}]
              /\ UNCHANGED <<setup, discoveryVars, timer, discovering, discoveryAttempts, PowVars>>
<1>1. resolutionList[p] # {} /\ timer[p] = kind.PEER_CONNECTION
  BY DEF connectToPeer, Fires
<1>2. \/ Taking /\ UNCHANGED <<tried, inbox>>
      \/ /\ c \in tried /\ failed' = "address already in use"
         /\ UNCHANGED <<setup, discoveryVars, P2PVars, PowVars, inbox>>
      \/ /\ Taking /\ q # p /\ c \notin tried /\ tried' = tried \cup {c}
         /\ inbox' = IF q = Absent THEN Bring(inbox, p, c, fails)
                     ELSE Bring(Bring(inbox, p, c, reported), q, c, reported)
  BY DEF connectToPeer, Fires, P2PVars
<1>3. /\ Shapes /\ Searching(p) /\ FirstSearch(p)
      /\ registering \subseteq Node /\ registered \subseteq Node
  BY DEF PeersInv, Discovery
<1>4. /\ q \in resolutionList[p] /\ q \in Address
      /\ q \notin Node => q = Absent /\ Absent \in setup.addressList
  <2>1. resolutionList[p] \subseteq Node \cup setup.addressList
    BY <1>3 DEF Searching
  <2>2. setup.addressList \subseteq Node \cup {Absent} /\ Node \cup {Absent} \subseteq Nat
    BY <1>3, PeersConstants DEF Shapes
  <2>3. resolutionList[p] \in SUBSET Nat
    BY <2>1, <2>2
  <2>4. q \in resolutionList[p]
    BY <1>1, <2>3, MinIs
  <2>. HIDE DEF q
  <2>. QED  BY <2>1, <2>2, <2>4 DEF Address
<1>. HIDE DEF q, fails, reported
<1>5. ASSUME Taking, tried' = tried \/ tried' = tried \cup {c}
      PROVE  Shapes' /\ Discovery'
  <2>1. DOMAIN resolutionList = Node
    BY <1>3 DEF Shapes, Over
  <2>2. /\ resolutionList'[p] = resolutionList[p] \ {q}
        /\ \A r \in Node : r # p => resolutionList'[r] = resolutionList[r]
        /\ Over(resolutionList, Node)'
    BY <1>5, <2>1 DEF Over
  <2>3. c[1] = p /\ c[2] = q
    OBVIOUS
  <2>. HIDE DEF c
  <2>4. OthersSearch(p)
    BY <1>5, <2>2, <2>3 DEF OthersSearch
  <2>5. Searching(p)'
    BY <1>3, <1>5, <2>2 DEF Searching, kind
  <2>6. FirstSearch(p)'
    <3>1. timer[p] \notin {kind.EXEC_START, kind.PEER_DISCOVERY} /\ discovering[p] = {}
      BY <1>1, <1>3, PeersConstants DEF Searching, Shapes, kind
    <3>. QED  BY <1>3, <1>5, <2>2, <2>3, <3>1 DEF FirstSearch, kind
  <2>7. Over(timer, Node)' /\ Over(discovering, Node)' /\ Over(discoveryAttempts, Node)'
    BY <1>3, <1>5 DEF Shapes, Over
  <2>. QED  BY <1>3, <1>5, <2>2, <2>4, <2>5, <2>6, <2>7, SearchesOn DEF discoveryVars
<1>6. CASE Taking /\ UNCHANGED <<tried, inbox>>
  BY <1>5, <1>6, NetworkUntouched DEF PeersInv, StopsExplained
<1>7. CASE /\ c \in tried /\ failed' = "address already in use"
           /\ UNCHANGED <<setup, discoveryVars, P2PVars, PowVars, inbox>>
  <2>1. discoveryAttempts[p] # setup.discoveryAttempts
    <3>1. c[1] = p /\ c[2] = q
      OBVIOUS
    <3>. HIDE DEF c
    <3>. QED  BY <1>3, <1>4, <1>7, <3>1 DEF FirstSearch
  <2>2. /\ discoveryAttempts[p] \in 0..setup.discoveryAttempts /\ discoveryAttempts[p] > 0
        /\ setup.discoveryAttempts \in Nat
    BY <1>1, <1>3, KindsApart DEF Searching, Shapes
  <2>3. setup.discoveryAttempts > 1
    BY <2>1, <2>2
  <2>. QED  BY <1>7, <2>3, UnchangedInv DEF StopsExplained
<1>8. CASE /\ Taking /\ q # p /\ c \notin tried /\ tried' = tried \cup {c}
           /\ inbox' = IF q = Absent THEN Bring(inbox, p, c, fails)
                       ELSE Bring(Bring(inbox, p, c, reported), q, c, reported)
  <2>1. Connections /\ Boxes /\ inbox \in [Node -> [Socket -> Seq(Letter)]] /\ Absent \notin Node
    BY PeersConstants DEF PeersInv, Network, Boxes
  <2>4. c \in Socket /\ c[1] = p /\ c[2] = q /\ c[3] = 1
    BY <1>4 DEF Socket
  <2>5. c \notin tried
    BY <1>8
  <2>. HIDE DEF c
  <2>7. \A r \in Node : inbox[r][c] = <<>>
    <3>. SUFFICES ASSUME NEW r \in Node PROVE inbox[r][c] = <<>>
      OBVIOUS
    <3>1. inbox[r][c] \in Seq(Letter) /\ Fits(r, c, inbox[r][c])
      BY <2>1, <2>4 DEF Boxes
    <3>2. DOMAIN inbox[r][c] = {}
      BY <2>5, <3>1 DEF Fits
    <3>. QED  BY <3>1, <3>2, NoMessage
  <2>8. /\ fails \in Seq(Letter) /\ reported \in Seq(Letter)
        /\ <<>> \o fails = fails /\ <<>> \o reported = reported
    <3>1. "FAILURE" \in Types /\ "ESTABLISHED" \in Types
      BY DEF Types
    <3>. QED  BY <3>1, PlainIsLetter, OneMessage DEF fails, reported
  <2>9. Ends(c) = {p, q}
    BY <2>4 DEF Ends
  <2>10. Connected(p, q, c)
    <3>1. CASE q = Absent
      <4>1. inbox' = Bring(inbox, p, c, fails)
        BY <1>8, <3>1
      <4>2. /\ inbox' \in [Node -> [Socket -> Seq(Letter)]]
            /\ inbox'[p][c] = inbox[p][c] \o fails /\ Beside(inbox', inbox, p, c)
        <5>1. Brought(Bring(inbox, p, c, fails), inbox, p, c, fails)
          BY <2>1, <2>4, <2>8, BringIs
        <5>2. Brought(inbox', inbox, p, c, fails)
          BY <4>1, <5>1, Zenon
        <5>. QED  BY <5>2 DEF Brought
      <4>3. inbox'[p][c] = fails
        BY <2>7, <2>8, <4>2
      <4>4. \A r \in Node, d \in Socket : d # c \/ r # p => inbox'[r][d] = inbox[r][d]
        BY <4>2 DEF Beside
      <4>5. q \notin Node /\ p \in Ends(c)
        BY <2>1, <2>9, <3>1
      <4>. QED  BY <1>8, <2>4, <2>5, <2>7, <2>9, <4>2, <4>3, <4>4, <4>5 DEF Connected, fails
    <3>2. CASE q # Absent
      <4>1. q \in Node
        BY <1>4, <3>2
      <4>. DEFINE half == Bring(inbox, p, c, reported)
      <4>2. /\ half \in [Node -> [Socket -> Seq(Letter)]]
            /\ half[p][c] = inbox[p][c] \o reported /\ Beside(half, inbox, p, c)
        <5>1. Brought(half, inbox, p, c, reported)
          BY <2>1, <2>4, <2>8, BringIs
        <5>. HIDE DEF half
        <5>. QED  BY <5>1 DEF Brought
      <4>3. inbox' = Bring(half, q, c, reported)
        BY <1>8, <3>2
      <4>. HIDE DEF half
      <4>4. /\ inbox' \in [Node -> [Socket -> Seq(Letter)]]
            /\ inbox'[q][c] = half[q][c] \o reported /\ Beside(inbox', half, q, c)
        <5>1. Brought(Bring(half, q, c, reported), half, q, c, reported)
          BY <2>4, <2>8, <4>1, <4>2, BringIs
        <5>2. Brought(inbox', half, q, c, reported)
          BY <4>3, <5>1, Zenon
        <5>. QED  BY <5>2 DEF Brought
      <4>5. half[p][c] = reported /\ half[q][c] = <<>>
        BY <1>8, <2>4, <2>7, <2>8, <4>1, <4>2 DEF Beside
      <4>6. inbox'[p][c] = reported /\ inbox'[q][c] = reported
        BY <1>8, <2>4, <2>8, <4>4, <4>5 DEF Beside
      <4>7. \A r \in Node, d \in Socket : d # c \/ r \notin {p, q} => inbox'[r][d] = inbox[r][d]
        BY <4>2, <4>4 DEF Beside
      <4>. QED  BY <1>8, <2>4, <2>5, <2>7, <2>9, <4>1, <4>4, <4>6, <4>7 DEF Connected, reported
    <3>. QED  BY <3>1, <3>2
  <2>11. Network'
    BY <1>4, <1>8, <2>10, ConnectedNetwork
  <2>. QED  BY <1>5, <1>8, <2>11 DEF PeersInv, StopsExplained
<1>. QED  BY <1>2, <1>6, <1>7, <1>8

-----------------------------------------------------------------------------
(* Every state *)

LEMMA PeersInvInit == Init => PeersInv
<1>. SUFFICES ASSUME Init PROVE PeersInv
  OBVIOUS
<1>1. Shapes
  BY DEF Init, PowInit, Shapes, Over
<1>2. Discovery
  <2>. SUFFICES ASSUME NEW p \in Node PROVE Searching(p) /\ FirstSearch(p)
    BY DEF Init, Discovery
  <2>1. timer[p] # kind.PEER_CONNECTION
    BY <1>1, PeersConstants DEF Init, Shapes, kind
  <2>2. /\ discovering[p] = {} /\ resolutionList[p] = {}
        /\ discoveryAttempts[p] = setup.discoveryAttempts
    BY DEF Init
  <2>3. setup.discoveryAttempts \in Nat
    BY <1>1, KindsApart DEF Shapes
  <2>. QED  BY <2>1, <2>2, <2>3 DEF Init, Searching, FirstSearch
<1>3. Connections
  BY DEF Init, Connections
<1>4. Tables
  BY DEF Init, PowInit, Tables, Entries, Timers
<1>5. Boxes
  <2>1. inbox \in [Node -> [Socket -> Seq(Letter)]]
    BY DEF Init
  <2>2. \A p \in Node, c \in Socket : DOMAIN inbox[p][c] = {}
    BY DEF Init
  <2>. QED  BY <2>1, <2>2 DEF Boxes, Fits
<1>6. Introductions
  BY DEF Init, Introductions
<1>. QED  BY <1>1, <1>2, <1>3, <1>4, <1>5, <1>6 DEF PeersInv, Network

LEMMA PeersInvNext ==
  ASSUME PeersInv, StopsExplained, [Next]_vars
  PROVE  PeersInv' /\ StopsExplained'
<1>1. CASE UNCHANGED vars
  <2>1. UNCHANGED <<setup, discoveryVars, P2PVars, PowVars, inbox, failed>>
    BY <1>1 DEF vars
  <2>2. \A p, q \in Node : ConnectedTwice(p, q)' <=> ConnectedTwice(p, q)
    BY <2>1 DEF ConnectedTwice, P2PVars
  <2>3. StopsExplained'
    BY <2>1, <2>2 DEF StopsExplained
  <2>. QED  BY <2>1, <2>3, UnchangedInv
<1>2. ASSUME NEW p \in Node, Service(p)
      PROVE  PeersInv' /\ StopsExplained'
  BY <1>2, registrationSteps, hardcodedAnswersStep, dnsAnswersStep DEF Service
<1>3. ASSUME NEW p \in Node, processSelfMessage(p)
      PROVE  PeersInv' /\ StopsExplained'
  BY <1>3, timerSteps, connectToPeerStep DEF processSelfMessage
<1>4. ASSUME NEW p \in Node, NEW c \in Socket, FromTcp(p, c)
      PROVE  PeersInv' /\ StopsExplained'
  BY <1>4, handleConnectFailureStep, handleConnectReturnStep, versionStep, verackStep, getaddrStep,
     addrStep, pingStep, pongStep, wrongChunkStep DEF FromTcp, handleDataArrived
<1>5. ASSUME NEW p \in Node, NEW c \in Socket, sendPing(p, c) \/ pongTimeout(p, c)
      PROVE  PeersInv' /\ StopsExplained'
  BY <1>5, sendPingStep, pongTimeoutStep
<1>. QED  BY <1>1, <1>2, <1>3, <1>4, <1>5 DEF Next

\* The invariant says all that PeersAgree does.
LEMMA PeersInvAgree ==
  ASSUME PeersInv
  PROVE  PeersAgree
<1>1. ASSUME NEW p \in Node
      PROVE  /\ IsInjective(powPeers[p]) /\ p \notin Range(powPeers[p])
             /\ DOMAIN peerConnection[p] \subseteq DOMAIN powPeers[p]
             /\ peers[p] = {powPeers[p][c] : c \in DOMAIN peerConnection[p]}
             /\ peers[p] \subseteq Address /\ discoveryAttempts[p] \in 0..setup.discoveryAttempts
  <2>1. Entries(p, powPeers[p]) /\ Timers(p) /\ Searching(p)
    BY DEF PeersInv, Network, Tables, Discovery
  <2>2. \A c \in DOMAIN peerConnection[p] : powPeers[p][c] = OtherEnd(p, c)
    BY <2>1 DEF Entries, Timers
  <2>3. peers[p] = {powPeers[p][c] : c \in DOMAIN peerConnection[p]}
    BY <2>1, <2>2 DEF Timers
  <2>4. peers[p] \subseteq Range(powPeers[p])
    BY <2>1, <2>3 DEF Timers, Range
  <2>. QED  BY <2>1, <2>3, <2>4, EntriesAre DEF Timers, Searching
<1>2. ASSUME NEW c \in tried, Kept(c[1], c), c[2] \in Node
      PROVE  \/ Kept(c[2], c) \/ Plain("ESTABLISHED") \in Range(inbox[c[2]][c])
             \/ ConnectedTwice(c[1], c[2])
  <2>1. Joined(c[2], c) /\ c \in Socket
    BY <1>2 DEF PeersInv, Network, Introductions, Introduced, Ends, Connections
  <2>2. ASSUME Has(inbox[c[2]][c], "ESTABLISHED")
        PROVE  Plain("ESTABLISHED") \in Range(inbox[c[2]][c])
    <3>1. inbox[c[2]][c] \in Seq(Letter)
      BY <1>2, <2>1 DEF PeersInv, Network, Boxes
    <3>2. PICK i \in DOMAIN inbox[c[2]][c] : inbox[c[2]][c][i].type = "ESTABLISHED"
      BY <2>2 DEF Has
    <3>3. inbox[c[2]][c][i] \in Letter
      BY <3>1, <3>2
    <3>4. inbox[c[2]][c][i] = Plain("ESTABLISHED")
      BY <3>2, <3>3 DEF Letter, Plain, Message
    <3>. QED  BY <3>2, <3>4 DEF Range
  <2>3. KeptOther(c[2], c) => ConnectedTwice(c[1], c[2])
    <3>1. Ends(c) = {c[1], c[2]}
      BY DEF Ends
    <3>. QED  BY <3>1, OtherConnects DEF PeersInv, Network
  <2>. QED  BY <2>1, <2>2, <2>3 DEF Joined
<1>. QED  BY <1>1, <1>2 DEF PeersAgree

LEMMA PeersInvAlways == Spec => [](PeersInv /\ StopsExplained)
<1>1. Init => PeersInv /\ StopsExplained
  <2>1. Init => StopsExplained
    BY DEF Init, StopsExplained
  <2>. QED  BY <2>1, PeersInvInit
<1>2. PeersInv /\ StopsExplained /\ [Next]_vars => (PeersInv /\ StopsExplained)'
  BY PeersInvNext
<1>. QED  BY <1>1, <1>2, PTL DEF Spec

(* The tables of a node (the peers it keeps, the sockets it knows and the  *)
(* timers of its connections) agree in every state, and so do the two ends *)
(* of a connection: PowP2P::handleConnectReturn, handleDataArrived and     *)
(* processSelfMessage never drift apart, however messages, timers and      *)
(* answers of the discovery services interleave.                           *)
THEOREM TablesAgree == Spec => []PeersAgree
BY PeersInvAlways, PeersInvAgree, PTL

(* The simulation stops for no other reason than an unreachable DNS        *)
(* server, an absent node, a seed nobody is registered at, a packet of     *)
(* several messages, two nodes that connected to each other, or a node     *)
(* that connects to the same peer in two searches, which with one attempt  *)
(* it never does (P2P::handleTimer).  The verack consumer always finds its *)
(* timer, and finds it idle.                                               *)
THEOREM StopsForAReason == Spec => []StopsExplained
BY PeersInvAlways, PTL

=============================================================================
