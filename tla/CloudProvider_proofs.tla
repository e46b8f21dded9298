------------------------ MODULE CloudProvider_proofs ------------------------
(***************************************************************************)
(* What holds of the cloud provider for any set of requests, nodes, zones  *)
(* and reports.                                                            *)
(*                                                                         *)
(* The queue invariants need nothing of the node table, so their inductive *)
(* invariant leaves the table out and they hold for any node selection.    *)
(* Of the table, that it stays well formed and consistent under any        *)
(* registration or update; of the provider with its table, that the state  *)
(* keeps its types, which means above all that no estimate, an unsigned    *)
(* int in the code, is charged below zero.                                 *)
(*                                                                         *)
(* Facts about all finite sets of naturals are proved by a least           *)
(* counterexample: the well-founded order on Nat gives the set of          *)
(* cardinalities of counterexamples a least element.                       *)
(***************************************************************************)
EXTENDS CloudProvider, DataLemmas, SequenceTheorems

\* The inductive invariant: types of the queue's part of the state, what the
\* environment has asked, and the invariant itself.  A request is in the
\* queue only if it subscribed; since it subscribes once, it cannot enter a
\* second time.
QueueInv ==
  /\ queue \in Seq(Request)
  /\ timers \subseteq Request
  /\ halted \in BOOLEAN
  /\ stage \in [Request -> {"new", "requested", "subscribed"}]
  /\ TimerPerSubscription
  /\ \A r \in Queued : stage[r] = "subscribed"

-----------------------------------------------------------------------------
(* The two ways an element leaves the queue *)

\* Erasing the element at position i.
LEMMA RemoveAtProperties ==
  ASSUME NEW S, NEW s \in Seq(S), NEW i \in DOMAIN s
  PROVE  /\ RemoveAt(s, i) \in Seq(S)
         /\ Len(RemoveAt(s, i)) = Len(s) - 1
         /\ \A j \in 1..(Len(s) - 1) :
              RemoveAt(s, i)[j] = IF j < i THEN s[j] ELSE s[j + 1]
<1>. DEFINE front == SubSeq(s, 1, i - 1)
            back  == SubSeq(s, i + 1, Len(s))
<1>1. i \in 1..Len(s) /\ Len(s) \in Nat
  OBVIOUS
<1>2. /\ front \in Seq(S) /\ Len(front) = i - 1
      /\ \A j \in 1..(i - 1) : front[j] = s[j]
  BY <1>1
<1>3. /\ back \in Seq(S) /\ Len(back) = Len(s) - i
      /\ \A j \in 1..(Len(s) - i) : back[j] = s[i + j]
  BY <1>1
<1>4. /\ front \o back \in Seq(S)
      /\ Len(front \o back) = Len(s) - 1
      /\ \A j \in 1..(i - 1) : (front \o back)[j] = front[j]
      /\ \A j \in i..(Len(s) - 1) : (front \o back)[j] = back[j - (i - 1)]
  <2>. HIDE DEF front, back
  <2>. QED  BY <1>1, <1>2, <1>3
<1>5. \A j \in 1..(Len(s) - 1) :
        (front \o back)[j] = IF j < i THEN s[j] ELSE s[j + 1]
  <2>. TAKE j \in 1..(Len(s) - 1)
  <2>. HIDE DEF front, back
  <2>1. CASE j < i
    BY <2>1, <1>1, <1>2, <1>4
  <2>2. CASE ~(j < i)
    <3>1. j - (i - 1) \in 1..(Len(s) - i) /\ i + (j - (i - 1)) = j + 1
      BY <2>2, <1>1
    <3>2. (front \o back)[j] = back[j - (i - 1)]
      <4>1. j \in i..(Len(s) - 1)
        BY <2>2, <1>1
      <4>. QED  BY <4>1, <1>4
    <3>3. back[j - (i - 1)] = s[i + (j - (i - 1))]
      BY <3>1, <1>3
    <3>. QED  BY <2>2, <3>1, <3>2, <3>3
  <2>. QED  BY <2>1, <2>2
<1>. QED
  BY <1>4, <1>5 DEF RemoveAt

\* Popping the first k elements.
LEMMA DropProperties ==
  ASSUME NEW S, NEW s \in Seq(S), NEW k \in 0..Len(s)
  PROVE  /\ SubSeq(s, k + 1, Len(s)) \in Seq(S)
         /\ Len(SubSeq(s, k + 1, Len(s))) = Len(s) - k
         /\ \A j \in 1..(Len(s) - k) : SubSeq(s, k + 1, Len(s))[j] = s[k + j]
OBVIOUS

-----------------------------------------------------------------------------
(* QueueInv is inductive: one lemma per handler *)

\* The provider starts with nothing waiting and nothing scheduled.
LEMMA QueueInvInit == Init => QueueInv
<1>. SUFFICES ASSUME Init PROVE QueueInv
  OBVIOUS
<1>1. queue \in Seq(Request) /\ DOMAIN queue = {}
  BY DEF Init
<1>2. Queued = {}
  BY <1>1 DEF Queued
<1>. QED
  BY <1>1, <1>2 DEF Init, QueueInv, TimerPerSubscription

\* A handler that stops the simulation, or leaves queue and timers alone.
LEMMA QueueUntouched ==
  ASSUME QueueInv, UNCHANGED <<queue, timers>>, halted' \in BOOLEAN,
         stage' \in [Request -> {"new", "requested", "subscribed"}],
         \A r \in Request : stage[r] = "subscribed" => stage'[r] = "subscribed"
  PROVE  QueueInv'
BY DEF QueueInv, TimerPerSubscription, Queued

\* A request never enters the queue by itself.
LEMMA QueueInvRequests ==
  ASSUME QueueInv, NEW r \in Request, Requests(r)
  PROVE  QueueInv'
<1>1. UNCHANGED <<queue, timers>> /\ halted' \in BOOLEAN
  BY DEF Requests, handleVmRequest, Halt, QueueInv
<1>2. /\ stage' \in [Request -> {"new", "requested", "subscribed"}]
      /\ \A q \in Request : stage[q] = "subscribed" => stage'[q] = "subscribed"
  BY DEF Requests, QueueInv
<1>. QED
  BY <1>1, <1>2, QueueUntouched

\* A subscription enters once: its user had not subscribed before.
LEMMA QueueInvSubscribes ==
  ASSUME QueueInv, NEW r \in Request, Subscribes(r)
  PROVE  QueueInv'
<1>1. /\ queue \in Seq(Request) /\ queue' = Append(queue, r)
      /\ timers' = timers \cup {r} /\ halted' = halted
      /\ stage[r] = "requested" /\ stage' = [stage EXCEPT ![r] = "subscribed"]
  BY DEF Subscribes, handleVmSubscription, QueueInv
<1>2. r \notin Queued
  BY <1>1 DEF QueueInv
<1>3. /\ queue' \in Seq(Request)
      /\ Len(queue') = Len(queue) + 1
      /\ \A i \in 1..Len(queue') :
           queue'[i] = IF i <= Len(queue) THEN queue[i] ELSE r
  BY <1>1
<1>4. Queued' = Queued \cup {r}
  <2>1. DOMAIN queue = 1..Len(queue) /\ DOMAIN queue' = 1..Len(queue') /\ Len(queue) \in Nat
    BY <1>1, <1>3
  <2>2. Queued' \subseteq Queued \cup {r}
    BY <1>3, <2>1 DEF Queued
  <2>3. r \in Queued'
    BY <1>3, <2>1 DEF Queued
  <2>4. Queued \subseteq Queued'
    BY <1>3, <2>1 DEF Queued
  <2>. QED  BY <2>2, <2>3, <2>4
<1>5. \A i, j \in DOMAIN queue' : queue'[i] = queue'[j] => i = j
  BY <1>1, <1>2, <1>3 DEF QueueInv, TimerPerSubscription, Queued
<1>6. timers' = Queued'
  BY <1>1, <1>4 DEF QueueInv, TimerPerSubscription
<1>. QED
  BY <1>1, <1>3, <1>4, <1>5, <1>6 DEF QueueInv, TimerPerSubscription

\* The time-out takes its own request, and the one copy of it, away.
LEMMA QueueInvTimesOut ==
  ASSUME QueueInv, NEW r \in Request, TimesOut(r)
  PROVE  QueueInv'
<1>1. CASE Halt
  BY <1>1, QueueUntouched DEF TimesOut, Halt, QueueInv
<1>2. ASSUME NEW i \in DOMAIN queue,
             queue[i] = r,
             timers' = timers \ {r},
             queue' = RemoveAt(queue, i),
             halted' = halted
      PROVE  QueueInv'
  <2>1. /\ queue \in Seq(Request) /\ Len(queue) \in Nat
        /\ i \in 1..Len(queue) /\ DOMAIN queue = 1..Len(queue)
        /\ \A j, k \in DOMAIN queue : queue[j] = queue[k] => j = k
    BY <1>2 DEF QueueInv, TimerPerSubscription
  <2>2. /\ queue' \in Seq(Request)
        /\ Len(queue') = Len(queue) - 1
        /\ DOMAIN queue' = 1..(Len(queue) - 1)
        /\ \A j \in 1..(Len(queue) - 1) :
             queue'[j] = IF j < i THEN queue[j] ELSE queue[j + 1]
    <3>1. /\ RemoveAt(queue, i) \in Seq(Request)
          /\ Len(RemoveAt(queue, i)) = Len(queue) - 1
          /\ \A j \in 1..(Len(queue) - 1) :
               RemoveAt(queue, i)[j] = IF j < i THEN queue[j] ELSE queue[j + 1]
      <4>1. queue \in Seq(Request) /\ i \in DOMAIN queue
        BY <1>2, <2>1
      <4>. QED  BY <4>1, RemoveAtProperties
    <3>. QED  BY <1>2, <3>1
  <2>3. \A j, k \in DOMAIN queue' : queue'[j] = queue'[k] => j = k
    <3>. DEFINE old(j) == IF j < i THEN j ELSE j + 1
    <3>1. \A j \in 1..(Len(queue) - 1) :
            old(j) \in DOMAIN queue /\ queue'[j] = queue[old(j)]
      BY <2>1, <2>2
    <3>2. \A j, k \in 1..(Len(queue) - 1) : old(j) = old(k) => j = k
      BY <2>1
    <3>. HIDE DEF old
    <3>3. \A j, k \in 1..(Len(queue) - 1) : queue[old(j)] = queue[old(k)] => old(j) = old(k)
      BY <2>1, <3>1
    <3>. QED  BY <2>2, <3>1, <3>2, <3>3
  <2>4. Queued' \subseteq Queued \ {r}
    BY <1>2, <2>1, <2>2 DEF Queued
  <2>5. ASSUME NEW q \in Queued, q # r
        PROVE  q \in Queued'
    <3>1. PICK j \in DOMAIN queue : queue[j] = q /\ j # i
      BY <1>2, <2>5 DEF Queued
    <3>2. CASE j < i
      BY <2>1, <2>2, <3>1, <3>2 DEF Queued
    <3>3. CASE j > i
      <4>1. j - 1 \in DOMAIN queue' /\ queue'[j - 1] = queue[j]
        BY <2>1, <2>2, <3>3
      <4>. QED  BY <3>1, <4>1 DEF Queued
    <3>. QED  BY <2>1, <3>1, <3>2, <3>3
  <2>6. timers' = Queued' /\ timers' \subseteq Request
    BY <1>2, <2>4, <2>5 DEF QueueInv, TimerPerSubscription
  <2>. QED
    BY <1>2, <2>2, <2>3, <2>4, <2>6
    DEF QueueInv, TimerPerSubscription, TimesOut
<1>. QED
  BY <1>1, <1>2 DEF TimesOut, handleSubscriptionTimeout

\* Whatever the table looks like, attemptDispatching takes a prefix of the
\* queue, and the time-outs of exactly that prefix.
LEMMA DispatchTakesPrefix ==
  ASSUME NEW tbl, attemptDispatching(tbl)
  PROVE  \/ Halt
         \/ \E k \in 0..Len(queue) :
              /\ queue' = SubSeq(queue, k + 1, Len(queue))
              /\ timers' = timers \ {queue[i] : i \in 1..k}
              /\ DOMAIN emitted' = 1..k
              /\ \A i \in 1..k : emitted'[i].req = queue[i]
              /\ halted' = halted
<1>1. PICK k \in 0..Len(queue) :
        \/ Halt
        \/ /\ queue' = SubSeq(queue, k + 1, Len(queue))
           /\ timers' = TimersCancelled(k)
           /\ emitted' = [i \in 1..k |->
                            ForwardTo(AfterDispatching(tbl)[i - 1], queue[i])]
           /\ UNCHANGED halted
  BY DEF attemptDispatching
<1>2. ASSUME emitted' = [i \in 1..k |->
                            ForwardTo(AfterDispatching(tbl)[i - 1], queue[i])],
             k \in Nat
      PROVE  DOMAIN emitted' = 1..k /\ \A i \in 1..k : emitted'[i].req = queue[i]
  BY <1>2 DEF ForwardTo, Forward
<1>. QED
  BY <1>1, <1>2 DEF TimersCancelled

\* A dispatch takes a prefix of the queue and the time-outs of that prefix.
LEMMA QueueInvNodeReports ==
  ASSUME QueueInv, NEW topic \in Topic, NEW cores \in Reports,
         NodeReports(topic, cores)
  PROVE  QueueInv'
<1>1. CASE Halt
  BY <1>1, QueueUntouched DEF NodeReports, Halt, QueueInv
<1>2. ASSUME NEW k \in 0..Len(queue),
             queue' = SubSeq(queue, k + 1, Len(queue)),
             timers' = timers \ {queue[i] : i \in 1..k},
             halted' = halted
      PROVE  QueueInv'
  <2>1. /\ queue \in Seq(Request) /\ Len(queue) \in Nat
        /\ DOMAIN queue = 1..Len(queue)
        /\ \A i, j \in DOMAIN queue : queue[i] = queue[j] => i = j
    BY DEF QueueInv, TimerPerSubscription
  <2>2. /\ queue' \in Seq(Request)
        /\ DOMAIN queue' = 1..(Len(queue) - k)
        /\ \A j \in 1..(Len(queue) - k) : queue'[j] = queue[k + j]
    BY <1>2, <2>1, DropProperties
  <2>3. \A j \in DOMAIN queue' : k + j \in DOMAIN queue /\ k + j > k /\ j \in Nat
    BY <2>1, <2>2
  <2>4. \A i, j \in DOMAIN queue' : queue'[i] = queue'[j] => i = j
    <3>. SUFFICES ASSUME NEW i \in DOMAIN queue', NEW j \in DOMAIN queue',
                         queue'[i] = queue'[j]
                  PROVE  i = j
      OBVIOUS
    <3>1. queue[k + i] = queue[k + j]
      BY <2>2
    <3>2. k + i = k + j
      BY <2>1, <2>3, <3>1
    <3>. QED  BY <2>3, <3>2
  <2>7. Queued' \subseteq Queued
    BY <2>2, <2>3 DEF Queued
  <2>8. ASSUME NEW i \in 1..k PROVE queue[i] \notin Queued'
    <3>. SUFFICES ASSUME NEW j \in DOMAIN queue', queue'[j] = queue[i] PROVE FALSE
      BY DEF Queued
    <3>1. i \in DOMAIN queue /\ queue[k + j] = queue[i]
      BY <2>1, <2>2
    <3>2. k + j = i
      BY <2>1, <2>3, <3>1
    <3>. QED  BY <2>3, <3>2
  <2>5. ASSUME NEW i \in DOMAIN queue, i \notin 1..k
        PROVE  queue[i] \in Queued'
    <3>1. i - k \in DOMAIN queue' /\ k + (i - k) = i
      BY <2>1, <2>2, <2>5
    <3>. QED  BY <2>2, <3>1 DEF Queued
  <2>6. timers' = Queued'
    <3>1. timers = Queued
      BY DEF QueueInv, TimerPerSubscription
    <3>2. Queued' \subseteq timers'
      BY <1>2, <2>7, <2>8, <3>1
    <3>3. timers' \subseteq Queued'
      BY <1>2, <2>5, <3>1 DEF Queued
    <3>. QED  BY <3>2, <3>3
  <2>. QED
    BY <1>2, <2>2, <2>4, <2>6, <2>7
    DEF QueueInv, TimerPerSubscription, NodeReports
<1>. QED
  BY <1>1, <1>2, DispatchTakesPrefix DEF NodeReports, handleNodeUpdate

\* QueueInv is inductive: one case per handler.
LEMMA QueueInvNext == QueueInv /\ [Next]_vars => QueueInv'
<1>. SUFFICES ASSUME QueueInv, [Next]_vars PROVE QueueInv'
  OBVIOUS
<1>1. ASSUME NEW r \in Request, Requests(r) \/ Subscribes(r) \/ TimesOut(r)
      PROVE  QueueInv'
  BY <1>1, QueueInvRequests, QueueInvSubscribes, QueueInvTimesOut
<1>2. ASSUME NEW topic \in Topic, NEW cores \in Reports, NodeReports(topic, cores)
      PROVE  QueueInv'
  BY <1>2, QueueInvNodeReports
<1>3. CASE UNCHANGED vars
  BY <1>3 DEF vars, QueueInv, TimerPerSubscription, Queued
<1>. QED
  BY <1>1, <1>2, <1>3 DEF Next

-----------------------------------------------------------------------------
(* What one handler sends *)

\* A message of the last event about r, of the kind that goes to a node.
LEMMA NoForwardInReplies ==
  ASSUME NEW r \in Request, NEW s \in Request,
         NEW result \in {"rejected", "timeout"},
         emitted' = <<Reply(r, result)>> \/ emitted' = <<>>
  PROVE  ~Forwarded(s)'
BY DEF Forwarded, Reply

\* Nothing that is forwarded overtakes a request that keeps waiting, unless
\* its user has priority.
Overtakes(r, s) ==
  r \in Queued /\ r \in Queued' /\ r # s /\ Forwarded(s)'

\* Only a request that skips the queue and a dispatch forward anything, and
\* a dispatch takes the front of the queue.
LEMMA NoOvertakingStep ==
  ASSUME QueueInv, [Next]_vars, NEW r \in Request, NEW s \in Request,
         Overtakes(r, s), vars' # vars
  PROVE  Before(s, r) \/ SkipsQueue(s)
<1>1. ASSUME NEW q \in Request, Requests(q)
      PROVE  SkipsQueue(s)
  <2>1. queue # <<>>
    BY DEF Overtakes, Queued
  <2>2. /\ ~MustWait(q) /\ Selectable(table, q)
        /\ emitted' = <<ForwardTo(table, q)>>
    BY <1>1, NoForwardInReplies DEF Requests, handleVmRequest, Halt, Overtakes
  <2>3. s = q
    BY <2>2 DEF Overtakes, Forwarded, ForwardTo, Forward
  <2>. QED  BY <2>1, <2>2, <2>3 DEF MustWait
<1>2. ASSUME NEW q \in Request, Subscribes(q)
      PROVE  FALSE
  BY <1>2, NoForwardInReplies DEF Subscribes, handleVmSubscription, Overtakes
<1>3. ASSUME NEW q \in Request, TimesOut(q)
      PROVE  FALSE
  BY <1>3, NoForwardInReplies DEF TimesOut, handleSubscriptionTimeout, Halt, Overtakes
<1>4. ASSUME NEW topic \in Topic, NEW cores \in Reports, NodeReports(topic, cores)
      PROVE  Before(s, r)
  <2>1. ~Halt
    BY NoForwardInReplies DEF Halt, Overtakes
  <2>2. PICK k \in 0..Len(queue) :
          /\ queue' = SubSeq(queue, k + 1, Len(queue))
          /\ DOMAIN emitted' = 1..k
          /\ \A i \in 1..k : emitted'[i].req = queue[i]
    BY <1>4, <2>1, DispatchTakesPrefix DEF NodeReports, handleNodeUpdate
  <2>3. /\ queue \in Seq(Request) /\ Len(queue) \in Nat
        /\ DOMAIN queue = 1..Len(queue) /\ k \in Nat
    BY DEF QueueInv
  <2>4. /\ DOMAIN queue' = 1..(Len(queue) - k)
        /\ \A j \in 1..(Len(queue) - k) : queue'[j] = queue[k + j]
    BY <2>2, <2>3, DropProperties
  <2>5. PICK j \in DOMAIN queue' : queue'[j] = r
    BY DEF Overtakes, Queued
  <2>6. k + j \in DOMAIN queue /\ queue[k + j] = r /\ k + j > k
    BY <2>3, <2>4, <2>5
  <2>7. PICK i \in DOMAIN emitted' : emitted'[i].req = s
    BY DEF Overtakes, Forwarded
  <2>8. i \in DOMAIN queue /\ queue[i] = s /\ i < k + j
    BY <2>2, <2>3, <2>6, <2>7
  <2>. QED  BY <2>6, <2>8 DEF Before
<1>. QED
  BY <1>1, <1>2, <1>3, <1>4 DEF Next

\* Where the requests of an event end up: in the queue or in one message.
OneAnswer(r) ==
  LET held == r \in Queued \/ stage'[r] # stage[r]
  IN  /\ held  => (r \in Queued' <=> Answers(r)' = {})
      /\ ~held => r \notin Queued' /\ Answers(r)' = {}
      /\ \A i, j \in Answers(r)' : i = j

\* A handler that sends at most one message, about q, and moves q alone.
LEMMA OneAnswerAboutOne ==
  ASSUME NEW r \in Request, NEW q \in Request,
         \/ /\ emitted' = <<>> /\ q \in Queued'
         \/ /\ \E m : emitted' = <<m>> /\ m.req = q
            /\ q \notin Queued',
         r # q => (r \in Queued' <=> r \in Queued) /\ stage'[r] = stage[r],
         q \in Queued \/ stage'[q] # stage[q]
  PROVE  OneAnswer(r)
<1>1. CASE emitted' = <<>>
  <2>1. Answers(r)' = {}
    BY <1>1 DEF Answers
  <2>. QED  BY <1>1, <2>1 DEF OneAnswer
<1>2. ASSUME NEW m, emitted' = <<m>>, m.req = q
      PROVE  OneAnswer(r)
  <2>1. Answers(r)' = IF r = q THEN {1} ELSE {}
    BY <1>2 DEF Answers
  <2>. QED  BY <1>2, <2>1 DEF OneAnswer
<1>. QED  BY <1>1, <1>2

\* Each handler answers what it takes away, and only that.
LEMMA OneAnswerStep ==
  ASSUME QueueInv, QueueInv', Next, ~halted', NEW r \in Request
  PROVE  OneAnswer(r)
<1>1. ASSUME NEW q \in Request, Requests(q)
      PROVE  OneAnswer(r)
  <2>1. /\ stage \in [Request -> {"new", "requested", "subscribed"}]
        /\ stage[q] = "new" /\ stage' = [stage EXCEPT ![q] = "requested"]
        /\ Queued' = Queued
        /\ q \notin Queued
    BY <1>1 DEF Requests, handleVmRequest, Halt, QueueInv, Queued
  <2>2. \E m : emitted' = <<m>> /\ m.req = q
    BY <1>1 DEF Requests, handleVmRequest, Halt, Reply, ForwardTo, Forward
  <2>. QED  BY <2>1, <2>2, OneAnswerAboutOne
<1>2. ASSUME NEW q \in Request, Subscribes(q)
      PROVE  OneAnswer(r)
  <2>1. /\ timers' = timers \cup {q} /\ emitted' = <<>>
        /\ stage \in [Request -> {"new", "requested", "subscribed"}]
        /\ stage[q] = "requested" /\ stage' = [stage EXCEPT ![q] = "subscribed"]
    BY <1>2 DEF Subscribes, handleVmSubscription, QueueInv
  <2>2. timers = Queued /\ timers' = Queued'
    BY DEF QueueInv, TimerPerSubscription
  <2>. QED  BY <2>1, <2>2, OneAnswerAboutOne
<1>3. ASSUME NEW q \in Request, TimesOut(q)
      PROVE  OneAnswer(r)
  <2>1. /\ timers' = timers \ {q} /\ q \in timers
        /\ emitted' = <<Reply(q, "timeout")>> /\ stage' = stage
    BY <1>3 DEF TimesOut, handleSubscriptionTimeout, Halt
  <2>2. timers = Queued /\ timers' = Queued'
    BY DEF QueueInv, TimerPerSubscription
  <2>3. \E m : emitted' = <<m>> /\ m.req = q
    BY <2>1 DEF Reply
  <2>. QED  BY <2>1, <2>2, <2>3, OneAnswerAboutOne
<1>4. ASSUME NEW topic \in Topic, NEW cores \in Reports, NodeReports(topic, cores)
      PROVE  OneAnswer(r)
  <2>1. stage' = stage /\ ~Halt
    BY <1>4 DEF NodeReports, Halt
  <2>2. PICK k \in 0..Len(queue) :
          /\ timers' = timers \ {queue[i] : i \in 1..k}
          /\ DOMAIN emitted' = 1..k
          /\ \A i \in 1..k : emitted'[i].req = queue[i]
    BY <1>4, <2>1, DispatchTakesPrefix DEF NodeReports, handleNodeUpdate
  <2>3. timers = Queued /\ timers' = Queued'
    BY DEF QueueInv, TimerPerSubscription
  <2>4. /\ Answers(r)' = {i \in 1..k : queue[i] = r}
        /\ 1..k \subseteq DOMAIN queue
        /\ \A i, j \in DOMAIN queue : queue[i] = queue[j] => i = j
    BY <2>2 DEF Answers, QueueInv, TimerPerSubscription
  <2>5. r \in Queued' <=> r \in Queued /\ Answers(r)' = {}
    BY <2>2, <2>3, <2>4
  <2>6. Answers(r)' # {} => r \in Queued
    BY <2>4 DEF Queued
  <2>. QED  BY <2>1, <2>4, <2>5, <2>6 DEF OneAnswer
<1>. QED
  BY <1>1, <1>2, <1>3, <1>4 DEF Next

-----------------------------------------------------------------------------
(* Theorems *)

\* The inductive invariant holds in every reachable state.
THEOREM QueueInvariant == Spec => []QueueInv
BY QueueInvInit, QueueInvNext, PTL DEF Spec

\* Every waiting subscription has exactly one scheduled time-out and every
\* scheduled time-out has its request in the queue: the error() branch of
\* handleSubscriptionTimeout is unreachable, however requests, time-outs and
\* node updates interleave.
THEOREM TimerSafety == Spec => []TimerPerSubscription
<1>1. QueueInv => TimerPerSubscription
  BY DEF QueueInv
<1>. QED  BY <1>1, QueueInvariant, PTL

\* The queue is first come, first served for every user without priority.
THEOREM FirstComeFirstServed == Spec => NoOvertaking
<1>1. QueueInv /\ [Next]_vars =>
        [\A r, s \in Request :
           (/\ r \in Queued /\ r \in Queued'
            /\ r # s /\ Forwarded(s)')
             => Before(s, r) \/ SkipsQueue(s)]_vars
  BY NoOvertakingStep DEF Overtakes
<1>. QED
  BY <1>1, QueueInvariant, PTL DEF Spec, NoOvertaking

\* No request is lost, answered twice or answered unasked by any event that
\* does not stop the simulation.
THEOREM RequestsConserved == Spec => ExactlyOneAnswer
<1>1. QueueInv /\ QueueInv' /\ [Next]_vars =>
        [~halted' => \A r \in Request :
           LET held == r \in Queued \/ stage'[r] # stage[r]
           IN  /\ held  => (r \in Queued' <=> Answers(r)' = {})
               /\ ~held => r \notin Queued' /\ Answers(r)' = {}
               /\ \A i, j \in Answers(r)' : i = j]_vars
  BY OneAnswerStep DEF OneAnswer
<1>. QED
  BY <1>1, QueueInvariant, PTL DEF Spec, ExactlyOneAnswer

-----------------------------------------------------------------------------
(* Finite sets of naturals *)

\* Taking one element away leaves a smaller finite set.
LEMMA OneLess ==
  ASSUME NEW S \in SUBSET Nat, IsFiniteSet(S), NEW x \in S
  PROVE  /\ S \ {x} \in SUBSET Nat /\ IsFiniteSet(S \ {x})
         /\ Cardinality(S) \in Nat /\ Cardinality(S \ {x}) \in Nat
         /\ Cardinality(S) = Cardinality(S \ {x}) + 1
<1>1. IsFiniteSet(S \ {x}) /\ Cardinality(S \ {x}) = Cardinality(S) - 1
  BY FS_RemoveElement
<1>2. Cardinality(S) \in Nat /\ Cardinality(S \ {x}) \in Nat
  BY <1>1, FS_CardinalityType
<1>. QED  BY <1>1, <1>2

IsGreatest(n, S) == n \in S /\ \A m \in S : m <= n

\* Every finite set of naturals but the empty one has a greatest element.
LEMMA GreatestNatural ==
  ASSUME NEW S \in SUBSET Nat, IsFiniteSet(S), S # {}
  PROVE  \E n \in S : IsGreatest(n, S)
<1>. DEFINE Bad(c) == \E T \in SUBSET Nat :
              /\ IsFiniteSet(T) /\ T # {} /\ Cardinality(T) = c
              /\ \A n \in T : ~IsGreatest(n, T)
<1>. SUFFICES ASSUME \A n \in S : ~IsGreatest(n, S)
              PROVE  FALSE
  OBVIOUS
<1>1. Bad(Cardinality(S)) /\ Cardinality(S) \in Nat
  BY FS_CardinalityType
<1>2. PICK c \in {k \in Nat : Bad(k)} : \A k \in {k \in Nat : Bad(k)} : c <= k
  <2>. HIDE DEF Bad
  <2>. QED  BY <1>1, LeastNatural
<1>3. PICK T \in SUBSET Nat :
        /\ IsFiniteSet(T) /\ T # {} /\ Cardinality(T) = c
        /\ \A n \in T : ~IsGreatest(n, T)
  BY <1>2
<1>4. PICK x \in T : TRUE
  BY <1>3
<1>. DEFINE U == T \ {x}
<1>5. /\ U \in SUBSET Nat /\ IsFiniteSet(U)
      /\ Cardinality(U) \in Nat /\ Cardinality(U) < c
  BY <1>3, OneLess
<1>6. ~Bad(Cardinality(U))
  <2>1. Cardinality(U) \in Nat /\ ~(c <= Cardinality(U))
    BY <1>2, <1>5
  <2>. HIDE DEF Bad, U
  <2>. QED  BY <1>2, <2>1
<1>7. CASE U = {}
  <2>1. IsGreatest(x, T)
    BY <1>7 DEF IsGreatest
  <2>. QED  BY <1>3, <2>1
<1>8. CASE U # {}
  <2>1. PICK n \in U : IsGreatest(n, U)
    <3>. HIDE DEF U
    <3>. QED  BY <1>5, <1>6, <1>8
  <2>2. IsGreatest(n, T) \/ IsGreatest(x, T)
    BY <2>1 DEF IsGreatest
  <2>. QED  BY <1>3, <2>1, <2>2
<1>. QED  BY <1>7, <1>8

-----------------------------------------------------------------------------
(* Positions in a sorted vector *)

\* Positions of names of a finite set are among 1..Cardinality.
LEMMA PositionType ==
  ASSUME NEW S \in SUBSET Nat, IsFiniteSet(S), NEW name \in S
  PROVE  Position(name, S) \in 1..Cardinality(S)
<1>. DEFINE T == {other \in S : other <= name}
<1>1. IsFiniteSet(T) /\ Cardinality(T) <= Cardinality(S)
  BY FS_Subset
<1>2. Cardinality(T) \in Nat /\ Cardinality(S) \in Nat
  BY <1>1, FS_CardinalityType
<1>3. T # {}
  OBVIOUS
<1>4. Cardinality(T) # 0
  <2>. HIDE DEF T
  <2>. QED  BY <1>1, <1>3, FS_EmptySet
<1>. QED  BY <1>1, <1>2, <1>4 DEF Position

\* Every index of the sorted vector holds a name.
LEMMA PositionOnto ==
  ASSUME NEW S \in SUBSET Nat, IsFiniteSet(S), NEW i \in 1..Cardinality(S)
  PROVE  \E name \in S : Position(name, S) = i
<1>. DEFINE Bad(c) == \E T \in SUBSET Nat :
              /\ IsFiniteSet(T) /\ Cardinality(T) = c /\ i \in 1..c
              /\ \A name \in T : Position(name, T) # i
<1>. SUFFICES ASSUME \A name \in S : Position(name, S) # i
              PROVE  FALSE
  OBVIOUS
<1>1. Bad(Cardinality(S)) /\ Cardinality(S) \in Nat
  BY FS_CardinalityType
<1>2. PICK c \in {k \in Nat : Bad(k)} : \A k \in {k \in Nat : Bad(k)} : c <= k
  <2>. HIDE DEF Bad
  <2>. QED  BY <1>1, LeastNatural
<1>3. PICK T \in SUBSET Nat :
        /\ IsFiniteSet(T) /\ Cardinality(T) = c /\ i \in 1..c
        /\ \A name \in T : Position(name, T) # i
  BY <1>2
<1>4. T # {}
  BY <1>2, <1>3, FS_EmptySet
<1>5. PICK x \in T : IsGreatest(x, T)
  BY <1>3, <1>4, GreatestNatural
<1>6. Position(x, T) = c
  <2>1. {other \in T : other <= x} = T
    BY <1>5 DEF IsGreatest
  <2>. QED  BY <1>3, <2>1 DEF Position
<1>. DEFINE U == T \ {x}
<1>7. /\ U \in SUBSET Nat /\ IsFiniteSet(U)
      /\ Cardinality(U) \in Nat /\ c = Cardinality(U) + 1
  BY <1>3, OneLess
<1>8. i \in 1..Cardinality(U)
  BY <1>3, <1>6, <1>7
<1>9. \A name \in U : Position(name, U) = Position(name, T)
  <2>1. \A name \in U : {other \in U : other <= name} = {other \in T : other <= name}
    BY <1>5 DEF IsGreatest
  <2>. QED  BY <2>1 DEF Position
<1>10. Bad(Cardinality(U))
  BY <1>3, <1>7, <1>8, <1>9
<1>. QED
  <2>. HIDE DEF Bad, U
  <2>. QED  BY <1>2, <1>7, <1>10

\* So the name found at a remembered index is a name of the vector, if not
\* the one that was meant.
LEMMA AtPositionType ==
  ASSUME NEW S \in SUBSET Nat, IsFiniteSet(S), NEW i \in 1..Cardinality(S)
  PROVE  AtPosition(i, S) \in S
BY PositionOnto DEF AtPosition

-----------------------------------------------------------------------------
(* The table *)

\* Types of a table: what each vector holds, that names are finitely many,
\* and that every remembered topic index is an index of the vector.
IsTable(t) ==
  /\ t = [nodes |-> t.nodes, topics |-> t.topics, zones |-> t.zones]
  /\ t.nodes \in Seq(NodeEntry)
  /\ t.topics \in [DOMAIN t.topics -> 1..Len(t.nodes)]
  /\ DOMAIN t.topics \in SUBSET Topic /\ IsFiniteSet(DOMAIN t.topics)
  /\ t.zones \in [DOMAIN t.zones -> SUBSET (1..Len(t.nodes))]
  /\ DOMAIN t.zones \in SUBSET Zone /\ IsFiniteSet(DOMAIN t.zones)
  /\ \A id \in 1..Len(t.nodes) :
       t.nodes[id].topicIndex <= Cardinality(DOMAIN t.topics)

\* The provider starts with a table.
LEMMA EmptyIsTable == IsTable(EmptyTable)
BY FS_EmptySet DEF IsTable, EmptyTable

\* One more name, of the same kind of payload.
LEMMA ExtendedType ==
  ASSUME NEW D, NEW S, NEW f \in [D -> S], NEW x, NEW y \in S
  PROVE  Extended(f, x, y) \in [D \cup {x} -> S]
BY DEF Extended

\* Another number of cores leaves an entry an entry.
LEMMA EntryCores ==
  ASSUME NEW entry \in NodeEntry, NEW cores \in Nat
  PROVE  /\ [entry EXCEPT !.cores = cores] \in NodeEntry
         /\ [entry EXCEPT !.cores = cores].topicIndex = entry.topicIndex
BY DEF NodeEntry

\* Replacing the entries of a table.
LEMMA TableNodes ==
  ASSUME NEW t, t = [nodes |-> t.nodes, topics |-> t.topics, zones |-> t.zones],
         NEW nodes
  PROVE  [t EXCEPT !.nodes = nodes]
           = [nodes |-> nodes, topics |-> t.topics, zones |-> t.zones]
OBVIOUS

\* Setting the cores of one node, by an update or by a charge.
LEMMA CoresIsTable ==
  ASSUME NEW t, IsTable(t), NEW id \in 1..Len(t.nodes), NEW cores \in Nat
  PROVE  /\ IsTable([t EXCEPT !.nodes[id].cores = cores])
         /\ [t EXCEPT !.nodes[id].cores = cores].topics = t.topics
         /\ [t EXCEPT !.nodes[id].cores = cores].zones = t.zones
         /\ Len([t EXCEPT !.nodes[id].cores = cores].nodes) = Len(t.nodes)
<1>. DEFINE entry == [t.nodes[id] EXCEPT !.cores = cores]
            nodes == [t.nodes EXCEPT ![id] = entry]
            u     == [nodes |-> nodes, topics |-> t.topics, zones |-> t.zones]
<1>1. t.nodes \in Seq(NodeEntry) /\ t.nodes[id] \in NodeEntry
  BY DEF IsTable
<1>2. entry \in NodeEntry /\ entry.topicIndex = t.nodes[id].topicIndex
  BY <1>1, EntryCores
<1>3. /\ nodes \in Seq(NodeEntry) /\ Len(nodes) = Len(t.nodes)
      /\ \A i \in 1..Len(t.nodes) : nodes[i] = IF i = id THEN entry ELSE t.nodes[i]
  <2>. HIDE DEF entry
  <2>. QED  BY <1>1, <1>2, ExceptSeq
<1>4. [t EXCEPT !.nodes = nodes] = u
  <2>. HIDE DEF nodes
  <2>. QED  BY TableNodes DEF IsTable
<1>5. IsTable(u)
  <2>. HIDE DEF entry, nodes
  <2>. QED  BY <1>2, <1>3 DEF IsTable
<1>. QED  BY <1>3, <1>4, <1>5

\* A known node's report changes its cores alone.
LEMMA UpdateIsTable ==
  ASSUME NEW t, IsTable(t), NEW topic \in DOMAIN t.topics, NEW cores \in Nat
  PROVE  /\ IsTable(updateNode(t, topic, cores))
         /\ updateNode(t, topic, cores).topics = t.topics
         /\ updateNode(t, topic, cores).zones = t.zones
         /\ Len(updateNode(t, topic, cores).nodes) = Len(t.nodes)
<1>1. t.topics[topic] \in 1..Len(t.nodes)
  BY DEF IsTable
<1>. QED  BY <1>1, CoresIsTable DEF updateNode

\* A new node gets the next id and an index within the vectors.
LEMMA InsertIsTable ==
  ASSUME NEW t, IsTable(t), NEW topic \in Topic, topic \notin DOMAIN t.topics,
         NEW area \in Zone, NEW cores \in Nat
  PROVE  IsTable(insertNode(t, topic, area, cores))
<1>. DEFINE id == Len(t.nodes) + 1
            entry == [cores      |-> cores,
                      topicIndex |-> Cardinality(DOMAIN t.topics) + 1,
                      zoneIndex  |-> IF area \in DOMAIN t.zones
                                     THEN Position(area, DOMAIN t.zones)
                                     ELSE Cardinality(DOMAIN t.zones) + 1]
            nodes  == Append(t.nodes, entry)
            topics == Extended(t.topics, topic, id)
            zones  == ZonesWith(t.zones, area, id)
<1>1. insertNode(t, topic, area, cores) = [nodes |-> nodes, topics |-> topics, zones |-> zones]
  BY DEF insertNode
<1>2. /\ t.nodes \in Seq(NodeEntry) /\ Len(t.nodes) \in Nat
      /\ 1..Len(t.nodes) \subseteq 1..id /\ id \in 1..id
  BY DEF IsTable
<1>3. /\ Cardinality(DOMAIN t.topics) \in Nat /\ Cardinality(DOMAIN t.zones) \in Nat
      /\ DOMAIN t.zones \in SUBSET Nat /\ IsFiniteSet(DOMAIN t.zones)
  BY FS_CardinalityType, NamesAreOrdered DEF IsTable
<1>4. entry \in NodeEntry
  <2>1. area \in DOMAIN t.zones => Position(area, DOMAIN t.zones) \in Nat \ {0}
    BY <1>3, PositionType
  <2>. QED  BY <1>3, <2>1 DEF NodeEntry
<1>5. /\ nodes \in Seq(NodeEntry) /\ Len(nodes) = id
      /\ \A i \in 1..id : nodes[i] = IF i = id THEN entry ELSE t.nodes[i]
  <2>. HIDE DEF entry
  <2>. QED  BY <1>2, <1>4, AppendProperties
<1>6. topics \in [DOMAIN topics -> 1..id] /\ DOMAIN topics = DOMAIN t.topics \cup {topic}
  <2>1. t.topics \in [DOMAIN t.topics -> 1..id]
    BY <1>2 DEF IsTable
  <2>2. topics \in [DOMAIN t.topics \cup {topic} -> 1..id]
    BY <1>2, <2>1, ExtendedType
  <2>. QED  BY <2>2
<1>7. zones \in [DOMAIN zones -> SUBSET (1..id)] /\ DOMAIN zones = DOMAIN t.zones \cup {area}
  <2>1. t.zones \in [DOMAIN t.zones -> SUBSET (1..id)]
    BY <1>2 DEF IsTable
  <2>2. (IF area \in DOMAIN t.zones THEN t.zones[area] \cup {id} ELSE {id}) \in SUBSET (1..id)
    BY <1>2, <2>1
  <2>3. zones \in [DOMAIN t.zones \cup {area} -> SUBSET (1..id)]
    BY <2>1, <2>2, ExtendedType DEF ZonesWith
  <2>. QED  BY <2>3
<1>8. /\ IsFiniteSet(DOMAIN topics) /\ IsFiniteSet(DOMAIN zones)
      /\ Cardinality(DOMAIN topics) = Cardinality(DOMAIN t.topics) + 1
  <2>1. IsFiniteSet(DOMAIN t.topics) /\ IsFiniteSet(DOMAIN t.zones)
    BY DEF IsTable
  <2>2. /\ IsFiniteSet(DOMAIN t.zones \cup {area})
        /\ IsFiniteSet(DOMAIN t.topics \cup {topic})
        /\ Cardinality(DOMAIN t.topics \cup {topic}) = Cardinality(DOMAIN t.topics) + 1
    BY <2>1, FS_AddElement
  <2>. HIDE DEF topics, zones
  <2>. QED  BY <1>6, <1>7, <2>2
<1>9. \A i \in 1..id : nodes[i].topicIndex <= Cardinality(DOMAIN topics)
  <2>. SUFFICES ASSUME NEW i \in 1..id
                PROVE  nodes[i].topicIndex <= Cardinality(DOMAIN topics)
    OBVIOUS
  <2>1. CASE i = id
    <3>1. nodes[i] = entry
      BY <1>5, <2>1
    <3>. HIDE DEF topics, nodes
    <3>. QED  BY <1>3, <1>8, <3>1
  <2>2. CASE i # id
    <3>1. nodes[i] = t.nodes[i] /\ i \in 1..Len(t.nodes) /\ t.nodes[i] \in NodeEntry
      BY <1>2, <1>5, <2>2
    <3>2. t.nodes[i].topicIndex <= Cardinality(DOMAIN t.topics) /\ t.nodes[i].topicIndex \in Nat
      BY <3>1 DEF IsTable, NodeEntry
    <3>. HIDE DEF topics, nodes
    <3>. QED  BY <1>3, <1>8, <3>1, <3>2
  <2>. QED  BY <2>1, <2>2
<1>10. DOMAIN topics \in SUBSET Topic /\ DOMAIN zones \in SUBSET Zone
  BY <1>6, <1>7 DEF IsTable
<1>11. IsTable([nodes |-> nodes, topics |-> topics, zones |-> zones])
  <2>. HIDE DEF id, nodes, topics, zones
  <2>. QED  BY <1>5, <1>6, <1>7, <1>8, <1>9, <1>10 DEF IsTable
<1>. QED  BY <1>1, <1>11

\* Any report makes a table of a table.
LEMMA AddOrUpdateIsTable ==
  ASSUME NEW t, IsTable(t), NEW topic \in Topic, NEW area \in Zone, NEW cores \in Nat
  PROVE  IsTable(addOrUpdateNode(t, topic, area, cores))
BY UpdateIsTable, InsertIsTable DEF addOrUpdateNode, Known

-----------------------------------------------------------------------------
(* Node selection *)

\* Every id of a table leads to an entry, and its estimate is a natural.
LEMMA EntryTypes ==
  ASSUME NEW t, IsTable(t)
  PROVE  /\ Len(t.nodes) \in Nat
         /\ \A id \in 1..Len(t.nodes) :
              t.nodes[id] \in NodeEntry /\ t.nodes[id].cores \in Nat
<1>1. t.nodes \in Seq(NodeEntry)
  BY DEF IsTable
<1>2. Len(t.nodes) \in Nat /\ \A id \in 1..Len(t.nodes) : t.nodes[id] \in NodeEntry
  BY <1>1
<1>3. \A entry \in NodeEntry : entry.cores \in Nat
  BY DEF NodeEntry
<1>. QED  BY <1>2, <1>3

\* The scan returns one of the ids it was given.
LEMMA BestIsCandidate ==
  ASSUME NEW t, IsTable(t), NEW ids \in SUBSET (1..Len(t.nodes)), ids # {}
  PROVE  Best(t, ids) \in ids
<1>. DEFINE coresOf == [id \in ids |-> t.nodes[id].cores]
            C == {coresOf[id] : id \in ids}
<1>1. /\ Len(t.nodes) \in Nat /\ ids \in SUBSET Nat
      /\ \A id \in ids : t.nodes[id].cores \in Nat
  BY EntryTypes
<1>2. C \in SUBSET Nat /\ C # {}
  BY <1>1
<1>3. IsFiniteSet(C)
  <2>1. IsFiniteSet(ids)
    <3>1. IsFiniteSet(1..Len(t.nodes))
      BY <1>1, FS_Interval
    <3>. QED  BY <3>1, FS_Subset
  <2>2. coresOf \in [ids -> C] /\ \A c \in C : \E id \in ids : coresOf[id] = c
    OBVIOUS
  <2>3. coresOf \in Surjection(ids, C)
    <3>. HIDE DEF coresOf, C
    <3>. QED  BY <2>2 DEF Surjection
  <2>. HIDE DEF coresOf, C
  <2>. QED  BY <2>1, <2>3, FS_Surjection DEF ExistsSurjection
<1>4. PICK g \in C : IsGreatest(g, C)
  <2>. HIDE DEF C
  <2>. QED  BY <1>2, <1>3, GreatestNatural
<1>. DEFINE Most == {id \in ids : t.nodes[id].cores = g}
<1>5. PICK n \in Most : \A m \in Most : n <= m
  <2>1. Most \in SUBSET Nat /\ Most # {}
    BY <1>1, <1>4
  <2>. HIDE DEF Most
  <2>. QED  BY <2>1, LeastNatural
<1>6. \A other \in ids :
        \/ t.nodes[other].cores < t.nodes[n].cores
        \/ t.nodes[other].cores = t.nodes[n].cores /\ n <= other
  <2>. SUFFICES ASSUME NEW other \in ids
                PROVE  \/ t.nodes[other].cores < t.nodes[n].cores
                       \/ t.nodes[other].cores = t.nodes[n].cores /\ n <= other
    OBVIOUS
  <2>1. t.nodes[other].cores \in C
    OBVIOUS
  <2>2. t.nodes[other].cores <= g /\ g \in Nat
    <3>. HIDE DEF C
    <3>. QED  BY <1>2, <1>4, <2>1 DEF IsGreatest
  <2>3. t.nodes[other].cores = g => n <= other
    BY <1>5
  <2>. QED  BY <1>1, <1>5, <2>2, <2>3
<1>. QED  BY <1>5, <1>6 DEF Best

\* The chosen node is a known one and its estimate covers the request.
LEMMA SelectedFits ==
  ASSUME NEW t, IsTable(t), NEW r, Selectable(t, r)
  PROVE  /\ selectNode(t, r) \in 1..Len(t.nodes)
         /\ t.nodes[selectNode(t, r)].cores >= Cores[r]
<1>1. \A name : FittingInZone(t, r, name) \subseteq {id \in 1..Len(t.nodes) : t.nodes[id].cores >= Cores[r]}
  BY DEF FittingInZone, Fitting, HasZone, findNodesByZone, IsTable
<1>2. Candidates(t, r) \subseteq {id \in 1..Len(t.nodes) : t.nodes[id].cores >= Cores[r]}
  BY <1>1 DEF Candidates
<1>3. selectNode(t, r) \in Candidates(t, r)
  BY <1>2, BestIsCandidate DEF selectNode, Selectable
<1>. QED  BY <1>2, <1>3

\* A charge takes no more than the estimate has, and touches nothing else.
LEMMA ChargeIsTable ==
  ASSUME NEW t, IsTable(t), NEW r \in Request
  PROVE  /\ IsTable(Charge(t, r))
         /\ Charge(t, r).topics = t.topics /\ Charge(t, r).zones = t.zones
         /\ Len(Charge(t, r).nodes) = Len(t.nodes)
<1>1. CASE ~Selectable(t, r)
  BY <1>1 DEF Charge
<1>2. CASE Selectable(t, r)
  <2>. DEFINE id == selectNode(t, r)
              left == t.nodes[id].cores - Cores[r]
  <2>1. id \in 1..Len(t.nodes) /\ t.nodes[id].cores >= Cores[r]
    BY <1>2, SelectedFits
  <2>2. left \in Nat
    <3>1. t.nodes[id].cores \in Nat /\ Cores[r] \in Nat
      BY <2>1, EntryTypes, ProviderConstants
    <3>. QED  BY <2>1, <3>1
  <2>3. Charge(t, r) = [t EXCEPT !.nodes[id].cores = left]
    BY <1>2 DEF Charge
  <2>. HIDE DEF id, left
  <2>. QED  BY <2>1, <2>2, <2>3, CoresIsTable
<1>. QED  BY <1>1, <1>2

\* A forwarded request goes to the topic of some registered node.
LEMMA ForwardType ==
  ASSUME NEW t, IsTable(t), NEW r \in Request, Selectable(t, r)
  PROVE  ForwardTo(t, r) \in Message
<1>. DEFINE id == selectNode(t, r)
<1>1. id \in 1..Len(t.nodes)
  BY SelectedFits
<1>2. /\ t.nodes[id].topicIndex \in 1..Cardinality(DOMAIN t.topics)
      /\ DOMAIN t.topics \in SUBSET Nat /\ IsFiniteSet(DOMAIN t.topics)
  <2>1. t.nodes[id] \in NodeEntry /\ t.nodes[id].topicIndex <= Cardinality(DOMAIN t.topics)
    BY <1>1 DEF IsTable
  <2>2. IsFiniteSet(DOMAIN t.topics) /\ Cardinality(DOMAIN t.topics) \in Nat
    BY FS_CardinalityType DEF IsTable
  <2>3. DOMAIN t.topics \in SUBSET Nat
    BY NamesAreOrdered DEF IsTable
  <2>. QED  BY <2>1, <2>2, <2>3 DEF NodeEntry
<1>3. getTopicForNode(t, id) \in DOMAIN t.topics
  BY <1>2, AtPositionType DEF getTopicForNode
<1>4. getTopicForNode(t, id) \in Topic
  BY <1>3 DEF IsTable
<1>. QED  BY <1>4 DEF ForwardTo, Forward, Message

-----------------------------------------------------------------------------
(* Dispatching the queue *)

\* The recursion over the queue is well defined: there is a table for every
\* number of requests dispatched.
Dispatched(f, t, n) ==
  f = [k \in 0..n |-> IF k = 0 THEN t ELSE Charge(f[k - 1], queue[k])]

\* By least counterexample: the function for one request more extends the
\* function for the requests before it.
LEMMA DispatchedExists ==
  ASSUME NEW t, NEW n \in Nat
  PROVE  \E f : Dispatched(f, t, n)
<1>. DEFINE Bad == {m \in Nat : ~\E f : Dispatched(f, t, m)}
<1>. SUFFICES ASSUME Bad # {} PROVE FALSE
  OBVIOUS
<1>1. PICK m \in Bad : \A other \in Bad : m <= other
  <2>. HIDE DEF Bad
  <2>1. Bad \in SUBSET Nat
    BY DEF Bad
  <2>. QED  BY <2>1, LeastNatural
<1>2. CASE m = 0
  <2>. DEFINE f == [k \in 0..0 |-> t]
  <2>1. f = [k \in 0..0 |-> IF k = 0 THEN t ELSE Charge(f[k - 1], queue[k])]
    OBVIOUS
  <2>. QED  BY <1>1, <1>2, <2>1 DEF Dispatched
<1>3. CASE m # 0
  <2>1. m - 1 \in Nat /\ m - 1 \notin Bad
    BY <1>1, <1>3
  <2>2. PICK f : Dispatched(f, t, m - 1)
    BY <2>1
  <2>. DEFINE g == [k \in 0..m |-> IF k = m THEN Charge(f[m - 1], queue[m]) ELSE f[k]]
  <2>3. \A k \in 0..(m - 1) : f[k] = IF k = 0 THEN t ELSE Charge(f[k - 1], queue[k])
    BY <2>2 DEF Dispatched
  <2>4. \A k \in 0..m : g[k] = IF k = 0 THEN t ELSE Charge(g[k - 1], queue[k])
    <3>. TAKE k \in 0..m
    <3>1. CASE k = m
      <4>1. g[k] = Charge(f[m - 1], queue[m])
        BY <3>1
      <4>2. m - 1 \in 0..m /\ m - 1 # m /\ k # 0
        BY <1>3, <2>1, <3>1
      <4>3. g[m - 1] = f[m - 1]
        BY <4>2
      <4>. HIDE DEF g
      <4>. QED  BY <3>1, <4>1, <4>2, <4>3
    <3>2. CASE k # m
      <4>1. k \in 0..(m - 1) /\ g[k] = f[k] /\ (k # 0 => k - 1 \in 0..m /\ k - 1 # m)
        BY <2>1, <3>2
      <4>2. k # 0 => g[k - 1] = f[k - 1]
        BY <4>1
      <4>. HIDE DEF g
      <4>. QED  BY <2>3, <4>1, <4>2
    <3>. QED  BY <3>1, <3>2
  <2>5. g = [k \in 0..m |-> IF k = 0 THEN t ELSE Charge(g[k - 1], queue[k])]
    <3>1. g = [k \in 0..m |-> g[k]]
      OBVIOUS
    <3>. HIDE DEF g
    <3>. QED  BY <2>4, <3>1
  <2>. QED  BY <1>1, <2>5 DEF Dispatched
<1>. QED  BY <1>2, <1>3

\* So the tables of a dispatch satisfy their own recursion.
LEMMA AfterDispatchingIs ==
  ASSUME NEW t, queue \in Seq(Request)
  PROVE  Dispatched(AfterDispatching(t), t, Len(queue))
<1>1. AfterDispatching(t) = CHOOSE f : Dispatched(f, t, Len(queue))
  BY DEF AfterDispatching, Dispatched
<1>2. \E f : Dispatched(f, t, Len(queue))
  BY DispatchedExists
<1>. QED  BY <1>1, <1>2

\* Each of these tables is a table, of the same nodes under the same names.
LEMMA AfterDispatchingTables ==
  ASSUME NEW t, IsTable(t), queue \in Seq(Request), NEW k \in 0..Len(queue)
  PROVE  /\ IsTable(AfterDispatching(t)[k])
         /\ AfterDispatching(t)[k].topics = t.topics
         /\ AfterDispatching(t)[k].zones = t.zones
         /\ Len(AfterDispatching(t)[k].nodes) = Len(t.nodes)
<1>. DEFINE after == AfterDispatching(t)
            Fine(u) == /\ IsTable(u) /\ u.topics = t.topics /\ u.zones = t.zones
                       /\ Len(u.nodes) = Len(t.nodes)
            Bad == {m \in 0..Len(queue) : ~Fine(after[m])}
<1>0. Len(queue) \in Nat /\ \A m \in 1..Len(queue) : queue[m] \in Request
  OBVIOUS
<1>1. \A m \in 0..Len(queue) :
        after[m] = IF m = 0 THEN t ELSE Charge(after[m - 1], queue[m])
  <2>. HIDE DEF after
  <2>. QED  BY AfterDispatchingIs DEF Dispatched, after
<1>. SUFFICES ASSUME Bad # {} PROVE FALSE
  OBVIOUS
<1>2. PICK m \in Bad : \A other \in Bad : m <= other
  <2>1. Bad \in SUBSET Nat
    BY <1>0
  <2>. HIDE DEF Bad
  <2>. QED  BY <2>1, LeastNatural
<1>3. m \in 0..Len(queue) /\ ~Fine(after[m])
  OBVIOUS
<1>4. m # 0
  BY <1>1, <1>3
<1>5. m - 1 \in 0..Len(queue) /\ ~(m <= m - 1) /\ m \in 1..Len(queue)
  BY <1>0, <1>3, <1>4
<1>6. Fine(after[m - 1])
  <2>. HIDE DEF after, Fine
  <2>. QED  BY <1>2, <1>5
<1>7. Fine(Charge(after[m - 1], queue[m]))
  <2>. HIDE DEF after
  <2>. QED  BY <1>0, <1>5, <1>6, ChargeIsTable
<1>8. after[m] = Charge(after[m - 1], queue[m])
  <2>. HIDE DEF after
  <2>. QED  BY <1>1, <1>3, <1>4
<1>. QED
  <2>. HIDE DEF Fine, after
  <2>. QED  BY <1>3, <1>7, <1>8

-----------------------------------------------------------------------------
(* The type invariant *)

\* The queue's invariant, and the types of the rest of the state.
TypeInv ==
  /\ QueueInv
  /\ IsTable(table)
  /\ emitted \in Seq(Message)
  /\ zone \in [Request -> Zone]

\* The provider starts with an empty table and queue.
LEMMA TypeInvInit == Init => TypeInv
BY QueueInvInit, EmptyIsTable, ProviderConstants DEF Init, TypeInv

\* A handler that stops the simulation.
LEMMA TypeInvHalt ==
  ASSUME TypeInv, QueueInv', Halt, zone' = zone
  PROVE  TypeInv'
BY DEF TypeInv, Halt

\* A reply to a user is a message.
LEMMA ReplyType ==
  ASSUME NEW r \in Request, NEW result \in {"rejected", "timeout"}
  PROVE  Reply(r, result) \in Message
BY DEF Reply, Message, UserTopic

\* A request is rejected, or charged to a node and forwarded to it.
LEMMA TypeInvRequests ==
  ASSUME TypeInv, QueueInv', NEW r \in Request, Requests(r)
  PROVE  TypeInv'
<1>0. zone' = zone /\ IsTable(table)
  BY DEF Requests, TypeInv
<1>1. CASE Halt
  BY <1>0, <1>1, TypeInvHalt
<1>2. CASE emitted' = <<Reply(r, "rejected")>> /\ table' = table
  BY <1>0, <1>2, ReplyType DEF TypeInv
<1>3. CASE /\ Selectable(table, r) /\ table' = Charge(table, r)
           /\ emitted' = <<ForwardTo(table, r)>>
  <2>1. IsTable(Charge(table, r)) /\ ForwardTo(table, r) \in Message
    BY <1>0, <1>3, ChargeIsTable, ForwardType
  <2>. QED  BY <1>0, <1>3, <2>1 DEF TypeInv
<1>. QED
  BY <1>1, <1>2, <1>3 DEF Requests, handleVmRequest

\* A subscription touches neither table nor messages; its zone is some node's.
LEMMA TypeInvSubscribes ==
  ASSUME TypeInv, QueueInv', NEW r \in Request, Subscribes(r)
  PROVE  TypeInv'
<1>1. emitted' = <<>> /\ table' = table
  BY DEF Subscribes, handleVmSubscription
<1>2. PICK name \in {zone[r]} \cup {NodeZone[topic] : topic \in Topic} :
        zone' = [zone EXCEPT ![r] = name]
  BY DEF Subscribes
<1>3. name \in Zone
  BY <1>2, ProviderConstants DEF TypeInv
<1>. QED  BY <1>1, <1>2, <1>3 DEF TypeInv

\* A time-out sends one reply.
LEMMA TypeInvTimesOut ==
  ASSUME TypeInv, QueueInv', NEW r \in Request, TimesOut(r)
  PROVE  TypeInv'
<1>0. zone' = zone
  BY DEF TimesOut
<1>1. CASE Halt
  BY <1>0, <1>1, TypeInvHalt
<1>2. CASE emitted' = <<Reply(r, "timeout")>> /\ table' = table
  BY <1>0, <1>2, ReplyType DEF TypeInv
<1>. QED
  BY <1>1, <1>2 DEF TimesOut, handleSubscriptionTimeout

\* A report makes a table of a table, and so does each charge of the
\* dispatch that follows it; each request it forwards was selectable.
LEMMA TypeInvNodeReports ==
  ASSUME TypeInv, QueueInv', NEW topic \in Topic, NEW cores \in Reports,
         NodeReports(topic, cores)
  PROVE  TypeInv'
<1>. DEFINE t == addOrUpdateNode(table, topic, NodeZone[topic], cores)
            after == AfterDispatching(t)
<1>0. zone' = zone
  BY DEF NodeReports
<1>1. CASE Halt
  BY <1>0, <1>1, TypeInvHalt
<1>2. ASSUME NEW k \in 0..Len(queue), StopsAfter(after, k), table' = after[k],
             emitted' = [i \in 1..k |-> ForwardTo(after[i - 1], queue[i])]
      PROVE  TypeInv'
  <2>1. queue \in Seq(Request) /\ IsTable(table)
    BY DEF TypeInv, QueueInv
  <2>2. IsTable(t)
    <3>1. NodeZone[topic] \in Zone /\ cores \in Nat
      BY ProviderConstants
    <3>. QED  BY <2>1, <3>1, AddOrUpdateIsTable
  <2>. HIDE DEF t
  <2>3. \A j \in 0..Len(queue) : IsTable(after[j])
    BY <2>1, <2>2, AfterDispatchingTables
  <2>. HIDE DEF after
  <2>4. ASSUME NEW i \in 1..k
        PROVE  ForwardTo(after[i - 1], queue[i]) \in Message
    <3>1. queue[i] \in Request /\ i - 1 \in 0..Len(queue)
      BY <2>1
    <3>2. Selectable(after[i - 1], queue[i])
      BY <1>2 DEF StopsAfter
    <3>. QED  BY <2>3, <3>1, <3>2, ForwardType
  <2>5. emitted' \in Seq(Message)
    BY <1>2, <2>4, <2>1
  <2>. QED  BY <1>0, <1>2, <2>3, <2>5 DEF TypeInv
<1>. QED
  BY <1>1, <1>2 DEF NodeReports, handleNodeUpdate, attemptDispatching

\* TypeInv is inductive: one case per handler.
LEMMA TypeInvNext == TypeInv /\ [Next]_vars => TypeInv'
<1>. SUFFICES ASSUME TypeInv, [Next]_vars PROVE TypeInv'
  OBVIOUS
<1>0. QueueInv'
  BY QueueInvNext DEF TypeInv
<1>1. ASSUME NEW r \in Request, Requests(r) \/ Subscribes(r) \/ TimesOut(r)
      PROVE  TypeInv'
  BY <1>0, <1>1, TypeInvRequests, TypeInvSubscribes, TypeInvTimesOut
<1>2. ASSUME NEW topic \in Topic, NEW cores \in Reports, NodeReports(topic, cores)
      PROVE  TypeInv'
  BY <1>0, <1>2, TypeInvNodeReports
<1>3. CASE UNCHANGED vars
  BY <1>0, <1>3 DEF vars, TypeInv
<1>. QED
  BY <1>1, <1>2, <1>3 DEF Next

-----------------------------------------------------------------------------
(* Topics, ids and zones agree *)

\* TableConsistent of any table.
Consistent(t) ==
  /\ \A id \in DOMAIN t.nodes :
       \E topic \in DOMAIN t.topics :
         /\ \A other \in DOMAIN t.topics : t.topics[other] = id <=> other = topic
         /\ \A name \in DOMAIN t.zones : id \in t.zones[name] <=> name = NodeZone[topic]
         /\ NodeZone[topic] \in DOMAIN t.zones
  /\ \A name \in DOMAIN t.zones : t.zones[name] \subseteq DOMAIN t.nodes

\* Consistency is about topics, zones and the number of nodes: neither an
\* update nor a charge touches them.
LEMMA SameNamesConsistent ==
  ASSUME NEW t, IsTable(t), Consistent(t), NEW u, IsTable(u),
         u.topics = t.topics, u.zones = t.zones, Len(u.nodes) = Len(t.nodes)
  PROVE  Consistent(u)
<1>1. DOMAIN u.nodes = DOMAIN t.nodes
  <2>1. t.nodes \in Seq(NodeEntry) /\ u.nodes \in Seq(NodeEntry)
    BY DEF IsTable
  <2>. QED  BY <2>1
<1>. QED  BY <1>1 DEF Consistent

\* The new node is the only one with its topic, and enters its zone alone.
LEMMA InsertConsistent ==
  ASSUME NEW t, IsTable(t), Consistent(t), NEW topic \in Topic,
         topic \notin DOMAIN t.topics, NEW cores \in Nat
  PROVE  Consistent(insertNode(t, topic, NodeZone[topic], cores))
<1>. DEFINE u    == insertNode(t, topic, NodeZone[topic], cores)
            id   == Len(t.nodes) + 1
            home == NodeZone[topic]
<1>1. /\ DOMAIN t.nodes = 1..Len(t.nodes) /\ Len(t.nodes) \in Nat
      /\ id \notin DOMAIN t.nodes
      /\ \A other \in DOMAIN t.topics : t.topics[other] \in DOMAIN t.nodes
  <2>1. t.nodes \in Seq(NodeEntry)
    BY DEF IsTable
  <2>2. DOMAIN t.nodes = 1..Len(t.nodes) /\ Len(t.nodes) \in Nat
    BY <2>1
  <2>3. id \notin DOMAIN t.nodes
    BY <2>2
  <2>. QED  BY <2>2, <2>3 DEF IsTable
<1>2. DOMAIN u.nodes = DOMAIN t.nodes \cup {id}
  <2>1. u.nodes \in Seq(NodeEntry) /\ Len(u.nodes) = id
    <3>1. IsTable(u)
      BY ProviderConstants, InsertIsTable
    <3>2. Len(u.nodes) = id
      BY DEF insertNode, IsTable
    <3>. HIDE DEF u
    <3>. QED  BY <3>1, <3>2 DEF IsTable
  <2>2. DOMAIN u.nodes = 1..id
    <3>. HIDE DEF u
    <3>. QED  BY <2>1
  <2>. QED  BY <1>1, <2>2
<1>3. /\ DOMAIN u.topics = DOMAIN t.topics \cup {topic}
      /\ u.topics[topic] = id
      /\ \A other \in DOMAIN t.topics : u.topics[other] = t.topics[other]
  BY DEF insertNode, Extended
<1>4. /\ DOMAIN u.zones = DOMAIN t.zones \cup {home}
      /\ u.zones[home] = IF home \in DOMAIN t.zones THEN t.zones[home] \cup {id} ELSE {id}
      /\ \A name \in DOMAIN t.zones : name # home => u.zones[name] = t.zones[name]
  BY DEF insertNode, ZonesWith, Extended
<1>. HIDE DEF u, id, home
<1>5. \A i \in DOMAIN t.nodes :
        \E owner \in DOMAIN u.topics :
          /\ \A other \in DOMAIN u.topics : u.topics[other] = i <=> other = owner
          /\ \A name \in DOMAIN u.zones : i \in u.zones[name] <=> name = NodeZone[owner]
          /\ NodeZone[owner] \in DOMAIN u.zones
  <2>. TAKE i \in DOMAIN t.nodes
  <2>1. PICK owner \in DOMAIN t.topics :
          /\ \A other \in DOMAIN t.topics : t.topics[other] = i <=> other = owner
          /\ \A name \in DOMAIN t.zones : i \in t.zones[name] <=> name = NodeZone[owner]
          /\ NodeZone[owner] \in DOMAIN t.zones
    BY DEF Consistent
  <2>2. i # id
    BY <1>1
  <2>3. \A other \in DOMAIN u.topics : u.topics[other] = i <=> other = owner
    BY <1>3, <2>1, <2>2
  <2>4. \A name \in DOMAIN u.zones : i \in u.zones[name] <=> name = NodeZone[owner]
    BY <1>4, <2>1, <2>2
  <2>. QED  BY <1>3, <1>4, <2>1, <2>3, <2>4
<1>6. /\ \A other \in DOMAIN u.topics : u.topics[other] = id <=> other = topic
      /\ \A name \in DOMAIN u.zones : id \in u.zones[name] <=> name = home
  <2>1. \A name \in DOMAIN t.zones : id \notin t.zones[name]
    BY <1>1 DEF Consistent
  <2>. QED  BY <1>1, <1>3, <1>4, <2>1
<1>7. \A name \in DOMAIN u.zones : u.zones[name] \subseteq DOMAIN u.nodes
  BY <1>2, <1>4 DEF Consistent
<1>. QED
  BY <1>2, <1>3, <1>4, <1>5, <1>6, <1>7 DEF Consistent, u, home

\* A report keeps topics, ids and zones in agreement, first or not.
LEMMA AddOrUpdateConsistent ==
  ASSUME NEW t, IsTable(t), Consistent(t), NEW topic \in Topic, NEW cores \in Nat
  PROVE  Consistent(addOrUpdateNode(t, topic, NodeZone[topic], cores))
<1>1. CASE topic \in DOMAIN t.topics
  BY <1>1, UpdateIsTable, SameNamesConsistent DEF addOrUpdateNode, Known
<1>2. CASE topic \notin DOMAIN t.topics
  BY <1>2, InsertConsistent DEF addOrUpdateNode, Known
<1>. QED  BY <1>1, <1>2

\* An empty table is consistent.
LEMMA ConsistentInit == Init => Consistent(table)
BY DEF Init, EmptyTable, Consistent

\* Consistency is inductive: charges keep the names, reports the agreement.
LEMMA ConsistentNext == TypeInv /\ Consistent(table) /\ [Next]_vars => Consistent(table)'
<1>. SUFFICES ASSUME TypeInv, Consistent(table), [Next]_vars PROVE Consistent(table')
  BY DEF Consistent
<1>0. IsTable(table) /\ queue \in Seq(Request)
  BY DEF TypeInv, QueueInv
<1>1. ASSUME NEW r \in Request, Requests(r) \/ Subscribes(r) \/ TimesOut(r)
      PROVE  table' = table \/ table' = Charge(table, r)
  BY <1>1 DEF Requests, Subscribes, TimesOut, handleVmRequest, handleVmSubscription,
              handleSubscriptionTimeout, Halt
<1>2. ASSUME NEW r \in Request, table' = Charge(table, r)
      PROVE  Consistent(table')
  BY <1>0, <1>2, ChargeIsTable, SameNamesConsistent
<1>3. ASSUME NEW topic \in Topic, NEW cores \in Reports, NodeReports(topic, cores)
      PROVE  Consistent(table')
  <2>. DEFINE t == addOrUpdateNode(table, topic, NodeZone[topic], cores)
  <2>1. IsTable(t) /\ Consistent(t)
    <3>1. NodeZone[topic] \in Zone /\ cores \in Nat
      BY ProviderConstants
    <3>. QED  BY <1>0, <3>1, AddOrUpdateIsTable, AddOrUpdateConsistent
  <2>2. table' = table \/ \E k \in 0..Len(queue) : table' = AfterDispatching(t)[k]
    BY <1>3 DEF NodeReports, handleNodeUpdate, attemptDispatching, Halt
  <2>. HIDE DEF t
  <2>. QED  BY <1>0, <2>1, <2>2, AfterDispatchingTables, SameNamesConsistent
<1>4. CASE UNCHANGED vars
  BY <1>4 DEF vars
<1>. QED
  BY <1>1, <1>2, <1>3, <1>4 DEF Next

-----------------------------------------------------------------------------
(* Greedy dispatching *)

\* Where the dispatch loop stops: at the end of the queue or at a request
\* that nothing in the table it leaves behind can take.
LEMMA UpdateServes ==
  ASSUME queue \in Seq(Request), NEW topic \in Topic, NEW cores \in Reports,
         handleNodeUpdate(topic, cores)
  PROVE  halted' \/ queue' = <<>> \/ ~Selectable(table', queue'[1])
<1>. DEFINE after == AfterDispatching(addOrUpdateNode(table, topic, NodeZone[topic], cores))
<1>1. PICK k \in 0..Len(queue) :
        /\ StopsAfter(after, k)
        /\ \/ Halt
           \/ table' = after[k] /\ queue' = SubSeq(queue, k + 1, Len(queue))
  BY DEF handleNodeUpdate, attemptDispatching
<1>. HIDE DEF after
<1>2. CASE Halt
  BY <1>2 DEF Halt
<1>3. CASE table' = after[k] /\ queue' = SubSeq(queue, k + 1, Len(queue)) /\ k = Len(queue)
  BY <1>3
<1>4. CASE table' = after[k] /\ queue' = SubSeq(queue, k + 1, Len(queue)) /\ k < Len(queue)
  <2>1. queue'[1] = queue[k + 1]
    BY <1>4, DropProperties
  <2>. QED  BY <1>1, <1>4, <2>1 DEF StopsAfter
<1>. QED  BY <1>1, <1>2, <1>3, <1>4

-----------------------------------------------------------------------------
(* Theorems *)

\* The inductive invariant of the table and the messages holds in every
\* reachable state.
THEOREM TypeInvariant == Spec => []TypeInv
BY TypeInvInit, TypeInvNext, PTL DEF Spec

\* The provider's state keeps its types.  Above all every estimate stays a
\* natural number: however requests, reports and dispatches interleave, a
\* node is never charged more cores than its estimate has.
THEOREM TypeCorrect == Spec => []TypeOK
<1>1. TypeInv => TypeOK
  BY DEF TypeInv, TypeOK, QueueInv, IsTable
<1>. QED  BY <1>1, TypeInvariant, PTL

\* The table stays a bijection between topics and ids, and every node is in
\* exactly the zone it reported, in whatever order the nodes register.
THEOREM ConsistentTable == Spec => []TableConsistent
<1>1. TypeInv /\ Consistent(table) /\ [Next]_vars => Consistent(table)'
  BY ConsistentNext
<1>2. Spec => []Consistent(table)
  BY <1>1, ConsistentInit, TypeInvariant, PTL DEF Spec
<1>3. Consistent(table) => TableConsistent
  BY DEF Consistent, TableConsistent
<1>. QED  BY <1>2, <1>3, PTL

\* After every node update that does not stop the simulation the queue is
\* empty or its head fits in no estimate: no dispatch is left undone.
THEOREM GreedyDispatch == Spec => UpdateServesQueue
<1>1. TypeInv /\ [Next]_vars =>
        [(\E topic \in Topic, cores \in Reports : handleNodeUpdate(topic, cores))
           => halted' \/ queue' = <<>> \/ ~Selectable(table', queue'[1])]_vars
  BY UpdateServes DEF TypeInv, QueueInv
<1>. QED
  BY <1>1, TypeInvariant, PTL DEF Spec, UpdateServesQueue

=============================================================================
