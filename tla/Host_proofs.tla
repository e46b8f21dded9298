----------------------------- MODULE Host_proofs -----------------------------
EXTENDS Host, DataLemmas, SequenceTheorems

-----------------------------------------------------------------------------
(* Modules and their names *)

\* The modules of a node have distinct names, and these are all of them.
LEMMA ModuleNames ==
  /\ Hypervisor \in Module /\ Hub \in Module /\ Disk \in Module
  /\ Hypervisor # Hub /\ Hypervisor # Disk /\ Hub # Disk
  /\ \A v \in Vm : Scheduler(v) \in Module
  /\ \A c \in CpuCores : Core(c) \in Module
  /\ \A s \in Slot : App(s) \in Module
BY DEF Hypervisor, Hub, Disk, Scheduler, Core, App, Module

LEMMA SchedulerName ==
  ASSUME NEW v
  PROVE  /\ Scheduler(v) \notin {Hypervisor, Hub, Disk}
         /\ \A w : Scheduler(v) = Scheduler(w) => v = w
         /\ \A c : Scheduler(v) # Core(c)
         /\ \A s : Scheduler(v) # App(s)
BY DEF Hypervisor, Hub, Disk, Scheduler, Core, App

LEMMA CoreName ==
  ASSUME NEW c
  PROVE  /\ Core(c) \notin {Hypervisor, Hub, Disk}
         /\ \A d : Core(c) = Core(d) => c = d
         /\ \A s : Core(c) # App(s)
BY DEF Hypervisor, Hub, Disk, Core, App

LEMMA AppName ==
  ASSUME NEW s
  PROVE  /\ App(s) \notin {Hypervisor, Hub, Disk}
         /\ \A t : App(s) = App(t) => s = t
BY DEF Hypervisor, Hub, Disk, App

\* The values of a function on a finite set are finitely many.
LEMMA FiniteImage ==
  ASSUME NEW S, IsFiniteSet(S), NEW f, f = [x \in S |-> f[x]]
  PROVE  IsFiniteSet({f[x] : x \in S})
<1>. DEFINE T == {f[x] : x \in S}
<1>1. f \in Surjection(S, T)
  BY DEF Surjection
<1>. QED BY <1>1, FS_Surjection

\* The numbers of machines, cores and slots are finite.
LEMMA Finite ==
  /\ IsFiniteSet(Vm) /\ IsFiniteSet(CpuCores) /\ IsFiniteSet(Slot) /\ IsFiniteSet(Module)
  /\ Vm \subseteq Nat \ {0} /\ CpuCores \subseteq Nat \ {0}
  /\ Slot = Vm \X (1..MaxApps) /\ MaxApps \in Nat \ {0}
<1>1. IsFiniteSet(Vm) /\ IsFiniteSet(CpuCores) /\ MaxApps \in Nat \ {0}
  BY CpuConstants, HostConstants
<1>2. Vm \subseteq Nat \ {0} /\ CpuCores \subseteq Nat \ {0}
  <2>1. Cardinality(Vm) \in Nat /\ Cardinality(CpuCores) \in Nat
    BY <1>1, FS_CardinalityType
  <2>. QED BY <2>1, CpuConstants
<1>3. IsFiniteSet(Slot)
  <2>1. IsFiniteSet(1..MaxApps)
    BY <1>1, FS_Interval
  <2>. QED BY <1>1, <2>1, FS_Product DEF Slot
<1>4. IsFiniteSet(Module)
  <2>1. IsFiniteSet({Scheduler(v) : v \in Vm})
    <3>. DEFINE f == [v \in Vm |-> Scheduler(v)]
    <3>1. IsFiniteSet({f[v] : v \in Vm})
      BY <1>1, FiniteImage
    <3>. QED BY <3>1
  <2>2. IsFiniteSet({Core(c) : c \in CpuCores})
    <3>. DEFINE f == [c \in CpuCores |-> Core(c)]
    <3>1. IsFiniteSet({f[c] : c \in CpuCores})
      BY <1>1, FiniteImage
    <3>. QED BY <3>1
  <2>3. IsFiniteSet({App(s) : s \in Slot})
    <3>. DEFINE f == [s \in Slot |-> App(s)]
    <3>1. IsFiniteSet({f[s] : s \in Slot})
      BY <1>3, FiniteImage
    <3>. QED BY <3>1
  <2>4. IsFiniteSet({Hypervisor} \cup {Hub} \cup {Disk})
    BY FS_Singleton, FS_Union
  <2>. QED BY <2>1, <2>2, <2>3, <2>4, FS_Union DEF Module
<1>. QED BY <1>1, <1>2, <1>3, <1>4 DEF Slot

-----------------------------------------------------------------------------
(* Where a call is, as its trace tells *)

Hop(module, gate) == [module |-> module, gate |-> gate]

\* What the trace holds once the application, the scheduler, the hub and the
\* core have written themselves into it.
Made(s) == <<Hop(App(s), UnsetGate)>>
Queued(s) == Append(Made(s), Hop(Scheduler(s[1]), Hypervisor))
Hubbed(s) == Append(Queued(s), Hop(Hub, Scheduler(s[1])))
Cored(s, c) == Append(Hubbed(s), Hop(Core(c), Hub))

\* sm is a call of the slot s that crossed the given modules.
Traced(sm, s, modules) ==
  /\ sm \in Message /\ s \in Slot /\ chooseIndex(sm) = s
  /\ sm.trace = <<[node |-> App(s), modules |-> modules]>>

\* What two messages have in common that differ in their traces, their
\* arrival gates and the ticks left.
Alike(a, b) ==
  /\ a.opCode = b.opCode /\ a.isResponse = b.isResponse
  /\ a.vmId = b.vmId /\ a.pid = b.pid
  /\ a.nextModuleIndex = b.nextModuleIndex

GateType == Module \cup {UnsetGate}
HopType == [module : Module, gate : GateType]

\* A slot is its machine and its process.
LEMMA SlotParts ==
  ASSUME NEW s \in Slot
  PROVE  s[1] \in Vm /\ s[2] \in 1..MaxApps /\ s = <<s[1], s[2]>>
BY DEF Slot

LEMMA IndexParts ==
  ASSUME NEW sm, NEW s, chooseIndex(sm) = s
  PROVE  s[1] = sm.vmId /\ s[2] = sm.pid
BY DEF chooseIndex

LEMMA TraceTypes ==
  ASSUME NEW s \in Slot
  PROVE  /\ Made(s) \in Seq(HopType) /\ Queued(s) \in Seq(HopType) /\ Hubbed(s) \in Seq(HopType)
         /\ \A c \in CpuCores : Cored(s, c) \in Seq(HopType)
<1>1. App(s) \in Module /\ Hub \in Module /\ Hypervisor \in Module /\ Scheduler(s[1]) \in Module
  BY ModuleNames, SlotParts
<1>2. Made(s) \in Seq(HopType)
  BY <1>1 DEF Made, Hop, HopType, GateType
<1>3. Queued(s) \in Seq(HopType)
  BY <1>1, <1>2 DEF Queued, Hop, HopType, GateType
<1>4. Hubbed(s) \in Seq(HopType)
  BY <1>1, <1>3 DEF Hubbed, Hop, HopType, GateType
<1>5. ASSUME NEW c \in CpuCores PROVE Cored(s, c) \in Seq(HopType)
  BY <1>1, <1>4, ModuleNames DEF Cored, Hop, HopType, GateType
<1>. QED BY <1>2, <1>3, <1>4, <1>5

\* What was appended is the last element, and the front is what was before.
LEMMA LastOfAppend ==
  ASSUME NEW S, NEW q \in Seq(S), NEW x \in S
  PROVE  Last(Append(q, x)) = x /\ Front(Append(q, x)) = q /\ Append(q, x) \in Seq(S)
<1>1. Last(Append(q, x)) = x
  BY DEF Last
<1>2. Front(Append(q, x)) = q
  BY DEF Front
<1>. QED BY <1>1, <1>2

\* A module writes itself into the trace of a call.
LEMMA TraceGrows ==
  ASSUME NEW sm, NEW s, NEW modules \in Seq(HopType), Traced(sm, s, modules),
         NEW m \in Module, NEW g \in GateType
  PROVE  LET up == updateMessageTrace(sm, m, g)
         IN  /\ Traced(up, s, Append(modules, Hop(m, g))) /\ Alike(up, sm)
             /\ up.quantum = sm.quantum /\ up.arrival = sm.arrival
<1>. DEFINE up == updateMessageTrace(sm, m, g)
            one == [node |-> App(s), modules |-> modules]
            two == [node |-> App(s), modules |-> Append(modules, Hop(m, g))]
<1>1. Len(sm.trace) = 1 /\ sm.trace[1] = one /\ sm.trace = <<one>>
  BY DEF Traced
<1>2. up = [sm EXCEPT !.trace = <<two>>]
  <2>1. [module |-> m, gate |-> g] = Hop(m, g)
    BY DEF Hop
  <2>2. PICK grown : grown = Append(modules, Hop(m, g))
    OBVIOUS
  <2>3. sm.trace[1].modules = modules
    BY <1>1
  <2>4. two = [node |-> App(s), modules |-> grown]
    BY <2>2
  <2>5. [sm.trace EXCEPT ![1].modules = grown] = <<two>>
    BY <1>1, <2>4
  <2>6. up = [sm EXCEPT !.trace = [sm.trace EXCEPT ![1].modules = grown]]
    BY <1>1, <2>1, <2>2, <2>3 DEF updateMessageTrace, addModuleToTrace
  <2>. QED BY <2>5, <2>6
<1>3. Append(modules, Hop(m, g)) \in Seq(HopType)
  BY DEF Hop, HopType
<1>4. <<two>> \in Seq([node : Module, modules : Seq(HopType)])
  BY <1>3, ModuleNames DEF Traced
<1>5. up \in Message
  BY <1>2, <1>4 DEF Traced, Message, HopType, GateType
<1>6. sm \in Message
  BY DEF Traced
<1>7. up.trace = <<two>> /\ Alike(up, sm) /\ up.quantum = sm.quantum /\ up.arrival = sm.arrival
  BY <1>2, <1>6 DEF Message, Alike
<1>8. chooseIndex(up) = chooseIndex(sm)
  BY <1>7 DEF chooseIndex, Alike
<1>. QED BY <1>5, <1>7, <1>8 DEF Traced

\* A module takes itself out of the trace of an answer and finds its gate.
LEMMA TraceShrinks ==
  ASSUME NEW sm, NEW s, NEW modules \in Seq(HopType), NEW m \in Module, NEW g \in GateType,
         Traced(sm, s, Append(modules, Hop(m, g)))
  PROVE  LET down == removeLastModuleFromTrace(sm)
         IN  /\ Traced(down, s, modules) /\ Alike(down, sm) /\ down.quantum = sm.quantum
             /\ down.isCompleted = sm.isCompleted
             /\ getLastGateId(sm) = g
<1>. DEFINE down == removeLastModuleFromTrace(sm)
            one == [node |-> App(s), modules |-> modules]
            two == [node |-> App(s), modules |-> Append(modules, Hop(m, g))]
<1>0. Hop(m, g) \in HopType
  BY DEF Hop, HopType
<1>1. Len(sm.trace) = 1 /\ sm.trace[1] = two /\ sm.trace = <<two>>
  BY DEF Traced
<1>2. down = [sm EXCEPT !.trace = <<one>>]
  BY <1>0, <1>1, LastOfAppend DEF removeLastModuleFromTrace
<1>3. getLastGateId(sm) = g
  BY <1>0, <1>1, LastOfAppend DEF getLastGateId, Last, Hop
<1>4. <<one>> \in Seq([node : Module, modules : Seq(HopType)])
  BY ModuleNames DEF Traced
<1>5. down \in Message
  BY <1>2, <1>4 DEF Traced, Message, HopType, GateType
<1>6. sm \in Message
  BY DEF Traced
<1>7. /\ down.trace = <<one>> /\ Alike(down, sm) /\ down.quantum = sm.quantum
      /\ down.isCompleted = sm.isCompleted
  BY <1>2, <1>6 DEF Message, Alike
<1>8. chooseIndex(down) = chooseIndex(sm)
  BY <1>7 DEF chooseIndex, Alike
<1>. QED BY <1>3, <1>5, <1>7, <1>8 DEF Traced

\* What sent() puts into the box of the receiver.
Delivered(sm, from) == [sm EXCEPT !.arrival = from]

LEMMA DeliveredTraced ==
  ASSUME NEW sm, NEW s, NEW modules, Traced(sm, s, modules), NEW from \in Module
  PROVE  /\ Traced(Delivered(sm, from), s, modules) /\ Alike(Delivered(sm, from), sm)
         /\ Delivered(sm, from).arrival = from
         /\ Delivered(sm, from).isCompleted = sm.isCompleted
         /\ Delivered(sm, from).quantum = sm.quantum
BY DEF Delivered, Traced, Alike, Message, chooseIndex

LEMMA DeliveredMessage ==
  ASSUME NEW sm \in Message, NEW from \in Module
  PROVE  Delivered(sm, from) \in Message /\ chooseIndex(Delivered(sm, from)) = chooseIndex(sm)
         /\ Alike(Delivered(sm, from), sm)
BY DEF Delivered, Alike, Message, chooseIndex

\* A call that is asked of the modules below it, and one that comes back.
Asked(sm, s, modules) == Traced(sm, s, modules) /\ sm.opCode = "EXEC" /\ ~sm.isResponse

Owned(sch, v, c) ==
  v \in Vm /\ c \in CpuCores /\ \E i \in DOMAIN sch[v].cores : sch[v].index[i] = c

Answered(sch, sm, s, modules) ==
  /\ Traced(sm, s, modules) /\ sm.opCode = "EXEC" /\ sm.isResponse
  /\ Owned(sch, s[1], sm.nextModuleIndex)

\* What a scheduler tells of an unfinished computation: it carries no process.
Status(sm) ==
  /\ sm \in Message /\ sm.isResponse /\ sm.opCode = "EXEC" /\ ~sm.isCompleted
  /\ sm.vmId = 0 /\ sm.pid = 0

\* What may wait in front of each module, of the slot s.
AtHypervisor(sm, s) ==
  \/ Status(sm)
  \/ /\ Traced(sm, s, Made(s))
     /\ sm.isResponse => sm.opCode # "EXIT" /\ (sm.opCode = "EXEC" => sm.isCompleted)
AtDisk(sm, s) ==
  Traced(sm, s, Made(s)) /\ ~sm.isResponse /\ sm.opCode \in {"READ", "WRITE"}
AtScheduler(sch, v, sm, s) ==
  /\ s[1] = v
  /\ Asked(sm, s, Made(s)) \/ Answered(sch, sm, s, Queued(s))
AtHub(sch, sm, s) ==
  \/ /\ Asked(sm, s, Queued(s))
     /\ sm.arrival = Scheduler(s[1]) /\ Owned(sch, s[1], sm.nextModuleIndex)
  \/ Answered(sch, sm, s, Hubbed(s))
AtCore(sch, c, sm, s) ==
  Asked(sm, s, Hubbed(s)) /\ sm.nextModuleIndex = c /\ Owned(sch, s[1], c)
InCore(sch, c, sm, s) ==
  Asked(sm, s, Cored(s, c)) /\ sm.nextModuleIndex = c /\ Owned(sch, s[1], c)
AtApp(sm, s) == Traced(sm, s, Made(s)) /\ sm.isResponse /\ sm.opCode # "EXIT"

-----------------------------------------------------------------------------
(* What each handler does to a message *)

\* A scheduler takes a request: it may wait in the queue.
LEMMA RequestQueued ==
  ASSUME NEW v \in Vm, NEW sm, NEW s, Asked(sm, s, Made(s)), s[1] = v
  PROVE  LET up == [updateMessageTrace(sm, Scheduler(v), Hypervisor) EXCEPT !.quantum = Quantum]
         IN  Asked(up, s, Queued(s)) /\ up.vmId = v
<1>. DEFINE u == updateMessageTrace(sm, Scheduler(v), Hypervisor)
            up == [u EXCEPT !.quantum = Quantum]
<1>1. Traced(u, s, Queued(s)) /\ Alike(u, sm)
  <2>1. s \in Slot /\ Traced(sm, s, Made(s))
    BY DEF Asked, Traced
  <2>. QED BY <2>1, TraceGrows, TraceTypes, ModuleNames DEF Queued, GateType
<1>2. Quantum \in Nat \cup {SM_CpuInfiniteQuantum}
  BY CpuConstants
<1>3. Traced(up, s, Queued(s)) /\ Alike(up, u)
  BY <1>1, <1>2 DEF Traced, Alike, Message, chooseIndex
<1>4. up.vmId = v
  BY <1>3, IndexParts DEF Traced
<1>. QED BY <1>1, <1>3, <1>4 DEF Asked, Alike

\* A scheduler sends a computation to a core of its machine, for a new turn.
Onto(sm, c) == [sm EXCEPT !.nextModuleIndex = c]
OntoAgain(sm, c) == [sm EXCEPT !.nextModuleIndex = c, !.quantum = Quantum]

LEMMA SentToCore ==
  ASSUME NEW sch, NEW v \in Vm, NEW sm, NEW s, Asked(sm, s, Queued(s)), s[1] = v,
         NEW c, Owned(sch, v, c)
  PROVE  LET go == Delivered(Onto(sm, c), Scheduler(v))
             gone == Delivered(OntoAgain(sm, c), Scheduler(v))
         IN  /\ AtHub(sch, go, s) /\ go.nextModuleIndex = c /\ go.vmId = v /\ ~go.isResponse
             /\ AtHub(sch, gone, s) /\ gone.nextModuleIndex = c /\ gone.vmId = v /\ ~gone.isResponse
<1>1. c \in CpuCores /\ Scheduler(v) \in Module
  BY ModuleNames DEF Owned
<1>2. Quantum \in Nat \cup {SM_CpuInfiniteQuantum}
  BY CpuConstants
<1>. DEFINE on == [sm EXCEPT !.nextModuleIndex = c]
            onward == [sm EXCEPT !.nextModuleIndex = c, !.quantum = Quantum]
<1>3. Traced(on, s, Queued(s)) /\ Traced(onward, s, Queued(s))
  BY <1>1, <1>2 DEF Asked, Traced, Message, chooseIndex
<1>4. /\ on.opCode = sm.opCode /\ on.isResponse = sm.isResponse /\ on.nextModuleIndex = c
      /\ onward.opCode = sm.opCode /\ onward.isResponse = sm.isResponse
      /\ onward.nextModuleIndex = c
  BY DEF Asked, Traced, Message
<1>5. on.vmId = v /\ onward.vmId = v
  BY <1>3, IndexParts DEF Traced
<1>. HIDE DEF on, onward
<1>6. Traced(Delivered(on, Scheduler(v)), s, Queued(s)) /\ Alike(Delivered(on, Scheduler(v)), on)
      /\ Delivered(on, Scheduler(v)).arrival = Scheduler(v)
  BY <1>1, <1>3, DeliveredTraced
<1>7. Traced(Delivered(onward, Scheduler(v)), s, Queued(s))
      /\ Alike(Delivered(onward, Scheduler(v)), onward)
      /\ Delivered(onward, Scheduler(v)).arrival = Scheduler(v)
  BY <1>1, <1>3, DeliveredTraced
<1>8. /\ AtHub(sch, Delivered(on, Scheduler(v)), s)
      /\ Delivered(on, Scheduler(v)).nextModuleIndex = c
      /\ Delivered(on, Scheduler(v)).vmId = v /\ ~Delivered(on, Scheduler(v)).isResponse
  BY <1>4, <1>5, <1>6 DEF AtHub, Asked, Alike
<1>9. /\ AtHub(sch, Delivered(onward, Scheduler(v)), s)
      /\ Delivered(onward, Scheduler(v)).nextModuleIndex = c
      /\ Delivered(onward, Scheduler(v)).vmId = v /\ ~Delivered(onward, Scheduler(v)).isResponse
  BY <1>4, <1>5, <1>7 DEF AtHub, Asked, Alike
<1>. QED BY <1>8, <1>9 DEF on, onward, Onto, OntoAgain

\* A scheduler passes an answer on: to the application through the
\* hypervisor when the computation is over, or as a status that is for nobody.
LEMMA AnswerPassed ==
  ASSUME NEW sch, NEW v \in Vm, NEW sm, NEW s, Answered(sch, sm, s, Queued(s)), s[1] = v
  PROVE  LET told == IF sm.isCompleted THEN sm ELSE statusOf(sm)
             up == Delivered(removeLastModuleFromTrace(told), Scheduler(v))
         IN  /\ getLastGateId(told) = Hypervisor
             /\ AtHypervisor(up, chooseIndex(up)) /\ up \in Message /\ up.isResponse
             /\ chooseIndex(up) = IF sm.isCompleted THEN s ELSE <<0, 0>>
<1>. DEFINE down == removeLastModuleFromTrace(sm)
            up == Delivered(down, Scheduler(v))
            stat == statusOf(sm)
            sdown == removeLastModuleFromTrace(stat)
            sup == Delivered(sdown, Scheduler(v))
<1>0. s \in Slot /\ Traced(sm, s, Queued(s)) /\ Scheduler(v) \in Module /\ Made(s) \in Seq(HopType)
  BY ModuleNames, TraceTypes DEF Answered, Traced
<1>1. Traced(down, s, Made(s)) /\ Alike(down, sm) /\ down.isCompleted = sm.isCompleted
      /\ getLastGateId(sm) = Hypervisor
  BY <1>0, TraceShrinks, ModuleNames DEF Queued, GateType
<1>2. Traced(up, s, Made(s)) /\ Alike(up, down) /\ up.isCompleted = down.isCompleted
  BY <1>0, <1>1, DeliveredTraced
<1>3. /\ stat.trace = sm.trace /\ stat.opCode = "EXEC" /\ stat.isResponse /\ stat.vmId = 0
      /\ stat.pid = 0 /\ stat.isCompleted = sm.isCompleted /\ stat \in Message
  BY <1>0 DEF statusOf, Answered, Traced, Message
<1>4. getLastGateId(stat) = getLastGateId(sm)
  BY <1>3 DEF getLastGateId
<1>5. sdown = [stat EXCEPT !.trace = down.trace]
  <2>1. down = [sm EXCEPT !.trace = down.trace]
    BY <1>0 DEF removeLastModuleFromTrace, Traced, Message
  <2>2. sdown = [stat EXCEPT !.trace = sdown.trace]
    BY <1>3 DEF removeLastModuleFromTrace, Message
  <2>3. sdown.trace = down.trace
    BY <1>0, <1>3 DEF removeLastModuleFromTrace, Message, Traced
  <2>. QED BY <2>2, <2>3
<1>6. down.trace \in Seq([node : Module, modules : Seq(HopType)])
  BY <1>1 DEF Traced, Message, HopType, GateType
<1>7. sdown \in Message /\ sdown.opCode = "EXEC" /\ sdown.isResponse /\ sdown.vmId = 0
      /\ sdown.pid = 0 /\ sdown.isCompleted = sm.isCompleted
  BY <1>3, <1>5, <1>6 DEF Message, HopType, GateType
<1>8. sup \in Message /\ sup.opCode = "EXEC" /\ sup.isResponse /\ sup.vmId = 0
      /\ sup.pid = 0 /\ sup.isCompleted = sm.isCompleted
  BY <1>0, <1>7 DEF Delivered, Message
<1>. HIDE DEF down, up, stat, sdown, sup
<1>9. CASE sm.isCompleted
  <2>1. AtHypervisor(up, s) /\ up \in Message /\ up.isResponse /\ chooseIndex(up) = s
    BY <1>1, <1>2, <1>9 DEF AtHypervisor, Answered, Alike, Traced
  <2>. QED BY <1>1, <1>9, <2>1 DEF up, down
<1>10. CASE ~sm.isCompleted
  <2>1. Status(sup) /\ chooseIndex(sup) = <<0, 0>>
    BY <1>8, <1>10 DEF Status, chooseIndex
  <2>. QED BY <1>1, <1>4, <1>8, <1>10, <2>1 DEF sup, sdown, stat, AtHypervisor
<1>. QED BY <1>9, <1>10

\* A computation that is not over goes back to the queue.
LEMMA AnswerRequeued ==
  ASSUME NEW sch, NEW sm, NEW s, Answered(sch, sm, s, Queued(s))
  PROVE  LET back == [sm EXCEPT !.isResponse = FALSE]
         IN  Asked(back, s, Queued(s)) /\ back.vmId = s[1]
<1>. DEFINE back == [sm EXCEPT !.isResponse = FALSE]
<1>1. Traced(back, s, Queued(s)) /\ back.opCode = "EXEC" /\ ~back.isResponse
  BY DEF Answered, Traced, Message, chooseIndex
<1>2. back.vmId = s[1]
  BY <1>1, IndexParts DEF Traced
<1>. QED BY <1>1, <1>2 DEF Asked

\* The hub sends a request to its core, and an answer to its scheduler.
LEMMA RequestForwarded ==
  ASSUME NEW sch, NEW sm, NEW s, Asked(sm, s, Queued(s)), sm.arrival = Scheduler(s[1]),
         NEW c, c = sm.nextModuleIndex, Owned(sch, s[1], c)
  PROVE  LET down == Delivered(updateMessageTrace(sm, Hub, sm.arrival), Hub)
         IN  AtCore(sch, c, down, s) /\ Alike(down, sm)
<1>. DEFINE u == updateMessageTrace(sm, Hub, sm.arrival)
            down == Delivered(u, Hub)
<1>1. s \in Slot /\ Traced(sm, s, Queued(s)) /\ Queued(s) \in Seq(HopType)
  BY TraceTypes DEF Asked, Traced
<1>2. Scheduler(s[1]) \in Module /\ Hub \in Module
  BY <1>1, SlotParts, ModuleNames
<1>3. Traced(u, s, Hubbed(s)) /\ Alike(u, sm)
  BY <1>1, <1>2, TraceGrows DEF Hubbed, GateType
<1>4. Traced(down, s, Hubbed(s)) /\ Alike(down, u)
  BY <1>2, <1>3, DeliveredTraced
<1>5. Alike(down, sm)
  BY <1>3, <1>4 DEF Alike
<1>. QED BY <1>4, <1>5 DEF AtCore, Asked, Alike

LEMMA AnswerForwarded ==
  ASSUME NEW sch, NEW sm, NEW s, Answered(sch, sm, s, Hubbed(s))
  PROVE  LET up == Delivered(removeLastModuleFromTrace(sm), Hub)
         IN  /\ getLastGateId(sm) = Scheduler(s[1])
             /\ AtScheduler(sch, s[1], up, s) /\ Alike(up, sm)
<1>. DEFINE d == removeLastModuleFromTrace(sm)
            up == Delivered(d, Hub)
<1>1. s \in Slot /\ Traced(sm, s, Hubbed(s)) /\ Queued(s) \in Seq(HopType)
  BY TraceTypes DEF Answered, Traced
<1>2. Scheduler(s[1]) \in Module /\ Hub \in Module
  BY <1>1, SlotParts, ModuleNames
<1>3. Traced(d, s, Queued(s)) /\ Alike(d, sm) /\ getLastGateId(sm) = Scheduler(s[1])
  BY <1>1, <1>2, TraceShrinks DEF Hubbed, GateType
<1>4. Traced(up, s, Queued(s)) /\ Alike(up, d)
  BY <1>2, <1>3, DeliveredTraced
<1>5. Alike(up, sm)
  BY <1>3, <1>4 DEF Alike
<1>. QED BY <1>3, <1>4, <1>5 DEF AtScheduler, Answered, Alike

\* A core takes a computation, works on it for a tick, and answers.
Ready(sm) == sm.quantum \in Nat \ {0} \/ sm.quantum = SM_CpuInfiniteQuantum

LEMMA TickKeeps ==
  ASSUME NEW sch, NEW c, NEW sm, NEW s, InCore(sch, c, sm, s), Ready(sm)
  PROVE  InCore(sch, c, executeMIs(sm), s) /\ Alike(executeMIs(sm), sm)
<1>1. sm \in Message /\ Ipt \in Nat
  BY CpuConstants DEF InCore, Asked, Traced
<1>. DEFINE after == executeMIs(sm)
            q == IF sm.quantum = SM_CpuInfiniteQuantum THEN sm.quantum ELSE sm.quantum - 1
            w == IF sm.mis - Ipt > 0 THEN sm.mis - Ipt ELSE 0
            d == sm.isCompleted \/ sm.mis - Ipt <= 0
<1>2. q \in Nat \cup {SM_CpuInfiniteQuantum}
  BY DEF Ready
<1>3. w \in Nat
  BY <1>1 DEF Message
<1>4. d \in BOOLEAN
  OBVIOUS
<1>5. after = [sm EXCEPT !.quantum = q, !.mis = w, !.isCompleted = d]
  BY DEF executeMIs
<1>. HIDE DEF q, w, d, after
<1>6. after \in Message /\ Alike(after, sm) /\ after.trace = sm.trace
  BY <1>1, <1>2, <1>3, <1>4, <1>5 DEF Message, Alike
<1>7. chooseIndex(after) = chooseIndex(sm)
  BY <1>6 DEF chooseIndex, Alike
<1>8. InCore(sch, c, after, s)
  BY <1>6, <1>7 DEF InCore, Asked, Traced, Alike
<1>. QED BY <1>6, <1>8 DEF after

LEMMA CoreTakes ==
  ASSUME NEW sch, NEW c \in CpuCores, NEW sm, NEW s, AtCore(sch, c, sm, s), Ready(sm)
  PROVE  LET taken == executeMIs(updateMessageTrace(sm, Core(c), Hub))
         IN  InCore(sch, c, taken, s) /\ Alike(taken, sm)
<1>. DEFINE u == updateMessageTrace(sm, Core(c), Hub)
<1>1. s \in Slot /\ Traced(sm, s, Hubbed(s)) /\ Hubbed(s) \in Seq(HopType)
      /\ Core(c) \in Module /\ Hub \in GateType
  BY TraceTypes, ModuleNames DEF AtCore, Asked, Traced, GateType
<1>2. Traced(u, s, Cored(s, c)) /\ Alike(u, sm) /\ u.quantum = sm.quantum
  BY <1>1, TraceGrows DEF Cored
<1>3. InCore(sch, c, u, s) /\ Ready(u)
  BY <1>2 DEF InCore, AtCore, Asked, Alike, Ready
<1>4. InCore(sch, c, executeMIs(u), s) /\ Alike(executeMIs(u), u)
  BY <1>3, TickKeeps
<1>. QED BY <1>2, <1>4 DEF Alike

LEMMA CoreAnswers ==
  ASSUME NEW sch, NEW c \in CpuCores, NEW sm, NEW s, InCore(sch, c, sm, s)
  PROVE  LET answer == [sm EXCEPT !.isResponse = TRUE]
             up == Delivered(removeLastModuleFromTrace(answer), Core(c))
         IN  /\ getLastGateId(answer) = Hub
             /\ AtHub(sch, up, s) /\ up.nextModuleIndex = c /\ up.vmId = s[1] /\ up.isResponse
<1>. DEFINE answer == [sm EXCEPT !.isResponse = TRUE]
            d == removeLastModuleFromTrace(answer)
            up == Delivered(d, Core(c))
<1>1. s \in Slot /\ Traced(sm, s, Cored(s, c)) /\ Hubbed(s) \in Seq(HopType)
      /\ Core(c) \in Module /\ Hub \in GateType /\ sm.nextModuleIndex = c /\ sm.opCode = "EXEC"
      /\ Owned(sch, s[1], c)
  BY TraceTypes, ModuleNames DEF InCore, Asked, Traced, GateType
<1>2. Traced(answer, s, Cored(s, c)) /\ answer.isResponse /\ answer.opCode = "EXEC"
      /\ answer.nextModuleIndex = c
  BY <1>1 DEF Traced, Message, chooseIndex
<1>. HIDE DEF answer
<1>3. Traced(d, s, Hubbed(s)) /\ Alike(d, answer) /\ getLastGateId(answer) = Hub
  BY <1>1, <1>2, TraceShrinks DEF Cored
<1>4. Traced(up, s, Hubbed(s)) /\ Alike(up, d)
  BY <1>1, <1>3, DeliveredTraced
<1>5. up.vmId = s[1]
  BY <1>4, IndexParts DEF Traced
<1>. QED BY <1>1, <1>2, <1>3, <1>4, <1>5 DEF AtHub, Answered, Alike, answer

\* The hypervisor passes a request to the scheduler or the disk, and an
\* answer to the application; the disk answers.
LEMMA RequestPassed ==
  ASSUME NEW sch, NEW sm, NEW s, Traced(sm, s, Made(s)), ~sm.isResponse,
         sm.opCode \notin {"EXIT", "ABORT"}
  PROVE  LET on == Delivered(sm, Hypervisor)
         IN  /\ Alike(on, sm) /\ on \in Message /\ chooseIndex(on) = s /\ sm.vmId = s[1]
             /\ sm.opCode = "EXEC" => AtScheduler(sch, s[1], on, s)
             /\ sm.opCode # "EXEC" => AtDisk(on, s)
<1>1. Traced(Delivered(sm, Hypervisor), s, Made(s)) /\ Alike(Delivered(sm, Hypervisor), sm)
  BY ModuleNames, DeliveredTraced
<1>2. sm.opCode \in {"READ", "WRITE", "EXEC"}
  BY DEF Traced, Message
<1>3. sm.vmId = s[1]
  BY IndexParts DEF Traced
<1>. QED BY <1>1, <1>2, <1>3 DEF AtScheduler, AtDisk, Asked, Alike, Traced

LEMMA AnswerToApp ==
  ASSUME NEW sm, NEW s, AtHypervisor(sm, s), sm.isResponse,
         ~(sm.opCode = "EXEC" /\ ~sm.isCompleted)
  PROVE  LET on == Delivered(sm, Hypervisor)
         IN  AtApp(on, s) /\ chooseIndex(sm) = s
<1>1. Traced(sm, s, Made(s)) /\ sm.opCode # "EXIT"
  BY DEF AtHypervisor, Status
<1>2. Traced(Delivered(sm, Hypervisor), s, Made(s)) /\ Alike(Delivered(sm, Hypervisor), sm)
  BY <1>1, ModuleNames, DeliveredTraced
<1>. QED BY <1>1, <1>2 DEF AtApp, Alike, Traced

LEMMA DiskAnswers ==
  ASSUME NEW sm, NEW s, AtDisk(sm, s)
  PROVE  LET on == Delivered([sm EXCEPT !.isResponse = TRUE], Disk)
         IN  AtHypervisor(on, s) /\ on \in Message /\ on.isResponse /\ chooseIndex(on) = s
<1>. DEFINE answer == [sm EXCEPT !.isResponse = TRUE]
<1>1. Traced(answer, s, Made(s)) /\ answer.isResponse /\ answer.opCode \in {"READ", "WRITE"}
  BY DEF AtDisk, Traced, Message, chooseIndex
<1>. HIDE DEF answer
<1>2. Traced(Delivered(answer, Disk), s, Made(s)) /\ Alike(Delivered(answer, Disk), answer)
  BY <1>1, ModuleNames, DeliveredTraced
<1>. QED BY <1>1, <1>2 DEF AtHypervisor, Alike, Traced, answer

\* An application makes a call.
LEMMA CallMade ==
  ASSUME NEW s \in Slot, NEW call,
         call \in {read(s), write(s), exit(s), execute(s, MIs), execute(s, processingMIs)}
  PROVE  LET on == Delivered(stampedByCreator(call, App(s)), App(s))
         IN  /\ AtHypervisor(on, s) /\ on \in Message /\ ~on.isResponse /\ chooseIndex(on) = s
             /\ on.opCode = call.opCode
<1>. DEFINE st == stampedByCreator(call, App(s))
<1>1. s[1] \in Vm /\ s[2] \in 1..MaxApps /\ s = <<s[1], s[2]>> /\ App(s) \in Module
  BY SlotParts, ModuleNames
<1>2. MIs \in Nat /\ processingMIs \in Nat
  BY HostConstants
<1>3. call \in Message /\ call.trace = <<>> /\ ~call.isResponse /\ chooseIndex(call) = s
  <2>. DEFINE Of(code) == Syscall(s, code)
  <2>1. ASSUME NEW code \in {"READ", "WRITE", "EXIT", "EXEC"}
        PROVE  /\ Of(code) \in Message /\ Of(code).trace = <<>> /\ ~Of(code).isResponse
               /\ Of(code).vmId = s[1] /\ Of(code).pid = s[2]
    BY <1>1 DEF Syscall, Message
  <2>. HIDE DEF Of
  <2>2. ASSUME NEW work \in Nat
        PROVE  LET c == [Of("EXEC") EXCEPT !.mis = work]
               IN  /\ c \in Message /\ c.trace = <<>> /\ ~c.isResponse
                   /\ c.vmId = s[1] /\ c.pid = s[2]
    BY <2>1 DEF Message
  <2>3. /\ read(s) = Of("READ") /\ write(s) = Of("WRITE") /\ exit(s) = Of("EXIT")
        /\ execute(s, MIs) = [Of("EXEC") EXCEPT !.mis = MIs]
        /\ execute(s, processingMIs) = [Of("EXEC") EXCEPT !.mis = processingMIs]
    BY DEF read, write, exit, execute, Of
  <2>4. /\ call \in Message /\ call.trace = <<>> /\ ~call.isResponse
        /\ call.vmId = s[1] /\ call.pid = s[2]
    <3>1. CASE call \in {Of("READ"), Of("WRITE"), Of("EXIT")}
      BY <2>1, <3>1
    <3>2. CASE call = [Of("EXEC") EXCEPT !.mis = MIs]
      BY <1>2, <2>2, <3>2
    <3>3. CASE call = [Of("EXEC") EXCEPT !.mis = processingMIs]
      BY <1>2, <2>2, <3>3
    <3>. QED BY <2>3, <3>1, <3>2, <3>3
  <2>. QED BY <1>1, <2>4 DEF chooseIndex
<1>. DEFINE one == [node |-> App(s), modules |-> Made(s)]
<1>4. st = [call EXCEPT !.trace = <<one>>]
  <2>1. isTraceEmpty(call)
    BY <1>3 DEF isTraceEmpty
  <2>2. addNodeToTrace(call, App(s)) = [call EXCEPT !.trace = <<[node |-> App(s), modules |-> <<>>]>>]
    BY <1>3 DEF addNodeToTrace
  <2>3. Append(<<>>, [module |-> App(s), gate |-> UnsetGate]) = Made(s)
    BY DEF Made, Hop
  <2>. DEFINE n == addNodeToTrace(call, App(s))
  <2>4. n.trace = <<[node |-> App(s), modules |-> <<>>]>> /\ Len(n.trace) = 1
    BY <1>3, <2>2 DEF Message
  <2>5. [n.trace EXCEPT ![1].modules = Made(s)] = <<one>>
    BY <2>4
  <2>6. addModuleToTrace(n, App(s), UnsetGate) = [n EXCEPT !.trace = [n.trace EXCEPT ![1].modules = Made(s)]]
    BY <2>3, <2>4 DEF addModuleToTrace
  <2>7. [n EXCEPT !.trace = <<one>>] = [call EXCEPT !.trace = <<one>>]
    BY <1>3, <2>2 DEF Message
  <2>. QED BY <2>1, <2>5, <2>6, <2>7 DEF stampedByCreator, updateMessageTrace
<1>5. <<one>> \in Seq([node : Module, modules : Seq(HopType)])
  BY <1>1, TraceTypes
<1>6. Traced(st, s, Made(s)) /\ ~st.isResponse /\ st.opCode = call.opCode
  BY <1>3, <1>4, <1>5 DEF Traced, Message, HopType, GateType, chooseIndex
<1>. HIDE DEF st
<1>7. Traced(Delivered(st, App(s)), s, Made(s)) /\ Alike(Delivered(st, App(s)), st)
  BY <1>1, <1>6, DeliveredTraced
<1>. QED BY <1>6, <1>7 DEF AtHypervisor, Alike, Traced, st

-----------------------------------------------------------------------------
(* Messages of a kind in a box *)

Among(box, T) == Cardinality({i \in DOMAIN box : box[i] \in T})

One(x, T) == IF x \in T THEN 1 ELSE 0

LEMMA AmongType ==
  ASSUME NEW S, NEW q \in Seq(S), NEW T
  PROVE  /\ Among(q, T) \in Nat
         /\ Among(q, T) = 0 <=> \A i \in DOMAIN q : q[i] \notin T
<1>1. IsFiniteSet(DOMAIN q)
  BY FS_Interval
<1>2. IsFiniteSet({i \in DOMAIN q : q[i] \in T})
  BY <1>1, FS_Subset
<1>. QED BY <1>2, FS_CardinalityType, FS_EmptySet DEF Among

LEMMA AmongNone ==
  ASSUME NEW T
  PROVE  Among(<<>>, T) = 0
BY FS_EmptySet DEF Among

LEMMA AmongAppend ==
  ASSUME NEW S, NEW q \in Seq(S), NEW x \in S, NEW T
  PROVE  Among(Append(q, x), T) = Among(q, T) + One(x, T)
<1>. DEFINE A == {i \in DOMAIN q : q[i] \in T}
            B == {i \in DOMAIN Append(q, x) : Append(q, x)[i] \in T}
            n == Len(q) + 1
<1>1. IsFiniteSet(A)
  <2>1. IsFiniteSet(DOMAIN q)
    BY FS_Interval
  <2>. QED BY <2>1, FS_Subset
<1>2. DOMAIN q = 1..Len(q) /\ DOMAIN Append(q, x) = 1..n /\ n \notin A
      /\ Append(q, x)[n] = x /\ \A i \in 1..Len(q) : Append(q, x)[i] = q[i]
  OBVIOUS
<1>3. CASE x \in T
  <2>1. B = A \cup {n}
    BY <1>2, <1>3
  <2>2. Among(Append(q, x), T) = Cardinality(B) /\ Among(q, T) = Cardinality(A)
    BY DEF Among
  <2>. HIDE DEF A, B, n
  <2>3. Cardinality(B) = Cardinality(A) + 1
    BY <1>1, <1>2, <2>1, FS_AddElement
  <2>4. Cardinality(A) \in Nat
    BY <1>1, FS_CardinalityType
  <2>5. One(x, T) = 1
    BY <1>3 DEF One
  <2>. QED BY <2>2, <2>3, <2>4, <2>5
<1>4. CASE x \notin T
  <2>1. B = A
    BY <1>2, <1>4
  <2>2. Among(Append(q, x), T) = Cardinality(B) /\ Among(q, T) = Cardinality(A)
    BY DEF Among
  <2>3. Cardinality(A) \in Nat
    BY <1>1, FS_CardinalityType
  <2>4. One(x, T) = 0
    BY <1>4 DEF One
  <2>. HIDE DEF A, B
  <2>. QED BY <2>1, <2>2, <2>3, <2>4
<1>. QED BY <1>3, <1>4

LEMMA AmongTail ==
  ASSUME NEW S, NEW q \in Seq(S), q # <<>>, NEW T
  PROVE  Among(Tail(q), T) = Among(q, T) - One(Head(q), T)
<1>. DEFINE A == {i \in DOMAIN q : q[i] \in T}
            B == {i \in DOMAIN Tail(q) : Tail(q)[i] \in T}
            C == A \ {1}
            f == [i \in C |-> i - 1]
<1>1. Len(q) \in Nat \ {0} /\ DOMAIN q = 1..Len(q) /\ DOMAIN Tail(q) = 1..(Len(q) - 1)
      /\ Head(q) = q[1] /\ \A i \in 1..(Len(q) - 1) : Tail(q)[i] = q[i + 1]
  OBVIOUS
<1>2. IsFiniteSet(A)
  <2>1. IsFiniteSet(DOMAIN q)
    BY FS_Interval
  <2>. QED BY <2>1, FS_Subset
<1>3. Cardinality(B) = Cardinality(C) /\ IsFiniteSet(C)
  <2>1. IsFiniteSet(C)
    BY <1>2, FS_RemoveElement
  <2>2. f \in Bijection(C, B)
    <3>1. \A i \in C : i - 1 \in B
      BY <1>1
    <3>2. \A j \in B : j + 1 \in C /\ f[j + 1] = j
      BY <1>1
    <3>3. f \in [C -> B]
      BY <3>1
    <3>4. \A i, j \in C : f[i] = f[j] => i = j
      BY <1>1
    <3>5. f \in Surjection(C, B)
      BY <3>2, <3>3 DEF Surjection
    <3>6. f \in Injection(C, B)
      BY <3>3, <3>4 DEF Injection, IsInjective
    <3>. QED BY <3>5, <3>6 DEF Bijection
  <2>. QED BY ZenonT(60), <2>1, <2>2, FS_Bijection DEF ExistsBijection
<1>4. 1 \in A <=> Head(q) \in T
  BY <1>1
<1>5. Among(Tail(q), T) = Cardinality(B) /\ Among(q, T) = Cardinality(A)
  BY DEF Among
<1>6. C = A \ {1}
  OBVIOUS
<1>. HIDE DEF A, B, C
<1>7. Cardinality(C) = IF 1 \in A THEN Cardinality(A) - 1 ELSE Cardinality(A)
  BY <1>2, <1>6, FS_RemoveElement
<1>8. Cardinality(A) \in Nat
  BY <1>2, FS_CardinalityType
<1>. QED BY <1>3, <1>4, <1>5, <1>7, <1>8 DEF One

-----------------------------------------------------------------------------
(* Boxes of messages, each where its trace says *)

\* What may wait in front of the module m.
Fits(sch, m, sm) ==
  LET s == chooseIndex(sm)
  IN  /\ m = Hypervisor => AtHypervisor(sm, s)
      /\ m = Disk => AtDisk(sm, s)
      /\ m = Hub => AtHub(sch, sm, s)
      /\ \A v \in Vm : m = Scheduler(v) => AtScheduler(sch, v, sm, s)
      /\ \A c \in CpuCores : m = Core(c) => AtCore(sch, c, sm, s)
      /\ \A t \in Slot : m = App(t) => AtApp(sm, t)

Boxes(sch, box) ==
  /\ box \in [Module -> Seq(Message)]
  /\ \A m \in Module : \A i \in DOMAIN box[m] : Fits(sch, m, box[m][i])

\* What fits in front of one module, by the kind of the module.
LEMMA FitsKinds ==
  ASSUME NEW sch, NEW sm
  PROVE  /\ Fits(sch, Hypervisor, sm) <=> AtHypervisor(sm, chooseIndex(sm))
         /\ Fits(sch, Disk, sm) <=> AtDisk(sm, chooseIndex(sm))
         /\ Fits(sch, Hub, sm) <=> AtHub(sch, sm, chooseIndex(sm))
         /\ \A v \in Vm : Fits(sch, Scheduler(v), sm) <=> AtScheduler(sch, v, sm, chooseIndex(sm))
         /\ \A c \in CpuCores : Fits(sch, Core(c), sm) <=> AtCore(sch, c, sm, chooseIndex(sm))
         /\ \A s \in Slot : Fits(sch, App(s), sm) <=> AtApp(sm, s)
<1>1. Fits(sch, Hypervisor, sm) <=> AtHypervisor(sm, chooseIndex(sm))
  BY ModuleNames, SchedulerName, CoreName, AppName DEF Fits
<1>2. Fits(sch, Disk, sm) <=> AtDisk(sm, chooseIndex(sm))
  BY ModuleNames, SchedulerName, CoreName, AppName DEF Fits
<1>3. Fits(sch, Hub, sm) <=> AtHub(sch, sm, chooseIndex(sm))
  BY ModuleNames, SchedulerName, CoreName, AppName DEF Fits
<1>4. ASSUME NEW v \in Vm
      PROVE  Fits(sch, Scheduler(v), sm) <=> AtScheduler(sch, v, sm, chooseIndex(sm))
  BY SchedulerName, CoreName, AppName DEF Fits
<1>5. ASSUME NEW c \in CpuCores
      PROVE  Fits(sch, Core(c), sm) <=> AtCore(sch, c, sm, chooseIndex(sm))
  BY SchedulerName, CoreName, AppName DEF Fits
<1>6. ASSUME NEW s \in Slot PROVE Fits(sch, App(s), sm) <=> AtApp(sm, s)
  BY SchedulerName, CoreName, AppName DEF Fits
<1>. QED BY <1>1, <1>2, <1>3, <1>4, <1>5, <1>6

LEMMA BoxesSent ==
  ASSUME NEW sch, NEW box, Boxes(sch, box), NEW from \in Module, NEW to \in Module,
         NEW sm, Delivered(sm, from) \in Message, Fits(sch, to, Delivered(sm, from))
  PROVE  /\ Boxes(sch, sent(box, from, to, sm))
         /\ sent(box, from, to, sm) = [box EXCEPT ![to] = Append(box[to], Delivered(sm, from))]
<1>. DEFINE d == Delivered(sm, from)
            new == sent(box, from, to, sm)
<1>1. new = [box EXCEPT ![to] = Append(box[to], d)] /\ box \in [Module -> Seq(Message)]
  BY DEF sent, Delivered, Boxes
<1>2. \A m \in Module : \A i \in DOMAIN box[m] : Fits(sch, m, box[m][i])
  BY DEF Boxes
<1>. HIDE DEF d, new
<1>3. new \in [Module -> Seq(Message)]
  BY <1>1 DEF d
<1>4. ASSUME NEW m \in Module, NEW i \in DOMAIN new[m] PROVE Fits(sch, m, new[m][i])
  <2>1. CASE m # to
    BY <1>1, <1>2, <2>1
  <2>2. CASE m = to
    <3>1. new[m] = Append(box[to], d) /\ box[to] \in Seq(Message) /\ d \in Message
      BY <1>1, <2>2 DEF d
    <3>2. new[m][i] = d \/ (i \in DOMAIN box[to] /\ new[m][i] = box[to][i])
      BY <3>1
    <3>. QED BY <1>2, <2>2, <3>2 DEF d
  <2>. QED BY <2>1, <2>2
<1>. QED BY <1>1, <1>3, <1>4 DEF Boxes, new, d

LEMMA BoxesHandled ==
  ASSUME NEW sch, NEW box, Boxes(sch, box), NEW m \in Module, box[m] # <<>>
  PROVE  /\ Boxes(sch, handled(box, m))
         /\ Head(box[m]) \in Message /\ Fits(sch, m, Head(box[m]))
<1>. DEFINE new == handled(box, m)
<1>1. new = [box EXCEPT ![m] = Tail(box[m])] /\ box \in [Module -> Seq(Message)]
  BY DEF handled, Boxes
<1>2. \A k \in Module : \A i \in DOMAIN box[k] : Fits(sch, k, box[k][i])
  BY DEF Boxes
<1>3. box[m] \in Seq(Message) /\ Head(box[m]) = box[m][1] /\ 1 \in DOMAIN box[m]
  BY <1>1
<1>. HIDE DEF new
<1>4. new \in [Module -> Seq(Message)]
  BY <1>1
<1>5. ASSUME NEW k \in Module, NEW i \in DOMAIN new[k] PROVE Fits(sch, k, new[k][i])
  <2>1. CASE k # m
    BY <1>1, <1>2, <2>1
  <2>2. CASE k = m
    <3>1. new[k] = Tail(box[m])
      BY <1>1, <2>2
    <3>2. i + 1 \in DOMAIN box[m] /\ new[k][i] = box[m][i + 1]
      BY <1>3, <3>1
    <3>. QED BY <1>2, <2>2, <3>2
  <2>. QED BY <2>1, <2>2
<1>. QED BY <1>2, <1>3, <1>4, <1>5 DEF Boxes, new

-----------------------------------------------------------------------------
(* The calls of a slot, module by module *)

OfSlot(s) == {sm \in Message : chooseIndex(sm) = s}

SchedulerType ==
  [running : BOOLEAN, index : Seq(CpuCores), cores : Seq(BOOLEAN), requestsQueue : Seq(Message)]
DiskType == [queue : Seq(Message), ioFinished : BOOLEAN]
CoreType == Message \cup {NoCall}

InboxCalls(box, s) == SumFunction([m \in Module |-> Among(box[m], OfSlot(s))])
Held(sc, disk, s) == Among(sc.requestsQueue, OfSlot(s)) + Among(disk.queue, OfSlot(s))
WaitingCalls(sch, disks, s) == SumFunction([v \in Vm |-> Held(sch[v], disks[v], s)])
WorkedOn(co, s) == Cardinality({c \in CpuCores : co[c] \in OfSlot(s)})

\* q instead of what waited in front of m.
Put(box, m, q) == [box EXCEPT ![m] = q]

LEMMA ModuleSums ==
  ASSUME NEW f \in [Module -> Nat], NEW g \in [Module -> Nat], NEW m \in Module,
         \A x \in Module : x # m => f[x] = g[x]
  PROVE  /\ SumFunction(g) + f[m] = SumFunction(f) + g[m]
         /\ SumFunction(f) \in Nat /\ SumFunction(g) \in Nat
<1>1. IsFiniteSet(Module)
  BY Finite
<1>2. SumFunction(g) + f[m] = SumFunction(f) + g[m]
  BY <1>1, SumChange
<1>. QED BY <1>1, <1>2, SumType

\* Two boxes that differ in front of one module differ in calls as the
\* messages there do.
LEMMA InboxChange ==
  ASSUME NEW box \in [Module -> Seq(Message)], NEW m \in Module, NEW q \in Seq(Message), NEW s
  PROVE  /\ InboxCalls(box, s) \in Nat /\ InboxCalls([box EXCEPT ![m] = q], s) \in Nat
         /\ Among(q, OfSlot(s)) \in Nat /\ Among(box[m], OfSlot(s)) \in Nat
         /\ InboxCalls([box EXCEPT ![m] = q], s) + Among(box[m], OfSlot(s))
              = InboxCalls(box, s) + Among(q, OfSlot(s))
<1>. DEFINE new == [box EXCEPT ![m] = q]
            f == [k \in Module |-> Among(box[k], OfSlot(s))]
            g == [k \in Module |-> Among(new[k], OfSlot(s))]
<1>1. \A k \in Module : Among(box[k], OfSlot(s)) \in Nat /\ Among(new[k], OfSlot(s)) \in Nat
  <2>1. \A k \in Module : box[k] \in Seq(Message) /\ new[k] \in Seq(Message)
    OBVIOUS
  <2>. HIDE DEF new
  <2>. QED BY <2>1, AmongType
<1>2. new[m] = q /\ \A k \in Module : k # m => new[k] = box[k]
  OBVIOUS
<1>. HIDE DEF new
<1>3. f \in [Module -> Nat] /\ g \in [Module -> Nat] /\ \A k \in Module : k # m => f[k] = g[k]
  BY <1>1, <1>2
<1>4. f[m] = Among(box[m], OfSlot(s)) /\ g[m] = Among(q, OfSlot(s)) /\ f[m] \in Nat /\ g[m] \in Nat
  BY <1>2, <1>3
<1>5. InboxCalls(box, s) = SumFunction(f) /\ InboxCalls(new, s) = SumFunction(g)
  BY DEF InboxCalls
<1>. HIDE DEF f, g
<1>6. SumFunction(g) + f[m] = SumFunction(f) + g[m] /\ SumFunction(f) \in Nat /\ SumFunction(g) \in Nat
  BY <1>3, ModuleSums
<1>. QED BY <1>1, <1>4, <1>5, <1>6 DEF new

LEMMA InboxSent ==
  ASSUME NEW box \in [Module -> Seq(Message)], NEW to \in Module, NEW sm \in Message, NEW s
  PROVE  /\ InboxCalls(box, s) \in Nat
         /\ InboxCalls(Put(box, to, Append(box[to], sm)), s)
              = InboxCalls(box, s) + One(sm, OfSlot(s))
<1>. DEFINE q == Append(box[to], sm)
<1>1. q \in Seq(Message) /\ box[to] \in Seq(Message)
  OBVIOUS
<1>2. Among(q, OfSlot(s)) = Among(box[to], OfSlot(s)) + One(sm, OfSlot(s))
  BY <1>1, AmongAppend
<1>3. One(sm, OfSlot(s)) \in Nat
  BY DEF One
<1>. HIDE DEF q
<1>4. /\ InboxCalls(box, s) \in Nat /\ InboxCalls([box EXCEPT ![to] = q], s) \in Nat
      /\ Among(q, OfSlot(s)) \in Nat /\ Among(box[to], OfSlot(s)) \in Nat
      /\ InboxCalls([box EXCEPT ![to] = q], s) + Among(box[to], OfSlot(s))
           = InboxCalls(box, s) + Among(q, OfSlot(s))
  BY <1>1, InboxChange
<1>. DEFINE after == InboxCalls([box EXCEPT ![to] = q], s)
            before == InboxCalls(box, s)
            new == Among(q, OfSlot(s))
            old == Among(box[to], OfSlot(s))
            one == One(sm, OfSlot(s))
<1>5. /\ before \in Nat /\ after \in Nat /\ new \in Nat /\ old \in Nat /\ one \in Nat
      /\ after + old = before + new /\ new = old + one
  BY <1>2, <1>3, <1>4
<1>. HIDE DEF after, before, new, old, one
<1>6. before \in Nat /\ after = before + one
  BY <1>5
<1>. QED BY <1>6 DEF q, after, before, one, Put

LEMMA InboxHandled ==
  ASSUME NEW box \in [Module -> Seq(Message)], NEW m \in Module, box[m] # <<>>, NEW s
  PROVE  /\ InboxCalls(handled(box, m), s) \in Nat
         /\ InboxCalls(box, s) = InboxCalls(handled(box, m), s) + One(Head(box[m]), OfSlot(s))
<1>. DEFINE q == Tail(box[m])
<1>1. q \in Seq(Message) /\ box[m] \in Seq(Message)
  OBVIOUS
<1>2. Among(q, OfSlot(s)) = Among(box[m], OfSlot(s)) - One(Head(box[m]), OfSlot(s))
  BY <1>1, AmongTail
<1>3. One(Head(box[m]), OfSlot(s)) \in Nat
  BY DEF One
<1>4. handled(box, m) = [box EXCEPT ![m] = q]
  BY DEF handled
<1>. HIDE DEF q
<1>5. /\ InboxCalls(box, s) \in Nat /\ InboxCalls([box EXCEPT ![m] = q], s) \in Nat
      /\ Among(q, OfSlot(s)) \in Nat /\ Among(box[m], OfSlot(s)) \in Nat
      /\ InboxCalls([box EXCEPT ![m] = q], s) + Among(box[m], OfSlot(s))
           = InboxCalls(box, s) + Among(q, OfSlot(s))
  BY <1>1, InboxChange
<1>. DEFINE after == InboxCalls([box EXCEPT ![m] = q], s)
            before == InboxCalls(box, s)
            new == Among(q, OfSlot(s))
            old == Among(box[m], OfSlot(s))
            one == One(Head(box[m]), OfSlot(s))
<1>6. /\ before \in Nat /\ after \in Nat /\ new \in Nat /\ old \in Nat /\ one \in Nat
      /\ after + old = before + new /\ new = old - one
  BY <1>2, <1>3, <1>5
<1>. HIDE DEF after, before, new, old, one
<1>7. after \in Nat /\ before = after + one
  BY <1>6
<1>. QED BY <1>4, <1>7 DEF after, before, one

\* Without calls of a slot in the boxes there is no message of it.
LEMMA InboxZero ==
  ASSUME NEW box \in [Module -> Seq(Message)], NEW s, InboxCalls(box, s) = 0,
         NEW m \in Module, NEW i \in DOMAIN box[m]
  PROVE  chooseIndex(box[m][i]) # s
<1>. DEFINE f == [k \in Module |-> Among(box[k], OfSlot(s))]
            rest == [k \in Module \ {m} |-> f[k]]
<1>1. \A k \in Module : Among(box[k], OfSlot(s)) \in Nat
  BY AmongType
<1>2. f \in [Module -> Nat] /\ f[m] = Among(box[m], OfSlot(s))
  BY <1>1
<1>3. InboxCalls(box, s) = SumFunction(f)
  BY DEF InboxCalls
<1>. HIDE DEF f
<1>4. SumFunction(f) = f[m] + SumFunction(rest)
  <2>1. IsFiniteSet(Module) BY Finite
  <2>. QED BY ZenonT(60), <1>2, <2>1, SumSplit
<1>5. SumFunction(rest) \in Nat
  <2>1. IsFiniteSet(Module \ {m})
    BY Finite, FS_RemoveElement
  <2>2. rest \in [Module \ {m} -> Nat]
    BY <1>2
  <2>. HIDE DEF rest
  <2>. QED BY <2>1, <2>2, SumType
<1>6. f[m] \in Nat
  BY <1>2
<1>7. Among(box[m], OfSlot(s)) = 0
  BY <1>2, <1>3, <1>4, <1>5, <1>6
<1>8. box[m] \in Seq(Message) /\ box[m][i] \in Message
  OBVIOUS
<1>9. box[m][i] \notin OfSlot(s)
  BY <1>7, <1>8, AmongType
<1>. QED BY <1>8, <1>9 DEF OfSlot

LEMMA HeldType ==
  ASSUME NEW sc \in SchedulerType, NEW disk \in DiskType, NEW s
  PROVE  /\ Held(sc, disk, s) \in Nat
         /\ Among(sc.requestsQueue, OfSlot(s)) \in Nat /\ Among(disk.queue, OfSlot(s)) \in Nat
<1>1. sc.requestsQueue \in Seq(Message) /\ disk.queue \in Seq(Message)
  BY DEF SchedulerType, DiskType
<1>2. Among(sc.requestsQueue, OfSlot(s)) \in Nat /\ Among(disk.queue, OfSlot(s)) \in Nat
  BY <1>1, AmongType
<1>. QED BY <1>2 DEF Held

LEMMA WaitingChange ==
  ASSUME NEW sch \in [Vm -> SchedulerType], NEW disks \in [Vm -> DiskType],
         NEW sch2 \in [Vm -> SchedulerType], NEW disks2 \in [Vm -> DiskType],
         NEW v \in Vm, \A w \in Vm : w # v => sch2[w] = sch[w] /\ disks2[w] = disks[w],
         NEW s
  PROVE  /\ WaitingCalls(sch, disks, s) \in Nat /\ WaitingCalls(sch2, disks2, s) \in Nat
         /\ Held(sch[v], disks[v], s) \in Nat /\ Held(sch2[v], disks2[v], s) \in Nat
         /\ WaitingCalls(sch2, disks2, s) + Held(sch[v], disks[v], s)
              = WaitingCalls(sch, disks, s) + Held(sch2[v], disks2[v], s)
<1>. DEFINE f == [w \in Vm |-> Held(sch[w], disks[w], s)]
            g == [w \in Vm |-> Held(sch2[w], disks2[w], s)]
<1>1. \A w \in Vm : Held(sch[w], disks[w], s) \in Nat /\ Held(sch2[w], disks2[w], s) \in Nat
  BY HeldType
<1>2. f \in [Vm -> Nat] /\ g \in [Vm -> Nat] /\ \A w \in Vm : w # v => f[w] = g[w]
  BY <1>1
<1>3. f[v] = Held(sch[v], disks[v], s) /\ g[v] = Held(sch2[v], disks2[v], s)
  OBVIOUS
<1>4. WaitingCalls(sch, disks, s) = SumFunction(f) /\ WaitingCalls(sch2, disks2, s) = SumFunction(g)
  BY DEF WaitingCalls
<1>. HIDE DEF f, g
<1>5. SumFunction(g) + f[v] = SumFunction(f) + g[v] /\ SumFunction(f) \in Nat /\ SumFunction(g) \in Nat
  <2>1. IsFiniteSet(Vm) BY Finite
  <2>. QED BY <1>2, <2>1, SumChange, SumType
<1>. QED BY <1>1, <1>3, <1>4, <1>5

\* A core takes a call, goes on with it, and leaves it.
LEMMA WorkedChange ==
  ASSUME NEW co \in [CpuCores -> CoreType], NEW c \in CpuCores, NEW x \in CoreType, NEW s
  PROVE  /\ WorkedOn(co, s) \in Nat
         /\ WorkedOn(Put(co, c, x), s) + One(co[c], OfSlot(s))
              = WorkedOn(co, s) + One(x, OfSlot(s))
<1>. DEFINE new == Put(co, c, x)
            A == {d \in CpuCores : co[d] \in OfSlot(s)}
            B == {d \in CpuCores : new[d] \in OfSlot(s)}
            rest == {d \in CpuCores \ {c} : co[d] \in OfSlot(s)}
<1>1. IsFiniteSet(rest) /\ c \notin rest /\ Cardinality(rest) \in Nat
  <2>1. IsFiniteSet(rest)
    BY Finite, FS_Subset
  <2>. QED BY <2>1, FS_CardinalityType
<1>2. A = IF co[c] \in OfSlot(s) THEN rest \cup {c} ELSE rest
  OBVIOUS
<1>3. B = IF x \in OfSlot(s) THEN rest \cup {c} ELSE rest
  BY DEF Put
<1>4. WorkedOn(co, s) = Cardinality(A) /\ WorkedOn(new, s) = Cardinality(B)
  BY DEF WorkedOn
<1>. HIDE DEF A, B, rest
<1>5. Cardinality(rest \cup {c}) = Cardinality(rest) + 1
  BY <1>1, FS_AddElement
<1>6. Cardinality(A) = Cardinality(rest) + One(co[c], OfSlot(s))
  BY <1>1, <1>2, <1>5 DEF One
<1>7. Cardinality(B) = Cardinality(rest) + One(x, OfSlot(s))
  BY <1>1, <1>3, <1>5 DEF One
<1>8. One(co[c], OfSlot(s)) \in Nat /\ One(x, OfSlot(s)) \in Nat
  BY DEF One
<1>. QED BY <1>1, <1>4, <1>6, <1>7, <1>8

-----------------------------------------------------------------------------
(* The computations a machine has out on a core *)

OfCore(v, c) == {sm \in Message : sm.vmId = v /\ sm.nextModuleIndex = c}
BackFrom(c) == {sm \in Message : sm.isResponse /\ sm.nextModuleIndex = c}

\* What is counted in front of the module m, and in the core d.
Counted(m, v, c) ==
  IF m = Hub \/ m = Core(c) THEN OfCore(v, c) ELSE IF m = Scheduler(v) THEN BackFrom(c) ELSE {}
InWork(d, v, c) == IF d = c THEN OfCore(v, c) ELSE {}

OutOn(box, co, v, c) ==
  Among(box[Hub], OfCore(v, c)) + Among(box[Core(c)], OfCore(v, c))
  + Among(box[Scheduler(v)], BackFrom(c)) + One(co[c], OfCore(v, c))

LEMMA OneType ==
  ASSUME NEW x, NEW T
  PROVE  One(x, T) \in Nat /\ One(x, T) = (IF x \in T THEN 1 ELSE 0) /\ One(x, {}) = 0
BY DEF One

LEMMA CountedKinds ==
  ASSUME NEW v, NEW c
  PROVE  /\ Counted(Hub, v, c) = OfCore(v, c) /\ Counted(Core(c), v, c) = OfCore(v, c)
         /\ Counted(Scheduler(v), v, c) = BackFrom(c)
         /\ Counted(Hypervisor, v, c) = {} /\ Counted(Disk, v, c) = {}
         /\ \A s : Counted(App(s), v, c) = {}
         /\ \A w : w # v => Counted(Scheduler(w), v, c) = {}
         /\ \A d : d # c => Counted(Core(d), v, c) = {}
BY ModuleNames, SchedulerName, CoreName, AppName DEF Counted

LEMMA OutChange ==
  ASSUME NEW box \in [Module -> Seq(Message)], NEW m \in Module, NEW q \in Seq(Message),
         NEW co, NEW v \in Vm, NEW c \in CpuCores
  PROVE  /\ OutOn(box, co, v, c) \in Nat /\ OutOn(Put(box, m, q), co, v, c) \in Nat
         /\ Among(q, Counted(m, v, c)) \in Nat /\ Among(box[m], Counted(m, v, c)) \in Nat
         /\ OutOn(Put(box, m, q), co, v, c) + Among(box[m], Counted(m, v, c))
              = OutOn(box, co, v, c) + Among(q, Counted(m, v, c))
<1>. DEFINE T == OfCore(v, c)
            U == BackFrom(c)
            new == Put(box, m, q)
<1>1. /\ Hub \in Module /\ Core(c) \in Module /\ Scheduler(v) \in Module
      /\ Hub # Core(c) /\ Hub # Scheduler(v) /\ Core(c) # Scheduler(v)
  BY ModuleNames, SchedulerName, CoreName
<1>2. \A p \in Module : p # m => new[p] = box[p]
  BY DEF Put
<1>3. new[m] = q
  BY DEF Put
<1>. HIDE DEF new
<1>4. /\ Among(box[Hub], T) \in Nat /\ Among(box[Core(c)], T) \in Nat
      /\ Among(box[Scheduler(v)], U) \in Nat /\ One(co[c], T) \in Nat
      /\ Among(q, T) \in Nat /\ Among(q, U) \in Nat
      /\ Among(q, Counted(m, v, c)) \in Nat /\ Among(box[m], Counted(m, v, c)) \in Nat
  <2>1. box[Hub] \in Seq(Message) /\ box[Core(c)] \in Seq(Message) /\ box[Scheduler(v)] \in Seq(Message)
        /\ box[m] \in Seq(Message)
    BY <1>1
  <2>. QED BY <2>1, AmongType, OneType
<1>. HIDE DEF T, U
<1>5. CASE m = Hub
  <2>1. Counted(m, v, c) = T
    BY <1>5, CountedKinds DEF T
  <2>2. new[Hub] = q /\ new[Core(c)] = box[Core(c)] /\ new[Scheduler(v)] = box[Scheduler(v)]
    BY <1>1, <1>2, <1>3, <1>5
  <2>. QED BY <1>4, <1>5, <2>1, <2>2 DEF OutOn, T, U, new
<1>6. CASE m = Core(c)
  <2>1. Counted(m, v, c) = T
    BY <1>6, CountedKinds DEF T
  <2>2. new[Hub] = box[Hub] /\ new[Core(c)] = q /\ new[Scheduler(v)] = box[Scheduler(v)]
    BY <1>1, <1>2, <1>3, <1>6
  <2>. DEFINE a == Among(box[Hub], T)
              b == Among(box[Core(c)], T)
              d == Among(box[Scheduler(v)], U)
              e == One(co[c], T)
              g == Among(q, T)
  <2>3. OutOn(box, co, v, c) = a + b + d + e /\ OutOn(new, co, v, c) = a + g + d + e
    BY <2>2 DEF OutOn, T, U
  <2>4. a \in Nat /\ b \in Nat /\ d \in Nat /\ e \in Nat /\ g \in Nat
    BY <1>4
  <2>5. Among(box[m], T) = b
    BY <1>6
  <2>. HIDE DEF a, b, d, e, g
  <2>6. OutOn(box, co, v, c) \in Nat /\ OutOn(new, co, v, c) \in Nat
        /\ OutOn(new, co, v, c) + b = OutOn(box, co, v, c) + g
    BY <2>3, <2>4
  <2>. QED BY <1>4, <2>1, <2>5, <2>6 DEF g, new
<1>7. CASE m = Scheduler(v)
  <2>1. Counted(m, v, c) = U
    BY <1>7, CountedKinds DEF U
  <2>2. new[Hub] = box[Hub] /\ new[Core(c)] = box[Core(c)] /\ new[Scheduler(v)] = q
    BY <1>1, <1>2, <1>3, <1>7
  <2>. DEFINE a == Among(box[Hub], T)
              b == Among(box[Core(c)], T)
              d == Among(box[Scheduler(v)], U)
              e == One(co[c], T)
              g == Among(q, U)
  <2>3. OutOn(box, co, v, c) = a + b + d + e /\ OutOn(new, co, v, c) = a + b + g + e
    BY <2>2 DEF OutOn, T, U
  <2>4. a \in Nat /\ b \in Nat /\ d \in Nat /\ e \in Nat /\ g \in Nat
    BY <1>4
  <2>5. Among(box[m], U) = d
    BY <1>7
  <2>. HIDE DEF a, b, d, e, g
  <2>6. OutOn(box, co, v, c) \in Nat /\ OutOn(new, co, v, c) \in Nat
        /\ OutOn(new, co, v, c) + d = OutOn(box, co, v, c) + g
    BY <2>3, <2>4
  <2>. QED BY <1>4, <2>1, <2>5, <2>6 DEF g, new
<1>8. CASE m \notin {Hub, Core(c), Scheduler(v)}
  <2>1. Counted(m, v, c) = {}
    BY <1>8 DEF Counted
  <2>2. Among(q, {}) = 0 /\ Among(box[m], {}) = 0
    BY FS_EmptySet DEF Among
  <2>4. /\ new[Hub] = box[Hub] /\ new[Core(c)] = box[Core(c)]
        /\ new[Scheduler(v)] = box[Scheduler(v)]
    BY <1>1, <1>2, <1>8
  <2>. QED BY <1>4, <2>1, <2>2, <2>4 DEF OutOn, T, U, new
<1>. QED BY <1>5, <1>6, <1>7, <1>8

LEMMA OutSent ==
  ASSUME NEW box \in [Module -> Seq(Message)], NEW to \in Module, NEW sm \in Message,
         NEW co, NEW v \in Vm, NEW c \in CpuCores
  PROVE  /\ OutOn(box, co, v, c) \in Nat
         /\ OutOn(Put(box, to, Append(box[to], sm)), co, v, c)
              = OutOn(box, co, v, c) + One(sm, Counted(to, v, c))
<1>. DEFINE q == Append(box[to], sm)
            T == Counted(to, v, c)
            new == Put(box, to, q)
<1>1. q \in Seq(Message) /\ box[to] \in Seq(Message)
  OBVIOUS
<1>2. Among(q, T) = Among(box[to], T) + One(sm, T) /\ One(sm, T) \in Nat
  BY <1>1, AmongAppend, OneType
<1>. HIDE DEF q
<1>3. /\ OutOn(box, co, v, c) \in Nat /\ OutOn(new, co, v, c) \in Nat
      /\ Among(q, T) \in Nat /\ Among(box[to], T) \in Nat
      /\ OutOn(new, co, v, c) + Among(box[to], T) = OutOn(box, co, v, c) + Among(q, T)
  BY SMTT(60), <1>1, OutChange
<1>. DEFINE after == OutOn(new, co, v, c)
            before == OutOn(box, co, v, c)
            more == Among(q, T)
            less == Among(box[to], T)
            one == One(sm, T)
<1>4. before \in Nat /\ after \in Nat /\ more \in Nat /\ less \in Nat /\ one \in Nat
      /\ after + less = before + more /\ more = less + one
  BY <1>2, <1>3
<1>. HIDE DEF before, after, more, less, one
<1>5. before \in Nat /\ after = before + one
  BY <1>4
<1>. QED BY <1>5 DEF before, after, one, q

LEMMA OutHandled ==
  ASSUME NEW box \in [Module -> Seq(Message)], NEW m \in Module, box[m] # <<>>,
         NEW co, NEW v \in Vm, NEW c \in CpuCores
  PROVE  /\ OutOn(box, co, v, c) \in Nat /\ OutOn(handled(box, m), co, v, c) \in Nat
         /\ OutOn(box, co, v, c)
              = OutOn(handled(box, m), co, v, c) + One(Head(box[m]), Counted(m, v, c))
<1>. DEFINE q == Tail(box[m])
            T == Counted(m, v, c)
            new == Put(box, m, q)
<1>1. q \in Seq(Message) /\ box[m] \in Seq(Message) /\ handled(box, m) = Put(box, m, q)
  BY DEF handled, Put
<1>2. Among(q, T) = Among(box[m], T) - One(Head(box[m]), T) /\ One(Head(box[m]), T) \in Nat
  BY <1>1, AmongTail, OneType
<1>. HIDE DEF q
<1>3. /\ OutOn(box, co, v, c) \in Nat /\ OutOn(new, co, v, c) \in Nat
      /\ Among(q, T) \in Nat /\ Among(box[m], T) \in Nat
      /\ OutOn(new, co, v, c) + Among(box[m], T) = OutOn(box, co, v, c) + Among(q, T)
  BY <1>1, OutChange
<1>. DEFINE after == OutOn(new, co, v, c)
            before == OutOn(box, co, v, c)
            more == Among(q, T)
            less == Among(box[m], T)
            one == One(Head(box[m]), T)
<1>4. before \in Nat /\ after \in Nat /\ more \in Nat /\ less \in Nat /\ one \in Nat
      /\ after + less = before + more /\ more = less - one
  BY <1>2, <1>3
<1>. HIDE DEF before, after, more, less, one
<1>5. before \in Nat /\ after \in Nat /\ before = after + one
  BY <1>4
<1>. QED BY <1>1, <1>5 DEF before, after, one

LEMMA OutCore ==
  ASSUME NEW box \in [Module -> Seq(Message)], NEW co \in [CpuCores -> CoreType],
         NEW d \in CpuCores, NEW x \in CoreType, NEW v \in Vm, NEW c \in CpuCores
  PROVE  /\ OutOn(box, co, v, c) \in Nat
         /\ OutOn(box, Put(co, d, x), v, c) \in Nat
         /\ OutOn(box, Put(co, d, x), v, c) + One(co[d], InWork(d, v, c))
              = OutOn(box, co, v, c) + One(x, InWork(d, v, c))
<1>. DEFINE T == OfCore(v, c)
            sum == Among(box[Hub], T) + Among(box[Core(c)], T) + Among(box[Scheduler(v)], BackFrom(c))
            new == Put(co, d, x)
<1>1. Hub \in Module /\ Core(c) \in Module /\ Scheduler(v) \in Module
  BY ModuleNames
<1>2. sum \in Nat
  BY <1>1, AmongType
<1>3. OutOn(box, co, v, c) = sum + One(co[c], T) /\ OutOn(box, new, v, c) = sum + One(new[c], T)
  BY DEF OutOn
<1>4. One(co[c], T) \in Nat /\ One(new[c], T) \in Nat
  BY OneType
<1>5. CASE d = c
  <2>1. InWork(d, v, c) = T /\ new[c] = x
    BY <1>5 DEF InWork, Put
  <2>. HIDE DEF sum, T, new
  <2>. QED BY <1>2, <1>3, <1>4, <1>5, <2>1 DEF new
<1>6. CASE d # c
  <2>1. InWork(d, v, c) = {} /\ new[c] = co[c]
    BY <1>6 DEF InWork, Put
  <2>2. One(co[d], {}) = 0 /\ One(x, {}) = 0
    BY OneType
  <2>. HIDE DEF sum, T, new
  <2>. QED BY <1>2, <1>3, <1>4, <2>1, <2>2 DEF new
<1>. QED BY <1>5, <1>6

-----------------------------------------------------------------------------
(* A message that goes from one module to another *)

SameCalls(a, b) == \A s : InboxCalls(a, s) = InboxCalls(b, s)
SameOut(a, b) == \A co : \A v \in Vm, c \in CpuCores : OutOn(a, co, v, c) = OutOn(b, co, v, c)

\* The message h in front of m and the message d in front of "to" count the same.
SameCount(h, m, d, to) ==
  \A v \in Vm, c \in CpuCores : One(h, Counted(m, v, c)) = One(d, Counted(to, v, c))

LEMMA SentPut ==
  ASSUME NEW box, NEW from, NEW to, NEW sm
  PROVE  sent(box, from, to, sm) = Put(box, to, Append(box[to], Delivered(sm, from)))
BY DEF sent, Delivered, Put

LEMMA SentCalls ==
  ASSUME NEW box \in [Module -> Seq(Message)], NEW from \in Module, NEW to \in Module,
         NEW sm, Delivered(sm, from) \in Message, NEW s
  PROVE  /\ InboxCalls(box, s) \in Nat
         /\ InboxCalls(sent(box, from, to, sm), s)
              = InboxCalls(box, s) + One(Delivered(sm, from), OfSlot(s))
BY SentPut, InboxSent

LEMMA SentOut ==
  ASSUME NEW box \in [Module -> Seq(Message)], NEW from \in Module, NEW to \in Module,
         NEW sm, Delivered(sm, from) \in Message, NEW co, NEW v \in Vm, NEW c \in CpuCores
  PROVE  /\ OutOn(box, co, v, c) \in Nat
         /\ OutOn(sent(box, from, to, sm), co, v, c)
              = OutOn(box, co, v, c) + One(Delivered(sm, from), Counted(to, v, c))
BY SentPut, OutSent

LEMMA Passed ==
  ASSUME NEW sch, NEW box, Boxes(sch, box), NEW m \in Module, NEW to \in Module,
         box[m] # <<>>, NEW sm, Delivered(sm, m) \in Message, Fits(sch, to, Delivered(sm, m)),
         chooseIndex(Delivered(sm, m)) = chooseIndex(Head(box[m])),
         SameCount(Head(box[m]), m, Delivered(sm, m), to)
  PROVE  LET new == sent(handled(box, m), m, to, sm)
         IN  Boxes(sch, new) /\ SameCalls(new, box) /\ SameOut(new, box)
<1>. DEFINE rest == handled(box, m)
            new == sent(rest, m, to, sm)
            d == Delivered(sm, m)
            h == Head(box[m])
<1>1. Boxes(sch, rest) /\ h \in Message /\ box \in [Module -> Seq(Message)]
      /\ rest \in [Module -> Seq(Message)]
  BY BoxesHandled DEF Boxes
<1>2. Boxes(sch, new)
  <2>. HIDE DEF rest
  <2>. QED BY <1>1, BoxesSent
<1>3. ASSUME NEW s PROVE InboxCalls(new, s) = InboxCalls(box, s)
  <2>1. InboxCalls(rest, s) \in Nat
        /\ InboxCalls(box, s) = InboxCalls(rest, s) + One(h, OfSlot(s))
    BY <1>1, InboxHandled
  <2>. HIDE DEF rest
  <2>2. InboxCalls(new, s) = InboxCalls(rest, s) + One(d, OfSlot(s))
    BY <1>1, SentCalls
  <2>3. One(d, OfSlot(s)) = One(h, OfSlot(s))
    BY <1>1 DEF One, OfSlot
  <2>. QED BY <2>1, <2>2, <2>3
<1>4. ASSUME NEW co, NEW v \in Vm, NEW c \in CpuCores
      PROVE  OutOn(new, co, v, c) = OutOn(box, co, v, c)
  <2>1. OutOn(rest, co, v, c) \in Nat
        /\ OutOn(box, co, v, c) = OutOn(rest, co, v, c) + One(h, Counted(m, v, c))
    BY ZenonT(60), <1>1, OutHandled
  <2>. HIDE DEF rest
  <2>2. OutOn(new, co, v, c) = OutOn(rest, co, v, c) + One(d, Counted(to, v, c))
    BY <1>1, SentOut
  <2>3. One(d, Counted(to, v, c)) = One(h, Counted(m, v, c))
    BY DEF SameCount
  <2>. QED BY <2>1, <2>2, <2>3
<1>. QED BY <1>2, <1>3, <1>4 DEF SameCalls, SameOut

-----------------------------------------------------------------------------
(* The invariant of schedulers, hub, cores and disk *)

InCores(sch, co) ==
  \A c \in CpuCores : co[c] = NoCall \/ InCore(sch, c, co[c], chooseIndex(co[c]))

DiskOK(v, disk) ==
  /\ \A i \in DOMAIN disk.queue :
       AtDisk(disk.queue[i], chooseIndex(disk.queue[i])) /\ disk.queue[i].vmId = v
  /\ disk.ioFinished => disk.queue # <<>>

\* A computation that waits in the queue of a scheduler.
InQueue(v, sm) == Asked(sm, chooseIndex(sm), Queued(chooseIndex(sm))) /\ sm.vmId = v

\* No two indices of a scheduler name the same core, computations wait only
\* while every core is busy, and a scheduler nobody started has nothing.
SchedulerOK(v, sc) ==
  /\ sc \in SchedulerType
  /\ Len(sc.index) = Len(sc.cores)
  /\ \A i, j \in DOMAIN sc.index : sc.index[i] = sc.index[j] => i = j
  /\ \A i \in DOMAIN sc.requestsQueue : InQueue(v, sc.requestsQueue[i])
  /\ sc.requestsQueue # <<>> => \A i \in DOMAIN sc.cores : ~sc.cores[i]
  /\ ~sc.running => sc = IdleScheduler

Machines(sch) == sch \in [Vm -> SchedulerType] /\ \A v \in Vm : SchedulerOK(v, sch[v])
DiskQueues(disks) == disks \in [Vm -> DiskType] /\ \A v \in Vm : DiskOK(v, disks[v])

\* No core belongs to two machines.
Disjoint(sch) ==
  \A v, w \in Vm : v # w =>
    \A i \in DOMAIN sch[v].index, j \in DOMAIN sch[w].index : sch[v].index[i] # sch[w].index[j]

\* A core is busy exactly while one computation is out on it.
Busy(sch, box, co) ==
  \A v \in Vm : \A i \in DOMAIN sch[v].cores :
    OutOn(box, co, v, sch[v].index[i]) = IF sch[v].cores[i] THEN 0 ELSE 1

CpuInv(sch, box, disks, co) ==
  /\ Machines(sch) /\ DiskQueues(disks) /\ co \in [CpuCores -> CoreType]
  /\ Boxes(sch, box) /\ InCores(sch, co) /\ Disjoint(sch) /\ Busy(sch, box, co)

Total(sch, box, disks, co, s) == InboxCalls(box, s) + WaitingCalls(sch, disks, s) + WorkedOn(co, s)

LEMMA WaitingType ==
  ASSUME NEW sch, NEW disks, Machines(sch), DiskQueues(disks), NEW s
  PROVE  WaitingCalls(sch, disks, s) \in Nat
<1>1. sch \in [Vm -> SchedulerType] /\ disks \in [Vm -> DiskType] /\ Vm # {}
  BY CpuConstants DEF Machines, DiskQueues
<1>2. PICK v \in Vm : TRUE
  BY <1>1
<1>. QED BY <1>1, <1>2, WaitingChange

\* A scheduler that gets no other cores owns what it did.
OwnedStays(sch, sch2) == \A v \in Vm, c \in CpuCores : Owned(sch, v, c) => Owned(sch2, v, c)

LEMMA FitsStays ==
  ASSUME NEW sch, NEW sch2, OwnedStays(sch, sch2), NEW m, NEW sm, Fits(sch, m, sm)
  PROVE  Fits(sch2, m, sm)
<1>. DEFINE s == chooseIndex(sm)
<1>1. \A v, c : Owned(sch, v, c) => Owned(sch2, v, c)
  BY DEF OwnedStays, Owned
<1>2. \A t, modules : Answered(sch, sm, t, modules) => Answered(sch2, sm, t, modules)
  BY <1>1 DEF Answered
<1>3. AtHub(sch, sm, s) => AtHub(sch2, sm, s)
  BY <1>1, <1>2 DEF AtHub
<1>4. \A v \in Vm : AtScheduler(sch, v, sm, s) => AtScheduler(sch2, v, sm, s)
  BY <1>2 DEF AtScheduler
<1>5. \A c \in CpuCores : AtCore(sch, c, sm, s) => AtCore(sch2, c, sm, s)
  BY <1>1 DEF AtCore
<1>. QED BY <1>3, <1>4, <1>5 DEF Fits

LEMMA BoxesStay ==
  ASSUME NEW sch, NEW sch2, OwnedStays(sch, sch2), NEW box, Boxes(sch, box)
  PROVE  Boxes(sch2, box)
BY FitsStays DEF Boxes

LEMMA InCoresStay ==
  ASSUME NEW sch, NEW sch2, OwnedStays(sch, sch2), NEW co, InCores(sch, co)
  PROVE  InCores(sch2, co)
BY DEF InCores, InCore, OwnedStays, Owned

\* What a handler that changes boxes only must show.
LEMMA BoxOnly ==
  ASSUME NEW sch, NEW box, NEW disks, NEW co, CpuInv(sch, box, disks, co),
         NEW new, Boxes(sch, new), SameOut(new, box)
  PROVE  CpuInv(sch, new, disks, co)
<1>1. ASSUME NEW v \in Vm, NEW i \in DOMAIN sch[v].cores
      PROVE  sch[v].index[i] \in CpuCores
  BY DEF CpuInv, Machines, SchedulerOK, SchedulerType
<1>2. Busy(sch, new, co)
  BY <1>1 DEF CpuInv, Busy, SameOut
<1>. QED BY <1>2 DEF CpuInv

-----------------------------------------------------------------------------
(* The hub *)

LEMMA CountHubToCore ==
  ASSUME NEW h \in Message, NEW d \in Message, Alike(d, h), NEW c0 \in CpuCores,
         c0 = h.nextModuleIndex
  PROVE  SameCount(h, Hub, d, Core(c0))
<1>1. SUFFICES ASSUME NEW v \in Vm, NEW c \in CpuCores
               PROVE  One(h, Counted(Hub, v, c)) = One(d, Counted(Core(c0), v, c))
  BY DEF SameCount
<1>2. Counted(Hub, v, c) = OfCore(v, c)
  BY CountedKinds
<1>3. CASE c = c0
  <2>1. Counted(Core(c0), v, c) = OfCore(v, c)
    BY <1>3, CountedKinds
  <2>. QED BY <1>2, <2>1 DEF One, OfCore, Alike
<1>4. CASE c # c0
  <2>1. Counted(Core(c0), v, c) = {}
    BY <1>4, CountedKinds
  <2>. QED BY <1>2, <1>4, <2>1 DEF One, OfCore, Alike
<1>. QED BY <1>3, <1>4

LEMMA CountHubToScheduler ==
  ASSUME NEW h \in Message, NEW d \in Message, Alike(d, h), h.isResponse, NEW v0 \in Vm,
         v0 = h.vmId
  PROVE  SameCount(h, Hub, d, Scheduler(v0))
<1>1. SUFFICES ASSUME NEW v \in Vm, NEW c \in CpuCores
               PROVE  One(h, Counted(Hub, v, c)) = One(d, Counted(Scheduler(v0), v, c))
  BY DEF SameCount
<1>2. Counted(Hub, v, c) = OfCore(v, c)
  BY CountedKinds
<1>3. CASE v = v0
  <2>1. Counted(Scheduler(v0), v, c) = BackFrom(c)
    BY <1>3, CountedKinds
  <2>. QED BY <1>2, <1>3, <2>1 DEF One, OfCore, BackFrom, Alike
<1>4. CASE v # v0
  <2>1. Counted(Scheduler(v0), v, c) = {}
    BY <1>4, CountedKinds
  <2>. QED BY <1>2, <1>4, <2>1 DEF One, OfCore, Alike
<1>. QED BY <1>3, <1>4

LEMMA CountElsewhere ==
  ASSUME NEW h, NEW d, NEW m, NEW to,
         \A v, c : Counted(m, v, c) = {} /\ (Counted(to, v, c) = {} \/ d \notin Counted(to, v, c))
  PROVE  SameCount(h, m, d, to)
BY DEF SameCount, One

\* The box the hub leaves.
Forwarded(box) ==
  LET sm == Head(box[Hub])
      rest == handled(box, Hub)
      port == IF Cardinality(CpuCores) = 1 THEN 1 ELSE sm.nextModuleIndex
  IN IF sm.isResponse THEN sendResponseMessage(rest, Hub, sm)
                      ELSE sent(rest, Hub, Core(port), updateMessageTrace(sm, Hub, sm.arrival))

LEMMA ForwardKeeps ==
  ASSUME NEW sch, NEW box, NEW disks, NEW co, CpuInv(sch, box, disks, co), box[Hub] # <<>>
  PROVE  CpuInv(sch, Forwarded(box), disks, co) /\ SameCalls(Forwarded(box), box)
<1>. DEFINE sm == Head(box[Hub])
            s == chooseIndex(sm)
            c == sm.nextModuleIndex
            rest == handled(box, Hub)
            port == IF Cardinality(CpuCores) = 1 THEN 1 ELSE c
<1>1. Boxes(sch, box) /\ Hub \in Module
  BY ModuleNames DEF CpuInv
<1>2. sm \in Message /\ AtHub(sch, sm, s)
  BY <1>1, BoxesHandled, FitsKinds
<1>3. CASE ~sm.isResponse
  <2>. DEFINE up == updateMessageTrace(sm, Hub, sm.arrival)
              d == Delivered(up, Hub)
              new == sent(rest, Hub, Core(c), up)
  <2>1. Asked(sm, s, Queued(s)) /\ sm.arrival = Scheduler(s[1]) /\ Owned(sch, s[1], c)
    BY <1>2, <1>3 DEF AtHub, Answered
  <2>2. AtCore(sch, c, d, s) /\ Alike(d, sm) /\ c \in CpuCores
    <3>1. c \in CpuCores
      BY <2>1 DEF Owned
    <3>. QED BY <2>1, <3>1, RequestForwarded
  <2>3. d \in Message /\ chooseIndex(d) = s /\ ~d.isResponse
    BY <2>2 DEF AtCore, Asked, Traced
  <2>4. Fits(sch, Core(c), d) /\ Core(c) \in Module
    BY <2>2, <2>3, FitsKinds, ModuleNames
  <2>5. SameCount(sm, Hub, d, Core(c))
    BY <1>2, <2>2, <2>3, CountHubToCore
  <2>6. Boxes(sch, new) /\ SameCalls(new, box) /\ SameOut(new, box)
    BY <1>1, <2>3, <2>4, <2>5, Passed
  <2>7. port = c
    <3>1. CASE Cardinality(CpuCores) = 1
      <4>1. CpuCores = {1}
        BY <3>1, CpuConstants
      <4>. QED BY <2>2, <4>1
    <3>. QED BY <3>1
  <2>8. Forwarded(box) = new
    BY <1>3, <2>7 DEF Forwarded
  <2>. QED BY <2>6, <2>8, BoxOnly
<1>4. CASE sm.isResponse
  <2>. DEFINE up == removeLastModuleFromTrace(sm)
              d == Delivered(up, Hub)
              v == s[1]
              new == sent(rest, Hub, Scheduler(v), up)
  <2>1. Answered(sch, sm, s, Hubbed(s))
    BY <1>2, <1>4 DEF AtHub, Asked
  <2>2. getLastGateId(sm) = Scheduler(v) /\ AtScheduler(sch, v, d, s) /\ Alike(d, sm)
    BY <2>1, AnswerForwarded
  <2>3. d \in Message /\ chooseIndex(d) = s /\ s \in Slot
    BY <2>2 DEF AtScheduler, Asked, Answered, Traced
  <2>4. v \in Vm /\ v = sm.vmId /\ Scheduler(v) \in Module
    BY <2>3, SlotParts, IndexParts, ModuleNames
  <2>5. Fits(sch, Scheduler(v), d)
    BY <2>2, <2>3, <2>4, FitsKinds
  <2>6. SameCount(sm, Hub, d, Scheduler(v))
    BY <1>2, <1>4, <2>2, <2>3, <2>4, CountHubToScheduler
  <2>7. Boxes(sch, new) /\ SameCalls(new, box) /\ SameOut(new, box)
    BY <1>1, <2>3, <2>4, <2>5, <2>6, Passed
  <2>8. Forwarded(box) = new
    BY <1>4, <2>2 DEF Forwarded, sendResponseMessage
  <2>. QED BY <2>7, <2>8, BoxOnly
<1>. QED BY <1>3, <1>4

-----------------------------------------------------------------------------
(* The cores *)

\* A core takes a computation.
Taken(box, c) == executeMIs(updateMessageTrace(Head(box[Core(c)]), Core(c), Hub))

LEMMA StartTickKeeps ==
  ASSUME NEW sch, NEW box, NEW disks, NEW co, CpuInv(sch, box, disks, co), NEW c \in CpuCores,
         box[Core(c)] # <<>>, co[c] = NoCall, Ready(Head(box[Core(c)]))
  PROVE  LET new == handled(box, Core(c))
             co2 == Put(co, c, Taken(box, c))
         IN  /\ CpuInv(sch, new, disks, co2)
             /\ \A s : Total(sch, new, disks, co2, s) = Total(sch, box, disks, co, s)
<1>. DEFINE sm == Head(box[Core(c)])
            s == chooseIndex(sm)
            new == handled(box, Core(c))
            x == Taken(box, c)
            co2 == Put(co, c, x)
<1>1. Boxes(sch, box) /\ Core(c) \in Module /\ co \in [CpuCores -> CoreType] /\ InCores(sch, co)
      /\ box \in [Module -> Seq(Message)]
  BY ModuleNames DEF CpuInv, Boxes
<1>2. sm \in Message /\ AtCore(sch, c, sm, s) /\ Boxes(sch, new)
  BY <1>1, BoxesHandled, FitsKinds
<1>3. InCore(sch, c, x, s) /\ Alike(x, sm)
  BY <1>2, CoreTakes DEF Taken
<1>4. x \in Message /\ x \in CoreType /\ chooseIndex(x) = s
  BY <1>3 DEF InCore, Asked, Traced, CoreType
<1>5. co2 \in [CpuCores -> CoreType] /\ InCores(sch, co2)
  <2>. HIDE DEF x
  <2>. QED BY <1>1, <1>3, <1>4 DEF InCores, Put
<1>6. NoCall \notin Message
  BY Nothing
<1>. HIDE DEF sm, s, new, x, co2
<1>7. ASSUME NEW v \in Vm, NEW d \in CpuCores
      PROVE  OutOn(new, co2, v, d) = OutOn(box, co, v, d)
  <2>1. OutOn(new, co, v, d) \in Nat
        /\ OutOn(box, co, v, d) = OutOn(new, co, v, d) + One(sm, Counted(Core(c), v, d))
    BY <1>1, OutHandled DEF new, sm
  <2>2. OutOn(new, co2, v, d) \in Nat
        /\ OutOn(new, co2, v, d) + One(co[c], InWork(c, v, d))
             = OutOn(new, co, v, d) + One(x, InWork(c, v, d))
    <3>1. new \in [Module -> Seq(Message)]
      BY <1>2 DEF Boxes
    <3>. QED BY <1>1, <1>4, <3>1, OutCore DEF co2
  <2>3. One(co[c], InWork(c, v, d)) = 0
    BY <1>6 DEF One, InWork, OfCore
  <2>4. One(x, InWork(c, v, d)) = One(sm, Counted(Core(c), v, d))
    <3>1. CASE c = d
      <4>1. Counted(Core(c), v, d) = OfCore(v, d) /\ InWork(c, v, d) = OfCore(v, d)
        BY <3>1, CountedKinds DEF InWork
      <4>. QED BY <1>2, <1>3, <1>4, <4>1 DEF One, OfCore, Alike
    <3>2. CASE c # d
      <4>1. Counted(Core(c), v, d) = {} /\ InWork(c, v, d) = {}
        BY <3>2, CountedKinds DEF InWork
      <4>. QED BY <4>1 DEF One
    <3>. QED BY <3>1, <3>2
  <2>5. One(x, InWork(c, v, d)) \in Nat
    BY OneType
  <2>. QED BY <2>1, <2>2, <2>3, <2>4, <2>5
<1>8. Busy(sch, new, co2)
  <2>1. ASSUME NEW v \in Vm, NEW i \in DOMAIN sch[v].cores
        PROVE  sch[v].index[i] \in CpuCores
    BY DEF CpuInv, Machines, SchedulerOK, SchedulerType
  <2>. QED BY <1>7, <2>1 DEF CpuInv, Busy
<1>9. ASSUME NEW t PROVE Total(sch, new, disks, co2, t) = Total(sch, box, disks, co, t)
  <2>1. InboxCalls(new, t) \in Nat /\ InboxCalls(box, t) = InboxCalls(new, t) + One(sm, OfSlot(t))
    BY <1>1, InboxHandled DEF new, sm
  <2>2. /\ WorkedOn(co, t) \in Nat
        /\ WorkedOn(co2, t) + One(co[c], OfSlot(t)) = WorkedOn(co, t) + One(x, OfSlot(t))
    BY <1>1, <1>4, WorkedChange DEF co2
  <2>3. One(co[c], OfSlot(t)) = 0
    BY <1>6 DEF One, OfSlot
  <2>4. One(x, OfSlot(t)) = One(sm, OfSlot(t))
    BY <1>2, <1>4 DEF One, OfSlot, s
  <2>5. WaitingCalls(sch, disks, t) \in Nat /\ One(x, OfSlot(t)) \in Nat /\ WorkedOn(co2, t) \in Nat
    <3>1. WaitingCalls(sch, disks, t) \in Nat
      BY WaitingType DEF CpuInv
    <3>2. WorkedOn(co2, t) \in Nat
      BY <1>4, <1>5, WorkedChange
    <3>. QED BY <3>1, <3>2, OneType
  <2>. QED BY <2>1, <2>2, <2>3, <2>4, <2>5 DEF Total
<1>10. CpuInv(sch, new, disks, co2)
  BY <1>2, <1>5, <1>8 DEF CpuInv
<1>. QED BY <1>9, <1>10 DEF new, co2, x

\* A core goes on with its computation.
LEMMA TickGoesOn ==
  ASSUME NEW sch, NEW box, NEW disks, NEW co, CpuInv(sch, box, disks, co), NEW c \in CpuCores,
         co[c] # NoCall, Ready(co[c])
  PROVE  LET co2 == Put(co, c, executeMIs(co[c]))
         IN  /\ CpuInv(sch, box, disks, co2)
             /\ \A s : Total(sch, box, disks, co2, s) = Total(sch, box, disks, co, s)
<1>. DEFINE sm == co[c]
            s == chooseIndex(sm)
            x == executeMIs(sm)
            co2 == Put(co, c, x)
<1>1. co \in [CpuCores -> CoreType] /\ InCores(sch, co) /\ box \in [Module -> Seq(Message)]
  BY DEF CpuInv, Boxes
<1>2. InCore(sch, c, sm, s)
  BY <1>1 DEF InCores
<1>3. InCore(sch, c, x, s) /\ Alike(x, sm)
  BY <1>2, TickKeeps
<1>4. x \in Message /\ x \in CoreType /\ chooseIndex(x) = s /\ sm \in Message
  BY <1>2, <1>3 DEF InCore, Asked, Traced, CoreType
<1>5. co2 \in [CpuCores -> CoreType] /\ InCores(sch, co2)
  <2>. HIDE DEF x
  <2>. QED BY <1>1, <1>3, <1>4 DEF InCores, Put
<1>. HIDE DEF s, x, co2
<1>6. ASSUME NEW v \in Vm, NEW d \in CpuCores
      PROVE  OutOn(box, co2, v, d) = OutOn(box, co, v, d)
  <2>1. OutOn(box, co2, v, d) \in Nat /\ OutOn(box, co, v, d) \in Nat
        /\ OutOn(box, co2, v, d) + One(sm, InWork(c, v, d))
             = OutOn(box, co, v, d) + One(x, InWork(c, v, d))
    BY <1>1, <1>4, OutCore DEF co2
  <2>2. One(x, InWork(c, v, d)) = One(sm, InWork(c, v, d)) /\ One(x, InWork(c, v, d)) \in Nat
    BY <1>3, <1>4 DEF One, InWork, OfCore, Alike
  <2>. QED BY <2>1, <2>2
<1>7. Busy(sch, box, co2)
  <2>1. ASSUME NEW v \in Vm, NEW i \in DOMAIN sch[v].cores
        PROVE  sch[v].index[i] \in CpuCores
    BY DEF CpuInv, Machines, SchedulerOK, SchedulerType
  <2>. QED BY <1>6, <2>1 DEF CpuInv, Busy
<1>8. ASSUME NEW t PROVE WorkedOn(co2, t) = WorkedOn(co, t)
  <2>1. /\ WorkedOn(co, t) \in Nat
        /\ WorkedOn(co2, t) + One(sm, OfSlot(t)) = WorkedOn(co, t) + One(x, OfSlot(t))
    BY <1>1, <1>4, WorkedChange DEF co2
  <2>2. One(x, OfSlot(t)) = One(sm, OfSlot(t)) /\ One(x, OfSlot(t)) \in Nat
    BY <1>4 DEF One, OfSlot, s
  <2>3. WorkedOn(co2, t) \in Nat
    BY <1>4, <1>5, WorkedChange
  <2>. QED BY <2>1, <2>2, <2>3
<1>9. CpuInv(sch, box, disks, co2)
  BY <1>5, <1>7 DEF CpuInv
<1>. QED BY <1>8, <1>9 DEF Total, co2, x

\* A core answers and is free again.
LEMMA CoreAnswersKeeps ==
  ASSUME NEW sch, NEW box, NEW disks, NEW co, CpuInv(sch, box, disks, co), NEW c \in CpuCores,
         co[c] # NoCall
  PROVE  LET new == sendResponseMessage(box, Core(c), [co[c] EXCEPT !.isResponse = TRUE])
             co2 == Put(co, c, NoCall)
         IN  /\ CpuInv(sch, new, disks, co2)
             /\ \A s : Total(sch, new, disks, co2, s) = Total(sch, box, disks, co, s)
<1>. DEFINE sm == co[c]
            s == chooseIndex(sm)
            answer == [sm EXCEPT !.isResponse = TRUE]
            up == removeLastModuleFromTrace(answer)
            d == Delivered(up, Core(c))
            new == sent(box, Core(c), Hub, up)
            co2 == Put(co, c, NoCall)
<1>1. co \in [CpuCores -> CoreType] /\ InCores(sch, co) /\ box \in [Module -> Seq(Message)]
      /\ Boxes(sch, box) /\ Hub \in Module /\ Core(c) \in Module
  BY ModuleNames DEF CpuInv, Boxes
<1>2. InCore(sch, c, sm, s) /\ sm \in Message
  BY <1>1 DEF InCores, InCore, Asked, Traced
<1>3. getLastGateId(answer) = Hub /\ AtHub(sch, d, s) /\ d.nextModuleIndex = c /\ d.vmId = s[1]
      /\ d.isResponse
  BY SMTT(60), <1>2, CoreAnswers
<1>4. d \in Message /\ chooseIndex(d) = s /\ sm.vmId = s[1] /\ sm.nextModuleIndex = c
  <2>1. d \in Message /\ chooseIndex(d) = s
    BY <1>3 DEF AtHub, Asked, Answered, Traced
  <2>. QED BY <1>2, <2>1, IndexParts DEF InCore
<1>5. sendResponseMessage(box, Core(c), answer) = new
  BY <1>3 DEF sendResponseMessage
<1>6. co2 \in [CpuCores -> CoreType] /\ InCores(sch, co2) /\ NoCall \in CoreType
  BY <1>1 DEF InCores, CoreType, Put
<1>7. Boxes(sch, new)
  <2>1. Fits(sch, Hub, d)
    BY <1>3, <1>4, FitsKinds
  <2>. QED BY <1>1, <1>4, <2>1, BoxesSent
<1>8. NoCall \notin Message
  BY Nothing
<1>. HIDE DEF s, answer, d, up, co2, new
<1>9. ASSUME NEW v \in Vm, NEW e \in CpuCores
      PROVE  OutOn(new, co2, v, e) = OutOn(box, co, v, e)
  <2>1. OutOn(box, co2, v, e) \in Nat /\ OutOn(box, co, v, e) \in Nat
        /\ OutOn(box, co2, v, e) + One(sm, InWork(c, v, e))
             = OutOn(box, co, v, e) + One(NoCall, InWork(c, v, e))
    BY <1>1, <1>6, OutCore DEF co2
  <2>2. One(NoCall, InWork(c, v, e)) = 0
    BY <1>8 DEF One, InWork, OfCore
  <2>3. OutOn(new, co2, v, e) = OutOn(box, co2, v, e) + One(d, Counted(Hub, v, e))
    BY <1>1, <1>4, SentOut DEF new, d
  <2>4. One(d, Counted(Hub, v, e)) = One(sm, InWork(c, v, e)) /\ One(sm, InWork(c, v, e)) \in Nat
    <3>1. Counted(Hub, v, e) = OfCore(v, e)
      BY CountedKinds
    <3>. QED BY <1>2, <1>3, <1>4, <3>1 DEF One, OfCore, InWork
  <2>. QED BY <2>1, <2>2, <2>3, <2>4
<1>10. Busy(sch, new, co2)
  <2>1. ASSUME NEW v \in Vm, NEW i \in DOMAIN sch[v].cores
        PROVE  sch[v].index[i] \in CpuCores
    BY DEF CpuInv, Machines, SchedulerOK, SchedulerType
  <2>. QED BY <1>9, <2>1 DEF CpuInv, Busy
<1>11. ASSUME NEW t PROVE Total(sch, new, disks, co2, t) = Total(sch, box, disks, co, t)
  <2>1. InboxCalls(box, t) \in Nat /\ InboxCalls(new, t) = InboxCalls(box, t) + One(d, OfSlot(t))
    BY <1>1, <1>4, SentCalls DEF new, d
  <2>2. /\ WorkedOn(co, t) \in Nat
        /\ WorkedOn(co2, t) + One(sm, OfSlot(t)) = WorkedOn(co, t) + One(NoCall, OfSlot(t))
    BY <1>1, <1>6, WorkedChange DEF co2
  <2>3. One(NoCall, OfSlot(t)) = 0
    BY <1>8 DEF One, OfSlot
  <2>4. One(d, OfSlot(t)) = One(sm, OfSlot(t)) /\ One(d, OfSlot(t)) \in Nat
    BY <1>2, <1>4 DEF One, OfSlot, s
  <2>5. WaitingCalls(sch, disks, t) \in Nat
    BY WaitingType DEF CpuInv
  <2>6. WorkedOn(co2, t) \in Nat
    BY <1>6, WorkedChange
  <2>. QED BY <2>1, <2>2, <2>3, <2>4, <2>5, <2>6 DEF Total
<1>12. CpuInv(sch, new, disks, co2)
  BY <1>6, <1>7, <1>10 DEF CpuInv
<1>. QED BY <1>5, <1>11, <1>12 DEF co2, answer

-----------------------------------------------------------------------------
(* A scheduler that keeps its cores *)

\* sc2 manages the cores sc does.
SameCores(sc, sc2) == sc2.index = sc.index /\ Len(sc2.cores) = Len(sc.cores)

\* Nothing is lost or duplicated, and the invariant holds again.
Kept(sch, box, disks, co, sch2, box2, disks2, co2) ==
  /\ CpuInv(sch2, box2, disks2, co2)
  /\ \A s \in Slot : Total(sch2, box2, disks2, co2, s) = Total(sch, box, disks, co, s)

LEMMA SchedulerChange ==
  ASSUME NEW sch, Machines(sch), NEW v \in Vm, NEW sc2, SchedulerOK(v, sc2),
         SameCores(sch[v], sc2), Disjoint(sch)
  PROVE  /\ Machines(Put(sch, v, sc2)) /\ OwnedStays(sch, Put(sch, v, sc2))
         /\ Disjoint(Put(sch, v, sc2))
         /\ Put(sch, v, sc2)[v] = sc2 /\ \A w \in Vm : w # v => Put(sch, v, sc2)[w] = sch[w]
<1>. DEFINE sch2 == Put(sch, v, sc2)
<1>1. sch2 = [sch EXCEPT ![v] = sc2] /\ sch \in [Vm -> SchedulerType]
      /\ \A w \in Vm : SchedulerOK(w, sch[w])
  BY DEF Put, Machines
<1>2. sc2 \in SchedulerType
  BY DEF SchedulerOK
<1>. HIDE DEF sch2
<1>3. sch2 \in [Vm -> SchedulerType] /\ sch2[v] = sc2 /\ \A w \in Vm : w # v => sch2[w] = sch[w]
  BY <1>1, <1>2
<1>4. Machines(sch2)
  BY <1>1, <1>3 DEF Machines
<1>5. \A w \in Vm : sch2[w].index = sch[w].index /\ DOMAIN sch2[w].cores = DOMAIN sch[w].cores
  <2>1. sch2[v].index = sch[v].index /\ Len(sch2[v].cores) = Len(sch[v].cores)
    BY <1>3 DEF SameCores
  <2>2. sch2[v].cores \in Seq(BOOLEAN) /\ sch[v].cores \in Seq(BOOLEAN)
    BY <1>1, <1>3 DEF SchedulerType
  <2>3. DOMAIN sch2[v].cores = DOMAIN sch[v].cores
    BY <2>1, <2>2
  <2>. QED BY <1>3, <2>1, <2>3
<1>6. OwnedStays(sch, sch2)
  BY <1>5 DEF OwnedStays, Owned
<1>7. Disjoint(sch2)
  BY <1>5 DEF Disjoint
<1>. QED BY <1>3, <1>4, <1>6, <1>7 DEF sch2

\* What each core of v must count once its scheduler is sc2.
Counts(v, sc2, new, co) ==
  \A i \in DOMAIN sc2.cores : OutOn(new, co, v, sc2.index[i]) = IF sc2.cores[i] THEN 0 ELSE 1

\* No other machine sees a difference between the boxes.
SameForOthers(v, new, box, co) ==
  \A w \in Vm, c \in CpuCores : w # v => OutOn(new, co, w, c) = OutOn(box, co, w, c)

LEMMA SchedulerStep ==
  ASSUME NEW sch, NEW box, NEW disks, NEW co, CpuInv(sch, box, disks, co),
         NEW v \in Vm, NEW sc2, SchedulerOK(v, sc2), SameCores(sch[v], sc2),
         NEW new, Boxes(sch, new), SameForOthers(v, new, box, co), Counts(v, sc2, new, co)
  PROVE  CpuInv(Put(sch, v, sc2), new, disks, co)
<1>. DEFINE sch2 == Put(sch, v, sc2)
<1>1. Machines(sch) /\ Disjoint(sch) /\ InCores(sch, co) /\ Busy(sch, box, co)
  BY DEF CpuInv
<1>2. Machines(sch2) /\ OwnedStays(sch, sch2) /\ Disjoint(sch2)
      /\ sch2[v] = sc2 /\ \A w \in Vm : w # v => sch2[w] = sch[w]
  BY <1>1, SchedulerChange
<1>. HIDE DEF sch2
<1>3. Boxes(sch2, new) /\ InCores(sch2, co)
  BY <1>1, <1>2, BoxesStay, InCoresStay
<1>4. ASSUME NEW w \in Vm, w # v, NEW i \in DOMAIN sch2[w].cores
      PROVE  OutOn(new, co, w, sch2[w].index[i]) = IF sch2[w].cores[i] THEN 0 ELSE 1
  <2>1. sch2[w] = sch[w]
    BY <1>2, <1>4
  <2>2. sch[w].index[i] \in CpuCores
    BY <1>1, <1>4, <2>1 DEF Machines, SchedulerOK, SchedulerType
  <2>3. OutOn(new, co, w, sch[w].index[i]) = OutOn(box, co, w, sch[w].index[i])
    BY <1>4, <2>2 DEF SameForOthers
  <2>. QED BY <1>1, <1>4, <2>1, <2>3 DEF Busy
<1>5. Busy(sch2, new, co)
  <2>1. ASSUME NEW w \in Vm, NEW i \in DOMAIN sch2[w].cores
        PROVE  OutOn(new, co, w, sch2[w].index[i]) = IF sch2[w].cores[i] THEN 0 ELSE 1
    BY <1>2, <1>4 DEF Counts
  <2>. QED BY <2>1 DEF Busy
<1>. QED BY <1>2, <1>3, <1>5 DEF CpuInv, sch2

\* The first idle core, if there is one, and the index of a core.
LEMMA IdleFound ==
  ASSUME NEW sc \in SchedulerType
  PROVE  \/ searchIdleCPU(sc) = SC_NotFound /\ \A i \in DOMAIN sc.cores : ~sc.cores[i]
         \/ /\ searchIdleCPU(sc) # SC_NotFound
            /\ searchIdleCPU(sc) \in DOMAIN sc.cores /\ sc.cores[searchIdleCPU(sc)]
<1>. DEFINE S == {i \in DOMAIN sc.cores : sc.cores[i]}
<1>1. DOMAIN sc.cores = 1..Len(sc.cores) /\ Len(sc.cores) \in Nat
  BY DEF SchedulerType
<1>2. CASE S = {}
  BY <1>2 DEF searchIdleCPU
<1>3. CASE S # {}
  <2>1. S \in SUBSET Nat
    BY <1>1
  <2>2. PICK i \in S : \A j \in S : i <= j
    BY <1>3, <2>1, LeastNatural
  <2>3. i \in DOMAIN sc.cores /\ sc.cores[i] /\ \A j \in 1..(i - 1) : ~sc.cores[j]
    BY <1>1, <2>2
  <2>4. searchIdleCPU(sc) \in DOMAIN sc.cores /\ sc.cores[searchIdleCPU(sc)]
    BY <2>3 DEF searchIdleCPU
  <2>. QED BY <1>1, <2>4 DEF SC_NotFound
<1>. QED BY <1>2, <1>3

LEMMA IndexFound ==
  ASSUME NEW sc \in SchedulerType, NEW c, \E i \in DOMAIN sc.cores : sc.index[i] = c
  PROVE  LET i == getVirtualCpuIndex(sc, c)
         IN  i # SC_NotFound /\ i \in DOMAIN sc.cores /\ sc.index[i] = c
<1>. DEFINE S == {i \in DOMAIN sc.cores : sc.index[i] = c}
<1>1. DOMAIN sc.cores = 1..Len(sc.cores) /\ Len(sc.cores) \in Nat
  BY DEF SchedulerType
<1>2. S \in SUBSET Nat /\ S # {}
  BY <1>1
<1>3. PICK i \in S : \A j \in S : i <= j
  BY <1>2, LeastNatural
<1>4. i \in DOMAIN sc.cores /\ sc.index[i] = c /\ \A j \in 1..(i - 1) : sc.index[j] # c
  BY <1>1, <1>3
<1>5. getVirtualCpuIndex(sc, c) \in DOMAIN sc.cores /\ sc.index[getVirtualCpuIndex(sc, c)] = c
  BY <1>4 DEF getVirtualCpuIndex
<1>. QED BY <1>1, <1>5 DEF SC_NotFound

-----------------------------------------------------------------------------
(* The schedulers *)

\* The box a scheduler took a message from.
LEMMA SchedulerTook ==
  ASSUME NEW sch, NEW box, Boxes(sch, box), NEW v \in Vm, box[Scheduler(v)] # <<>>, NEW co
  PROVE  LET rest == handled(box, Scheduler(v))
             h == Head(box[Scheduler(v)])
         IN  /\ Boxes(sch, rest) /\ h \in Message /\ AtScheduler(sch, v, h, chooseIndex(h))
             /\ \A w \in Vm, c \in CpuCores : w # v => OutOn(rest, co, w, c) = OutOn(box, co, w, c)
             /\ \A c \in CpuCores : /\ OutOn(rest, co, v, c) \in Nat
                                    /\ OutOn(box, co, v, c) = OutOn(rest, co, v, c) + One(h, BackFrom(c))
             /\ \A t : /\ InboxCalls(rest, t) \in Nat
                       /\ InboxCalls(box, t) = InboxCalls(rest, t) + One(h, OfSlot(t))
<1>. DEFINE rest == handled(box, Scheduler(v))
            h == Head(box[Scheduler(v)])
<1>1. Scheduler(v) \in Module /\ box \in [Module -> Seq(Message)]
  BY ModuleNames DEF Boxes
<1>2. Boxes(sch, rest) /\ h \in Message /\ AtScheduler(sch, v, h, chooseIndex(h))
  BY <1>1, BoxesHandled, FitsKinds
<1>3. ASSUME NEW w \in Vm, NEW c \in CpuCores
      PROVE  /\ OutOn(rest, co, w, c) \in Nat
             /\ OutOn(box, co, w, c) = OutOn(rest, co, w, c) + One(h, Counted(Scheduler(v), w, c))
  BY <1>1, OutHandled
<1>4. ASSUME NEW w \in Vm, NEW c \in CpuCores, w # v
      PROVE  OutOn(rest, co, w, c) = OutOn(box, co, w, c)
  <2>1. One(h, Counted(Scheduler(v), w, c)) = 0
    BY <1>4, CountedKinds, OneType
  <2>. QED BY <1>3, <2>1
<1>5. ASSUME NEW c \in CpuCores
      PROVE  /\ OutOn(rest, co, v, c) \in Nat
             /\ OutOn(box, co, v, c) = OutOn(rest, co, v, c) + One(h, BackFrom(c))
  BY <1>3, CountedKinds
<1>6. ASSUME NEW t
      PROVE  /\ InboxCalls(rest, t) \in Nat
             /\ InboxCalls(box, t) = InboxCalls(rest, t) + One(h, OfSlot(t))
  BY <1>1, InboxHandled
<1>. QED BY <1>2, <1>4, <1>5, <1>6

\* A scheduler sends a computation to the hub.
LEMMA SchedulerSent ==
  ASSUME NEW sch, NEW box, Boxes(sch, box), NEW v \in Vm, NEW sm, NEW co, NEW c0 \in CpuCores,
         NEW d, d = Delivered(sm, Scheduler(v)), AtHub(sch, d, chooseIndex(d)), d \in Message,
         d.vmId = v, d.nextModuleIndex = c0
  PROVE  LET new == sent(box, Scheduler(v), Hub, sm)
         IN  /\ Boxes(sch, new)
             /\ \A w \in Vm, c \in CpuCores : w # v => OutOn(new, co, w, c) = OutOn(box, co, w, c)
             /\ \A c \in CpuCores : c # c0 => OutOn(new, co, v, c) = OutOn(box, co, v, c)
             /\ OutOn(new, co, v, c0) = OutOn(box, co, v, c0) + 1
             /\ \A t : InboxCalls(new, t) = InboxCalls(box, t) + One(d, OfSlot(t))
<1>. DEFINE new == sent(box, Scheduler(v), Hub, sm)
<1>1. Scheduler(v) \in Module /\ Hub \in Module /\ box \in [Module -> Seq(Message)]
  BY ModuleNames DEF Boxes
<1>2. Boxes(sch, new)
  <2>1. Fits(sch, Hub, d)
    BY FitsKinds
  <2>. QED BY <1>1, <2>1, BoxesSent
<1>3. ASSUME NEW w \in Vm, NEW c \in CpuCores
      PROVE  /\ OutOn(box, co, w, c) \in Nat
             /\ OutOn(new, co, w, c) = OutOn(box, co, w, c) + One(d, OfCore(w, c))
  <2>1. Counted(Hub, w, c) = OfCore(w, c)
    BY CountedKinds
  <2>. QED BY <1>1, <2>1, SentOut
<1>4. ASSUME NEW w \in Vm, NEW c \in CpuCores, w # v \/ c # c0
      PROVE  OutOn(new, co, w, c) = OutOn(box, co, w, c)
  <2>1. One(d, OfCore(w, c)) = 0
    BY <1>4 DEF One, OfCore
  <2>. QED BY <1>3, <2>1
<1>5. OutOn(new, co, v, c0) = OutOn(box, co, v, c0) + 1
  <2>1. One(d, OfCore(v, c0)) = 1
    BY DEF One, OfCore
  <2>. QED BY <1>3, <2>1
<1>6. ASSUME NEW t PROVE InboxCalls(new, t) = InboxCalls(box, t) + One(d, OfSlot(t))
  BY <1>1, SentCalls
<1>. QED BY <1>2, <1>4, <1>5, <1>6

\* What the box of a scheduler gives or takes, its queue takes or gives.
LEMMA SchedulerTotal ==
  ASSUME NEW sch, NEW box, NEW disks, NEW co, CpuInv(sch, box, disks, co), NEW v \in Vm,
         NEW sc2 \in SchedulerType, NEW new, NEW t,
         InboxCalls(new, t) \in Nat, InboxCalls(box, t) \in Nat,
         InboxCalls(new, t) + Among(sc2.requestsQueue, OfSlot(t))
           = InboxCalls(box, t) + Among(sch[v].requestsQueue, OfSlot(t))
  PROVE  Total(Put(sch, v, sc2), new, disks, co, t) = Total(sch, box, disks, co, t)
<1>. DEFINE sch2 == Put(sch, v, sc2)
            a == InboxCalls(new, t)
            b == InboxCalls(box, t)
            x == Among(sc2.requestsQueue, OfSlot(t))
            y == Among(sch[v].requestsQueue, OfSlot(t))
            d == Among(disks[v].queue, OfSlot(t))
            p == WaitingCalls(sch2, disks, t)
            q == WaitingCalls(sch, disks, t)
            r == WorkedOn(co, t)
<1>1. /\ sch \in [Vm -> SchedulerType] /\ disks \in [Vm -> DiskType]
      /\ co \in [CpuCores -> CoreType]
  BY DEF CpuInv, Machines, DiskQueues
<1>2. sch2 \in [Vm -> SchedulerType] /\ sch2[v] = sc2 /\ \A w \in Vm : w # v => sch2[w] = sch[w]
  BY <1>1 DEF Put
<1>. HIDE DEF sch2
<1>3. x \in Nat /\ y \in Nat /\ d \in Nat
  BY <1>1, HeldType
<1>4. Held(sch2[v], disks[v], t) = x + d /\ Held(sch[v], disks[v], t) = y + d
  BY <1>2 DEF Held
<1>5. p \in Nat /\ q \in Nat
      /\ p + Held(sch[v], disks[v], t) = q + Held(sch2[v], disks[v], t)
  BY <1>1, <1>2, WaitingChange
<1>6. r \in Nat
  <2>1. CpuCores # {} /\ \A c \in CpuCores : co[c] \in CoreType
    <3>1. CpuCores # {}
      BY NodeSetup, Finite, FS_EmptySet DEF checkNodeSetup
    <3>. QED BY <1>1, <3>1
  <2>2. PICK c \in CpuCores : TRUE
    BY <2>1
  <2>. QED BY <1>1, <2>1, <2>2, WorkedChange
<1>7. Total(sch2, new, disks, co, t) = a + p + r /\ Total(sch, box, disks, co, t) = b + q + r
  BY DEF Total
<1>8. a \in Nat /\ b \in Nat /\ a + x = b + y
  OBVIOUS
<1>. HIDE DEF a, b, x, y, d, p, q, r
<1>. QED BY <1>3, <1>4, <1>5, <1>6, <1>7, <1>8 DEF sch2

\* A computation joins the queue of a scheduler.
Joined(sc, sm) == [sc EXCEPT !.requestsQueue = Append(sc.requestsQueue, sm)]

LEMMA JoinedQueue ==
  ASSUME NEW v \in Vm, NEW sc, SchedulerOK(v, sc), NEW sm \in Message, InQueue(v, sm), sc.running
  PROVE  LET sc2 == Joined(sc, sm)
         IN  /\ sc2 \in SchedulerType /\ SameCores(sc, sc2) /\ sc2.running
             /\ sc2.index = sc.index /\ sc2.cores = sc.cores
             /\ sc2.requestsQueue = Append(sc.requestsQueue, sm)
             /\ \A i \in DOMAIN sc2.requestsQueue : InQueue(v, sc2.requestsQueue[i])
             /\ \A t : /\ Among(sc.requestsQueue, OfSlot(t)) \in Nat
                       /\ Among(sc2.requestsQueue, OfSlot(t))
                            = Among(sc.requestsQueue, OfSlot(t)) + One(sm, OfSlot(t))
<1>. DEFINE sc2 == Joined(sc, sm)
            q == Append(sc.requestsQueue, sm)
<1>1. sc \in SchedulerType /\ sc.requestsQueue \in Seq(Message)
      /\ \A i \in DOMAIN sc.requestsQueue : InQueue(v, sc.requestsQueue[i])
  BY DEF SchedulerOK, SchedulerType
<1>2. q \in Seq(Message)
  BY <1>1
<1>3. \A i \in DOMAIN q : InQueue(v, q[i])
  <2>1. \A i \in DOMAIN q : q[i] = sm \/ (i \in DOMAIN sc.requestsQueue /\ q[i] = sc.requestsQueue[i])
    BY <1>1
  <2>. QED BY <1>1, <2>1
<1>4. \A t : /\ Among(sc.requestsQueue, OfSlot(t)) \in Nat
             /\ Among(q, OfSlot(t)) = Among(sc.requestsQueue, OfSlot(t)) + One(sm, OfSlot(t))
  BY <1>1, AmongType, AmongAppend
<1>. HIDE DEF q
<1>5. sc2 = [sc EXCEPT !.requestsQueue = q]
  BY DEF q, Joined
<1>6. sc2 \in SchedulerType /\ sc2.running = sc.running /\ sc2.index = sc.index
      /\ sc2.cores = sc.cores /\ sc2.requestsQueue = q
  BY <1>1, <1>2, <1>5 DEF SchedulerType
<1>. HIDE DEF sc2
<1>7. SameCores(sc, sc2)
  BY <1>6 DEF SameCores
<1>. QED BY <1>3, <1>4, <1>6, <1>7 DEF sc2, q

\* sc2 is sc, but for the mark of one core.
DiffersAt(sc, sc2, i) ==
  /\ sc2 \in SchedulerType /\ SameCores(sc, sc2)
  /\ sc2.running = sc.running /\ sc2.index = sc.index
  /\ sc2.requestsQueue = sc.requestsQueue
  /\ DOMAIN sc2.cores = DOMAIN sc.cores
  /\ \A j \in DOMAIN sc.cores : j # i => sc2.cores[j] = sc.cores[j]

\* A core of a scheduler becomes busy.
WithBusy(sc, i) == [sc EXCEPT !.cores = [sc.cores EXCEPT ![i] = FALSE]]

LEMMA CoreTaken ==
  ASSUME NEW sc \in SchedulerType, NEW i \in DOMAIN sc.cores
  PROVE  DiffersAt(sc, WithBusy(sc, i), i) /\ WithBusy(sc, i).cores[i] = FALSE
<1>. DEFINE marks == [sc.cores EXCEPT ![i] = FALSE]
            sc2 == WithBusy(sc, i)
<1>1. sc.cores \in Seq(BOOLEAN)
  BY DEF SchedulerType
<1>2. marks \in Seq(BOOLEAN) /\ Len(marks) = Len(sc.cores) /\ marks[i] = FALSE
      /\ DOMAIN marks = DOMAIN sc.cores
      /\ \A j \in DOMAIN sc.cores : j # i => marks[j] = sc.cores[j]
  BY <1>1
<1>. HIDE DEF marks
<1>3. sc2 = [sc EXCEPT !.cores = marks]
  BY DEF marks, WithBusy
<1>4. sc2 \in SchedulerType /\ sc2.running = sc.running /\ sc2.index = sc.index
      /\ sc2.requestsQueue = sc.requestsQueue /\ sc2.cores = marks
  BY <1>2, <1>3 DEF SchedulerType
<1>. HIDE DEF sc2
<1>5. SameCores(sc, sc2)
  BY <1>2, <1>4 DEF SameCores
<1>. QED BY <1>2, <1>4, <1>5 DEF sc2, DiffersAt

\* A core of a scheduler becomes idle.
WithIdle(sc, i) == [sc EXCEPT !.cores = [sc.cores EXCEPT ![i] = TRUE]]

LEMMA CoreFreed ==
  ASSUME NEW sc \in SchedulerType, NEW i \in DOMAIN sc.cores
  PROVE  DiffersAt(sc, WithIdle(sc, i), i) /\ WithIdle(sc, i).cores[i] = TRUE
<1>. DEFINE marks == [sc.cores EXCEPT ![i] = TRUE]
            sc2 == WithIdle(sc, i)
<1>1. sc.cores \in Seq(BOOLEAN)
  BY DEF SchedulerType
<1>2. marks \in Seq(BOOLEAN) /\ Len(marks) = Len(sc.cores) /\ marks[i] = TRUE
      /\ DOMAIN marks = DOMAIN sc.cores
      /\ \A j \in DOMAIN sc.cores : j # i => marks[j] = sc.cores[j]
  BY <1>1
<1>. HIDE DEF marks
<1>3. sc2 = [sc EXCEPT !.cores = marks]
  BY DEF marks, WithIdle
<1>4. sc2 \in SchedulerType /\ sc2.running = sc.running /\ sc2.index = sc.index
      /\ sc2.requestsQueue = sc.requestsQueue /\ sc2.cores = marks
  BY <1>2, <1>3 DEF SchedulerType
<1>. HIDE DEF sc2
<1>5. SameCores(sc, sc2)
  BY <1>2, <1>4 DEF SameCores
<1>. QED BY <1>2, <1>4, <1>5 DEF sc2, DiffersAt

\* The request a scheduler writes itself into.
Requested(box, v) ==
  [updateMessageTrace(Head(box[Scheduler(v)]), Scheduler(v), Hypervisor) EXCEPT !.quantum = Quantum]

\* While a core is idle a request goes to it ...
LEMMA RequestGoes ==
  ASSUME NEW sch, NEW box, NEW disks, NEW co, CpuInv(sch, box, disks, co), NEW v \in Vm,
         box[Scheduler(v)] # <<>>, ~Head(box[Scheduler(v)]).isResponse, sch[v].running,
         NEW i, i = searchIdleCPU(sch[v]), i # SC_NotFound
  PROVE  LET sm == Onto(Requested(box, v), sch[v].index[i])
             new == sent(handled(box, Scheduler(v)), Scheduler(v), Hub, sm)
         IN  Kept(sch, box, disks, co, Put(sch, v, WithBusy(sch[v], i)), new, disks, co)
<1>. DEFINE h == Head(box[Scheduler(v)])
            s == chooseIndex(h)
            up == Requested(box, v)
            c0 == sch[v].index[i]
            sm == Onto(up, c0)
            d == Delivered(sm, Scheduler(v))
            rest == handled(box, Scheduler(v))
            new == sent(rest, Scheduler(v), Hub, sm)
            sc == sch[v]
            sc2 == WithBusy(sc, i)
<1>1. /\ Boxes(sch, box) /\ sch \in [Vm -> SchedulerType] /\ SchedulerOK(v, sc) /\ sc \in SchedulerType
      /\ Busy(sch, box, co)
  BY DEF CpuInv, Machines
<1>2. /\ Boxes(sch, rest) /\ h \in Message /\ AtScheduler(sch, v, h, s)
      /\ \A w \in Vm, c \in CpuCores : w # v => OutOn(rest, co, w, c) = OutOn(box, co, w, c)
      /\ \A c \in CpuCores : /\ OutOn(rest, co, v, c) \in Nat
                             /\ OutOn(box, co, v, c) = OutOn(rest, co, v, c) + One(h, BackFrom(c))
      /\ \A t : /\ InboxCalls(rest, t) \in Nat
                /\ InboxCalls(box, t) = InboxCalls(rest, t) + One(h, OfSlot(t))
  BY <1>1, SchedulerTook
<1>3. Asked(h, s, Made(s)) /\ s[1] = v
  BY <1>2 DEF AtScheduler, Answered
<1>4. Asked(up, s, Queued(s)) /\ up.vmId = v
  BY <1>3, RequestQueued DEF Requested
<1>5. i \in DOMAIN sc.cores /\ sc.cores[i] = TRUE
  <2>1. i \in DOMAIN sc.cores /\ sc.cores[i]
    BY <1>1, IdleFound
  <2>2. sc.cores[i] \in BOOLEAN
    BY <1>1, <2>1 DEF SchedulerType
  <2>. QED BY <2>1, <2>2
<1>6. c0 \in CpuCores /\ Owned(sch, v, c0)
  <2>1. c0 \in CpuCores
    BY <1>1, <1>5 DEF SchedulerOK, SchedulerType
  <2>. QED BY <1>5, <2>1 DEF Owned
<1>7. AtHub(sch, d, s) /\ d.nextModuleIndex = c0 /\ d.vmId = v /\ ~d.isResponse
  <2>. HIDE DEF s, up, c0
  <2>. QED BY <1>3, <1>4, <1>6, SentToCore
<1>8. d \in Message /\ chooseIndex(d) = s
  BY <1>7 DEF AtHub, Asked, Answered, Traced
<1>. HIDE DEF h, s, up, c0, sm, d, rest, sc2
<1>9. /\ Boxes(sch, new)
      /\ \A w \in Vm, c \in CpuCores : w # v => OutOn(new, co, w, c) = OutOn(rest, co, w, c)
      /\ \A c \in CpuCores : c # c0 => OutOn(new, co, v, c) = OutOn(rest, co, v, c)
      /\ OutOn(new, co, v, c0) = OutOn(rest, co, v, c0) + 1
      /\ \A t : InboxCalls(new, t) = InboxCalls(rest, t) + One(d, OfSlot(t))
  BY <1>2, <1>6, <1>7, <1>8, SchedulerSent DEF d
<1>. HIDE DEF new
<1>10. /\ sc2 \in SchedulerType /\ SameCores(sc, sc2)
       /\ sc2.running = sc.running /\ sc2.index = sc.index
       /\ sc2.requestsQueue = sc.requestsQueue
       /\ sc2.cores[i] = FALSE /\ DOMAIN sc2.cores = DOMAIN sc.cores
       /\ \A j \in DOMAIN sc.cores : j # i => sc2.cores[j] = sc.cores[j]
  <2>1. sc \in SchedulerType /\ i \in DOMAIN sc.cores
    BY <1>1, <1>5
  <2>2. DiffersAt(sc, sc2, i) /\ sc2.cores[i] = FALSE
    BY <2>1, CoreTaken DEF sc2
  <2>. QED BY <2>2 DEF DiffersAt
<1>11. SchedulerOK(v, sc2)
  BY <1>1, <1>5, <1>10 DEF SchedulerOK, SameCores
<1>12. SameForOthers(v, new, box, co)
  BY <1>2, <1>9 DEF SameForOthers
<1>13. \A c \in CpuCores : OutOn(rest, co, v, c) = OutOn(box, co, v, c)
  <2>1. \A c : One(h, BackFrom(c)) = 0
    BY DEF One, BackFrom, h
  <2>. QED BY <1>2, <2>1
<1>14. Counts(v, sc2, new, co)
  <2>1. SUFFICES ASSUME NEW j \in DOMAIN sc2.cores
                 PROVE  OutOn(new, co, v, sc2.index[j]) = IF sc2.cores[j] THEN 0 ELSE 1
    BY DEF Counts
  <2>2. OutOn(box, co, v, sc.index[j]) = IF sc.cores[j] THEN 0 ELSE 1
    BY <1>1, <1>10 DEF Busy
  <2>3. sc.index[j] \in CpuCores
    BY <1>1, <1>10 DEF SchedulerOK, SchedulerType
  <2>4. CASE j = i
    <3>1. OutOn(rest, co, v, c0) = 0
      BY <1>5, <1>6, <1>13, <2>2, <2>4 DEF c0
    <3>. QED BY <1>9, <1>10, <2>4, <3>1 DEF c0
  <2>5. CASE j # i
    <3>1. sc.index[j] # c0
      BY <1>1, <1>5, <1>10, <2>5 DEF SchedulerOK, SchedulerType, c0
    <3>. QED BY <1>9, <1>10, <1>13, <2>2, <2>3, <2>5, <3>1
  <2>. QED BY <2>4, <2>5
<1>15. CpuInv(Put(sch, v, sc2), new, disks, co)
  BY <1>9, <1>10, <1>11, <1>12, <1>14, SchedulerStep
<1>16. ASSUME NEW t \in Slot
       PROVE  Total(Put(sch, v, sc2), new, disks, co, t) = Total(sch, box, disks, co, t)
  <2>1. One(d, OfSlot(t)) = One(h, OfSlot(t)) /\ One(d, OfSlot(t)) \in Nat
    BY <1>2, <1>8 DEF One, OfSlot, s
  <2>2. InboxCalls(new, t) \in Nat /\ InboxCalls(box, t) \in Nat
        /\ InboxCalls(new, t) = InboxCalls(box, t)
    BY <1>2, <1>9, <2>1
  <2>. QED BY <1>10, <2>2, SchedulerTotal
<1>. QED BY <1>15, <1>16 DEF Kept, new, rest, sm, up, c0, sc2

\* ... and otherwise it waits.
LEMMA RequestWaits ==
  ASSUME NEW sch, NEW box, NEW disks, NEW co, CpuInv(sch, box, disks, co), NEW v \in Vm,
         box[Scheduler(v)] # <<>>, ~Head(box[Scheduler(v)]).isResponse, sch[v].running,
         searchIdleCPU(sch[v]) = SC_NotFound
  PROVE  Kept(sch, box, disks, co,
              Put(sch, v, Joined(sch[v], Requested(box, v))), handled(box, Scheduler(v)), disks, co)
<1>. DEFINE h == Head(box[Scheduler(v)])
            s == chooseIndex(h)
            up == Requested(box, v)
            rest == handled(box, Scheduler(v))
            sc == sch[v]
            sc2 == Joined(sc, up)
<1>1. /\ Boxes(sch, box) /\ sch \in [Vm -> SchedulerType] /\ SchedulerOK(v, sc) /\ sc \in SchedulerType
      /\ Busy(sch, box, co)
  BY DEF CpuInv, Machines
<1>2. /\ Boxes(sch, rest) /\ h \in Message /\ AtScheduler(sch, v, h, s)
      /\ \A w \in Vm, c \in CpuCores : w # v => OutOn(rest, co, w, c) = OutOn(box, co, w, c)
      /\ \A c \in CpuCores : /\ OutOn(rest, co, v, c) \in Nat
                             /\ OutOn(box, co, v, c) = OutOn(rest, co, v, c) + One(h, BackFrom(c))
      /\ \A t : /\ InboxCalls(rest, t) \in Nat
                /\ InboxCalls(box, t) = InboxCalls(rest, t) + One(h, OfSlot(t))
  BY SMTT(60), <1>1, SchedulerTook
<1>3. Asked(h, s, Made(s)) /\ s[1] = v
  BY <1>2 DEF AtScheduler, Answered
<1>4. Asked(up, s, Queued(s)) /\ up.vmId = v
  BY <1>3, RequestQueued DEF Requested
<1>5. up \in Message /\ chooseIndex(up) = s /\ InQueue(v, up)
  BY <1>4 DEF InQueue, Asked, Traced
<1>6. \A i \in DOMAIN sc.cores : ~sc.cores[i]
  BY <1>1, IdleFound
<1>. HIDE DEF h, s, up, rest, sc2
<1>7. /\ sc2 \in SchedulerType /\ SameCores(sc, sc2) /\ sc2.running
      /\ sc2.index = sc.index /\ sc2.cores = sc.cores
      /\ sc2.requestsQueue = Append(sc.requestsQueue, up)
      /\ \A i \in DOMAIN sc2.requestsQueue : InQueue(v, sc2.requestsQueue[i])
      /\ \A t : /\ Among(sc.requestsQueue, OfSlot(t)) \in Nat
                /\ Among(sc2.requestsQueue, OfSlot(t))
                     = Among(sc.requestsQueue, OfSlot(t)) + One(up, OfSlot(t))
  BY <1>1, <1>5, JoinedQueue DEF sc2
<1>8. SchedulerOK(v, sc2)
  BY <1>1, <1>6, <1>7 DEF SchedulerOK, SameCores
<1>9. SameForOthers(v, rest, box, co)
  BY <1>2 DEF SameForOthers
<1>10. \A c \in CpuCores : OutOn(rest, co, v, c) = OutOn(box, co, v, c)
  <2>1. \A c : One(h, BackFrom(c)) = 0
    BY DEF One, BackFrom, h
  <2>. QED BY <1>2, <2>1
<1>11. Counts(v, sc2, rest, co)
  <2>1. \A j \in DOMAIN sc.cores : sc.index[j] \in CpuCores
    BY <1>1 DEF SchedulerOK, SchedulerType
  <2>. QED BY <1>1, <1>7, <1>10, <2>1 DEF Counts, Busy
<1>12. CpuInv(Put(sch, v, sc2), rest, disks, co)
  BY <1>2, <1>7, <1>8, <1>9, <1>11, SchedulerStep
<1>13. ASSUME NEW t \in Slot
       PROVE  Total(Put(sch, v, sc2), rest, disks, co, t) = Total(sch, box, disks, co, t)
  <2>1. One(up, OfSlot(t)) = One(h, OfSlot(t)) /\ One(up, OfSlot(t)) \in Nat
    BY <1>2, <1>5 DEF One, OfSlot, s
  <2>2. /\ InboxCalls(rest, t) \in Nat /\ InboxCalls(box, t) \in Nat
        /\ InboxCalls(rest, t) + Among(sc2.requestsQueue, OfSlot(t))
             = InboxCalls(box, t) + Among(sc.requestsQueue, OfSlot(t))
    <3>. DEFINE a == InboxCalls(rest, t)
                x == Among(sc.requestsQueue, OfSlot(t))
                o == One(up, OfSlot(t))
    <3>1. a \in Nat /\ x \in Nat /\ o \in Nat /\ InboxCalls(box, t) = a + o
          /\ Among(sc2.requestsQueue, OfSlot(t)) = x + o
      BY <1>2, <1>7, <2>1
    <3>. HIDE DEF a, x, o
    <3>. QED BY <3>1 DEF a, x
  <2>3. sc2 \in SchedulerType
    BY <1>7
  <2>. QED BY <2>2, <2>3, SchedulerTotal
<1>. QED BY <1>12, <1>13 DEF Kept, rest, up, sc2

\* What of a computation stays with its scheduler when a core answers.
Left(sm, t) == IF sm.isCompleted THEN 0 ELSE One(sm, OfSlot(t))

\* The answer of a core, as the head of the box of a scheduler.
AnswerArrived(sch, box, v, s) ==
  /\ box[Scheduler(v)] # <<>> /\ Head(box[Scheduler(v)]) \in Message
  /\ Answered(sch, Head(box[Scheduler(v)]), s, Queued(s)) /\ s[1] = v

\* The box once the scheduler passed the answer on.
AnsweredBox(box, v) ==
  LET sm == Head(box[Scheduler(v)])
  IN  sendResponseMessage(handled(box, Scheduler(v)), Scheduler(v),
                          IF sm.isCompleted THEN sm ELSE statusOf(sm))

\* What the box of v lost, with h at its head, once new is what is left.
AnswerCounts(sch, box, new, v, co) ==
  LET h == Head(box[Scheduler(v)])
  IN  /\ Boxes(sch, new)
      /\ \A w \in Vm, c \in CpuCores : w # v => OutOn(new, co, w, c) = OutOn(box, co, w, c)
      /\ \A c \in CpuCores : /\ OutOn(new, co, v, c) \in Nat
                             /\ OutOn(box, co, v, c) = OutOn(new, co, v, c) + One(h, BackFrom(c))
      /\ \A t \in Slot : /\ InboxCalls(new, t) \in Nat /\ InboxCalls(box, t) \in Nat
                         /\ Left(h, t) \in Nat
                         /\ InboxCalls(box, t) = InboxCalls(new, t) + Left(h, t)

LEMMA AnswerSent ==
  ASSUME NEW sch, NEW box, Boxes(sch, box), NEW v \in Vm, NEW s, AnswerArrived(sch, box, v, s), NEW co
  PROVE  AnswerCounts(sch, box, AnsweredBox(box, v), v, co)
<1>. DEFINE h == Head(box[Scheduler(v)])
            told == IF h.isCompleted THEN h ELSE statusOf(h)
            up == removeLastModuleFromTrace(told)
            d == Delivered(up, Scheduler(v))
            rest == handled(box, Scheduler(v))
            new == sent(rest, Scheduler(v), Hypervisor, up)
<1>1. /\ Boxes(sch, rest) /\ h \in Message
      /\ \A w \in Vm, c \in CpuCores : w # v => OutOn(rest, co, w, c) = OutOn(box, co, w, c)
      /\ \A c \in CpuCores : /\ OutOn(rest, co, v, c) \in Nat
                             /\ OutOn(box, co, v, c) = OutOn(rest, co, v, c) + One(h, BackFrom(c))
      /\ \A t : /\ InboxCalls(rest, t) \in Nat
                /\ InboxCalls(box, t) = InboxCalls(rest, t) + One(h, OfSlot(t))
  <2>1. box[Scheduler(v)] # <<>>
    BY DEF AnswerArrived
  <2>. QED BY SMTT(60), <2>1, SchedulerTook
<1>2. Answered(sch, h, s, Queued(s)) /\ s[1] = v /\ s \in Slot /\ chooseIndex(h) = s
  BY DEF AnswerArrived, Answered, Traced
<1>3. /\ getLastGateId(told) = Hypervisor
      /\ AtHypervisor(d, chooseIndex(d)) /\ d \in Message
      /\ chooseIndex(d) = IF h.isCompleted THEN s ELSE <<0, 0>>
  BY <1>2, AnswerPassed
<1>4. AnsweredBox(box, v) = new
  BY <1>3 DEF AnsweredBox, sendResponseMessage
<1>5. rest \in [Module -> Seq(Message)] /\ Scheduler(v) \in Module /\ Hypervisor \in Module
  BY <1>1, ModuleNames DEF Boxes
<1>6. Boxes(sch, new)
  <2>1. Fits(sch, Hypervisor, d)
    BY <1>3, FitsKinds
  <2>. HIDE DEF rest, up
  <2>. QED BY <1>1, <1>3, <1>5, <2>1, BoxesSent DEF d
<1>. HIDE DEF h, told, up, d, rest, new
<1>7. ASSUME NEW w \in Vm, NEW c \in CpuCores
      PROVE  OutOn(new, co, w, c) = OutOn(rest, co, w, c)
  <2>1. One(d, Counted(Hypervisor, w, c)) = 0
    BY CountedKinds, OneType
  <2>2. OutOn(rest, co, w, c) \in Nat
        /\ OutOn(new, co, w, c) = OutOn(rest, co, w, c) + One(d, Counted(Hypervisor, w, c))
    BY <1>3, <1>5, SentOut DEF d, new
  <2>. QED BY <2>1, <2>2
<1>8. ASSUME NEW t \in Slot
      PROVE  /\ InboxCalls(new, t) \in Nat /\ InboxCalls(box, t) \in Nat /\ Left(h, t) \in Nat
             /\ InboxCalls(box, t) = InboxCalls(new, t) + Left(h, t)
  <2>1. /\ InboxCalls(rest, t) \in Nat
        /\ InboxCalls(new, t) = InboxCalls(rest, t) + One(d, OfSlot(t))
    BY <1>3, <1>5, SentCalls DEF d, new
  <2>2. One(h, OfSlot(t)) \in Nat /\ One(d, OfSlot(t)) \in Nat
    BY OneType
  <2>3. <<0, 0>> # t
    <3>1. t[1] # 0
      BY SlotParts, Finite
    <3>. QED BY <3>1
  <2>4. CASE h.isCompleted
    <3>1. One(d, OfSlot(t)) = One(h, OfSlot(t))
      BY <1>1, <1>2, <1>3, <2>4 DEF One, OfSlot
    <3>2. Left(h, t) = 0
      BY <2>4 DEF Left
    <3>. QED BY <1>1, <2>1, <2>2, <3>1, <3>2
  <2>5. CASE ~h.isCompleted
    <3>1. One(d, OfSlot(t)) = 0
      BY <1>3, <2>3, <2>5 DEF One, OfSlot
    <3>2. Left(h, t) = One(h, OfSlot(t))
      BY <2>5 DEF Left
    <3>. QED BY <1>1, <2>1, <2>2, <3>1, <3>2
  <2>. QED BY <2>4, <2>5
<1>. QED BY <1>1, <1>4, <1>6, <1>7, <1>8 DEF h, AnswerCounts

\* The queue of a scheduler once a core answered.
QueueReady(v, sc, sc2, sm) ==
  /\ sc2 \in SchedulerType /\ sc2.running
  /\ sc2.index = sc.index /\ sc2.cores = sc.cores
  /\ \A i \in DOMAIN sc2.requestsQueue : InQueue(v, sc2.requestsQueue[i])
  /\ sc2.requestsQueue = <<>> \/ Tail(sc2.requestsQueue) = <<>>
       \/ \A i \in DOMAIN sc.cores : ~sc.cores[i]
  /\ \A t : /\ Among(sc.requestsQueue, OfSlot(t)) \in Nat
            /\ Among(sc2.requestsQueue, OfSlot(t))
                 = Among(sc.requestsQueue, OfSlot(t)) + Left(sm, t)

LEMMA QueueAfterAnswer ==
  ASSUME NEW v \in Vm, NEW sc, SchedulerOK(v, sc), sc.running, NEW sch, NEW sm \in Message, NEW s,
         Answered(sch, sm, s, Queued(s)), s[1] = v
  PROVE  QueueReady(v, sc, afterAnswer(sc, sm), sm)
<1>1. /\ sc \in SchedulerType /\ sc.requestsQueue \in Seq(Message)
      /\ \A i \in DOMAIN sc.requestsQueue : InQueue(v, sc.requestsQueue[i])
      /\ sc.requestsQueue # <<>> => \A i \in DOMAIN sc.cores : ~sc.cores[i]
  BY DEF SchedulerOK, SchedulerType
<1>2. CASE sm.isCompleted
  <2>1. afterAnswer(sc, sm) = sc
    BY <1>1, <1>2 DEF afterAnswer, SchedulerType
  <2>2. \A t : /\ Among(sc.requestsQueue, OfSlot(t)) \in Nat
               /\ Among(sc.requestsQueue, OfSlot(t))
                    = Among(sc.requestsQueue, OfSlot(t)) + Left(sm, t)
    BY <1>1, <1>2, AmongType DEF Left
  <2>. QED BY <1>1, <2>1, <2>2 DEF QueueReady
<1>3. CASE ~sm.isCompleted
  <2>. DEFINE back == [sm EXCEPT !.isResponse = FALSE]
              sc2 == Joined(sc, back)
  <2>1. afterAnswer(sc, sm) = sc2
    BY <1>1, <1>3 DEF afterAnswer, Joined, SchedulerType
  <2>2. Asked(back, s, Queued(s)) /\ back.vmId = v
    BY AnswerRequeued
  <2>3. back \in Message /\ chooseIndex(back) = s /\ InQueue(v, back) /\ chooseIndex(sm) = s
    BY <2>2 DEF InQueue, Asked, Answered, Traced
  <2>. HIDE DEF back
  <2>4. /\ sc2 \in SchedulerType /\ sc2.running
        /\ sc2.index = sc.index /\ sc2.cores = sc.cores
        /\ sc2.requestsQueue = Append(sc.requestsQueue, back)
        /\ \A i \in DOMAIN sc2.requestsQueue : InQueue(v, sc2.requestsQueue[i])
        /\ \A t : /\ Among(sc.requestsQueue, OfSlot(t)) \in Nat
                  /\ Among(sc2.requestsQueue, OfSlot(t))
                       = Among(sc.requestsQueue, OfSlot(t)) + One(back, OfSlot(t))
    BY <2>3, JoinedQueue
  <2>. HIDE DEF sc2
  <2>5. \A t : One(back, OfSlot(t)) = Left(sm, t)
    BY <1>3, <2>3 DEF One, OfSlot, Left
  <2>6. sc.requestsQueue = <<>> => Tail(sc2.requestsQueue) = <<>>
    BY <2>4
  <2>. QED BY <1>1, <2>1, <2>4, <2>5, <2>6 DEF QueueReady
<1>. QED BY <1>2, <1>3

\* The head of a queue leaves it.
WithoutHead(sc) == [sc EXCEPT !.requestsQueue = Tail(sc.requestsQueue)]

LEMMA HeadLeaves ==
  ASSUME NEW v \in Vm, NEW sc \in SchedulerType, sc.requestsQueue # <<>>,
         \A i \in DOMAIN sc.requestsQueue : InQueue(v, sc.requestsQueue[i])
  PROVE  LET sc2 == WithoutHead(sc)
             h == Head(sc.requestsQueue)
         IN  /\ sc2 \in SchedulerType /\ sc2.running = sc.running
             /\ sc2.index = sc.index /\ sc2.cores = sc.cores
             /\ sc2.requestsQueue = Tail(sc.requestsQueue)
             /\ \A i \in DOMAIN sc2.requestsQueue : InQueue(v, sc2.requestsQueue[i])
             /\ h \in Message /\ InQueue(v, h)
             /\ \A t : /\ Among(sc2.requestsQueue, OfSlot(t)) \in Nat
                       /\ Among(sc.requestsQueue, OfSlot(t))
                            = Among(sc2.requestsQueue, OfSlot(t)) + One(h, OfSlot(t))
<1>. DEFINE q == sc.requestsQueue
            r == Tail(q)
            h == Head(q)
            sc2 == WithoutHead(sc)
<1>1. q \in Seq(Message) /\ q # <<>> /\ \A i \in DOMAIN q : InQueue(v, q[i])
  BY DEF SchedulerType
<1>. HIDE DEF q
<1>2. r \in Seq(Message) /\ h \in Message /\ h = q[1] /\ 1 \in DOMAIN q
      /\ \A i \in DOMAIN r : i + 1 \in DOMAIN q /\ r[i] = q[i + 1]
  BY <1>1
<1>3. InQueue(v, h) /\ \A i \in DOMAIN r : InQueue(v, r[i])
  BY <1>1, <1>2
<1>4. ASSUME NEW t
      PROVE  Among(r, OfSlot(t)) \in Nat /\ Among(q, OfSlot(t)) = Among(r, OfSlot(t)) + One(h, OfSlot(t))
  <2>1. Among(r, OfSlot(t)) = Among(q, OfSlot(t)) - One(h, OfSlot(t))
    BY <1>1, AmongTail
  <2>2. Among(r, OfSlot(t)) \in Nat /\ Among(q, OfSlot(t)) \in Nat
    BY <1>1, <1>2, AmongType
  <2>3. One(h, OfSlot(t)) \in Nat
    BY OneType
  <2>. QED BY <2>1, <2>2, <2>3
<1>. HIDE DEF r, h
<1>5. sc2 = [sc EXCEPT !.requestsQueue = r]
  BY DEF r, q, WithoutHead
<1>6. sc2 \in SchedulerType /\ sc2.running = sc.running /\ sc2.index = sc.index
      /\ sc2.cores = sc.cores /\ sc2.requestsQueue = r
  BY <1>2, <1>5 DEF SchedulerType
<1>. QED BY <1>2, <1>3, <1>4, <1>6 DEF q, r, h

\* When a core answers, the core was busy, and now nothing is out on it.
LEMMA CoreCameBack ==
  ASSUME NEW sch, NEW box, NEW disks, NEW co, CpuInv(sch, box, disks, co), NEW v \in Vm,
         NEW s, AnswerArrived(sch, box, v, s), sch[v].running,
         NEW c0, c0 = Head(box[Scheduler(v)]).nextModuleIndex,
         NEW i, i = getVirtualCpuIndex(sch[v], c0)
  PROVE  LET new == AnsweredBox(box, v)
         IN  /\ i # SC_NotFound /\ i \in DOMAIN sch[v].cores /\ sch[v].index[i] = c0 /\ c0 \in CpuCores
             /\ ~sch[v].cores[i]
             /\ OutOn(new, co, v, c0) = 0
             /\ \A j \in DOMAIN sch[v].cores : j # i =>
                  /\ sch[v].index[j] # c0 /\ sch[v].index[j] \in CpuCores
                  /\ OutOn(new, co, v, sch[v].index[j]) = IF sch[v].cores[j] THEN 0 ELSE 1
<1>. DEFINE h == Head(box[Scheduler(v)])
            sc == sch[v]
            new == AnsweredBox(box, v)
<1>1. /\ Boxes(sch, box) /\ SchedulerOK(v, sc) /\ sc \in SchedulerType
      /\ \A j \in DOMAIN sc.cores : OutOn(box, co, v, sc.index[j]) = IF sc.cores[j] THEN 0 ELSE 1
  BY DEF CpuInv, Machines, Busy
<1>2. Owned(sch, v, c0) /\ h \in Message /\ h.isResponse
  BY DEF AnswerArrived, Answered
<1>3. c0 \in CpuCores /\ \E j \in DOMAIN sc.cores : sc.index[j] = c0
  BY <1>2 DEF Owned
<1>4. i # SC_NotFound /\ i \in DOMAIN sc.cores /\ sc.index[i] = c0
  BY <1>1, <1>3, IndexFound
<1>5. \A c \in CpuCores : /\ OutOn(new, co, v, c) \in Nat
                          /\ OutOn(box, co, v, c) = OutOn(new, co, v, c) + One(h, BackFrom(c))
  BY <1>1, AnswerSent DEF AnswerCounts
<1>. HIDE DEF new, sc
<1>6. One(h, BackFrom(c0)) = 1
  BY <1>2 DEF One, BackFrom, h
<1>7. ~sc.cores[i] /\ OutOn(new, co, v, c0) = 0
  <2>1. OutOn(box, co, v, c0) = IF sc.cores[i] THEN 0 ELSE 1
    BY <1>1, <1>4
  <2>2. OutOn(new, co, v, c0) \in Nat /\ OutOn(box, co, v, c0) = OutOn(new, co, v, c0) + 1
    BY <1>3, <1>5, <1>6
  <2>. QED BY <2>1, <2>2
<1>8. ASSUME NEW j \in DOMAIN sc.cores, j # i
      PROVE  /\ sc.index[j] # c0 /\ sc.index[j] \in CpuCores
             /\ OutOn(new, co, v, sc.index[j]) = IF sc.cores[j] THEN 0 ELSE 1
  <2>1. sc.index[j] # c0 /\ sc.index[j] \in CpuCores
    BY <1>1, <1>4, <1>8 DEF SchedulerOK, SchedulerType
  <2>2. One(h, BackFrom(sc.index[j])) = 0
    BY <2>1 DEF One, BackFrom, h
  <2>3. OutOn(new, co, v, sc.index[j]) \in Nat
        /\ OutOn(box, co, v, sc.index[j]) = OutOn(new, co, v, sc.index[j]) + 0
    BY <1>5, <2>1, <2>2
  <2>. QED BY <1>1, <1>8, <2>1, <2>3
<1>. QED BY <1>3, <1>4, <1>7, <1>8 DEF new, sc

\* Nothing waits: the core is idle again ...
LEMMA AnswerRests ==
  ASSUME NEW sch, NEW box, NEW disks, NEW co, CpuInv(sch, box, disks, co), NEW v \in Vm,
         NEW s, AnswerArrived(sch, box, v, s), sch[v].running,
         NEW i, i = getVirtualCpuIndex(sch[v], Head(box[Scheduler(v)]).nextModuleIndex),
         afterAnswer(sch[v], Head(box[Scheduler(v)])).requestsQueue = <<>>
  PROVE  Kept(sch, box, disks, co,
              Put(sch, v, WithIdle(afterAnswer(sch[v], Head(box[Scheduler(v)])), i)),
              AnsweredBox(box, v), disks, co)
<1>. DEFINE h == Head(box[Scheduler(v)])
            sc == sch[v]
            mid == afterAnswer(sc, h)
            sc2 == WithIdle(mid, i)
            new == AnsweredBox(box, v)
            c0 == h.nextModuleIndex
<1>1. /\ Boxes(sch, box) /\ SchedulerOK(v, sc) /\ sc \in SchedulerType
  BY DEF CpuInv, Machines
<1>2. h \in Message /\ Answered(sch, h, s, Queued(s)) /\ s[1] = v
  BY DEF AnswerArrived
<1>3. /\ Boxes(sch, new)
      /\ \A w \in Vm, c \in CpuCores : w # v => OutOn(new, co, w, c) = OutOn(box, co, w, c)
      /\ \A t \in Slot : /\ InboxCalls(new, t) \in Nat /\ InboxCalls(box, t) \in Nat
                         /\ Left(h, t) \in Nat
                         /\ InboxCalls(box, t) = InboxCalls(new, t) + Left(h, t)
  <2>1. AnswerCounts(sch, box, new, v, co)
    BY <1>1, AnswerSent
  <2>. QED BY <2>1 DEF AnswerCounts
<1>4. /\ i \in DOMAIN sc.cores /\ sc.index[i] = c0 /\ c0 \in CpuCores
      /\ ~sc.cores[i] /\ OutOn(new, co, v, c0) = 0
      /\ \A j \in DOMAIN sc.cores : j # i =>
           /\ sc.index[j] # c0 /\ sc.index[j] \in CpuCores
           /\ OutOn(new, co, v, sc.index[j]) = IF sc.cores[j] THEN 0 ELSE 1
  BY CoreCameBack
<1>5. /\ mid \in SchedulerType /\ mid.running /\ mid.index = sc.index /\ mid.cores = sc.cores
      /\ \A t : /\ Among(sc.requestsQueue, OfSlot(t)) \in Nat
                /\ Among(mid.requestsQueue, OfSlot(t))
                     = Among(sc.requestsQueue, OfSlot(t)) + Left(h, t)
  <2>1. QueueReady(v, sc, mid, h)
    BY <1>1, <1>2, QueueAfterAnswer
  <2>. HIDE DEF mid
  <2>. QED BY <2>1 DEF QueueReady
<1>. HIDE DEF h, mid, sc2, new, c0
<1>6. DiffersAt(mid, sc2, i) /\ sc2.cores[i] = TRUE
  BY <1>4, <1>5, CoreFreed DEF sc2
<1>7. /\ sc2 \in SchedulerType /\ SameCores(sc, sc2) /\ sc2.running /\ sc2.index = sc.index
      /\ sc2.requestsQueue = mid.requestsQueue /\ sc2.requestsQueue = <<>>
      /\ DOMAIN sc2.cores = DOMAIN sc.cores
      /\ \A j \in DOMAIN sc.cores : j # i => sc2.cores[j] = sc.cores[j]
  BY <1>5, <1>6 DEF DiffersAt, SameCores, mid, h
<1>8. SchedulerOK(v, sc2)
  BY <1>1, <1>7 DEF SchedulerOK, SameCores
<1>9. SameForOthers(v, new, box, co)
  BY <1>3 DEF SameForOthers
<1>10. Counts(v, sc2, new, co)
  BY <1>4, <1>6, <1>7 DEF Counts
<1>11. CpuInv(Put(sch, v, sc2), new, disks, co)
  BY <1>3, <1>7, <1>8, <1>9, <1>10, SchedulerStep
<1>12. ASSUME NEW t \in Slot
       PROVE  Total(Put(sch, v, sc2), new, disks, co, t) = Total(sch, box, disks, co, t)
  <2>1. /\ InboxCalls(new, t) \in Nat /\ InboxCalls(box, t) \in Nat
        /\ InboxCalls(new, t) + Among(sc2.requestsQueue, OfSlot(t))
             = InboxCalls(box, t) + Among(sc.requestsQueue, OfSlot(t))
    <3>. DEFINE a == InboxCalls(new, t)
                b == InboxCalls(box, t)
                x == Among(sc.requestsQueue, OfSlot(t))
                y == Among(sc2.requestsQueue, OfSlot(t))
                o == Left(h, t)
    <3>1. a \in Nat /\ b \in Nat /\ x \in Nat /\ o \in Nat /\ b = a + o /\ y = x + o
      BY <1>3, <1>5, <1>7
    <3>. HIDE DEF a, b, x, y, o
    <3>2. a \in Nat /\ b \in Nat /\ a + y = b + x
      BY <3>1
    <3>. QED BY <3>2 DEF a, b, x, y
  <2>2. sc2 \in SchedulerType
    BY <1>7
  <2>. QED BY <2>1, <2>2, SchedulerTotal
<1>. QED BY <1>11, <1>12 DEF Kept, new, sc2, mid, h

\* ... and otherwise the head of the queue takes it.
LEMMA NextGoes ==
  ASSUME NEW sch, NEW box, NEW disks, NEW co, CpuInv(sch, box, disks, co), NEW v \in Vm,
         NEW s, AnswerArrived(sch, box, v, s), sch[v].running,
         NEW i, i = getVirtualCpuIndex(sch[v], Head(box[Scheduler(v)]).nextModuleIndex),
         NEW mid, mid = afterAnswer(sch[v], Head(box[Scheduler(v)])), mid.requestsQueue # <<>>
  PROVE  Kept(sch, box, disks, co, Put(sch, v, WithBusy(WithoutHead(mid), i)),
              sent(AnsweredBox(box, v), Scheduler(v), Hub,
                   OntoAgain(Head(mid.requestsQueue), Head(box[Scheduler(v)]).nextModuleIndex)),
              disks, co)
<1>. DEFINE h == Head(box[Scheduler(v)])
            sc == sch[v]
            less == WithoutHead(mid)
            sc2 == WithBusy(less, i)
            b1 == AnsweredBox(box, v)
            c0 == h.nextModuleIndex
            n == Head(mid.requestsQueue)
            k == chooseIndex(n)
            sm == OntoAgain(n, c0)
            d == Delivered(sm, Scheduler(v))
            new == sent(b1, Scheduler(v), Hub, sm)
<1>1. /\ Boxes(sch, box) /\ SchedulerOK(v, sc) /\ sc \in SchedulerType
  BY DEF CpuInv, Machines
<1>2. h \in Message /\ Answered(sch, h, s, Queued(s)) /\ s[1] = v
  BY DEF AnswerArrived
<1>3. /\ Boxes(sch, b1)
      /\ \A w \in Vm, c \in CpuCores : w # v => OutOn(b1, co, w, c) = OutOn(box, co, w, c)
      /\ \A t \in Slot : /\ InboxCalls(b1, t) \in Nat /\ InboxCalls(box, t) \in Nat
                         /\ Left(h, t) \in Nat
                         /\ InboxCalls(box, t) = InboxCalls(b1, t) + Left(h, t)
  <2>1. AnswerCounts(sch, box, b1, v, co)
    BY <1>1, AnswerSent
  <2>. HIDE DEF b1
  <2>. QED BY <2>1 DEF AnswerCounts
<1>4. /\ i \in DOMAIN sc.cores /\ sc.index[i] = c0 /\ c0 \in CpuCores
      /\ ~sc.cores[i] /\ OutOn(b1, co, v, c0) = 0
      /\ \A j \in DOMAIN sc.cores : j # i =>
           /\ sc.index[j] # c0 /\ sc.index[j] \in CpuCores
           /\ OutOn(b1, co, v, sc.index[j]) = IF sc.cores[j] THEN 0 ELSE 1
  BY CoreCameBack
<1>5. /\ mid \in SchedulerType /\ mid.running /\ mid.index = sc.index /\ mid.cores = sc.cores
      /\ \A j \in DOMAIN mid.requestsQueue : InQueue(v, mid.requestsQueue[j])
      /\ mid.requestsQueue = <<>> \/ Tail(mid.requestsQueue) = <<>>
           \/ \A j \in DOMAIN sc.cores : ~sc.cores[j]
      /\ \A t : /\ Among(sc.requestsQueue, OfSlot(t)) \in Nat
                /\ Among(mid.requestsQueue, OfSlot(t))
                     = Among(sc.requestsQueue, OfSlot(t)) + Left(h, t)
  <2>1. QueueReady(v, sc, mid, h)
    BY <1>1, <1>2, QueueAfterAnswer
  <2>. QED BY <2>1 DEF QueueReady
<1>6. /\ less \in SchedulerType /\ less.running /\ less.index = sc.index /\ less.cores = sc.cores
      /\ less.requestsQueue = Tail(mid.requestsQueue)
      /\ \A j \in DOMAIN less.requestsQueue : InQueue(v, less.requestsQueue[j])
      /\ n \in Message /\ InQueue(v, n)
      /\ \A t : /\ Among(less.requestsQueue, OfSlot(t)) \in Nat
                /\ Among(mid.requestsQueue, OfSlot(t))
                     = Among(less.requestsQueue, OfSlot(t)) + One(n, OfSlot(t))
  BY <1>5, HeadLeaves
<1>7. Asked(n, k, Queued(k)) /\ k[1] = v
  BY <1>6, IndexParts DEF InQueue
<1>8. AtHub(sch, d, k) /\ d.nextModuleIndex = c0 /\ d.vmId = v /\ ~d.isResponse
  <2>1. Owned(sch, v, c0)
    BY <1>4 DEF Owned
  <2>. HIDE DEF k, n, c0
  <2>. QED BY <1>7, <2>1, SentToCore
<1>9. d \in Message /\ chooseIndex(d) = k
  BY <1>8 DEF AtHub, Asked, Answered, Traced
<1>. HIDE DEF h, less, sc2, b1, c0, n, k, sm, d
<1>10. /\ Boxes(sch, new)
       /\ \A w \in Vm, c \in CpuCores : w # v => OutOn(new, co, w, c) = OutOn(b1, co, w, c)
       /\ \A c \in CpuCores : c # c0 => OutOn(new, co, v, c) = OutOn(b1, co, v, c)
       /\ OutOn(new, co, v, c0) = OutOn(b1, co, v, c0) + 1
       /\ \A t : InboxCalls(new, t) = InboxCalls(b1, t) + One(d, OfSlot(t))
  BY <1>3, <1>4, <1>8, <1>9, SchedulerSent DEF d
<1>. HIDE DEF new
<1>11. DiffersAt(less, sc2, i) /\ sc2.cores[i] = FALSE
  BY ZenonT(60), <1>4, <1>6, CoreTaken DEF sc2
<1>12. /\ sc2 \in SchedulerType /\ SameCores(sc, sc2) /\ sc2.running /\ sc2.index = sc.index
       /\ sc2.requestsQueue = less.requestsQueue
       /\ DOMAIN sc2.cores = DOMAIN sc.cores
       /\ \A j \in DOMAIN sc.cores : j # i => sc2.cores[j] = sc.cores[j]
  BY <1>6, <1>11 DEF DiffersAt, SameCores
<1>13. SchedulerOK(v, sc2)
  <2>1. sc2.requestsQueue # <<>> => \A j \in DOMAIN sc2.cores : ~sc2.cores[j]
    BY <1>5, <1>6, <1>11, <1>12
  <2>. QED BY <1>1, <1>6, <1>12, <2>1 DEF SchedulerOK, SameCores
<1>14. SameForOthers(v, new, box, co)
  BY <1>3, <1>10 DEF SameForOthers
<1>15. Counts(v, sc2, new, co)
  BY <1>4, <1>10, <1>11, <1>12 DEF Counts
<1>16. CpuInv(Put(sch, v, sc2), new, disks, co)
  BY <1>10, <1>12, <1>13, <1>14, <1>15, SchedulerStep
<1>17. ASSUME NEW t \in Slot
       PROVE  Total(Put(sch, v, sc2), new, disks, co, t) = Total(sch, box, disks, co, t)
  <2>1. One(d, OfSlot(t)) = One(n, OfSlot(t)) /\ One(n, OfSlot(t)) \in Nat
    BY <1>6, <1>9 DEF One, OfSlot, k
  <2>2. /\ InboxCalls(new, t) \in Nat /\ InboxCalls(box, t) \in Nat
        /\ InboxCalls(new, t) + Among(sc2.requestsQueue, OfSlot(t))
             = InboxCalls(box, t) + Among(sc.requestsQueue, OfSlot(t))
    <3>. DEFINE a == InboxCalls(new, t)
                b == InboxCalls(box, t)
                e == InboxCalls(b1, t)
                x == Among(sc.requestsQueue, OfSlot(t))
                y == Among(sc2.requestsQueue, OfSlot(t))
                m == Among(mid.requestsQueue, OfSlot(t))
                o == Left(h, t)
                p == One(n, OfSlot(t))
    <3>1. e \in Nat /\ b \in Nat /\ x \in Nat /\ y \in Nat /\ o \in Nat /\ p \in Nat
      BY <1>3, <1>5, <1>6, <1>12, <2>1
    <3>2. b = e + o /\ a = e + p /\ m = x + o
      BY <1>3, <1>5, <1>10, <2>1
    <3>3. m = y + p
      BY <1>6, <1>12
    <3>. HIDE DEF a, b, e, x, y, m, o, p
    <3>4. a \in Nat /\ b \in Nat /\ a + y = b + x
      BY <3>1, <3>2, <3>3
    <3>. QED BY <3>4 DEF a, b, x, y
  <2>3. sc2 \in SchedulerType
    BY <1>12
  <2>. QED BY <2>2, <2>3, SchedulerTotal
<1>. QED BY <1>16, <1>17 DEF Kept, new, sm, b1, n, c0, h, sc2, less

-----------------------------------------------------------------------------
(* Every step of the CPU system *)

KeptHere == Kept(sched, inbox, queueTable, core, sched', inbox', queueTable', core')

LEMMA NothingChanged ==
  ASSUME NEW sch, NEW box, NEW disks, NEW co, CpuInv(sch, box, disks, co)
  PROVE  Kept(sch, box, disks, co, sch, box, disks, co)
BY DEF Kept

LEMMA RequestStep ==
  ASSUME CpuInv(sched, inbox, queueTable, core), NEW v \in Vm, processRequestMessage(v),
         queueTable' = queueTable
  PROVE  KeptHere
<1>. DEFINE arrived == Head(inbox[Scheduler(v)])
            sm == Requested(inbox, v)
            i == searchIdleCPU(sched[v])
            rest == handled(inbox, Scheduler(v))
<1>1. /\ inbox[Scheduler(v)] # <<>> /\ ~arrived.isResponse /\ core' = core
      /\ sched \in [Vm -> SchedulerType]
  BY DEF processRequestMessage, Arrived, CpuInv, Machines
<1>2. CASE ~traceable(arrived) \/ ~sched[v].running \/ arrived.opCode # "EXEC"
  <2>1. inbox' = inbox /\ sched' = sched
    BY <1>2 DEF processRequestMessage
  <2>. QED BY <1>1, <2>1, NothingChanged DEF KeptHere
<1>3. CASE /\ ~(~traceable(arrived) \/ ~sched[v].running \/ arrived.opCode # "EXEC")
           /\ i = SC_NotFound
  <2>1. inbox' = rest /\ sched' = [sched EXCEPT ![v].requestsQueue = Append(@, sm)]
    BY <1>3 DEF processRequestMessage, Requested
  <2>. HIDE DEF sm
  <2>2. sched' = Put(sched, v, Joined(sched[v], sm))
    BY <1>1, <2>1 DEF Put, Joined
  <2>3. Kept(sched, inbox, queueTable, core,
              Put(sched, v, Joined(sched[v], sm)), rest, queueTable, core)
    BY <1>1, <1>3, RequestWaits DEF sm
  <2>. QED BY <1>1, <2>1, <2>2, <2>3 DEF KeptHere
<1>4. CASE /\ ~(~traceable(arrived) \/ ~sched[v].running \/ arrived.opCode # "EXEC")
           /\ i # SC_NotFound
  <2>1. /\ inbox' = sent(rest, Scheduler(v), Hub, Onto(sm, sched[v].index[i]))
        /\ sched' = [sched EXCEPT ![v].cores[i] = FALSE]
    BY <1>4 DEF processRequestMessage, Requested, Onto
  <2>. HIDE DEF sm, i
  <2>2. sched' = Put(sched, v, WithBusy(sched[v], i))
    BY <1>1, <2>1 DEF Put, WithBusy
  <2>3. Kept(sched, inbox, queueTable, core, Put(sched, v, WithBusy(sched[v], i)),
             sent(rest, Scheduler(v), Hub, Onto(sm, sched[v].index[i])), queueTable, core)
    BY <1>1, <1>4, RequestGoes DEF sm, i
  <2>. QED BY <1>1, <2>1, <2>2, <2>3 DEF KeptHere
<1>. QED BY <1>2, <1>3, <1>4

LEMMA ResponseStep ==
  ASSUME CpuInv(sched, inbox, queueTable, core), NEW v \in Vm, processResponseMessage(v),
         queueTable' = queueTable
  PROVE  KeptHere
<1>. DEFINE sm == Head(inbox[Scheduler(v)])
            s == chooseIndex(sm)
            i == getVirtualCpuIndex(sched[v], sm.nextModuleIndex)
            mid == afterAnswer(sched[v], sm)
            answer == AnsweredBox(inbox, v)
<1>1. /\ inbox[Scheduler(v)] # <<>> /\ sm.isResponse /\ core' = core
      /\ sched \in [Vm -> SchedulerType] /\ SchedulerOK(v, sched[v]) /\ Boxes(sched, inbox)
  BY DEF processResponseMessage, Arrived, CpuInv, Machines
<1>2. sm \in Message /\ AtScheduler(sched, v, sm, s)
  BY <1>1, SchedulerTook
<1>3. AnswerArrived(sched, inbox, v, s)
  BY <1>1, <1>2 DEF AnswerArrived, AtScheduler, Asked
<1>4. sched[v].running
  <2>1. Owned(sched, v, sm.nextModuleIndex)
    BY <1>3 DEF AnswerArrived, Answered
  <2>2. sched[v].cores # <<>>
    BY <2>1 DEF Owned
  <2>. QED BY <1>1, <2>2 DEF SchedulerOK, IdleScheduler
<1>5. i # SC_NotFound
  BY <1>3, <1>4, CoreCameBack
<1>6. CASE mid.requestsQueue = <<>>
  <2>1. inbox' = answer /\ sched' = [sched EXCEPT ![v] = [mid EXCEPT !.cores[i] = TRUE]]
    BY <1>4, <1>5, <1>6 DEF processResponseMessage, AnsweredBox
  <2>. HIDE DEF mid, i, answer
  <2>2. sched' = Put(sched, v, WithIdle(mid, i))
    BY <2>1 DEF Put, WithIdle
  <2>3. Kept(sched, inbox, queueTable, core, Put(sched, v, WithIdle(mid, i)), answer, queueTable, core)
    BY <1>3, <1>4, <1>6, AnswerRests DEF mid, i, answer
  <2>. QED BY <1>1, <2>1, <2>2, <2>3 DEF KeptHere
<1>7. CASE mid.requestsQueue # <<>>
  <2>. DEFINE next == OntoAgain(Head(mid.requestsQueue), sm.nextModuleIndex)
  <2>1. /\ inbox' = sent(answer, Scheduler(v), Hub, next)
        /\ sched' = [sched EXCEPT ![v] = [mid EXCEPT !.cores[i] = FALSE, !.requestsQueue = Tail(@)]]
    BY <1>4, <1>5, <1>7 DEF processResponseMessage, AnsweredBox, OntoAgain
  <2>2. mid \in SchedulerType
    <3>1. QueueReady(v, sched[v], mid, sm)
      BY <1>1, <1>2, <1>3, <1>4, QueueAfterAnswer DEF AnswerArrived
    <3>. QED BY <3>1 DEF QueueReady
  <2>3. Kept(sched, inbox, queueTable, core, Put(sched, v, WithBusy(WithoutHead(mid), i)),
             sent(answer, Scheduler(v), Hub, next), queueTable, core)
    <3>. HIDE DEF s, i, mid
    <3>. QED BY <1>3, <1>4, <1>7, NextGoes DEF i, mid
  <2>. HIDE DEF mid, i, answer
  <2>4. sched' = Put(sched, v, WithBusy(WithoutHead(mid), i))
    BY <2>1, <2>2 DEF Put, WithBusy, WithoutHead, SchedulerType
  <2>. QED BY <1>1, <2>1, <2>3, <2>4 DEF KeptHere
<1>. QED BY <1>6, <1>7

LEMMA ForwardStep ==
  ASSUME CpuInv(sched, inbox, queueTable, core), forward, queueTable' = queueTable
  PROVE  KeptHere
<1>1. inbox[Hub] # <<>> /\ inbox' = Forwarded(inbox) /\ sched' = sched /\ core' = core
  BY DEF forward, Forwarded, Arrived
<1>2. CpuInv(sched, Forwarded(inbox), queueTable, core) /\ SameCalls(Forwarded(inbox), inbox)
  BY <1>1, ForwardKeeps
<1>. QED BY <1>1, <1>2 DEF KeptHere, Kept, Total, SameCalls

LEMMA StartTickStep ==
  ASSUME CpuInv(sched, inbox, queueTable, core), NEW c \in CpuCores, startTick(c),
         queueTable' = queueTable
  PROVE  KeptHere
<1>. DEFINE sm == Head(inbox[Core(c)])
            stops == core[c] # NoCall \/ (sm.quantum <= 0 /\ sm.quantum # SM_CpuInfiniteQuantum)
<1>1. inbox[Core(c)] # <<>> /\ sched' = sched /\ Boxes(sched, inbox)
  BY DEF startTick, Arrived, CpuInv
<1>2. CASE stops
  <2>1. inbox' = inbox /\ core' = core
    BY <1>2 DEF startTick
  <2>. QED BY <1>1, <2>1, NothingChanged DEF KeptHere
<1>3. CASE ~stops
  <2>1. sm \in Message
    BY <1>1, BoxesHandled, ModuleNames
  <2>2. core[c] = NoCall /\ Ready(sm)
    BY <1>3, <2>1 DEF Ready, Message, SM_CpuInfiniteQuantum
  <2>3. inbox' = handled(inbox, Core(c)) /\ core' = Put(core, c, Taken(inbox, c))
    BY <1>3 DEF startTick, Put, Taken
  <2>. DEFINE co2 == Put(core, c, Taken(inbox, c))
              new == handled(inbox, Core(c))
  <2>4. CpuInv(sched, new, queueTable, co2)
        /\ \A s : Total(sched, new, queueTable, co2, s) = Total(sched, inbox, queueTable, core, s)
    BY <1>1, <2>2, StartTickKeeps
  <2>. HIDE DEF co2, new
  <2>. QED BY <1>1, <2>3, <2>4 DEF KeptHere, Kept, co2, new
<1>. QED BY <1>2, <1>3

LEMMA SelfMessageStep ==
  ASSUME CpuInv(sched, inbox, queueTable, core), NEW c \in CpuCores, processSelfMessage(c),
         queueTable' = queueTable
  PROVE  KeptHere
<1>. DEFINE ends == core[c].isCompleted \/ core[c].quantum = 0
<1>1. core[c] # NoCall /\ sched' = sched /\ core[c] \in CoreType
  BY DEF processSelfMessage, CpuInv
<1>2. CASE ends
  <2>. DEFINE co2 == Put(core, c, NoCall)
              new == sendResponseMessage(inbox, Core(c), [core[c] EXCEPT !.isResponse = TRUE])
  <2>1. inbox' = new /\ core' = co2
    BY <1>2 DEF processSelfMessage, Put
  <2>2. CpuInv(sched, new, queueTable, co2)
        /\ \A s : Total(sched, new, queueTable, co2, s) = Total(sched, inbox, queueTable, core, s)
    BY <1>1, CoreAnswersKeeps
  <2>. HIDE DEF co2, new
  <2>. QED BY <1>1, <2>1, <2>2 DEF KeptHere, Kept
<1>3. CASE ~ends
  <2>. DEFINE co2 == Put(core, c, executeMIs(core[c]))
  <2>1. inbox' = inbox /\ core' = co2
    BY <1>3 DEF processSelfMessage, Put
  <2>2. Ready(core[c])
    BY <1>1, <1>3 DEF Ready, CoreType, Message, SM_CpuInfiniteQuantum
  <2>3. CpuInv(sched, inbox, queueTable, co2)
        /\ \A s : Total(sched, inbox, queueTable, co2, s) = Total(sched, inbox, queueTable, core, s)
    BY <1>1, <2>2, TickGoesOn
  <2>. HIDE DEF co2
  <2>. QED BY <1>1, <2>1, <2>3 DEF KeptHere, Kept
<1>. QED BY <1>2, <1>3

LEMMA CpuStep ==
  ASSUME CpuInv(sched, inbox, queueTable, core), CpuNext, queueTable' = queueTable
  PROVE  KeptHere
BY RequestStep, ResponseStep, ForwardStep, StartTickStep, SelfMessageStep DEF CpuNext

-----------------------------------------------------------------------------
(* What the CPU system tells the hypervisor *)

\* Nothing but answers came to the hypervisor.
OnlyAnswers(box, new) ==
  \A i \in DOMAIN new[Hypervisor] :
    \/ new[Hypervisor][i].isResponse
    \/ \E j \in DOMAIN box[Hypervisor] : new[Hypervisor][i] = box[Hypervisor][j]

LEMMA AnswersHandled ==
  ASSUME NEW box \in [Module -> Seq(Message)], NEW m \in Module, box[m] # <<>>
  PROVE  OnlyAnswers(box, handled(box, m))
<1>. DEFINE q == box[Hypervisor]
            new == handled(box, m)
<1>1. q \in Seq(Message) /\ Hypervisor \in Module
  BY ModuleNames
<1>2. new[Hypervisor] = q \/ (new[Hypervisor] = Tail(q) /\ q # <<>>)
  BY <1>1 DEF handled
<1>. HIDE DEF q, new
<1>3. \A i \in DOMAIN new[Hypervisor] : \E j \in DOMAIN q : new[Hypervisor][i] = q[j]
  <2>1. ASSUME NEW i \in DOMAIN Tail(q), q # <<>>
        PROVE  i + 1 \in DOMAIN q /\ Tail(q)[i] = q[i + 1]
    BY <1>1, <2>1
  <2>. QED BY <1>2, <2>1
<1>. QED BY <1>3 DEF OnlyAnswers, q, new

LEMMA AnswersSent ==
  ASSUME NEW box \in [Module -> Seq(Message)], NEW from \in Module, NEW to \in Module, NEW sm,
         to # Hypervisor \/ Delivered(sm, from).isResponse
  PROVE  OnlyAnswers(box, sent(box, from, to, sm))
<1>. DEFINE q == box[Hypervisor]
            d == Delivered(sm, from)
            new == sent(box, from, to, sm)
<1>1. q \in Seq(Message) /\ Hypervisor \in Module
  BY ModuleNames
<1>2. CASE to # Hypervisor
  <2>1. new[Hypervisor] = q
    BY <1>1, <1>2 DEF sent
  <2>. HIDE DEF new
  <2>. QED BY <2>1 DEF OnlyAnswers, new
<1>3. CASE to = Hypervisor
  <2>1. new[Hypervisor] = Append(q, d)
    BY <1>1, <1>3 DEF sent, Delivered
  <2>2. d.isResponse
    BY <1>3
  <2>. HIDE DEF new, q, d
  <2>3. ASSUME NEW i \in DOMAIN Append(q, d)
        PROVE  Append(q, d)[i] = d \/ (i \in DOMAIN q /\ Append(q, d)[i] = q[i])
    BY <1>1
  <2>4. ASSUME NEW i \in DOMAIN new[Hypervisor]
        PROVE  new[Hypervisor][i].isResponse \/ \E j \in DOMAIN q : new[Hypervisor][i] = q[j]
    <3>1. new[Hypervisor][i] = d \/ (i \in DOMAIN q /\ new[Hypervisor][i] = q[i])
      BY <2>1, <2>3
    <3>. QED BY <2>2, <3>1
  <2>. QED BY <2>4 DEF OnlyAnswers, new, q
<1>. QED BY <1>2, <1>3

LEMMA AnswersOnly ==
  ASSUME NEW a, NEW b, NEW c, OnlyAnswers(a, b), OnlyAnswers(b, c)
  PROVE  OnlyAnswers(a, c)
BY DEF OnlyAnswers

LEMMA CpuAnswers ==
  ASSUME CpuInv(sched, inbox, queueTable, core), CpuNext
  PROVE  OnlyAnswers(inbox, inbox')
<1>0. /\ Boxes(sched, inbox) /\ inbox \in [Module -> Seq(Message)] /\ core \in [CpuCores -> CoreType]
      /\ InCores(sched, core) /\ \A v \in Vm : SchedulerOK(v, sched[v])
  BY DEF CpuInv, Boxes, Machines
<1>1. inbox' = inbox => OnlyAnswers(inbox, inbox')
  BY DEF OnlyAnswers
<1>2. ASSUME NEW v \in Vm, processRequestMessage(v)
      PROVE  OnlyAnswers(inbox, inbox')
  <2>. DEFINE rest == handled(inbox, Scheduler(v))
  <2>1. inbox[Scheduler(v)] # <<>> /\ Scheduler(v) \in Module /\ Hub \in Module /\ Hub # Hypervisor
    BY <1>2, ModuleNames DEF processRequestMessage, Arrived
  <2>2. Boxes(sched, rest) /\ OnlyAnswers(inbox, rest)
    BY <1>0, <2>1, BoxesHandled, AnswersHandled
  <2>3. rest \in [Module -> Seq(Message)]
    BY <2>2 DEF Boxes
  <2>4. inbox' = inbox \/ inbox' = rest \/ \E sm : inbox' = sent(rest, Scheduler(v), Hub, sm)
    BY <1>2 DEF processRequestMessage
  <2>. HIDE DEF rest
  <2>5. ASSUME NEW sm PROVE OnlyAnswers(inbox, sent(rest, Scheduler(v), Hub, sm))
    <3>1. OnlyAnswers(rest, sent(rest, Scheduler(v), Hub, sm))
      BY <2>1, <2>3, AnswersSent
    <3>. QED BY <2>2, <3>1, AnswersOnly
  <2>. QED BY <1>1, <2>2, <2>4, <2>5
<1>3. ASSUME NEW v \in Vm, processResponseMessage(v)
      PROVE  OnlyAnswers(inbox, inbox')
  <2>. DEFINE rest == handled(inbox, Scheduler(v))
              h == Head(inbox[Scheduler(v)])
              s == chooseIndex(h)
              told == IF h.isCompleted THEN h ELSE statusOf(h)
              up == removeLastModuleFromTrace(told)
              b1 == sent(rest, Scheduler(v), Hypervisor, up)
  <2>1. inbox[Scheduler(v)] # <<>> /\ Scheduler(v) \in Module /\ Hub \in Module /\ Hub # Hypervisor
        /\ Hypervisor \in Module /\ h.isResponse
    BY <1>3, ModuleNames DEF processResponseMessage, Arrived
  <2>2. Boxes(sched, rest) /\ OnlyAnswers(inbox, rest) /\ h \in Message /\ AtScheduler(sched, v, h, s)
    BY <1>0, <2>1, BoxesHandled, AnswersHandled, FitsKinds
  <2>3. rest \in [Module -> Seq(Message)]
    BY <2>2 DEF Boxes
  <2>4. Answered(sched, h, s, Queued(s)) /\ s[1] = v
    BY <2>1, <2>2 DEF AtScheduler, Asked
  <2>5. getLastGateId(told) = Hypervisor /\ Delivered(up, Scheduler(v)).isResponse
        /\ Delivered(up, Scheduler(v)) \in Message
        /\ AtHypervisor(Delivered(up, Scheduler(v)), chooseIndex(Delivered(up, Scheduler(v))))
    BY <2>4, AnswerPassed
  <2>6. sendResponseMessage(rest, Scheduler(v), told) = b1
    BY <2>5 DEF sendResponseMessage
  <2>7. inbox' \in {inbox, rest, b1} \/ \E sm : inbox' = sent(b1, Scheduler(v), Hub, sm)
    <3>1. \/ inbox' = inbox \/ inbox' = rest
          \/ inbox' = sendResponseMessage(rest, Scheduler(v), told)
          \/ \E sm : inbox' = sent(sendResponseMessage(rest, Scheduler(v), told), Scheduler(v), Hub, sm)
      BY <1>3 DEF processResponseMessage
    <3>. HIDE DEF rest, told, b1
    <3>. QED BY <2>6, <3>1
  <2>8. Boxes(sched, b1)
    <3>1. Fits(sched, Hypervisor, Delivered(up, Scheduler(v)))
      BY <2>5, FitsKinds
    <3>. HIDE DEF rest, up
    <3>. QED BY <2>1, <2>2, <2>5, <3>1, BoxesSent
  <2>. HIDE DEF rest, up
  <2>9. OnlyAnswers(inbox, b1)
    <3>1. OnlyAnswers(rest, b1)
      BY <2>1, <2>3, <2>5, AnswersSent
    <3>. HIDE DEF b1
    <3>. QED BY <2>2, <3>1, AnswersOnly
  <2>. HIDE DEF b1
  <2>10. ASSUME NEW sm PROVE OnlyAnswers(inbox, sent(b1, Scheduler(v), Hub, sm))
    <3>1. b1 \in [Module -> Seq(Message)]
      BY <2>8 DEF Boxes
    <3>2. OnlyAnswers(b1, sent(b1, Scheduler(v), Hub, sm))
      BY <2>1, <3>1, AnswersSent
    <3>. QED BY <2>9, <3>2, AnswersOnly
  <2>. QED BY <1>1, <2>2, <2>7, <2>9, <2>10
<1>4. ASSUME forward PROVE OnlyAnswers(inbox, inbox')
  <2>. DEFINE sm == Head(inbox[Hub])
              s == chooseIndex(sm)
              rest == handled(inbox, Hub)
              port == IF Cardinality(CpuCores) = 1 THEN 1 ELSE sm.nextModuleIndex
  <2>1. inbox[Hub] # <<>> /\ Hub \in Module
    BY <1>4, ModuleNames DEF forward, Arrived
  <2>2. Boxes(sched, rest) /\ OnlyAnswers(inbox, rest) /\ sm \in Message /\ AtHub(sched, sm, s)
    BY <1>0, <2>1, BoxesHandled, AnswersHandled, FitsKinds
  <2>3. rest \in [Module -> Seq(Message)]
    BY <2>2 DEF Boxes
  <2>4. CASE sm.isResponse
    <3>1. Answered(sched, sm, s, Hubbed(s)) /\ s[1] \in Vm
      BY <2>2, <2>4, SlotParts DEF AtHub, Asked, Answered, Traced
    <3>2. getLastGateId(sm) = Scheduler(s[1])
      BY <3>1, AnswerForwarded
    <3>3. inbox' = sent(rest, Hub, Scheduler(s[1]), removeLastModuleFromTrace(sm))
      BY <1>4, <2>4, <3>2 DEF forward, sendResponseMessage
    <3>4. Scheduler(s[1]) \in Module /\ Scheduler(s[1]) # Hypervisor
      BY <3>1, ModuleNames, SchedulerName
    <3>. HIDE DEF rest, s, sm
    <3>5. OnlyAnswers(rest, inbox')
      BY <2>1, <2>3, <3>3, <3>4, AnswersSent
    <3>. QED BY <2>2, <3>5, AnswersOnly
  <2>5. CASE ~sm.isResponse
    <3>1. inbox' = sent(rest, Hub, Core(port), updateMessageTrace(sm, Hub, sm.arrival))
      BY <1>4, <2>5 DEF forward
    <3>2. port \in CpuCores
      <4>1. sm.nextModuleIndex \in CpuCores
        BY <2>2, <2>5 DEF AtHub, Owned, Answered
      <4>. QED BY <4>1, CpuConstants
    <3>3. Core(port) \in Module /\ Core(port) # Hypervisor
      BY <3>2, ModuleNames, CoreName
    <3>. HIDE DEF rest, s, sm, port
    <3>4. OnlyAnswers(rest, inbox')
      BY <2>1, <2>3, <3>1, <3>3, AnswersSent
    <3>. QED BY <2>2, <3>4, AnswersOnly
  <2>. QED BY <2>4, <2>5
<1>5. ASSUME NEW c \in CpuCores, startTick(c) PROVE OnlyAnswers(inbox, inbox')
  <2>1. inbox[Core(c)] # <<>> /\ Core(c) \in Module
    BY <1>5, ModuleNames DEF startTick, Arrived
  <2>2. inbox' = inbox \/ inbox' = handled(inbox, Core(c))
    BY <1>5 DEF startTick
  <2>. QED BY <1>0, <1>1, <2>1, <2>2, AnswersHandled
<1>6. ASSUME NEW c \in CpuCores, processSelfMessage(c) PROVE OnlyAnswers(inbox, inbox')
  <2>. DEFINE answer == [core[c] EXCEPT !.isResponse = TRUE]
  <2>1. inbox' = inbox \/ inbox' = sendResponseMessage(inbox, Core(c), answer)
    BY <1>6 DEF processSelfMessage
  <2>2. InCore(sched, c, core[c], chooseIndex(core[c]))
    BY <1>0, <1>6 DEF InCores, processSelfMessage
  <2>3. getLastGateId(answer) = Hub
    BY <2>2, CoreAnswers
  <2>4. Core(c) \in Module /\ Hub \in Module /\ Hub # Hypervisor
    BY ModuleNames
  <2>. HIDE DEF answer
  <2>5. OnlyAnswers(inbox, sent(inbox, Core(c), Hub, removeLastModuleFromTrace(answer)))
    BY <1>0, <2>4, AnswersSent
  <2>. QED BY <1>1, <2>1, <2>3, <2>5 DEF sendResponseMessage
<1>. QED BY <1>2, <1>3, <1>4, <1>5, <1>6 DEF CpuNext

-----------------------------------------------------------------------------
(* The hypervisor passes calls and answers on *)

LEMMA KeptBox ==
  ASSUME NEW sch, NEW box, NEW disks, NEW co, CpuInv(sch, box, disks, co), NEW new,
         Boxes(sch, new), SameOut(new, box), \A s \in Slot : InboxCalls(new, s) = InboxCalls(box, s)
  PROVE  Kept(sch, box, disks, co, sch, new, disks, co)
BY BoxOnly DEF Kept, Total

LEMMA RequestPassedOn ==
  ASSUME NEW sch, NEW box, NEW disks, NEW co, CpuInv(sch, box, disks, co), box[Hypervisor] # <<>>,
         NEW sm, sm = Head(box[Hypervisor]), ~sm.isResponse, sm.opCode \notin {"EXIT", "ABORT"}
  PROVE  LET new == sent(handled(box, Hypervisor), Hypervisor, destination(sm), sm)
         IN  Kept(sch, box, disks, co, sch, new, disks, co) /\ OnlyAnswers(box, new)
<1>. DEFINE s == chooseIndex(sm)
            d == Delivered(sm, Hypervisor)
            to == destination(sm)
            rest == handled(box, Hypervisor)
            new == sent(rest, Hypervisor, to, sm)
<1>1. Boxes(sch, box) /\ Hypervisor \in Module /\ box \in [Module -> Seq(Message)]
  BY ModuleNames DEF CpuInv, Boxes
<1>2. sm \in Message /\ AtHypervisor(sm, s) /\ Boxes(sch, rest) /\ rest \in [Module -> Seq(Message)]
  <2>1. sm \in Message /\ AtHypervisor(sm, s) /\ Boxes(sch, rest)
    BY <1>1, BoxesHandled, FitsKinds
  <2>. QED BY <2>1 DEF Boxes
<1>3. Traced(sm, s, Made(s)) /\ s \in Slot /\ s[1] \in Vm
  BY <1>2, SlotParts DEF AtHypervisor, Status, Traced
<1>4. /\ Alike(d, sm) /\ d \in Message /\ chooseIndex(d) = s /\ sm.vmId = s[1]
      /\ sm.opCode = "EXEC" => AtScheduler(sch, s[1], d, s)
      /\ sm.opCode # "EXEC" => AtDisk(d, s)
  BY <1>3, RequestPassed
<1>5. to \in Module /\ to # Hypervisor /\ Fits(sch, to, d) /\ SameCount(sm, Hypervisor, d, to)
  <2>1. CASE sm.opCode = "EXEC"
    <3>1. to = Scheduler(s[1])
      BY <1>4, <2>1 DEF destination
    <3>2. to \in Module /\ to # Hypervisor /\ Fits(sch, to, d)
      <4>1. AtScheduler(sch, s[1], d, chooseIndex(d))
        BY <1>4, <2>1
      <4>2. Fits(sch, Scheduler(s[1]), d)
        BY <1>3, <4>1, FitsKinds
      <4>. HIDE DEF to, d, s
      <4>. QED BY <1>3, <3>1, <4>2, ModuleNames, SchedulerName
    <3>3. ~d.isResponse
      BY <1>4 DEF Alike
    <3>4. \A v, c : Counted(Hypervisor, v, c) = {} /\ (Counted(to, v, c) = {} \/ d \notin Counted(to, v, c))
      <4>1. \A c : d \notin BackFrom(c)
        BY <3>3 DEF BackFrom
      <4>. QED BY <3>1, <4>1, CountedKinds
    <3>. QED BY <3>2, <3>4, CountElsewhere
  <2>2. CASE sm.opCode # "EXEC"
    <3>1. to = Disk
      BY <2>2 DEF destination
    <3>2. to \in Module /\ to # Hypervisor /\ Fits(sch, to, d)
      <4>1. AtDisk(d, chooseIndex(d))
        BY <1>4, <2>2
      <4>2. Fits(sch, Disk, d)
        BY <4>1, FitsKinds
      <4>. QED BY <3>1, <4>2, ModuleNames
    <3>3. \A v, c : Counted(Hypervisor, v, c) = {} /\ Counted(to, v, c) = {}
      BY <3>1, CountedKinds
    <3>. QED BY <3>2, <3>3, CountElsewhere
  <2>. QED BY <2>1, <2>2
<1>6. Boxes(sch, new) /\ SameCalls(new, box) /\ SameOut(new, box)
  <2>. HIDE DEF to, s
  <2>. QED BY <1>1, <1>4, <1>5, Passed DEF s
<1>7. OnlyAnswers(box, new)
  <2>1. OnlyAnswers(box, rest)
    BY <1>1, AnswersHandled
  <2>. HIDE DEF to, rest
  <2>2. OnlyAnswers(rest, new)
    BY <1>1, <1>2, <1>5, AnswersSent
  <2>. HIDE DEF new
  <2>. QED BY <2>1, <2>2, AnswersOnly
<1>. HIDE DEF new
<1>8. Kept(sch, box, disks, co, sch, new, disks, co)
  BY <1>6, KeptBox DEF SameCalls
<1>. QED BY <1>7, <1>8 DEF new

LEMMA AnswerPassedOn ==
  ASSUME NEW sch, NEW box, NEW disks, NEW co, CpuInv(sch, box, disks, co), box[Hypervisor] # <<>>,
         NEW sm, sm = Head(box[Hypervisor]), sm.isResponse, ~(sm.opCode = "EXEC" /\ ~sm.isCompleted)
  PROVE  LET new == sendToApp(handled(box, Hypervisor), sm)
         IN  Kept(sch, box, disks, co, sch, new, disks, co) /\ OnlyAnswers(box, new)
<1>. DEFINE s == chooseIndex(sm)
            d == Delivered(sm, Hypervisor)
            to == App(s)
            rest == handled(box, Hypervisor)
            new == sent(rest, Hypervisor, to, sm)
<1>1. Boxes(sch, box) /\ Hypervisor \in Module /\ box \in [Module -> Seq(Message)]
  BY ModuleNames DEF CpuInv, Boxes
<1>2. sm \in Message /\ AtHypervisor(sm, s) /\ Boxes(sch, rest) /\ rest \in [Module -> Seq(Message)]
  <2>1. sm \in Message /\ AtHypervisor(sm, s) /\ Boxes(sch, rest)
    BY <1>1, BoxesHandled, FitsKinds
  <2>. QED BY <2>1 DEF Boxes
<1>3. AtApp(d, s)
  BY <1>2, AnswerToApp
<1>4. s \in Slot /\ d \in Message /\ chooseIndex(d) = s
  BY <1>3 DEF AtApp, Traced
<1>5. to \in Module /\ to # Hypervisor /\ Fits(sch, to, d) /\ SameCount(sm, Hypervisor, d, to)
  <2>1. to \in Module /\ to # Hypervisor /\ Fits(sch, to, d)
    BY <1>3, <1>4, ModuleNames, AppName, FitsKinds
  <2>2. \A v, c : Counted(Hypervisor, v, c) = {} /\ Counted(to, v, c) = {}
    BY CountedKinds
  <2>. QED BY <2>1, <2>2, CountElsewhere
<1>6. Boxes(sch, new) /\ SameCalls(new, box) /\ SameOut(new, box)
  <2>. HIDE DEF to, s
  <2>. QED BY <1>1, <1>4, <1>5, Passed DEF s
<1>7. OnlyAnswers(box, new)
  <2>1. OnlyAnswers(box, rest)
    BY <1>1, AnswersHandled
  <2>. HIDE DEF to, rest
  <2>2. OnlyAnswers(rest, new)
    BY <1>1, <1>2, <1>5, AnswersSent
  <2>. HIDE DEF new
  <2>. QED BY <2>1, <2>2, AnswersOnly
<1>8. new = sendToApp(rest, sm)
  BY DEF sendToApp
<1>. HIDE DEF new
<1>9. Kept(sch, box, disks, co, sch, new, disks, co)
  BY <1>6, KeptBox DEF SameCalls
<1>. QED BY <1>7, <1>8, <1>9

\* A message leaves the hypervisor or an application for good.
LEMMA LeftBox ==
  ASSUME NEW sch, NEW box, NEW disks, NEW co, CpuInv(sch, box, disks, co), NEW m \in Module,
         box[m] # <<>>, \A v, c : Counted(m, v, c) = {}
  PROVE  LET new == handled(box, m)
             h == Head(box[m])
         IN  /\ CpuInv(sch, new, disks, co) /\ h \in Message /\ OnlyAnswers(box, new)
             /\ \A s : /\ InboxCalls(new, s) \in Nat
                       /\ InboxCalls(box, s) = InboxCalls(new, s) + One(h, OfSlot(s))
<1>. DEFINE new == handled(box, m)
            h == Head(box[m])
<1>1. Boxes(sch, box) /\ box \in [Module -> Seq(Message)]
  BY DEF CpuInv, Boxes
<1>2. Boxes(sch, new) /\ h \in Message
  BY <1>1, BoxesHandled
<1>3. SameOut(new, box)
  <2>1. SUFFICES ASSUME NEW c2, NEW v \in Vm, NEW c \in CpuCores
                 PROVE  OutOn(new, c2, v, c) = OutOn(box, c2, v, c)
    BY DEF SameOut
  <2>2. /\ OutOn(box, c2, v, c) \in Nat /\ OutOn(new, c2, v, c) \in Nat
        /\ OutOn(box, c2, v, c) = OutOn(new, c2, v, c) + One(h, Counted(m, v, c))
    BY <1>1, OutHandled
  <2>3. One(h, Counted(m, v, c)) = 0
    BY OneType
  <2>. QED BY <2>2, <2>3
<1>4. CpuInv(sch, new, disks, co)
  <2>. HIDE DEF new
  <2>. QED BY <1>2, <1>3, BoxOnly
<1>5. OnlyAnswers(box, new)
  BY <1>1, AnswersHandled
<1>. QED BY <1>1, <1>2, <1>4, <1>5, InboxHandled

LEMMA StatusDropped ==
  ASSUME NEW sch, NEW box, NEW disks, NEW co, CpuInv(sch, box, disks, co), box[Hypervisor] # <<>>,
         NEW sm, sm = Head(box[Hypervisor]), sm.isResponse, sm.opCode = "EXEC", ~sm.isCompleted
  PROVE  LET new == handled(box, Hypervisor)
         IN  Kept(sch, box, disks, co, sch, new, disks, co) /\ OnlyAnswers(box, new)
<1>. DEFINE new == handled(box, Hypervisor)
<1>0. Hypervisor \in Module /\ Boxes(sch, box)
  BY ModuleNames DEF CpuInv
<1>1. sm \in Message /\ AtHypervisor(sm, chooseIndex(sm))
  BY <1>0, BoxesHandled, FitsKinds
<1>2. chooseIndex(sm) = <<0, 0>>
  BY <1>1 DEF AtHypervisor, Status, chooseIndex
<1>3. /\ CpuInv(sch, new, disks, co) /\ OnlyAnswers(box, new)
      /\ \A s : /\ InboxCalls(new, s) \in Nat
                /\ InboxCalls(box, s) = InboxCalls(new, s) + One(sm, OfSlot(s))
  BY <1>0, LeftBox, CountedKinds
<1>. HIDE DEF new
<1>4. ASSUME NEW s \in Slot PROVE InboxCalls(new, s) = InboxCalls(box, s)
  <2>1. s # <<0, 0>>
    <3>1. s[1] # 0
      BY SlotParts, Finite
    <3>. QED BY <3>1
  <2>2. One(sm, OfSlot(s)) = 0
    BY <1>2, <2>1 DEF One, OfSlot
  <2>. QED BY <1>3, <2>2
<1>5. Kept(sch, box, disks, co, sch, new, disks, co)
  BY <1>3, <1>4 DEF Kept, Total
<1>. QED BY <1>3, <1>5 DEF new

\* An application takes an answer.
LEMMA AnswerTaken ==
  ASSUME NEW sch, NEW box, NEW disks, NEW co, CpuInv(sch, box, disks, co), NEW s \in Slot,
         box[App(s)] # <<>>
  PROVE  LET new == handled(box, App(s))
             sm == Head(box[App(s)])
         IN  /\ CpuInv(sch, new, disks, co) /\ sm.opCode \in {"READ", "WRITE", "EXEC"}
             /\ OnlyAnswers(box, new)
             /\ \A t : /\ InboxCalls(new, t) \in Nat
                       /\ InboxCalls(box, t) = InboxCalls(new, t) + (IF t = s THEN 1 ELSE 0)
<1>. DEFINE new == handled(box, App(s))
            sm == Head(box[App(s)])
<1>0. App(s) \in Module /\ Boxes(sch, box)
  BY ModuleNames DEF CpuInv
<1>1. sm \in Message /\ AtApp(sm, s)
  BY <1>0, BoxesHandled, FitsKinds
<1>2. chooseIndex(sm) = s /\ sm.opCode \in {"READ", "WRITE", "EXEC"}
  BY <1>1 DEF AtApp, Traced, Message
<1>3. /\ CpuInv(sch, new, disks, co) /\ OnlyAnswers(box, new)
      /\ \A t : /\ InboxCalls(new, t) \in Nat
                /\ InboxCalls(box, t) = InboxCalls(new, t) + One(sm, OfSlot(t))
  BY <1>0, LeftBox, CountedKinds
<1>4. \A t : One(sm, OfSlot(t)) = IF t = s THEN 1 ELSE 0
  BY <1>1, <1>2 DEF One, OfSlot
<1>. HIDE DEF new, sm
<1>. QED BY <1>2, <1>3, <1>4 DEF new, sm

\* An application makes a call.
LEMMA CallSent ==
  ASSUME NEW sch, NEW box, NEW disks, NEW co, CpuInv(sch, box, disks, co), NEW s \in Slot, NEW call,
         call \in {read(s), write(s), exit(s), execute(s, MIs), execute(s, processingMIs)}
  PROVE  LET new == sent(box, App(s), Hypervisor, stampedByCreator(call, App(s)))
         IN  /\ CpuInv(sch, new, disks, co)
             /\ \A t : /\ InboxCalls(box, t) \in Nat
                       /\ InboxCalls(new, t) = InboxCalls(box, t) + (IF t = s THEN 1 ELSE 0)
             /\ \A i \in DOMAIN new[Hypervisor] :
                  \/ /\ chooseIndex(new[Hypervisor][i]) = s
                     /\ new[Hypervisor][i].opCode = call.opCode
                  \/ \E j \in DOMAIN box[Hypervisor] : new[Hypervisor][i] = box[Hypervisor][j]
<1>. DEFINE st == stampedByCreator(call, App(s))
            d == Delivered(st, App(s))
            new == sent(box, App(s), Hypervisor, st)
            q == box[Hypervisor]
<1>1. Hypervisor \in Module /\ App(s) \in Module /\ Boxes(sch, box) /\ box \in [Module -> Seq(Message)]
  BY ModuleNames DEF CpuInv, Boxes
<1>2. AtHypervisor(d, s) /\ d \in Message /\ chooseIndex(d) = s /\ d.opCode = call.opCode
  BY CallMade
<1>3. Fits(sch, Hypervisor, d)
  BY <1>2, FitsKinds
<1>. HIDE DEF st
<1>4. Boxes(sch, new) /\ new = [box EXCEPT ![Hypervisor] = Append(q, d)]
  BY <1>1, <1>2, <1>3, BoxesSent
<1>5. SameOut(new, box)
  <2>1. SUFFICES ASSUME NEW c2, NEW v \in Vm, NEW c \in CpuCores
                 PROVE  OutOn(new, c2, v, c) = OutOn(box, c2, v, c)
    BY DEF SameOut
  <2>2. /\ OutOn(box, c2, v, c) \in Nat
        /\ OutOn(new, c2, v, c) = OutOn(box, c2, v, c) + One(d, Counted(Hypervisor, v, c))
    BY <1>1, <1>2, SentOut
  <2>3. One(d, Counted(Hypervisor, v, c)) = 0
    BY CountedKinds, OneType
  <2>. QED BY <2>2, <2>3
<1>6. CpuInv(sch, new, disks, co)
  <2>. HIDE DEF new
  <2>. QED BY <1>4, <1>5, BoxOnly
<1>7. ASSUME NEW t
      PROVE  /\ InboxCalls(box, t) \in Nat
             /\ InboxCalls(new, t) = InboxCalls(box, t) + (IF t = s THEN 1 ELSE 0)
  <2>1. One(d, OfSlot(t)) = IF t = s THEN 1 ELSE 0
    BY <1>2 DEF One, OfSlot
  <2>2. InboxCalls(box, t) \in Nat /\ InboxCalls(new, t) = InboxCalls(box, t) + One(d, OfSlot(t))
    BY <1>1, <1>2, SentCalls
  <2>. QED BY <2>1, <2>2
<1>8. ASSUME NEW i \in DOMAIN new[Hypervisor]
      PROVE  \/ chooseIndex(new[Hypervisor][i]) = s /\ new[Hypervisor][i].opCode = call.opCode
             \/ \E j \in DOMAIN q : new[Hypervisor][i] = q[j]
  <2>1. new[Hypervisor] = Append(q, d) /\ q \in Seq(Message)
    BY <1>1, <1>4
  <2>. HIDE DEF new, q, d
  <2>2. new[Hypervisor][i] = d \/ (i \in DOMAIN q /\ new[Hypervisor][i] = q[i])
    BY <2>1
  <2>. QED BY <1>2, <2>2
<1>. HIDE DEF new
<1>. QED BY <1>6, <1>7, <1>8 DEF new, st

-----------------------------------------------------------------------------
(* The disk *)

\* What the box gives or takes, the disk takes or gives.
LEMMA DiskTotal ==
  ASSUME NEW sch, NEW box, NEW disks, NEW co, CpuInv(sch, box, disks, co), NEW v \in Vm,
         NEW disk2, DiskOK(v, disk2), disk2 \in DiskType, NEW new, Boxes(sch, new), SameOut(new, box),
         \A t : /\ InboxCalls(new, t) \in Nat /\ InboxCalls(box, t) \in Nat
                /\ InboxCalls(new, t) + Among(disk2.queue, OfSlot(t))
                     = InboxCalls(box, t) + Among(disks[v].queue, OfSlot(t))
  PROVE  Kept(sch, box, disks, co, sch, new, Put(disks, v, disk2), co)
<1>. DEFINE disks2 == Put(disks, v, disk2)
<1>1. /\ sch \in [Vm -> SchedulerType] /\ disks \in [Vm -> DiskType]
      /\ \A w \in Vm : DiskOK(w, disks[w]) /\ co \in [CpuCores -> CoreType]
  BY DEF CpuInv, Machines, DiskQueues
<1>2. disks2 \in [Vm -> DiskType] /\ disks2[v] = disk2 /\ \A w \in Vm : w # v => disks2[w] = disks[w]
  BY <1>1 DEF Put
<1>. HIDE DEF disks2
<1>3. CpuInv(sch, new, disks2, co)
  <2>1. DiskQueues(disks2)
    BY <1>1, <1>2 DEF DiskQueues
  <2>2. CpuInv(sch, new, disks, co)
    BY BoxOnly
  <2>. QED BY <2>1, <2>2 DEF CpuInv
<1>4. ASSUME NEW t PROVE Total(sch, new, disks2, co, t) = Total(sch, box, disks, co, t)
  <2>. DEFINE a == InboxCalls(new, t)
              b == InboxCalls(box, t)
              x == Among(disk2.queue, OfSlot(t))
              y == Among(disks[v].queue, OfSlot(t))
              e == Among(sch[v].requestsQueue, OfSlot(t))
              p == WaitingCalls(sch, disks2, t)
              q == WaitingCalls(sch, disks, t)
              r == WorkedOn(co, t)
  <2>1. x \in Nat /\ y \in Nat /\ e \in Nat
    BY <1>1, HeldType
  <2>2. Held(sch[v], disks2[v], t) = e + x /\ Held(sch[v], disks[v], t) = e + y
    BY <1>2 DEF Held
  <2>3. p \in Nat /\ q \in Nat
        /\ p + Held(sch[v], disks[v], t) = q + Held(sch[v], disks2[v], t)
    BY <1>1, <1>2, WaitingChange
  <2>4. r \in Nat
    <3>1. CpuCores # {} /\ \A c \in CpuCores : co[c] \in CoreType
      <4>1. CpuCores # {}
        BY NodeSetup, Finite, FS_EmptySet DEF checkNodeSetup
      <4>. QED BY <1>1, <4>1
    <3>2. PICK c \in CpuCores : TRUE
      BY <3>1
    <3>. QED BY <1>1, <3>1, <3>2, WorkedChange
  <2>5. Total(sch, new, disks2, co, t) = a + p + r /\ Total(sch, box, disks, co, t) = b + q + r
    BY DEF Total
  <2>6. a \in Nat /\ b \in Nat /\ a + x = b + y
    OBVIOUS
  <2>. HIDE DEF a, b, x, y, e, p, q, r
  <2>. QED BY <2>1, <2>2, <2>3, <2>4, <2>5, <2>6
<1>. QED BY <1>3, <1>4 DEF Kept, disks2

LEMMA DiskStep ==
  ASSUME CpuInv(sched, inbox, queueTable, core), diskRequest
  PROVE  KeptHere /\ OnlyAnswers(inbox, inbox')
<1>. DEFINE sm == Head(inbox[Disk])
            s == chooseIndex(sm)
            v == sm.vmId
            old == queueTable[v]
            q == Append(old.queue, sm)
            new == handled(inbox, Disk)
            disk2 == queueTable'[v]
<1>1. /\ inbox[Disk] # <<>> /\ Disk \in Module /\ sched' = sched /\ core' = core /\ inbox' = new
      /\ Boxes(sched, inbox) /\ queueTable \in [Vm -> DiskType]
      /\ \A w \in Vm : DiskOK(w, queueTable[w])
  BY ModuleNames DEF diskRequest, Arrived, CpuInv, DiskQueues
<1>2. sm \in Message /\ AtDisk(sm, s)
  BY <1>1, BoxesHandled, FitsKinds
<1>3. v \in Vm
  BY <1>2, IndexParts, SlotParts DEF AtDisk, Traced
<1>4. old \in DiskType /\ old.queue \in Seq(Message)
      /\ \A i \in DOMAIN old.queue : AtDisk(old.queue[i], chooseIndex(old.queue[i])) /\ old.queue[i].vmId = v
  BY <1>1, <1>3 DEF DiskType, DiskOK
<1>5. q \in Seq(Message) /\ q # <<>>
      /\ \A i \in DOMAIN q : AtDisk(q[i], chooseIndex(q[i])) /\ q[i].vmId = v
  <2>1. \A i \in DOMAIN q : q[i] = sm \/ (i \in DOMAIN old.queue /\ q[i] = old.queue[i])
    BY <1>2, <1>4
  <2>2. q \in Seq(Message) /\ q # <<>>
    <3>1. old.queue \in Seq(Message) /\ sm \in Message
      BY <1>2, <1>4
    <3>. HIDE DEF old, sm
    <3>. QED BY <3>1
  <2>. HIDE DEF q, s
  <2>. QED BY <1>2, <1>4, <2>1, <2>2 DEF s
<1>. DEFINE entry == [old EXCEPT !.queue = q]
            two == IF Len(q) = 1 THEN [entry EXCEPT !.ioFinished = TRUE] ELSE entry
<1>6. queueTable' = [queueTable EXCEPT ![v] = two]
  <2>1. entry.queue = q /\ Len(q) > 0
    <3>1. old \in DiskType /\ q \in Seq(Message) /\ q # <<>>
      BY <1>4, <1>5
    <3>. HIDE DEF q, old
    <3>2. Len(q) > 0
      BY <3>1
    <3>. QED BY <3>1, <3>2 DEF DiskType
  <2>2. queueTable' = [queueTable EXCEPT ![v] =
                         IF Len(entry.queue) = 1 THEN scheduleIo(entry) ELSE entry]
    BY DEF diskRequest
  <2>3. scheduleIo(entry) = [entry EXCEPT !.ioFinished = TRUE]
    BY <2>1 DEF scheduleIo
  <2>. HIDE DEF entry, q
  <2>. QED BY <2>1, <2>2, <2>3
<1>7. two \in DiskType /\ two.queue = q
  <2>. HIDE DEF q, old
  <2>. QED BY <1>4, <1>5 DEF DiskType
<1>. HIDE DEF two, q, s
<1>8. DiskOK(v, two)
  BY <1>5, <1>7 DEF DiskOK
<1>9. ASSUME NEW t
      PROVE  /\ InboxCalls(new, t) \in Nat /\ InboxCalls(inbox, t) \in Nat
             /\ InboxCalls(new, t) + Among(two.queue, OfSlot(t))
                  = InboxCalls(inbox, t) + Among(queueTable[v].queue, OfSlot(t))
  <2>. DEFINE a == InboxCalls(new, t)
              b == InboxCalls(inbox, t)
              x == Among(q, OfSlot(t))
              y == Among(old.queue, OfSlot(t))
              o == One(sm, OfSlot(t))
  <2>1. a \in Nat /\ b = a + o
    BY <1>1, InboxHandled DEF Boxes
  <2>2. x = y + o
    BY <1>2, <1>4, AmongAppend DEF q
  <2>3. y \in Nat /\ o \in Nat
    BY <1>4, AmongType, OneType
  <2>. HIDE DEF a, b, x, y, o
  <2>4. a \in Nat /\ b \in Nat /\ a + x = b + y
    BY <2>1, <2>2, <2>3
  <2>. QED BY <1>7, <2>4 DEF a, b, x, y
<1>10. Boxes(sched, new) /\ SameOut(new, inbox)
  <2>1. \A v2, c : Counted(Disk, v2, c) = {}
    BY CountedKinds
  <2>2. Boxes(sched, new)
    BY <1>1, BoxesHandled
  <2>3. ASSUME NEW c2, NEW v2 \in Vm, NEW c \in CpuCores
        PROVE  OutOn(new, c2, v2, c) = OutOn(inbox, c2, v2, c)
    <3>1. /\ OutOn(inbox, c2, v2, c) \in Nat /\ OutOn(new, c2, v2, c) \in Nat
          /\ OutOn(inbox, c2, v2, c) = OutOn(new, c2, v2, c) + One(sm, Counted(Disk, v2, c))
      BY <1>1, OutHandled DEF Boxes
    <3>2. One(sm, Counted(Disk, v2, c)) = 0
      BY <2>1, OneType
    <3>. QED BY <3>1, <3>2
  <2>. QED BY <2>2, <2>3 DEF SameOut
<1>11. OnlyAnswers(inbox, new)
  BY <1>1, AnswersHandled DEF Boxes
<1>12. queueTable' = Put(queueTable, v, two)
  BY <1>6 DEF Put
<1>. HIDE DEF new, v, sm
<1>13. Kept(sched, inbox, queueTable, core, sched, new, Put(queueTable, v, two), core)
  BY <1>3, <1>7, <1>8, <1>9, <1>10, DiskTotal
<1>. QED BY <1>1, <1>11, <1>12, <1>13 DEF KeptHere

LEMMA DiskEnds ==
  ASSUME CpuInv(sched, inbox, queueTable, core), NEW v \in Vm, ioFinished(v)
  PROVE  KeptHere /\ OnlyAnswers(inbox, inbox')
<1>. DEFINE old == queueTable[v]
            sm == Head(old.queue)
            s == chooseIndex(sm)
            q == Tail(old.queue)
            up == [sm EXCEPT !.isResponse = TRUE]
            d == Delivered(up, Disk)
            new == sent(inbox, Disk, Hypervisor, up)
            two == [[old EXCEPT !.queue = q] EXCEPT !.ioFinished = Len(q) > 0]
<1>1. /\ old.ioFinished /\ Disk \in Module /\ Hypervisor \in Module
      /\ sched' = sched /\ core' = core /\ inbox' = new
      /\ Boxes(sched, inbox) /\ queueTable \in [Vm -> DiskType] /\ inbox \in [Module -> Seq(Message)]
      /\ DiskOK(v, old) /\ old \in DiskType
  BY ModuleNames DEF ioFinished, CpuInv, DiskQueues, Boxes
<1>2. old.queue \in Seq(Message) /\ old.queue # <<>>
      /\ \A i \in DOMAIN old.queue : AtDisk(old.queue[i], chooseIndex(old.queue[i])) /\ old.queue[i].vmId = v
  BY <1>1 DEF DiskType, DiskOK
<1>3. AtDisk(sm, s) /\ sm \in Message /\ sm = old.queue[1] /\ 1 \in DOMAIN old.queue
  <2>1. sm \in Message /\ sm = old.queue[1] /\ 1 \in DOMAIN old.queue
    BY <1>2
  <2>. HIDE DEF old
  <2>. QED BY <1>2, <2>1
<1>4. AtHypervisor(d, s) /\ d \in Message /\ d.isResponse /\ chooseIndex(d) = s
  BY <1>3, DiskAnswers
<1>5. q \in Seq(Message) /\ \A i \in DOMAIN q : i + 1 \in DOMAIN old.queue /\ q[i] = old.queue[i + 1]
  BY <1>2
<1>6. \A i \in DOMAIN q : AtDisk(q[i], chooseIndex(q[i])) /\ q[i].vmId = v
  <2>. HIDE DEF q, old
  <2>. QED BY <1>2, <1>5
<1>7. queueTable' = [queueTable EXCEPT ![v] = two]
  <2>1. [old EXCEPT !.queue = q].queue = q
    BY <1>1 DEF DiskType
  <2>2. queueTable' = [queueTable EXCEPT ![v] = scheduleIo([old EXCEPT !.queue = q])]
    BY DEF ioFinished
  <2>. HIDE DEF q, old
  <2>. QED BY <2>1, <2>2 DEF scheduleIo
<1>8. two \in DiskType /\ two.queue = q /\ (two.ioFinished => q # <<>>)
  <2>. DEFINE more == Len(q) > 0
  <2>1. old \in DiskType /\ q \in Seq(Message) /\ more \in BOOLEAN /\ (more => q # <<>>)
    <3>1. q \in Seq(Message) /\ old \in DiskType
      BY <1>1, <1>5
    <3>. HIDE DEF q, old
    <3>. QED BY <3>1
  <2>. HIDE DEF q, old, more
  <2>2. /\ [[old EXCEPT !.queue = q] EXCEPT !.ioFinished = more] \in DiskType
        /\ [[old EXCEPT !.queue = q] EXCEPT !.ioFinished = more].queue = q
        /\ [[old EXCEPT !.queue = q] EXCEPT !.ioFinished = more].ioFinished = more
    BY <2>1 DEF DiskType
  <2>. QED BY <2>1, <2>2 DEF more
<1>9. DiskOK(v, two)
  <2>. HIDE DEF two, q
  <2>. QED BY <1>6, <1>8 DEF DiskOK
<1>. HIDE DEF two
<1>10. Fits(sched, Hypervisor, d)
  BY <1>4, FitsKinds
<1>11. Boxes(sched, new)
  <2>. HIDE DEF up
  <2>. QED BY <1>1, <1>4, <1>10, BoxesSent
<1>12. SameOut(new, inbox)
  <2>1. SUFFICES ASSUME NEW c2, NEW v2 \in Vm, NEW c \in CpuCores
                 PROVE  OutOn(new, c2, v2, c) = OutOn(inbox, c2, v2, c)
    BY DEF SameOut
  <2>. HIDE DEF up
  <2>2. /\ OutOn(inbox, c2, v2, c) \in Nat
        /\ OutOn(new, c2, v2, c) = OutOn(inbox, c2, v2, c) + One(d, Counted(Hypervisor, v2, c))
    BY <1>1, <1>4, SentOut
  <2>3. One(d, Counted(Hypervisor, v2, c)) = 0
    BY CountedKinds, OneType
  <2>. QED BY <2>2, <2>3
<1>13. ASSUME NEW t
       PROVE  /\ InboxCalls(new, t) \in Nat /\ InboxCalls(inbox, t) \in Nat
              /\ InboxCalls(new, t) + Among(two.queue, OfSlot(t))
                   = InboxCalls(inbox, t) + Among(queueTable[v].queue, OfSlot(t))
  <2>. DEFINE a == InboxCalls(new, t)
              b == InboxCalls(inbox, t)
              x == Among(q, OfSlot(t))
              y == Among(old.queue, OfSlot(t))
              o == One(d, OfSlot(t))
  <2>1. b \in Nat /\ a = b + o
    <3>. HIDE DEF up
    <3>. QED BY <1>1, <1>4, SentCalls
  <2>2. x = y - One(sm, OfSlot(t))
    BY <1>2, AmongTail
  <2>3. One(sm, OfSlot(t)) = o
    BY <1>3, <1>4 DEF One, OfSlot
  <2>4. y \in Nat /\ o \in Nat /\ x \in Nat
    BY ZenonT(60), <1>2, <1>5, AmongType, OneType
  <2>. HIDE DEF a, b, x, y, o
  <2>5. a \in Nat /\ b \in Nat /\ a + x = b + y
    BY <2>1, <2>2, <2>3, <2>4
  <2>. QED BY <1>8, <2>5 DEF a, b, x, y
<1>14. OnlyAnswers(inbox, new)
  <2>. HIDE DEF up
  <2>. QED BY <1>1, <1>4, AnswersSent
<1>15. queueTable' = Put(queueTable, v, two)
  BY <1>7 DEF Put
<1>. HIDE DEF new
<1>16. Kept(sched, inbox, queueTable, core, sched, new, Put(queueTable, v, two), core)
  BY <1>8, <1>9, <1>11, <1>12, <1>13, DiskTotal
<1>. QED BY <1>1, <1>14, <1>15, <1>16 DEF KeptHere

-----------------------------------------------------------------------------
(* What the CPU system leaves alone *)

\* The schedulers keep their cores, and one that nobody started is left alone.
SchedulersStay(sch, sch2) ==
  \A v \in Vm : /\ sch2[v].index = sch[v].index
                /\ sch[v] = IdleScheduler => sch2[v] = IdleScheduler

LEMMA SchedulerPut ==
  ASSUME NEW sch \in [Vm -> SchedulerType], NEW v \in Vm, sch[v].running,
         NEW sc, sc.index = sch[v].index
  PROVE  SchedulersStay(sch, Put(sch, v, sc))
<1>1. sch[v] # IdleScheduler
  BY DEF IdleScheduler
<1>. QED BY <1>1 DEF SchedulersStay, Put

LEMMA RequestSchedulers ==
  ASSUME CpuInv(sched, inbox, queueTable, core), NEW v \in Vm, processRequestMessage(v)
  PROVE  SchedulersStay(sched, sched')
<1>. DEFINE arrived == Head(inbox[Scheduler(v)])
            sm == Requested(inbox, v)
            i == searchIdleCPU(sched[v])
<1>1. sched \in [Vm -> SchedulerType]
  BY DEF CpuInv, Machines
<1>2. CASE ~traceable(arrived) \/ ~sched[v].running \/ arrived.opCode # "EXEC"
  <2>1. sched' = sched
    BY <1>2 DEF processRequestMessage
  <2>. QED BY <2>1 DEF SchedulersStay
<1>3. CASE /\ ~(~traceable(arrived) \/ ~sched[v].running \/ arrived.opCode # "EXEC")
           /\ i = SC_NotFound
  <2>1. sched' = [sched EXCEPT ![v].requestsQueue = Append(@, sm)]
    BY <1>3 DEF processRequestMessage, Requested
  <2>. HIDE DEF sm
  <2>2. sched' = Put(sched, v, Joined(sched[v], sm))
    BY <1>1, <2>1 DEF Put, Joined
  <2>3. Joined(sched[v], sm).index = sched[v].index
    BY <1>1 DEF Joined, SchedulerType
  <2>. QED BY <1>1, <1>3, <2>2, <2>3, SchedulerPut
<1>4. CASE /\ ~(~traceable(arrived) \/ ~sched[v].running \/ arrived.opCode # "EXEC")
           /\ i # SC_NotFound
  <2>1. sched' = [sched EXCEPT ![v].cores[i] = FALSE]
    BY <1>4 DEF processRequestMessage
  <2>. HIDE DEF i
  <2>2. sched' = Put(sched, v, WithBusy(sched[v], i))
    BY <1>1, <2>1 DEF Put, WithBusy
  <2>3. WithBusy(sched[v], i).index = sched[v].index
    BY <1>1 DEF WithBusy, SchedulerType
  <2>. QED BY <1>1, <1>4, <2>2, <2>3, SchedulerPut
<1>. QED BY <1>2, <1>3, <1>4

LEMMA ResponseSchedulers ==
  ASSUME CpuInv(sched, inbox, queueTable, core), NEW v \in Vm, processResponseMessage(v)
  PROVE  SchedulersStay(sched, sched')
<1>. DEFINE sm == Head(inbox[Scheduler(v)])
            i == getVirtualCpuIndex(sched[v], sm.nextModuleIndex)
            s == afterAnswer(sched[v], sm)
<1>1. sched \in [Vm -> SchedulerType]
  BY DEF CpuInv, Machines
<1>2. CASE ~sched[v].running \/ i = SC_NotFound
  <2>1. sched' = sched
    BY <1>2 DEF processResponseMessage
  <2>. QED BY <2>1 DEF SchedulersStay
<1>3. CASE sched[v].running /\ i # SC_NotFound
  <2>1. \/ sched' = [sched EXCEPT ![v] = [s EXCEPT !.cores[i] = TRUE]]
        \/ sched' = [sched EXCEPT ![v] = [s EXCEPT !.cores[i] = FALSE, !.requestsQueue = Tail(@)]]
    BY <1>3 DEF processResponseMessage
  <2>2. DOMAIN s = DOMAIN sched[v] /\ s.index = sched[v].index
    BY <1>1 DEF afterAnswer, SchedulerType
  <2>. HIDE DEF s, i
  <2>3. sched[v] \in SchedulerType
    BY <1>1
  <2>4. DOMAIN s = {"running", "index", "cores", "requestsQueue"}
    BY <2>2, <2>3 DEF SchedulerType
  <2>5. /\ [s EXCEPT !.cores[i] = TRUE].index = s.index
        /\ [s EXCEPT !.cores[i] = FALSE, !.requestsQueue = Tail(@)].index = s.index
    BY <2>4
  <2>6. \E sc : sched' = Put(sched, v, sc) /\ sc.index = sched[v].index
    BY <2>1, <2>2, <2>5 DEF Put
  <2>. QED BY <1>1, <1>3, <2>6, SchedulerPut
<1>. QED BY <1>2, <1>3

LEMMA CpuSchedulers ==
  ASSUME CpuInv(sched, inbox, queueTable, core), CpuNext
  PROVE  SchedulersStay(sched, sched')
<1>1. CASE forward \/ \E c \in CpuCores : startTick(c) \/ processSelfMessage(c)
  <2>1. sched' = sched
    BY <1>1 DEF forward, startTick, processSelfMessage
  <2>. QED BY <2>1 DEF SchedulersStay
<1>. QED BY <1>1, RequestSchedulers, ResponseSchedulers DEF CpuNext

-----------------------------------------------------------------------------
(* The invariant of the node *)

\* A slot's module counts its calls: none before it started, one at a time when
\* it is a LocalApplication.
AppOK(a) ==
  a # NoApp =>
    /\ a \in Application
    /\ a.kind = "default" \/ a.step = "starting" => a.calls = 0
    /\ a.kind = "local" => a.calls <= 1

CallsOf(a) == IF a = NoApp THEN 0 ELSE a.calls

\* What a slot made is what is under way.
CallsOK(sch, box, disks, co, ap) ==
  /\ ap \in [Slot -> Application \cup {NoApp}]
  /\ \A s \in Slot : AppOK(ap[s]) /\ Total(sch, box, disks, co, s) = CallsOf(ap[s])

\* Only a LocalApplication that is still there can be exiting.
ExitOK(sm, ap) ==
  sm.opCode = "EXIT" => /\ chooseIndex(sm) \in Slot /\ ap[chooseIndex(sm)] # NoApp
                        /\ ap[chooseIndex(sm)].kind = "local"

Exits(box, ap) == \A i \in DOMAIN box[Hypervisor] : ExitOK(box[Hypervisor][i], ap)

BlockType ==
  [state : {"idle", "running"},
   apps : [1..MaxApps -> [pid : (1..MaxApps) \cup {Free}, deploymentIndex : Int]],
   globalId : GlobalVm \cup {HostName, NoRequest},
   request : {NoRequest} \cup Seq({"waiting", "finishedOK", "finishedError"})]

\* An entry without a deployment has no applications, and an idle one no
\* name, no deployment and a scheduler that nobody started.
BlockOK(v, block, ap, sc) ==
  /\ block \in BlockType
  /\ \A p \in 1..MaxApps : block.apps[p].pid \in {p, Free}
  /\ block.request = NoRequest =>
       \A p \in 1..MaxApps : block.apps[p].pid = Free /\ ap[<<v, p>>] = Placeholder
  /\ block.state = "idle" =>
       block.request = NoRequest /\ block.globalId = NoRequest /\ sc = IdleScheduler

TableOK(tab, ap, sch) ==
  tab \in [Vm -> BlockType] /\ \A v \in Vm : BlockOK(v, tab[v], ap, sch[v])

Demand(C) == SumFunction([r \in C |-> SumFunction([i \in DOMAIN r |-> Cores[r[i]]])])

\* The free cores belong to no scheduler and are enough for what is to come.
CoresOK(virt, free, sch, com) ==
  /\ virt \in BOOLEAN /\ free \subseteq CpuCores /\ com \subseteq Requests
  /\ virt => \A v \in Vm : \A i \in DOMAIN sch[v].index : sch[v].index[i] \notin free
  /\ virt => Demand(com) <= Cardinality(free)

HostInv ==
  /\ failed \in BOOLEAN
  /\ CpuInv(sched, inbox, queueTable, core)
  /\ CallsOK(sched, inbox, queueTable, core, app)
  /\ Exits(inbox, app)
  /\ TableOK(vmTable, app, sched)
  /\ CoresOK(virtual, freeCores, sched, commands)

\* A handler that leaves applications and tables alone.
LEMMA ExitsStay ==
  ASSUME NEW box, NEW new, OnlyAnswers(box, new), NEW sch, Boxes(sch, new),
         NEW ap, Exits(box, ap)
  PROVE  Exits(new, ap)
<1>1. SUFFICES ASSUME NEW i \in DOMAIN new[Hypervisor]
               PROVE  ExitOK(new[Hypervisor][i], ap)
  BY DEF Exits
<1>. DEFINE sm == new[Hypervisor][i]
<1>2. CASE sm.isResponse
  <2>1. AtHypervisor(sm, chooseIndex(sm))
    BY ModuleNames, FitsKinds DEF Boxes
  <2>. QED BY <1>2, <2>1 DEF AtHypervisor, Status, ExitOK
<1>3. CASE ~sm.isResponse
  BY <1>3 DEF OnlyAnswers, Exits
<1>. QED BY <1>2, <1>3

LEMMA CallsStay ==
  ASSUME NEW sch, NEW box, NEW disks, NEW co, NEW sch2, NEW new, NEW disks2, NEW co2, NEW ap,
         CallsOK(sch, box, disks, co, ap), Kept(sch, box, disks, co, sch2, new, disks2, co2)
  PROVE  CallsOK(sch2, new, disks2, co2, ap) /\ CpuInv(sch2, new, disks2, co2)
BY DEF CallsOK, Kept

LEMMA TableStays ==
  ASSUME NEW sch, NEW sch2, SchedulersStay(sch, sch2), NEW tab, NEW ap, TableOK(tab, ap, sch)
  PROVE  TableOK(tab, ap, sch2)
BY DEF TableOK, BlockOK, SchedulersStay

LEMMA CoresStay ==
  ASSUME NEW sch, NEW sch2, SchedulersStay(sch, sch2), NEW virt, NEW free, NEW com,
         CoresOK(virt, free, sch, com)
  PROVE  CoresOK(virt, free, sch2, com)
BY DEF CoresOK, SchedulersStay

LEMMA PassedAlong ==
  ASSUME HostInv, KeptHere, OnlyAnswers(inbox, inbox'), SchedulersStay(sched, sched'),
         app' = app, vmTable' = vmTable, virtual' = virtual, freeCores' = freeCores,
         commands' = commands, failed' \in BOOLEAN
  PROVE  HostInv'
<1>1. CallsOK(sched', inbox', queueTable', core', app) /\ CpuInv(sched', inbox', queueTable', core')
  BY CallsStay DEF HostInv, KeptHere
<1>2. Exits(inbox', app)
  <2>1. Boxes(sched', inbox')
    BY <1>1 DEF CpuInv
  <2>. QED BY <2>1, ExitsStay DEF HostInv
<1>3. TableOK(vmTable, app, sched') /\ CoresOK(virtual, freeCores, sched', commands)
  BY TableStays, CoresStay DEF HostInv
<1>. QED BY <1>1, <1>2, <1>3 DEF HostInv

LEMMA CpuHost ==
  ASSUME HostInv, Cpu
  PROVE  HostInv'
<1>1. CpuInv(sched, inbox, queueTable, core) /\ CpuNext /\ queueTable' = queueTable
  BY DEF HostInv, Cpu, hostVars
<1>2. failed' \in BOOLEAN
  BY DEF HostInv, Cpu, CpuNext, processRequestMessage, processResponseMessage, forward, startTick,
         processSelfMessage
<1>. QED BY <1>1, <1>2, CpuStep, CpuAnswers, CpuSchedulers, PassedAlong DEF Cpu, hostVars

LEMMA DiskHost ==
  ASSUME HostInv, diskRequest \/ \E v \in Vm : ioFinished(v)
  PROVE  HostInv'
<1>1. CpuInv(sched, inbox, queueTable, core)
  BY DEF HostInv
<1>2. KeptHere /\ OnlyAnswers(inbox, inbox')
  BY <1>1, DiskStep, DiskEnds
<1>3. /\ sched' = sched /\ app' = app /\ vmTable' = vmTable /\ virtual' = virtual
      /\ freeCores' = freeCores /\ commands' = commands /\ failed' = failed
  BY DEF diskRequest, ioFinished
<1>4. SchedulersStay(sched, sched')
  BY <1>3 DEF SchedulersStay
<1>5. failed' \in BOOLEAN
  BY <1>3 DEF HostInv
<1>. QED BY <1>2, <1>3, <1>4, <1>5, PassedAlong

LEMMA ForwardedCall ==
  ASSUME HostInv, processSyscallStart, Head(inbox[Hypervisor]).opCode \notin {"EXIT", "ABORT"}
  PROVE  HostInv'
<1>. DEFINE sm == Head(inbox[Hypervisor])
<1>1. /\ inbox[Hypervisor] # <<>> /\ ~sm.isResponse
      /\ inbox' = sent(handled(inbox, Hypervisor), Hypervisor, destination(sm), sm)
      /\ sched' = sched /\ core' = core /\ failed' = failed /\ queueTable' = queueTable
      /\ app' = app /\ vmTable' = vmTable /\ virtual' = virtual
      /\ freeCores' = freeCores /\ commands' = commands
  BY DEF processSyscallStart, Arrived, hostVars
<1>2. CpuInv(sched, inbox, queueTable, core) /\ failed' \in BOOLEAN
  BY <1>1 DEF HostInv
<1>3. /\ Kept(sched, inbox, queueTable, core, sched, inbox', queueTable, core)
      /\ OnlyAnswers(inbox, inbox')
  BY <1>1, <1>2, RequestPassedOn
<1>4. KeptHere /\ SchedulersStay(sched, sched')
  BY <1>1, <1>3 DEF KeptHere, SchedulersStay
<1>. QED BY <1>1, <1>2, <1>3, <1>4, PassedAlong

LEMMA ForwardedAnswer ==
  ASSUME HostInv, processSyscallEnd
  PROVE  HostInv'
<1>. DEFINE sm == Head(inbox[Hypervisor])
            rest == handled(inbox, Hypervisor)
<1>1. /\ inbox[Hypervisor] # <<>> /\ sm.isResponse
      /\ inbox' = IF sm.opCode = "EXEC" /\ ~sm.isCompleted THEN rest ELSE sendToApp(rest, sm)
      /\ sched' = sched /\ core' = core /\ failed' = failed /\ queueTable' = queueTable
      /\ app' = app /\ vmTable' = vmTable /\ virtual' = virtual
      /\ freeCores' = freeCores /\ commands' = commands
  BY DEF processSyscallEnd, Arrived, hostVars
<1>2. CpuInv(sched, inbox, queueTable, core) /\ failed' \in BOOLEAN
  BY <1>1 DEF HostInv
<1>3. /\ Kept(sched, inbox, queueTable, core, sched, inbox', queueTable, core)
      /\ OnlyAnswers(inbox, inbox')
  BY <1>1, <1>2, AnswerPassedOn, StatusDropped
<1>4. KeptHere /\ SchedulersStay(sched, sched')
  BY <1>1, <1>3 DEF KeptHere, SchedulersStay
<1>. QED BY <1>1, <1>2, <1>3, <1>4, PassedAlong

-----------------------------------------------------------------------------
(* The applications *)

\* The machine of a slot has a deployment, as its module is not the placeholder.
LEMMA TableOfApp ==
  ASSUME NEW tab, NEW ap, NEW sch, TableOK(tab, ap, sch), NEW s \in Slot, ap[s] # Placeholder, NEW a
  PROVE  TableOK(tab, Put(ap, s, a), sch) /\ tab[s[1]].request # NoRequest
<1>1. s[1] \in Vm /\ s[2] \in 1..MaxApps /\ s = <<s[1], s[2]>>
  BY SlotParts
<1>2. tab[s[1]].request # NoRequest
  BY <1>1 DEF TableOK, BlockOK
<1>3. ASSUME NEW v \in Vm, tab[v].request = NoRequest, NEW p \in 1..MaxApps
      PROVE  Put(ap, s, a)[<<v, p>>] = ap[<<v, p>>]
  <2>1. s # <<v, p>>
    BY <1>1, <1>2, <1>3
  <2>. QED BY <2>1 DEF Put
<1>. QED BY <1>2, <1>3 DEF TableOK, BlockOK

LEMMA WorkedType ==
  ASSUME NEW co, NEW s
  PROVE  WorkedOn(co, s) \in Nat
<1>. DEFINE T == {c \in CpuCores : co[c] \in OfSlot(s)}
<1>1. IsFiniteSet(T)
  BY Finite, FS_Subset
<1>2. Cardinality(T) \in Nat
  BY <1>1, FS_CardinalityType
<1>. QED BY <1>2 DEF WorkedOn

\* The module of the slot s becomes a, and its calls change as those under way.
AppMoves(s, a) ==
  /\ s \in Slot /\ app[s] # NoApp /\ app[s] # Placeholder /\ AppOK(a) /\ a # NoApp
  /\ a.kind = app[s].kind
  /\ app' = Put(app, s, a)
  /\ CpuInv(sched, inbox', queueTable, core)
  /\ \A t \in Slot : t # s => InboxCalls(inbox', t) = InboxCalls(inbox, t)
  /\ InboxCalls(inbox', s) \in Nat /\ InboxCalls(inbox, s) \in Nat
  /\ InboxCalls(inbox', s) + app[s].calls = InboxCalls(inbox, s) + a.calls
  /\ Exits(inbox', app')

\* The module of an application that did not end.
Live(a) == a # NoApp /\ a.kind # "default"
LiveStay == \A s \in Slot : Live(app'[s]) <=> Live(app[s])

LEMMA AppMoved ==
  ASSUME HostInv, NEW s, NEW a, AppMoves(s, a), AppOnly
  PROVE  HostInv' /\ LiveStay
<1>1. /\ sched' = sched /\ core' = core /\ failed' = failed /\ queueTable' = queueTable
      /\ vmTable' = vmTable /\ virtual' = virtual /\ freeCores' = freeCores /\ commands' = commands
  BY DEF AppOnly
<1>2. TableOK(vmTable, Put(app, s, a), sched)
  BY TableOfApp DEF HostInv, AppMoves
<1>3. ASSUME NEW t \in Slot, t # s
      PROVE  /\ Put(app, s, a)[t] = app[t]
             /\ Total(sched, inbox', queueTable, core, t) = Total(sched, inbox, queueTable, core, t)
  BY <1>3 DEF AppMoves, Put, Total
<1>4. Put(app, s, a) \in [Slot -> Application \cup {NoApp}] /\ Put(app, s, a)[s] = a
  BY DEF HostInv, CallsOK, AppMoves, AppOK, Put
<1>5. Total(sched, inbox', queueTable, core, s) = a.calls
  <2>. DEFINE i == InboxCalls(inbox, s)
              j == InboxCalls(inbox', s)
              w == WaitingCalls(sched, queueTable, s)
              k == WorkedOn(core, s)
              m == app[s].calls
              n == a.calls
  <2>1. i \in Nat /\ j \in Nat /\ j + m = i + n
    BY DEF AppMoves
  <2>2. w \in Nat /\ k \in Nat
    BY WaitingType, WorkedType DEF HostInv, CpuInv
  <2>3. m \in Nat /\ n \in Nat
    BY DEF AppMoves, HostInv, CallsOK, AppOK, Application
  <2>4. i + w + k = m
    BY DEF HostInv, CallsOK, AppMoves, CallsOf, Total
  <2>5. Total(sched, inbox', queueTable, core, s) = j + w + k
    BY DEF Total
  <2>. HIDE DEF i, j, w, k, m, n
  <2>6. j + w + k = n
    BY <2>1, <2>2, <2>3, <2>4
  <2>. QED BY <2>5, <2>6 DEF n
<1>6. CallsOK(sched, inbox', queueTable, core, Put(app, s, a))
  BY <1>3, <1>4, <1>5 DEF HostInv, CallsOK, AppMoves, CallsOf
<1>7. CpuInv(sched, inbox', queueTable, core) /\ Exits(inbox', app') /\ app' = Put(app, s, a)
  BY DEF AppMoves
<1>8. HostInv'
  BY <1>1, <1>2, <1>6, <1>7 DEF HostInv
<1>9. LiveStay
  <2>1. a # NoApp /\ a.kind = app[s].kind /\ app[s] # NoApp
    BY DEF AppMoves
  <2>. QED BY <1>3, <1>4, <1>7, <2>1 DEF LiveStay, Live
<1>. QED BY <1>8, <1>9

\* What the module finds in its box is taken out; n calls are left.
Fetched(s, box, n) ==
  /\ s \in Slot /\ app[s] # NoApp /\ app[s] \in Application /\ n \in Nat
  /\ CpuInv(sched, box, queueTable, core) /\ OnlyAnswers(inbox, box)
  /\ \A t \in Slot : t # s => InboxCalls(box, t) = InboxCalls(inbox, t)
  /\ InboxCalls(box, s) \in Nat /\ InboxCalls(inbox, s) \in Nat
  /\ InboxCalls(box, s) + app[s].calls = InboxCalls(inbox, s) + n

\* The next state of a module that is not the placeholder.
GoesOn(s, next, n) ==
  /\ next \in Application /\ next.calls = n /\ next.kind = app[s].kind
  /\ next.step # "starting" /\ next.kind # "default"

LEMMA InboxType ==
  ASSUME NEW sch, NEW box, NEW disks, NEW co, CpuInv(sch, box, disks, co), NEW s
  PROVE  InboxCalls(box, s) \in Nat
<1>1. box \in [Module -> Seq(Message)] /\ Hub \in Module
  BY ModuleNames DEF CpuInv, Boxes
<1>. QED BY <1>1, InboxChange

LEMMA NothingTaken ==
  ASSUME HostInv, NEW s \in Slot, app[s] # NoApp
  PROVE  Fetched(s, inbox, app[s].calls)
<1>1. app[s] \in Application /\ app[s].calls \in Nat
  BY DEF HostInv, CallsOK, AppOK, Application
<1>2. InboxCalls(inbox, s) \in Nat
  BY InboxType DEF HostInv
<1>3. OnlyAnswers(inbox, inbox)
  BY DEF OnlyAnswers
<1>. QED BY <1>1, <1>2, <1>3 DEF Fetched, HostInv

LEMMA SomethingTaken ==
  ASSUME HostInv, NEW s \in Slot, Arrived(App(s))
  PROVE  /\ app[s] # NoApp /\ app[s].calls \in Nat \ {0}
         /\ Fetched(s, handled(inbox, App(s)), app[s].calls - 1)
         /\ Head(inbox[App(s)]).opCode \in {"READ", "WRITE", "EXEC"}
<1>. DEFINE box == handled(inbox, App(s))
<1>1. inbox[App(s)] # <<>> /\ CpuInv(sched, inbox, queueTable, core)
  BY DEF Arrived, HostInv
<1>2. /\ CpuInv(sched, box, queueTable, core) /\ OnlyAnswers(inbox, box)
      /\ Head(inbox[App(s)]).opCode \in {"READ", "WRITE", "EXEC"}
      /\ \A t : /\ InboxCalls(box, t) \in Nat
                /\ InboxCalls(inbox, t) = InboxCalls(box, t) + (IF t = s THEN 1 ELSE 0)
  BY <1>1, AnswerTaken
<1>. DEFINE i == InboxCalls(inbox, s)
            j == InboxCalls(box, s)
            w == WaitingCalls(sched, queueTable, s)
            k == WorkedOn(core, s)
            m == CallsOf(app[s])
<1>3. j \in Nat /\ i = j + 1
  BY <1>2
<1>4. w \in Nat /\ k \in Nat
  BY <1>1, WaitingType, WorkedType DEF CpuInv
<1>5. i + w + k = m
  BY DEF HostInv, CallsOK, Total
<1>6. m \in Nat \ {0} /\ i \in Nat /\ j + m = i + (m - 1) /\ m - 1 \in Nat
  <2>. HIDE DEF i, j, w, k, m
  <2>1. i \in Nat /\ m = i + w + k /\ i >= 1
    BY <1>3, <1>4, <1>5
  <2>2. m \in Nat /\ m >= 1
    BY <1>4, <2>1
  <2>. QED BY <1>3, <2>1, <2>2
<1>7. app[s] # NoApp /\ m = app[s].calls /\ app[s] \in Application
  BY <1>6 DEF CallsOf, HostInv, CallsOK, AppOK
<1>8. \A t \in Slot : t # s => InboxCalls(box, t) = InboxCalls(inbox, t)
  <2>1. ASSUME NEW t \in Slot, t # s PROVE InboxCalls(box, t) = InboxCalls(inbox, t)
    <3>. DEFINE x == InboxCalls(box, t)
                y == InboxCalls(inbox, t)
    <3>1. x \in Nat /\ y = x + 0
      BY <1>2, <2>1
    <3>. HIDE DEF x, y
    <3>2. x = y
      BY <3>1
    <3>. QED BY <3>2 DEF x, y
  <2>. QED BY <2>1
<1>. HIDE DEF i, j, m
<1>. QED BY <1>2, <1>3, <1>6, <1>7, <1>8 DEF Fetched, i, j

\* The module goes on without a call.
LEMMA RestGoes ==
  ASSUME HostInv, NEW s, NEW box, NEW n, Fetched(s, box, n), NEW next, GoesOn(s, next, n),
         next.kind = "local" => n <= 1, app' = [app EXCEPT ![s] = next], inbox' = box, AppOnly
  PROVE  HostInv' /\ LiveStay
<1>1. AppOK(next) /\ next # NoApp
  BY Nothing DEF GoesOn, AppOK
<1>2. app[s] # Placeholder
  BY DEF GoesOn, Placeholder
<1>3. app' = Put(app, s, next)
  BY DEF Put
<1>4. Exits(inbox', app')
  <2>1. Exits(box, app)
    BY ExitsStay DEF Fetched, HostInv, CpuInv
  <2>2. ASSUME NEW sm, ExitOK(sm, app) PROVE ExitOK(sm, app')
    <3>1. \A t \in Slot : app'[t] = app[t] \/ (t = s /\ app'[t] = next)
      BY DEF HostInv, CallsOK
    <3>. QED BY <1>1, <2>2, <3>1 DEF ExitOK, GoesOn
  <2>. QED BY <2>1, <2>2 DEF Exits
<1>5. AppMoves(s, next)
  BY <1>1, <1>2, <1>3, <1>4 DEF AppMoves, Fetched, GoesOn
<1>. QED BY <1>5, AppMoved

\* The module goes on and calls.
LEMMA CallGoes ==
  ASSUME HostInv, NEW s, NEW box, NEW n, Fetched(s, box, n), NEW next, GoesOn(s, next, n),
         next.kind = "local" => n = 0,
         NEW call,
         call \in {read(s), write(s), exit(s), execute(s, MIs), execute(s, processingMIs)},
         call.opCode = "EXIT" => next.kind = "local",
         Calls(s, box, next, call), AppOnly
  PROVE  HostInv' /\ LiveStay
<1>. DEFINE a == [next EXCEPT !.calls = n + 1]
<1>1. /\ a \in Application /\ a.calls = n + 1 /\ a.kind = next.kind /\ a.step = next.step
      /\ next.calls = n /\ n \in Nat
  BY DEF GoesOn, Application, Fetched
<1>2. app' = Put(app, s, a)
  BY <1>1 DEF Calls, Put
<1>. HIDE DEF a
<1>3. AppOK(a) /\ a # NoApp /\ a.kind = app[s].kind /\ app[s] # Placeholder
  BY <1>1, Nothing DEF AppOK, GoesOn, Placeholder
<1>4. s \in Slot /\ CpuInv(sched, box, queueTable, core)
  BY DEF Fetched
<1>5. /\ CpuInv(sched, inbox', queueTable, core)
      /\ \A t : /\ InboxCalls(box, t) \in Nat
                /\ InboxCalls(inbox', t) = InboxCalls(box, t) + (IF t = s THEN 1 ELSE 0)
      /\ \A i \in DOMAIN inbox'[Hypervisor] :
           \/ /\ chooseIndex(inbox'[Hypervisor][i]) = s
              /\ inbox'[Hypervisor][i].opCode = call.opCode
           \/ \E j \in DOMAIN box[Hypervisor] : inbox'[Hypervisor][i] = box[Hypervisor][j]
  BY <1>4, CallSent DEF Calls
<1>6. Exits(inbox', app')
  <2>1. Exits(box, app)
    BY ExitsStay DEF Fetched, HostInv, CpuInv
  <2>2. \A t \in Slot : app'[t] = app[t] \/ (t = s /\ app'[t] = a)
    BY <1>2 DEF HostInv, CallsOK, Put
  <2>3. app'[s] = a
    BY <1>2, <1>4 DEF HostInv, CallsOK, Put
  <2>4. ASSUME NEW sm, ExitOK(sm, app) PROVE ExitOK(sm, app')
    BY <1>3, <2>2, <2>4 DEF ExitOK
  <2>5. ASSUME NEW sm, chooseIndex(sm) = s, sm.opCode = call.opCode PROVE ExitOK(sm, app')
    BY <1>1, <1>3, <1>4, <2>3, <2>5 DEF ExitOK
  <2>. QED BY <1>5, <2>1, <2>4, <2>5 DEF Exits
<1>7. ASSUME NEW t \in Slot, t # s
      PROVE  InboxCalls(inbox', t) = InboxCalls(inbox, t)
  <2>. DEFINE x == InboxCalls(box, t)
              y == InboxCalls(inbox', t)
  <2>1. x \in Nat /\ y = x + 0
    BY <1>5, <1>7
  <2>2. x = InboxCalls(inbox, t)
    BY <1>7 DEF Fetched
  <2>. HIDE DEF x, y
  <2>3. x = y
    BY <2>1
  <2>. QED BY <2>2, <2>3 DEF x, y
<1>8. /\ InboxCalls(inbox', s) \in Nat /\ InboxCalls(inbox, s) \in Nat
      /\ InboxCalls(inbox', s) + app[s].calls = InboxCalls(inbox, s) + a.calls
  <2>. DEFINE x == InboxCalls(box, s)
              y == InboxCalls(inbox', s)
              z == InboxCalls(inbox, s)
              m == app[s].calls
              k == a.calls
  <2>1. x \in Nat /\ y = x + 1
    BY <1>5
  <2>2. z \in Nat /\ x + m = z + n /\ m \in Nat /\ n \in Nat /\ k = n + 1
    BY <1>1 DEF Fetched, Application
  <2>. HIDE DEF x, y, z, m, k
  <2>3. y \in Nat /\ z \in Nat /\ y + m = z + k
    BY <2>1, <2>2
  <2>. QED BY <2>3 DEF y, z, m, k
<1>9. AppMoves(s, a)
  BY <1>2, <1>3, <1>5, <1>6, <1>7, <1>8 DEF AppMoves, Fetched
<1>. QED BY <1>9, AppMoved

LEMMA StartsHost ==
  ASSUME HostInv, NEW s \in Slot, LocalApplicationStarts(s)
  PROVE  HostInv' /\ LiveStay
<1>. DEFINE next == [app[s] EXCEPT !.step = "reading", !.iteration = 1]
<1>1. app[s] # NoApp /\ app[s].kind = "local" /\ app[s].step = "starting"
      /\ Calls(s, inbox, next, read(s)) /\ AppOnly
  BY DEF LocalApplicationStarts
<1>2. Fetched(s, inbox, app[s].calls) /\ app[s] \in Application /\ app[s].calls = 0
  BY <1>1, NothingTaken DEF Fetched, HostInv, CallsOK, AppOK
<1>3. GoesOn(s, next, app[s].calls)
  BY <1>1, <1>2 DEF GoesOn, Application
<1>4. read(s).opCode = "READ"
  BY DEF read, Syscall
<1>. HIDE DEF next
<1>. QED BY <1>1, <1>2, <1>3, <1>4, CallGoes

LEMMA IotStartsHost ==
  ASSUME HostInv, NEW s \in Slot, IotApplicationStarts(s)
  PROVE  HostInv' /\ LiveStay
<1>. DEFINE next == [app[s] EXCEPT !.step = "listening"]
<1>1. app[s] # NoApp /\ app[s].kind = "iot" /\ AppOnly
      /\ app' = [app EXCEPT ![s] = next] /\ inbox' = inbox
  BY DEF IotApplicationStarts, Rests
<1>2. Fetched(s, inbox, app[s].calls) /\ app[s] \in Application
  BY <1>1, NothingTaken DEF Fetched
<1>3. GoesOn(s, next, app[s].calls) /\ next.kind = "iot"
  BY <1>1, <1>2 DEF GoesOn, Application
<1>. HIDE DEF next
<1>. QED BY <1>1, <1>2, <1>3, RestGoes

LEMMA DataArrivedHost ==
  ASSUME HostInv, NEW s \in Slot, handleDataArrived(s)
  PROVE  HostInv' /\ LiveStay
<1>. DEFINE pings == app[s].numPings + 1
            base == [app[s] EXCEPT !.received = @ + 1]
            zero == [base EXCEPT !.numPings = 0]
            more == [base EXCEPT !.numPings = pings]
<1>1. app[s] # NoApp /\ app[s].kind = "iot" /\ app[s].step = "listening" /\ AppOnly
      /\ IF pings > pingsThreshold THEN Calls(s, inbox, zero, execute(s, processingMIs))
                                   ELSE Rests(s, inbox, more)
  BY DEF handleDataArrived
<1>2. Fetched(s, inbox, app[s].calls) /\ app[s] \in Application
  BY <1>1, NothingTaken DEF Fetched
<1>. HIDE DEF base, pings
<1>3. /\ base \in Application /\ base.calls = app[s].calls /\ base.kind = app[s].kind
      /\ base.step = "listening" /\ pings \in Nat
  BY <1>1, <1>2 DEF base, pings, Application
<1>4. GoesOn(s, zero, app[s].calls) /\ zero.kind = "iot"
  BY <1>1, <1>3 DEF GoesOn, Application
<1>5. GoesOn(s, more, app[s].calls) /\ more.kind = "iot"
  BY <1>1, <1>3 DEF GoesOn, Application
<1>6. execute(s, processingMIs).opCode = "EXEC"
  BY DEF execute, Syscall
<1>. HIDE DEF zero, more
<1>7. CASE pings > pingsThreshold
  BY <1>1, <1>2, <1>4, <1>6, <1>7, CallGoes
<1>8. CASE ~(pings > pingsThreshold)
  BY <1>1, <1>2, <1>5, <1>8, RestGoes DEF Rests
<1>. QED BY <1>7, <1>8

LEMMA IotReturnsHost ==
  ASSUME HostInv, NEW s \in Slot, IotApplicationReturns(s)
  PROVE  HostInv' /\ LiveStay
<1>. DEFINE next == [app[s] EXCEPT !.calls = @ - 1]
<1>1. Arrived(App(s)) /\ app[s].kind = "iot" /\ AppOnly
      /\ app' = [app EXCEPT ![s] = next] /\ inbox' = handled(inbox, App(s))
  BY DEF IotApplicationReturns, Rests
<1>2. /\ app[s] # NoApp /\ app[s].calls \in Nat \ {0} /\ app[s] \in Application
      /\ Fetched(s, handled(inbox, App(s)), app[s].calls - 1)
  BY <1>1, SomethingTaken DEF Fetched
<1>3. app[s].step # "starting"
  BY <1>2 DEF HostInv, CallsOK, AppOK
<1>4. GoesOn(s, next, app[s].calls - 1) /\ next.kind = "iot"
  BY <1>1, <1>2, <1>3 DEF GoesOn, Application
<1>. HIDE DEF next
<1>. QED BY <1>1, <1>2, <1>4, RestGoes

LEMMA LocalReturnsHost ==
  ASSUME HostInv, NEW s \in Slot, LocalApplicationReturns(s)
  PROVE  HostInv' /\ LiveStay
<1>. DEFINE returned == [app[s] EXCEPT !.calls = @ - 1]
            again == returned.iteration + 1 < Iterations
            box == handled(inbox, App(s))
            sm == Head(inbox[App(s)])
            one == [returned EXCEPT !.step = "executing"]
            two == [returned EXCEPT !.step = "writing"]
            three == [returned EXCEPT !.step = "reading", !.iteration = @ + 1]
            four == [returned EXCEPT !.step = "exiting", !.iteration = @ + 1]
<1>1. Arrived(App(s)) /\ app[s].kind = "local" /\ AppOnly /\ After(s)
  BY DEF LocalApplicationReturns
<1>2. /\ app[s] # NoApp /\ app[s].calls \in Nat \ {0} /\ app[s] \in Application
      /\ Fetched(s, box, app[s].calls - 1) /\ sm.opCode \in {"READ", "WRITE", "EXEC"}
  BY <1>1, SomethingTaken DEF Fetched
<1>3. app[s].calls = 1
  BY <1>1, <1>2 DEF HostInv, CallsOK, AppOK
<1>4. /\ returned \in Application /\ returned.calls = 0 /\ returned.kind = "local"
      /\ returned.iteration \in Nat
  BY <1>1, <1>2, <1>3 DEF Application
<1>5. Fetched(s, box, 0)
  BY <1>2, <1>3
<1>6. \/ Calls(s, box, one, execute(s, MIs))
      \/ Calls(s, box, two, write(s))
      \/ Calls(s, box, three, read(s))
      \/ Calls(s, box, four, exit(s))
  <2>1. CASE again
    BY <1>1, <1>2, <2>1 DEF After
  <2>2. CASE ~again
    BY <1>1, <1>2, <2>2 DEF After
  <2>. QED BY <2>1, <2>2
<1>. HIDE DEF returned, box
<1>7. GoesOn(s, one, 0) /\ GoesOn(s, two, 0) /\ GoesOn(s, three, 0) /\ GoesOn(s, four, 0)
      /\ four.kind = "local"
  <2>1. GoesOn(s, one, 0)
    BY <1>1, <1>4 DEF GoesOn, Application
  <2>2. GoesOn(s, two, 0)
    BY <1>1, <1>4 DEF GoesOn, Application
  <2>3. returned.iteration + 1 \in Nat
    BY <1>4
  <2>4. GoesOn(s, three, 0)
    BY <1>1, <1>4, <2>3 DEF GoesOn, Application
  <2>5. GoesOn(s, four, 0) /\ four.kind = "local"
    BY <1>1, <1>4, <2>3 DEF GoesOn, Application
  <2>. QED BY <2>1, <2>2, <2>4, <2>5
<1>8. /\ execute(s, MIs).opCode = "EXEC" /\ write(s).opCode = "WRITE" /\ read(s).opCode = "READ"
  BY DEF execute, write, read, Syscall
<1>. HIDE DEF one, two, three, four, box
<1>. QED BY <1>1, <1>5, <1>6, <1>7, <1>8, CallGoes

LEMMA AppHost ==
  ASSUME HostInv, NEW s \in Slot, AppNext(s)
  PROVE  HostInv' /\ LiveStay
BY StartsHost, LocalReturnsHost, IotStartsHost, DataArrivedHost, IotReturnsHost DEF AppNext

-----------------------------------------------------------------------------
(* The end of an application *)

\* A module that exits made one call, which is the message that tells it.
LEMMA LastCall ==
  ASSUME NEW sch, NEW box, NEW disks, NEW co, NEW ap, CpuInv(sch, box, disks, co),
         CallsOK(sch, box, disks, co, ap), Exits(box, ap),
         box[Hypervisor] # <<>>, NEW sm, sm = Head(box[Hypervisor]), sm.opCode = "EXIT",
         NEW s, s = chooseIndex(sm)
  PROVE  LET new == handled(box, Hypervisor)
         IN  /\ s \in Slot /\ s = <<sm.vmId, sm.pid>> /\ ap[s] # NoApp /\ ap[s].kind = "local"
             /\ CpuInv(sch, new, disks, co) /\ OnlyAnswers(box, new)
             /\ Total(sch, new, disks, co, s) = 0 /\ InboxCalls(new, s) = 0
             /\ \A t \in Slot : t # s => Total(sch, new, disks, co, t) = Total(sch, box, disks, co, t)
<1>. DEFINE new == handled(box, Hypervisor)
<1>1. Hypervisor \in Module /\ \A v, c : Counted(Hypervisor, v, c) = {}
  BY ModuleNames, CountedKinds
<1>2. /\ CpuInv(sch, new, disks, co) /\ sm \in Message /\ OnlyAnswers(box, new)
      /\ \A t : /\ InboxCalls(new, t) \in Nat
                /\ InboxCalls(box, t) = InboxCalls(new, t) + One(sm, OfSlot(t))
  BY <1>1, LeftBox
<1>3. sm = box[Hypervisor][1] /\ 1 \in DOMAIN box[Hypervisor]
  <2>1. box[Hypervisor] \in Seq(Message)
    BY <1>1 DEF CpuInv, Boxes
  <2>. HIDE DEF new
  <2>. QED BY <2>1
<1>4. s \in Slot /\ ap[s] # NoApp /\ ap[s].kind = "local"
  BY <1>3 DEF Exits, ExitOK
<1>5. s = <<sm.vmId, sm.pid>>
  BY DEF chooseIndex
<1>6. ap[s].calls \in Nat /\ ap[s].calls <= 1
  BY <1>4 DEF CallsOK, AppOK, Application
<1>7. One(sm, OfSlot(s)) = 1 /\ \A t : t # s => One(sm, OfSlot(t)) = 0
  BY <1>2 DEF One, OfSlot
<1>8. InboxCalls(new, s) = 0 /\ Total(sch, new, disks, co, s) = 0
  <2>. DEFINE i == InboxCalls(box, s)
              j == InboxCalls(new, s)
              w == WaitingCalls(sch, disks, s)
              k == WorkedOn(co, s)
              m == ap[s].calls
  <2>1. j \in Nat /\ i = j + 1
    BY <1>2, <1>7
  <2>2. w \in Nat /\ k \in Nat
    BY WaitingType, WorkedType DEF CpuInv
  <2>3. i + w + k = m
    BY <1>4 DEF CallsOK, Total, CallsOf
  <2>4. m \in Nat /\ m <= 1
    BY <1>6
  <2>5. Total(sch, new, disks, co, s) = j + w + k
    BY DEF Total
  <2>. HIDE DEF i, j, w, k, m
  <2>6. j = 0 /\ j + w + k = 0
    BY <2>1, <2>2, <2>3, <2>4
  <2>. QED BY <2>5, <2>6 DEF j
<1>9. ASSUME NEW t \in Slot, t # s
      PROVE  Total(sch, new, disks, co, t) = Total(sch, box, disks, co, t)
  <2>. DEFINE x == InboxCalls(new, t)
              y == InboxCalls(box, t)
  <2>1. x \in Nat /\ y = x + 0
    BY <1>2, <1>7, <1>9
  <2>. HIDE DEF x, y
  <2>2. x = y
    BY <2>1
  <2>. QED BY <2>2 DEF x, y, Total
<1>. QED BY <1>2, <1>4, <1>5, <1>8, <1>9

LEMMA TerminatedTable ==
  ASSUME NEW tab, NEW ap, NEW sch, TableOK(tab, ap, sch), NEW s \in Slot, ap[s] # Placeholder,
         NEW i, NEW state \in {"finishedOK", "finishedError"}
  PROVE  TableOK([tab EXCEPT ![s[1]] = changeStateByIndex(deallocateApp(tab[s[1]], s[2]), i, state)],
                 Put(ap, s, NoApp), sch)
<1>. DEFINE old == tab[s[1]]
            mid == deallocateApp(old, s[2])
            request == [old.request EXCEPT ![i] = state]
            block == changeStateByIndex(mid, i, state)
            ap2 == Put(ap, s, NoApp)
<1>1. s[1] \in Vm /\ s[2] \in 1..MaxApps
  BY SlotParts
<1>2. TableOK(tab, ap2, sch) /\ old.request # NoRequest
  BY TableOfApp
<1>3. old \in BlockType /\ BlockOK(s[1], old, ap2, sch[s[1]])
  BY <1>1, <1>2 DEF TableOK
<1>4. /\ mid \in BlockType /\ mid.request = old.request /\ mid.state = old.state
      /\ \A p \in 1..MaxApps : mid.apps[p].pid \in {p, Free}
  <2>. DEFINE apps == old.apps
              apps2 == [apps EXCEPT ![s[2]].pid = Free]
  <2>1. /\ apps \in [1..MaxApps -> [pid : (1..MaxApps) \cup {Free}, deploymentIndex : Int]]
        /\ \A p \in 1..MaxApps : apps[p].pid \in {p, Free}
    BY <1>3 DEF BlockOK, BlockType
  <2>2. mid = [old EXCEPT !.apps = apps2]
    BY <1>3 DEF deallocateApp, BlockType
  <2>. HIDE DEF apps, old, mid
  <2>3. /\ apps2 \in [1..MaxApps -> [pid : (1..MaxApps) \cup {Free}, deploymentIndex : Int]]
        /\ \A p \in 1..MaxApps : apps2[p].pid \in {p, Free}
    BY <1>1, <2>1
  <2>. HIDE DEF apps2
  <2>4. old \in BlockType
    BY <1>3
  <2>5. mid \in BlockType /\ mid.request = old.request /\ mid.state = old.state /\ mid.apps = apps2
    BY <2>2, <2>3, <2>4 DEF BlockType
  <2>. QED BY <2>3, <2>5
<1>5. request \in Seq({"waiting", "finishedOK", "finishedError"})
  <2>. DEFINE r == old.request
  <2>1. r \in Seq({"waiting", "finishedOK", "finishedError"})
    BY <1>2, <1>3 DEF BlockType
  <2>. HIDE DEF r
  <2>2. [r EXCEPT ![i] = state] \in Seq({"waiting", "finishedOK", "finishedError"})
    <3>1. CASE i \in 1..Len(r)
      BY <2>1, <3>1, ExceptSeq
    <3>2. CASE i \notin 1..Len(r)
      <4>1. r = [x \in 1..Len(r) |-> r[x]]
        BY <2>1, LenProperties
      <4>2. [r EXCEPT ![i] = state] = r
        BY <3>2, <4>1
      <4>. QED BY <2>1, <4>2
    <3>. QED BY <3>1, <3>2
  <2>. QED BY <2>2 DEF r
<1>6. block = [mid EXCEPT !.request = request]
  <2>. HIDE DEF mid
  <2>. QED BY <1>4 DEF changeStateByIndex, BlockType
<1>. HIDE DEF mid, request
<1>7. /\ block \in BlockType /\ block.request = request /\ block.state = mid.state
      /\ block.apps = mid.apps
  BY <1>4, <1>5, <1>6 DEF BlockType
<1>8. request # NoRequest /\ old.state # "idle"
  BY <1>2, <1>3, <1>5, HostConstants DEF BlockOK
<1>. HIDE DEF block
<1>9. BlockOK(s[1], block, ap2, sch[s[1]])
  BY <1>4, <1>7, <1>8 DEF BlockOK
<1>. HIDE DEF ap2
<1>10. TableOK([tab EXCEPT ![s[1]] = block], ap2, sch)
  BY <1>1, <1>2, <1>7, <1>9 DEF TableOK
<1>. QED BY <1>10 DEF block, mid, ap2

LEMMA TerminationHost ==
  ASSUME HostInv, processSyscallStart, Head(inbox[Hypervisor]).opCode \in {"EXIT", "ABORT"}
  PROVE  HostInv'
<1>. DEFINE sm == Head(inbox[Hypervisor])
            s == chooseIndex(sm)
            rest == handled(inbox, Hypervisor)
            i == vmTable[s[1]].apps[s[2]].deploymentIndex
            block == changeStateByIndex(deallocateApp(vmTable[s[1]], s[2]), i, "finishedOK")
<1>0. /\ CpuInv(sched, inbox, queueTable, core) /\ CallsOK(sched, inbox, queueTable, core, app)
      /\ Exits(inbox, app) /\ Boxes(sched, inbox) /\ Hypervisor \in Module
      /\ inbox[Hypervisor] # <<>> /\ TableOK(vmTable, app, sched)
  BY ModuleNames DEF HostInv, CpuInv, processSyscallStart, Arrived
<1>1. sm.opCode = "EXIT"
  <2>1. sm \in Message
    BY <1>0, BoxesHandled
  <2>. HIDE DEF sm
  <2>2. sm.opCode \in {"READ", "WRITE", "EXEC", "EXIT"}
    BY <2>1 DEF Message
  <2>. QED BY <2>2 DEF sm
<1>2. /\ s \in Slot /\ s = <<sm.vmId, sm.pid>> /\ app[s] # NoApp /\ app[s].kind = "local"
      /\ CpuInv(sched, rest, queueTable, core) /\ OnlyAnswers(inbox, rest)
      /\ Total(sched, rest, queueTable, core, s) = 0 /\ InboxCalls(rest, s) = 0
      /\ \A t \in Slot : t # s =>
           Total(sched, rest, queueTable, core, t) = Total(sched, inbox, queueTable, core, t)
  BY <1>0, <1>1, LastCall
<1>3. s[1] = sm.vmId /\ s[2] = sm.pid
  BY IndexParts
<1>4. /\ vmTable' = [vmTable EXCEPT ![s[1]] = block]
      /\ app' = Put(app, s, NoApp)
      /\ inbox' = [rest EXCEPT ![App(s)] = <<>>]
      /\ virtual' = virtual /\ freeCores' = freeCores /\ queueTable' = queueTable
      /\ commands' = commands /\ sched' = sched /\ core' = core /\ failed' = failed
  BY <1>1, <1>2, <1>3 DEF processSyscallStart, handleAppTermination, deleteApp, Put
<1>. HIDE DEF block
<1>5. rest[App(s)] = <<>>
  <2>. DEFINE q == rest[App(s)]
  <2>1. App(s) \in Module /\ rest \in [Module -> Seq(Message)] /\ Boxes(sched, rest)
    BY <1>2, ModuleNames DEF CpuInv, Boxes
  <2>2. ASSUME NEW j \in DOMAIN q PROVE FALSE
    <3>1. chooseIndex(q[j]) # s
      BY <1>2, <2>1, InboxZero
    <3>2. AtApp(q[j], s)
      BY <1>2, <2>1, FitsKinds DEF Boxes
    <3>. QED BY <3>1, <3>2 DEF AtApp, Traced
  <2>3. q \in Seq(Message)
    BY <2>1
  <2>. HIDE DEF q
  <2>4. q = <<>>
    <3>1. DOMAIN q = 1..Len(q) /\ (q # <<>> => Len(q) \in Nat \ {0})
      BY <2>3, EmptySeq, LenProperties
    <3>2. q # <<>> => 1 \in DOMAIN q
      BY <3>1
    <3>. QED BY <2>2, <3>2
  <2>. QED BY <2>4 DEF q
<1>6. inbox' = rest
  <2>1. rest \in [Module -> Seq(Message)]
    BY <1>2 DEF CpuInv, Boxes
  <2>. HIDE DEF rest
  <2>. QED BY <1>4, <1>5, <2>1
<1>7. CallsOK(sched, rest, queueTable, core, Put(app, s, NoApp))
  <2>1. /\ Put(app, s, NoApp) \in [Slot -> Application \cup {NoApp}]
        /\ Put(app, s, NoApp)[s] = NoApp
        /\ \A t \in Slot : t # s => Put(app, s, NoApp)[t] = app[t]
    BY <1>0, <1>2 DEF CallsOK, Put
  <2>. HIDE DEF rest, s
  <2>2. ASSUME NEW t \in Slot
        PROVE  /\ AppOK(Put(app, s, NoApp)[t])
               /\ Total(sched, rest, queueTable, core, t) = CallsOf(Put(app, s, NoApp)[t])
    <3>1. CASE t = s
      BY <1>2, <2>1, <3>1 DEF AppOK, CallsOf
    <3>2. CASE t # s
      BY <1>0, <1>2, <2>1, <3>2 DEF CallsOK
    <3>. QED BY <3>1, <3>2
  <2>. QED BY <2>1, <2>2 DEF CallsOK
<1>8. Exits(rest, Put(app, s, NoApp))
  <2>1. Exits(rest, app)
    <3>1. Boxes(sched, rest)
      BY <1>2 DEF CpuInv
    <3>. QED BY <1>0, <1>2, <3>1, ExitsStay
  <2>2. ASSUME NEW j \in DOMAIN rest[Hypervisor] PROVE chooseIndex(rest[Hypervisor][j]) # s
    <3>1. rest \in [Module -> Seq(Message)]
      BY <1>2 DEF CpuInv, Boxes
    <3>. QED BY <1>0, <1>2, <3>1, InboxZero
  <2>3. \A t \in Slot : t # s => Put(app, s, NoApp)[t] = app[t]
    BY <1>0 DEF CallsOK, Put
  <2>. HIDE DEF rest, s
  <2>. QED BY <2>1, <2>2, <2>3 DEF Exits, ExitOK
<1>9. TableOK([vmTable EXCEPT ![s[1]] = block], Put(app, s, NoApp), sched)
  <2>1. app[s] # Placeholder
    BY <1>2 DEF Placeholder
  <2>. HIDE DEF s, i
  <2>. QED BY <1>0, <1>2, <2>1, TerminatedTable DEF block
<1>. HIDE DEF rest, s
<1>. QED BY <1>2, <1>4, <1>6, <1>7, <1>8, <1>9 DEF HostInv

-----------------------------------------------------------------------------
(* The applications of a deployment *)

\* The block of a machine some of whose n applications have got a pid.
Allotted(block, n, b) ==
  /\ b \in BlockType
  /\ b.request = block.request /\ b.state = block.state /\ b.globalId = block.globalId
  /\ \A p \in 1..MaxApps :
       /\ b.apps[p].pid \in {p, Free}
       /\ b.apps[p].pid # Free => b.apps[p].deploymentIndex \in 1..n

LEMMA AppAllotted ==
  ASSUME NEW block, NEW n \in Nat, NEW b, Allotted(block, n, b), NEW i \in 1..n, NEW p
  PROVE  Allotted(block, n, allocateApp(b, p, i))
<1>. DEFINE apps == b.apps
            one == [pid |-> p, deploymentIndex |-> i]
            apps2 == [apps EXCEPT ![p] = one]
            new == allocateApp(b, p, i)
<1>1. /\ apps \in [1..MaxApps -> [pid : (1..MaxApps) \cup {Free}, deploymentIndex : Int]]
      /\ b \in BlockType
      /\ \A k \in 1..MaxApps : /\ apps[k].pid \in {k, Free}
                               /\ apps[k].pid # Free => apps[k].deploymentIndex \in 1..n
  BY DEF Allotted, BlockType
<1>2. new = [b EXCEPT !.apps = apps2]
  BY DEF allocateApp
<1>. HIDE DEF apps
<1>3. \A k \in 1..MaxApps : apps2[k] = IF k = p THEN one ELSE apps[k]
  BY <1>1
<1>4. \A k \in 1..MaxApps : /\ apps2[k] \in [pid : (1..MaxApps) \cup {Free}, deploymentIndex : Int]
                            /\ apps2[k].pid \in {k, Free}
                            /\ apps2[k].pid # Free => apps2[k].deploymentIndex \in 1..n
  BY <1>1, <1>3
<1>5. apps2 \in [1..MaxApps -> [pid : (1..MaxApps) \cup {Free}, deploymentIndex : Int]]
  <2>1. apps2 = [k \in 1..MaxApps |-> apps2[k]]
    BY <1>1
  <2>. HIDE DEF apps2
  <2>. QED BY <1>4, <2>1
<1>. HIDE DEF apps2
<1>6. /\ new \in BlockType /\ new.apps = apps2
      /\ new.request = b.request /\ new.state = b.state /\ new.globalId = b.globalId
  <2>. HIDE DEF new
  <2>. QED BY <1>1, <1>2, <1>5 DEF BlockType
<1>. HIDE DEF new
<1>7. Allotted(block, n, new)
  BY <1>4, <1>6 DEF Allotted
<1>. QED BY <1>7 DEF new

AppsFrom(g, block, n) ==
  g = [i \in 0..n |-> IF i = 0 THEN block ELSE allocateApp(g[i - 1], freePid(g[i - 1]), i)]

\* The blocks between the first and the last application.
AppsInTurn(g, block, n) ==
  \A i \in 0..n : /\ g[i] = IF i = 0 THEN block ELSE allocateApp(g[i - 1], freePid(g[i - 1]), i)
                  /\ Allotted(block, n, g[i])

LEMMA AppsAre ==
  ASSUME NEW block, NEW n \in Nat, Allotted(block, n, block)
  PROVE  \E g : AppsInTurn(g, block, n) /\ allocateApps(block, n) = g[n]
<1>. DEFINE Blocks == {b \in BlockType : Allotted(block, n, b)}
            step == [i \in 1..n |-> [b \in Blocks |-> allocateApp(b, freePid(b), i)]]
<1>0. \A b : b \in Blocks <=> Allotted(block, n, b)
  BY DEF Allotted
<1>1. \A i \in 1..n : \A b \in Blocks : allocateApp(b, freePid(b), i) \in Blocks
  <2>. HIDE DEF Blocks
  <2>. QED BY <1>0, AppAllotted
<1>2. step \in [1..n -> [Blocks -> Blocks]]
  <2>. HIDE DEF Blocks
  <2>. QED BY <1>1
<1>. HIDE DEF Blocks
<1>3. PICK f \in [0..n -> Blocks] : IsIteration(f, n, block, step)
  <2>. HIDE DEF step
  <2>. QED BY <1>0, <1>2, IterationExists
<1>4. \A i \in 0..n : f[i] = IF i = 0 THEN block ELSE step[i][f[i - 1]]
  BY <1>3 DEF IsIteration
<1>5. AppsFrom(f, block, n)
  <2>1. ASSUME NEW i \in 0..n, i # 0
        PROVE  f[i] = allocateApp(f[i - 1], freePid(f[i - 1]), i)
    <3>1. i \in 1..n /\ i - 1 \in 0..n
      BY <2>1
    <3>2. f[i - 1] \in Blocks
      BY <3>1
    <3>3. step[i][f[i - 1]] = allocateApp(f[i - 1], freePid(f[i - 1]), i)
      BY <3>1, <3>2
    <3>. HIDE DEF step
    <3>. QED BY <1>4, <2>1, <3>3
  <2>2. 0 \in 0..n /\ f[0] = block
    <3>. HIDE DEF step
    <3>. QED BY <1>4
  <2>3. f = [i \in 0..n |-> f[i]]
    BY <1>3
  <2>4. f = [i \in 0..n |-> IF i = 0 THEN block ELSE allocateApp(f[i - 1], freePid(f[i - 1]), i)]
    <3>. HIDE DEF step
    <3>. QED BY <2>1, <2>2, <2>3
  <2>. QED BY <2>4 DEF AppsFrom
<1>. DEFINE g == CHOOSE h : AppsFrom(h, block, n)
<1>6. AppsFrom(g, block, n)
  BY <1>5
<1>7. allocateApps(block, n) = g[n]
  BY DEF allocateApps, AppsFrom
<1>. HIDE DEF g
<1>8. \A i \in 0..n : g[i] = IF i = 0 THEN block ELSE allocateApp(g[i - 1], freePid(g[i - 1]), i)
  BY <1>6 DEF AppsFrom
<1>9. \A i \in 0..n : g[i] \in Blocks
  <2>. DEFINE Good == {i \in 0..n : g[i] \in Blocks}
  <2>1. 0 \in Good
    BY <1>0, <1>8
  <2>2. \A i \in 1..n : i - 1 \in Good => i \in Good
    BY <1>1, <1>8
  <2>3. 0..n \subseteq Good
    <3>. HIDE DEF Good
    <3>. QED BY <2>1, <2>2, BoundedInduction
  <2>. QED BY <2>3
<1>10. AppsInTurn(g, block, n)
  BY <1>0, <1>8, <1>9 DEF AppsInTurn
<1>. QED BY <1>7, <1>10

LEMMA AllAllotted ==
  ASSUME NEW block, NEW n \in Nat, Allotted(block, n, block)
  PROVE  Allotted(block, n, allocateApps(block, n))
<1>1. PICK g : AppsInTurn(g, block, n) /\ allocateApps(block, n) = g[n]
  BY AppsAre
<1>2. n \in 0..n
  OBVIOUS
<1>. QED BY <1>1, <1>2 DEF AppsInTurn

LEMMA FailHost ==
  ASSUME HostInv, Fail
  PROVE  HostInv'
BY DEF HostInv, Fail, hostVars

NewDeployment(block, kinds) ==
  allocateApps(associateDeploymentToVm(block, [i \in DOMAIN kinds |-> "waiting"]), Len(kinds))

\* The applications a block is given are new ones, of the kinds deployed.
Given(block, kinds, v, ap) ==
  /\ block \in BlockType /\ block.request # NoRequest /\ block.state # "idle"
  /\ \A p \in 1..MaxApps :
       /\ block.apps[p].pid \in {p, Free} /\ ap[<<v, p>>] = Placeholder
       /\ block.apps[p].pid # Free => kinds[block.apps[p].deploymentIndex] \in {"local", "iot"}

\* A machine with a name and without a deployment gets one.
LEMMA Deployed ==
  ASSUME NEW tab, NEW ap, NEW sch, TableOK(tab, ap, sch), NEW v \in Vm,
         NEW g \in GlobalVm \cup {HostName}, tab[v].globalId = g, tab[v].request = NoRequest,
         NEW kinds, kinds = Deployment[g], NEW block, block = NewDeployment(tab[v], kinds)
  PROVE  Given(block, kinds, v, ap)
<1>. DEFINE old == tab[v]
            waits == [i \in DOMAIN kinds |-> "waiting"]
            mid == associateDeploymentToVm(old, waits)
            States == {"waiting", "finishedOK", "finishedError"}
            n == Len(kinds)
<1>1. kinds \in Seq({"local", "iot"}) /\ n \in Nat /\ DOMAIN kinds = 1..n
  BY HostConstants
<1>2. waits \in Seq(States) /\ waits # NoRequest
  <2>1. waits \in Seq(States)
    <3>. HIDE DEF n
    <3>. QED BY <1>1
  <2>2. NoRequest \notin Seq(States)
    BY HostConstants
  <2>. HIDE DEF waits, States
  <2>. QED BY <2>1, <2>2
<1>3. /\ old \in BlockType /\ old.state # "idle"
      /\ \A p \in 1..MaxApps : old.apps[p].pid = Free /\ ap[<<v, p>>] = Placeholder
  BY HostConstants DEF TableOK, BlockOK
<1>4. /\ mid \in BlockType /\ mid.request = waits /\ mid.state = old.state
      /\ mid.apps = old.apps
  <2>1. mid = [old EXCEPT !.request = waits]
    BY DEF associateDeploymentToVm
  <2>. HIDE DEF waits, old, mid
  <2>. QED BY <1>2, <1>3, <2>1 DEF BlockType
<1>. HIDE DEF waits, old, mid, n, States
<1>5. Allotted(mid, n, mid)
  BY <1>3, <1>4 DEF Allotted
<1>6. Allotted(mid, n, block)
  <2>1. block = allocateApps(mid, n)
    BY DEF mid, old, waits, n, NewDeployment
  <2>. QED BY <1>1, <1>5, <2>1, AllAllotted
<1>7. \A i \in 1..n : kinds[i] \in {"local", "iot"}
  BY <1>1, ElementOfSeq DEF n
<1>. QED BY <1>2, <1>3, <1>4, <1>6, <1>7 DEF Allotted, Given

LEMMA AppRequestHost ==
  ASSUME HostInv, NEW g \in GlobalVm \cup {HostName}, handleAppRequest(g)
  PROVE  HostInv'
<1>. DEFINE v == getLocalVmId(vmTable, g)
            kinds == Deployment[g]
            block == allocateApps(
                       associateDeploymentToVm(vmTable[v], [i \in DOMAIN kinds |-> "waiting"]),
                       Len(kinds))
            new(s) == IF s[1] = v /\ block.apps[s[2]].pid # Free
                        THEN built(app[s], kinds[block.apps[s[2]].deploymentIndex])
                        ELSE app[s]
<1>1. /\ Mapped(vmTable, g) /\ vmTable[v].request = NoRequest
      /\ \/ Fail
         \/ /\ vmTable' = [vmTable EXCEPT ![v] = block]
            /\ app' = [s \in Slot |-> new(s)]
            /\ UNCHANGED <<virtual, freeCores, queueTable, commands, events, cpuVars>>
  BY DEF handleAppRequest
<1>2. CASE Fail
  BY <1>2, FailHost
<1>3. CASE /\ vmTable' = [vmTable EXCEPT ![v] = block]
           /\ app' = [s \in Slot |-> new(s)]
           /\ UNCHANGED <<virtual, freeCores, queueTable, commands, events, cpuVars>>
  <2>1. TableOK(vmTable, app, sched) /\ DOMAIN vmTable = Vm
    BY DEF HostInv, TableOK
  <2>2. v \in Vm /\ vmTable[v].globalId = g
    BY <1>1, <2>1 DEF Mapped, getLocalVmId
  <2>. HIDE DEF v
  <2>3. /\ block \in BlockType /\ block.request # NoRequest /\ block.state # "idle"
        /\ \A p \in 1..MaxApps :
             /\ block.apps[p].pid \in {p, Free} /\ app[<<v, p>>] = Placeholder
             /\ block.apps[p].pid # Free =>
                  kinds[block.apps[p].deploymentIndex] \in {"local", "iot"}
    <3>1. block = NewDeployment(vmTable[v], kinds) /\ kinds = Deployment[g]
      BY DEF NewDeployment
    <3>2. TableOK(vmTable, app, sched) /\ vmTable[v].request = NoRequest
      BY <1>1, <2>1 DEF v
    <3>. HIDE DEF block, kinds, new
    <3>3. Given(block, kinds, v, app)
      BY <2>2, <3>1, <3>2, Deployed
    <3>. QED BY <3>3 DEF Given
  <2>. HIDE DEF block, kinds
  <2>4. ASSUME NEW s \in Slot
        PROVE  \/ app'[s] = app[s]
               \/ /\ s[1] = v /\ app[s] = Placeholder
                  /\ \E k \in {"local", "iot"} : app'[s] = built(app[s], k)
    BY <1>3, <2>3, SlotParts
  <2>5. ASSUME NEW k \in {"local", "iot"}
        PROVE  built(Placeholder, k) \in Application /\ AppOK(built(Placeholder, k))
               /\ built(Placeholder, k).calls = 0
    <3>1. Placeholder \in Application /\ Placeholder.calls = 0
      BY DEF Placeholder, Application
    <3>2. PICK b : b = built(Placeholder, k)
      OBVIOUS
    <3>3. b = [Placeholder EXCEPT !.kind = k, !.step = "starting"]
      BY <3>2 DEF built
    <3>4. b \in Application /\ b.calls = 0 /\ b.kind = k
      BY <3>1, <3>3 DEF Application
    <3>. QED BY <3>2, <3>4 DEF AppOK
  <2>6. CallsOK(sched, inbox, queueTable, core, app')
    <3>1. ASSUME NEW s \in Slot
          PROVE  /\ app'[s] \in Application \cup {NoApp} /\ AppOK(app'[s])
                 /\ CallsOf(app'[s]) = CallsOf(app[s])
      <4>1. CASE app'[s] = app[s]
        BY <4>1 DEF HostInv, CallsOK
      <4>2. ASSUME app[s] = Placeholder, NEW k \in {"local", "iot"}, app'[s] = built(app[s], k)
            PROVE  /\ app'[s] \in Application \cup {NoApp} /\ AppOK(app'[s])
                   /\ CallsOf(app'[s]) = CallsOf(app[s])
        <5>1. Placeholder # NoApp /\ built(Placeholder, k) # NoApp /\ Placeholder.calls = 0
          <6>1. Placeholder \in Application /\ Placeholder.calls = 0
            BY DEF Placeholder, Application
          <6>. QED BY <2>5, <6>1, Nothing
        <5>. QED BY <2>5, <4>2, <5>1 DEF CallsOf
      <4>. QED BY <2>4, <4>1, <4>2
    <3>2. app' \in [Slot -> Application \cup {NoApp}]
      <4>1. app' = [s \in Slot |-> app'[s]]
        BY <1>3
      <4>. QED BY <3>1, <4>1
    <3>. QED BY <3>1, <3>2 DEF HostInv, CallsOK
  <2>7. Exits(inbox, app')
    <3>1. Placeholder.kind = "default"
      BY DEF Placeholder
    <3>2. ASSUME NEW sm, ExitOK(sm, app) PROVE ExitOK(sm, app')
      BY <2>4, <3>1, <3>2 DEF ExitOK
    <3>. QED BY <3>2 DEF HostInv, Exits
  <2>8. TableOK(vmTable', app', sched)
    <3>1. ASSUME NEW w \in Vm PROVE BlockOK(w, vmTable'[w], app', sched[w])
      <4>1. CASE w = v
        BY <1>3, <2>1, <2>3, <4>1 DEF BlockOK, TableOK
      <4>2. CASE w # v
        <5>1. vmTable'[w] = vmTable[w] /\ BlockOK(w, vmTable[w], app, sched[w])
          BY <1>3, <2>1, <4>2 DEF TableOK
        <5>2. \A p \in 1..MaxApps : <<w, p>> \in Slot /\ <<w, p>>[1] = w
          BY DEF Slot
        <5>3. \A p \in 1..MaxApps : app'[<<w, p>>] = app[<<w, p>>]
          BY <2>4, <4>2, <5>2
        <5>. QED BY <5>1, <5>3 DEF BlockOK
      <4>. QED BY <4>1, <4>2
    <3>2. vmTable' \in [Vm -> BlockType]
      BY <1>3, <2>1, <2>3 DEF TableOK
    <3>. QED BY <3>1, <3>2 DEF TableOK
  <2>. QED BY <1>3, <2>6, <2>7, <2>8 DEF HostInv, cpuVars
<1>. QED BY <1>1, <1>2, <1>3

-----------------------------------------------------------------------------
(* The cores of a new machine *)

LEMMA LeastIs ==
  ASSUME NEW S \in SUBSET Nat, S # {}
  PROVE  LeastOf(S) \in S /\ \A y \in S : LeastOf(S) <= y
BY LeastNatural DEF LeastOf

\* What is left of the free cores when the first one is taken.
Rest(X) == {c \in X : \E d \in X : d < c}

LEMMA RestIs ==
  ASSUME NEW X, X \subseteq CpuCores, X # {}
  PROVE  /\ LeastOf(X) \in X /\ LeastOf(X) \notin Rest(X)
         /\ Rest(X) \subseteq X /\ Cardinality(Rest(X)) = Cardinality(X) - 1
<1>1. X \in SUBSET Nat /\ IsFiniteSet(X)
  BY Finite, FS_Subset
<1>2. LeastOf(X) \in X /\ \A y \in X : LeastOf(X) <= y
  BY <1>1, LeastIs
<1>3. Rest(X) = X \ {LeastOf(X)}
  <2>1. PICK m : m = LeastOf(X)
    OBVIOUS
  <2>2. m \in X /\ \A y \in X : m <= y /\ y \in Nat
    BY <1>1, <1>2, <2>1
  <2>3. \A y \in X : y # m => m < y
    BY <2>2
  <2>4. \A y \in X : ~(y < m)
    BY <2>2
  <2>5. ASSUME NEW c PROVE c \in Rest(X) <=> c \in X \ {m}
    BY <2>2, <2>3, <2>4 DEF Rest
  <2>. QED BY <2>1, <2>5
<1>4. Cardinality(X \ {LeastOf(X)}) = Cardinality(X) - 1
  BY <1>1, <1>2, FS_RemoveElement
<1>. QED BY <1>2, <1>3, <1>4

\* left[i] are the cores that are left when i of them were taken.
LeftFrom(left, free, n) ==
  left = [i \in 0..n |-> IF i = 0 THEN free ELSE {c \in left[i - 1] : \E d \in left[i - 1] : d < c}]

\* There is such a function, and the allocated cores are those it leaves out.
TakenFrom(left, free, n, index) ==
  /\ left[0] = free /\ \A i \in 1..n : left[i] = Rest(left[i - 1])
  /\ index = [i \in 1..n |-> IF left[i - 1] # {} THEN LeastOf(left[i - 1])
                             ELSE IF i = 1 THEN NotACore ELSE FirstCore]

LEMMA LeftExists ==
  ASSUME NEW free, NEW n \in Nat
  PROVE  \E left : TakenFrom(left, free, n, allocatedCores(free, n))
<1>. DEFINE Sets == SUBSET free
            step == [i \in 1..n |-> [X \in Sets |-> Rest(X)]]
<1>1. \A X \in Sets : Rest(X) \in Sets
  BY DEF Rest
<1>2. step \in [1..n -> [Sets -> Sets]]
  <2>. HIDE DEF Sets
  <2>. QED BY <1>1
<1>3. free \in Sets
  OBVIOUS
<1>. HIDE DEF Sets
<1>4. PICK f \in [0..n -> Sets] : IsIteration(f, n, free, step)
  <2>. HIDE DEF step
  <2>. QED BY <1>2, <1>3, IterationExists
<1>5. \A i \in 0..n : f[i] = IF i = 0 THEN free ELSE step[i][f[i - 1]]
  BY <1>4 DEF IsIteration
<1>6. LeftFrom(f, free, n)
  <2>1. ASSUME NEW i \in 0..n, i # 0
        PROVE  f[i] = Rest(f[i - 1])
    <3>1. i \in 1..n /\ i - 1 \in 0..n
      BY <2>1
    <3>2. f[i - 1] \in Sets
      BY <3>1
    <3>3. step[i][f[i - 1]] = Rest(f[i - 1])
      BY <3>1, <3>2
    <3>. HIDE DEF step
    <3>. QED BY <1>5, <2>1, <3>3
  <2>2. f[0] = free
    <3>. HIDE DEF step
    <3>. QED BY <1>5
  <2>3. f = [i \in 0..n |-> f[i]]
    BY <1>4
  <2>4. f = [i \in 0..n |-> IF i = 0 THEN free ELSE Rest(f[i - 1])]
    <3>. HIDE DEF step
    <3>. QED BY <2>1, <2>2, <2>3
  <2>. QED BY <2>4 DEF LeftFrom, Rest
<1>. DEFINE left == CHOOSE h : LeftFrom(h, free, n)
<1>7. LeftFrom(left, free, n)
  BY <1>6
<1>8. allocatedCores(free, n) = [i \in 1..n |-> IF left[i - 1] # {} THEN LeastOf(left[i - 1])
                                               ELSE IF i = 1 THEN NotACore ELSE FirstCore]
  BY DEF allocatedCores, LeftFrom
<1>. HIDE DEF left
<1>9. left[0] = free /\ \A i \in 1..n : left[i] = Rest(left[i - 1])
  <2>1. left = [i \in 0..n |-> IF i = 0 THEN free ELSE Rest(left[i - 1])]
    BY <1>7 DEF LeftFrom, Rest
  <2>2. \A i \in 0..n : left[i] = IF i = 0 THEN free ELSE Rest(left[i - 1])
    BY <2>1
  <2>. QED BY <2>2
<1>10. TakenFrom(left, free, n, allocatedCores(free, n))
  BY <1>8, <1>9 DEF TakenFrom
<1>. QED BY <1>10

\* The cores of a machine are free ones, all distinct, and no more than asked.
AllocationOK(free, n, index, still) ==
  /\ index \in [1..n -> free] /\ index \in Seq(CpuCores) /\ Len(index) = n
  /\ \A i, j \in DOMAIN index : index[i] = index[j] => i = j
  /\ \A i \in DOMAIN index : index[i] \notin still
  /\ still \subseteq free /\ Cardinality(still) >= Cardinality(free) - n

LEMMA CoresAllocated ==
  ASSUME NEW free, free \subseteq CpuCores, NEW n \in Nat, n <= Cardinality(free),
         NEW index, index = allocatedCores(free, n),
         NEW still, still = free \ {index[i] : i \in DOMAIN index}
  PROVE  AllocationOK(free, n, index, still)
<1>0. PICK left : TakenFrom(left, free, n, index)
  BY LeftExists
<1>1. /\ left[0] = free /\ \A i \in 1..n : left[i] = Rest(left[i - 1])
      /\ index = [i \in 1..n |-> IF left[i - 1] # {} THEN LeastOf(left[i - 1])
                                 ELSE IF i = 1 THEN NotACore ELSE FirstCore]
  BY <1>0 DEF TakenFrom
<1>2. IsFiniteSet(free) /\ Cardinality(free) \in Nat
  BY Finite, FS_Subset, FS_CardinalityType
<1>. DEFINE Good == {i \in 0..n : left[i] \subseteq free /\ Cardinality(left[i]) = Cardinality(free) - i}
<1>3. \A i \in 1..n : i - 1 \in Good =>
        /\ left[i - 1] # {} /\ left[i - 1] \subseteq CpuCores
        /\ i \in Good
  <2>1. SUFFICES ASSUME NEW i \in 1..n, i - 1 \in Good
                 PROVE  left[i - 1] # {} /\ left[i - 1] \subseteq CpuCores /\ i \in Good
    OBVIOUS
  <2>2. left[i - 1] \subseteq free /\ Cardinality(left[i - 1]) = Cardinality(free) - (i - 1)
    BY <2>1
  <2>3. Cardinality(left[i - 1]) # 0
    BY <1>2, <2>2
  <2>4. left[i - 1] # {}
    BY <2>3, FS_EmptySet
  <2>5. /\ Rest(left[i - 1]) \subseteq left[i - 1]
        /\ Cardinality(Rest(left[i - 1])) = Cardinality(left[i - 1]) - 1
    BY <2>2, <2>4, RestIs
  <2>6. left[i] = Rest(left[i - 1])
    BY <1>1
  <2>. QED BY <1>2, <2>2, <2>4, <2>5, <2>6
<1>4. 0..n \subseteq Good
  <2>1. 0 \in Good
    BY <1>1, <1>2
  <2>. HIDE DEF Good
  <2>. QED BY <1>3, <2>1, BoundedInduction
<1>5. ASSUME NEW i \in 1..n
      PROVE  /\ index[i] \in left[i - 1] /\ index[i] \notin left[i]
             /\ left[i] \subseteq left[i - 1] /\ index[i] \in free
  <2>1. i - 1 \in Good
    BY <1>4
  <2>2. left[i - 1] # {} /\ left[i - 1] \subseteq CpuCores /\ left[i - 1] \subseteq free
    BY <1>3, <2>1
  <2>3. index[i] = LeastOf(left[i - 1]) /\ left[i] = Rest(left[i - 1])
    BY <1>1, <2>2
  <2>. QED BY <2>2, <2>3, RestIs
<1>6. ASSUME NEW i \in 1..n, NEW j \in i..n
      PROVE  left[j] \subseteq left[i]
  <2>. DEFINE Less == {k \in 0..n : k >= i => left[k] \subseteq left[i]}
  <2>1. 0 \in Less
    OBVIOUS
  <2>2. \A k \in 1..n : k - 1 \in Less => k \in Less
    <3>1. ASSUME NEW k \in 1..n, k - 1 \in Less, k >= i, k # i PROVE left[k] \subseteq left[i]
      <4>1. left[k - 1] \subseteq left[i]
        BY <3>1
      <4>. QED BY <1>5, <4>1
    <3>. QED BY <3>1
  <2>3. 0..n \subseteq Less
    <3>. HIDE DEF Less
    <3>. QED BY <2>1, <2>2, BoundedInduction
  <2>. QED BY <2>3
<1>7. DOMAIN index = 1..n /\ index \in [1..n -> free]
  <2>1. index = [i \in 1..n |-> index[i]] /\ DOMAIN index = 1..n
    BY <1>1
  <2>. QED BY <1>5, <2>1
<1>8. \A i, j \in 1..n : i < j => index[i] # index[j]
  <2>1. SUFFICES ASSUME NEW i \in 1..n, NEW j \in 1..n, i < j PROVE index[i] # index[j]
    OBVIOUS
  <2>2. j - 1 \in i..n /\ j - 1 \in 1..n
    BY <2>1
  <2>3. left[j - 1] \subseteq left[i]
    BY <1>6, <2>2
  <2>. QED BY <1>5, <2>3
<1>9. \A i, j \in DOMAIN index : index[i] = index[j] => i = j
  BY <1>7, <1>8
<1>10. left[n] \subseteq still
  <2>1. \A i \in 1..n : left[n] \subseteq left[i]
    BY <1>6
  <2>2. left[n] \subseteq free
    BY <1>4
  <2>. QED BY <1>5, <1>7, <2>1, <2>2
<1>11. Cardinality(still) >= Cardinality(free) - n
  <2>1. IsFiniteSet(still)
    BY <1>2, FS_Subset
  <2>2. Cardinality(left[n]) <= Cardinality(still)
    BY <1>10, <2>1, FS_Subset
  <2>3. Cardinality(left[n]) = Cardinality(free) - n
    BY <1>4
  <2>4. Cardinality(still) \in Nat
    BY <2>1, FS_CardinalityType
  <2>. QED BY <1>2, <2>2, <2>3, <2>4
<1>12. index \in Seq(CpuCores) /\ Len(index) = n
  BY <1>7
<1>. QED BY <1>7, <1>9, <1>11, <1>12 DEF AllocationOK

\* No computation of v is out on a core that is not of v.
LEMMA NotOwnedOut ==
  ASSUME NEW sch, NEW box, NEW disks, NEW co, CpuInv(sch, box, disks, co), NEW v \in Vm,
         NEW c \in CpuCores, ~Owned(sch, v, c)
  PROVE  OutOn(box, co, v, c) = 0
<1>1. /\ Boxes(sch, box) /\ box \in [Module -> Seq(Message)] /\ InCores(sch, co)
      /\ Hub \in Module /\ Core(c) \in Module /\ Scheduler(v) \in Module
  BY ModuleNames DEF CpuInv, Boxes
<1>2. Among(box[Hub], OfCore(v, c)) = 0
  <2>1. ASSUME NEW i \in DOMAIN box[Hub] PROVE box[Hub][i] \notin OfCore(v, c)
    <3>. DEFINE sm == box[Hub][i]
                s == chooseIndex(sm)
    <3>1. AtHub(sch, sm, s) /\ s[1] = sm.vmId
      BY <1>1, FitsKinds, IndexParts DEF Boxes
    <3>. QED BY <3>1 DEF AtHub, Answered, OfCore
  <2>2. box[Hub] \in Seq(Message)
    BY <1>1
  <2>. QED BY <2>1, <2>2, AmongType
<1>3. Among(box[Core(c)], OfCore(v, c)) = 0
  <2>1. ASSUME NEW i \in DOMAIN box[Core(c)] PROVE box[Core(c)][i] \notin OfCore(v, c)
    <3>. DEFINE sm == box[Core(c)][i]
                s == chooseIndex(sm)
    <3>1. AtCore(sch, c, sm, s) /\ s[1] = sm.vmId
      BY <1>1, FitsKinds, IndexParts DEF Boxes
    <3>. QED BY <3>1 DEF AtCore, OfCore
  <2>2. box[Core(c)] \in Seq(Message)
    BY <1>1
  <2>. QED BY <2>1, <2>2, AmongType
<1>4. Among(box[Scheduler(v)], BackFrom(c)) = 0
  <2>1. ASSUME NEW i \in DOMAIN box[Scheduler(v)] PROVE box[Scheduler(v)][i] \notin BackFrom(c)
    <3>. DEFINE sm == box[Scheduler(v)][i]
                s == chooseIndex(sm)
    <3>1. AtScheduler(sch, v, sm, s)
      BY <1>1, FitsKinds DEF Boxes
    <3>. QED BY <3>1 DEF AtScheduler, Asked, Answered, BackFrom
  <2>2. box[Scheduler(v)] \in Seq(Message)
    BY <1>1
  <2>. QED BY <2>1, <2>2, AmongType
<1>5. co[c] \notin OfCore(v, c)
  <2>1. CASE co[c] = NoCall
    BY <2>1, Nothing DEF OfCore
  <2>2. CASE InCore(sch, c, co[c], chooseIndex(co[c]))
    <3>1. chooseIndex(co[c])[1] = co[c].vmId
      BY IndexParts
    <3>. QED BY <2>2, <3>1 DEF InCore, OfCore
  <2>. QED BY <1>1, <2>1, <2>2 DEF InCores
<1>6. One(co[c], OfCore(v, c)) = 0
  BY <1>5 DEF One
<1>. QED BY <1>2, <1>3, <1>4, <1>6 DEF OutOn

LEMMA StartedIs ==
  ASSUME NEW index, NEW all, all = [i \in 1..Len(index) |-> TRUE]
  PROVE  LET sc == StartedScheduler(IdleScheduler, index)
         IN  sc = [running |-> TRUE, index |-> index, cores |-> all, requestsQueue |-> <<>>]
<1>1. PICK a : a = setManagedCpuCores(IdleScheduler, Len(index))
  OBVIOUS
<1>2. PICK b : b = setCpuCoreIndex(a, index)
  OBVIOUS
<1>3. PICK c : c = setIsRunning(b)
  OBVIOUS
<1>4. a = [running |-> FALSE, index |-> <<>>, cores |-> all, requestsQueue |-> <<>>]
  BY <1>1 DEF setManagedCpuCores, IdleScheduler
<1>5. b = [running |-> FALSE, index |-> index, cores |-> all, requestsQueue |-> <<>>]
  BY <1>2, <1>4 DEF setCpuCoreIndex
<1>6. c = [running |-> TRUE, index |-> index, cores |-> all, requestsQueue |-> <<>>]
  BY <1>3, <1>5 DEF setIsRunning
<1>7. StartedScheduler(IdleScheduler, index) = c
  BY <1>1, <1>2, <1>3 DEF StartedScheduler
<1>. QED BY <1>6, <1>7

\* A machine is started: its scheduler gets cores that nobody had.
LEMMA MachineStarted ==
  ASSUME NEW sch, NEW box, NEW disks, NEW co, CpuInv(sch, box, disks, co), NEW v \in Vm,
         sch[v] = IdleScheduler, NEW index \in Seq(CpuCores),
         \A i, j \in DOMAIN index : index[i] = index[j] => i = j,
         \A w \in Vm : \A i \in DOMAIN sch[w].index, j \in DOMAIN index :
           sch[w].index[i] # index[j]
  PROVE  Kept(sch, box, disks, co, Put(sch, v, StartedScheduler(IdleScheduler, index)), box, disks, co)
<1>. DEFINE n == Len(index)
            cores == [i \in 1..n |-> TRUE]
            sc == StartedScheduler(IdleScheduler, index)
            sch2 == Put(sch, v, sc)
<1>1. sc = [running |-> TRUE, index |-> index, cores |-> cores, requestsQueue |-> <<>>]
  BY StartedIs
<1>2. n \in Nat /\ DOMAIN index = 1..n /\ \A i \in 1..n : index[i] \in CpuCores
  BY LenProperties, ElementOfSeq
<1>3. cores \in Seq(BOOLEAN) /\ Len(cores) = n /\ DOMAIN cores = 1..n /\ \A i \in 1..n : cores[i] = TRUE
  BY <1>2
<1>. HIDE DEF cores, n, sc
<1>4. /\ sc \in SchedulerType /\ sc.running /\ sc.index = index /\ sc.cores = cores
      /\ sc.requestsQueue = <<>>
  BY <1>1, <1>3 DEF SchedulerType
<1>5. SchedulerOK(v, sc)
  BY <1>2, <1>3, <1>4 DEF SchedulerOK, n
<1>6. sch \in [Vm -> SchedulerType] /\ \A w \in Vm : SchedulerOK(w, sch[w])
  BY DEF CpuInv, Machines
<1>7. sch2 \in [Vm -> SchedulerType] /\ sch2[v] = sc /\ \A w \in Vm : w # v => sch2[w] = sch[w]
  BY <1>4, <1>6 DEF Put
<1>. HIDE DEF sch2
<1>8. Machines(sch2)
  BY <1>5, <1>6, <1>7 DEF Machines
<1>9. Disjoint(sch2)
  <2>1. SUFFICES ASSUME NEW w \in Vm, NEW x \in Vm, w # x,
                        NEW i \in DOMAIN sch2[w].index, NEW j \in DOMAIN sch2[x].index
                 PROVE  sch2[w].index[i] # sch2[x].index[j]
    BY DEF Disjoint
  <2>. QED BY <1>4, <1>7, <2>1 DEF CpuInv, Disjoint
<1>10. OwnedStays(sch, sch2)
  <2>1. ASSUME NEW c PROVE ~Owned(sch, v, c)
    BY DEF Owned, IdleScheduler
  <2>. QED BY <1>7, <2>1 DEF OwnedStays, Owned
<1>11. Boxes(sch2, box) /\ InCores(sch2, co)
  BY <1>10, BoxesStay, InCoresStay DEF CpuInv
<1>12. Busy(sch2, box, co)
  <2>1. ASSUME NEW i \in DOMAIN sc.cores
        PROVE  OutOn(box, co, v, sc.index[i]) = IF sc.cores[i] THEN 0 ELSE 1
    <3>1. sc.index[i] \in CpuCores /\ sc.cores[i] = TRUE
      BY <1>2, <1>3, <1>4
    <3>2. ~Owned(sch, v, sc.index[i])
      BY DEF Owned, IdleScheduler
    <3>. QED BY <3>1, <3>2, NotOwnedOut
  <2>2. ASSUME NEW w \in Vm, NEW i \in DOMAIN sch2[w].cores
        PROVE  OutOn(box, co, w, sch2[w].index[i]) = IF sch2[w].cores[i] THEN 0 ELSE 1
    <3>1. CASE w = v
      BY <1>7, <2>1, <3>1
    <3>2. CASE w # v
      BY <1>7, <3>2 DEF CpuInv, Busy
    <3>. QED BY <3>1, <3>2
  <2>. QED BY <2>2 DEF Busy
<1>13. CpuInv(sch2, box, disks, co)
  BY <1>8, <1>9, <1>11, <1>12 DEF CpuInv
<1>14. ASSUME NEW t \in Slot PROVE Total(sch2, box, disks, co, t) = Total(sch, box, disks, co, t)
  <2>1. InboxCalls(box, t) \in Nat
    BY InboxType
  <2>2. Among(sc.requestsQueue, OfSlot(t)) = Among(sch[v].requestsQueue, OfSlot(t))
    BY <1>4 DEF IdleScheduler
  <2>3. InboxCalls(box, t) + Among(sc.requestsQueue, OfSlot(t))
          = InboxCalls(box, t) + Among(sch[v].requestsQueue, OfSlot(t))
    BY <2>2
  <2>4. Total(Put(sch, v, sc), box, disks, co, t) = Total(sch, box, disks, co, t)
    BY <1>4, <2>1, <2>3, SchedulerTotal
  <2>. QED BY <2>4 DEF sch2
<1>15. Kept(sch, box, disks, co, sch2, box, disks, co)
  BY <1>13, <1>14 DEF Kept
<1>. QED BY <1>15 DEF sch2, sc

-----------------------------------------------------------------------------
(* A request for machines *)

\* The cores of the first i machines of the request r.
Spent(r, i) == SumFunction([j \in 1..i |-> Cores[r[j]]])

LEMMA SpentIs ==
  ASSUME NEW r \in Seq(GlobalVm)
  PROVE  /\ Spent(r, 0) = 0
         /\ \A i \in 0..Len(r) : Spent(r, i) \in Nat
         /\ \A i \in 1..Len(r) : Spent(r, i) = Spent(r, i - 1) + Cores[r[i]]
         /\ \A i \in 0..Len(r) : Spent(r, i) <= Spent(r, Len(r))
<1>. DEFINE f(i) == [j \in 1..i |-> Cores[r[j]]]
            n == Len(r)
<1>1. n \in Nat /\ \A i \in 1..n : r[i] \in GlobalVm /\ Cores[r[i]] \in Nat
  BY LenProperties, ElementOfSeq, HostConstants
<1>2. ASSUME NEW i \in 0..n PROVE f(i) \in [1..i -> Nat] /\ IsFiniteSet(1..i)
  BY <1>1, FS_Interval
<1>3. \A i \in 0..n : Spent(r, i) \in Nat
  <2>1. SUFFICES ASSUME NEW i \in 0..n PROVE SumFunction(f(i)) \in Nat
    BY DEF Spent
  <2>2. f(i) \in [1..i -> Nat] /\ IsFiniteSet(1..i)
    BY <1>2
  <2>. HIDE DEF f
  <2>. QED BY <2>2, SumType
<1>4. \A i \in 1..n : Spent(r, i) = Spent(r, i - 1) + Cores[r[i]]
  <2>1. SUFFICES ASSUME NEW i \in 1..n PROVE Spent(r, i) = Spent(r, i - 1) + Cores[r[i]]
    OBVIOUS
  <2>2. f(i) \in [1..i -> Nat] /\ IsFiniteSet(1..i) /\ i \in 1..i
    BY <1>2
  <2>3. f(i - 1) = [x \in (1..i) \ {i} |-> f(i)[x]]
    <3>1. 1..(i - 1) = (1..i) \ {i}
      OBVIOUS
    <3>. QED BY <3>1
  <2>4. i - 1 \in 0..n /\ f(i)[i] \in Nat
    BY <2>2
  <2>5. SumFunction(f(i - 1)) \in Nat
    BY <1>3, <2>4 DEF Spent
  <2>. DEFINE a == f(i)
              b == f(i - 1)
  <2>6. SumFunction(a) = a[i] + SumFunction(b)
    <3>1. a \in [1..i -> Nat] /\ IsFiniteSet(1..i) /\ i \in 1..i /\ b = [x \in (1..i) \ {i} |-> a[x]]
      BY <2>2, <2>3
    <3>. HIDE DEF a, b
    <3>. QED BY ZenonT(60), <3>1, SumSplit
  <2>7. a[i] \in Nat /\ SumFunction(b) \in Nat
    BY <2>4, <2>5
  <2>8. SumFunction(a) = SumFunction(b) + a[i]
    <3>. HIDE DEF a, b
    <3>. QED BY <2>6, <2>7
  <2>9. a[i] = Cores[r[i]] /\ Spent(r, i) = SumFunction(a) /\ Spent(r, i - 1) = SumFunction(b)
    BY DEF Spent
  <2>. HIDE DEF a, b
  <2>. QED BY <2>8, <2>9
<1>5. Spent(r, 0) = 0
  <2>1. f(0) = [x \in {} |-> f(0)[x]]
    OBVIOUS
  <2>2. SumFunction(f(0)) = 0
    <3>. HIDE DEF f
    <3>. QED BY <2>1, SumOfNothing
  <2>. QED BY <2>2 DEF Spent
<1>6. \A i \in 0..n : Spent(r, i) <= Spent(r, n)
  <2>. DEFINE Good == {k \in 0..n : \A i \in 0..k : Spent(r, i) <= Spent(r, k)}
  <2>1. 0 \in Good
    BY <1>1, <1>3
  <2>2. \A k \in 1..n : k - 1 \in Good => k \in Good
    <3>1. SUFFICES ASSUME NEW k \in 1..n, k - 1 \in Good, NEW i \in 0..k
                   PROVE  Spent(r, i) <= Spent(r, k)
      OBVIOUS
    <3>2. /\ Spent(r, k) = Spent(r, k - 1) + Cores[r[k]]
          /\ Spent(r, k) \in Nat /\ Spent(r, k - 1) \in Nat /\ Cores[r[k]] \in Nat
      BY <1>1, <1>3, <1>4
    <3>3. CASE i = k
      BY <3>2, <3>3
    <3>4. CASE i # k
      <4>1. i \in 0..(k - 1) /\ i \in 0..n
        BY <3>4
      <4>2. Spent(r, i) <= Spent(r, k - 1) /\ Spent(r, i) \in Nat
        BY <1>3, <3>1, <4>1
      <4>. QED BY <3>2, <4>2
    <3>. QED BY <3>3, <3>4
  <2>3. 0..n \subseteq Good
    <3>. HIDE DEF Good
    <3>. QED BY <1>1, <2>1, <2>2, BoundedInduction
  <2>4. n \in Good
    BY <1>1, <2>3
  <2>. QED BY <2>4
<1>. QED BY <1>3, <1>4, <1>5, <1>6

\* What a request takes is what the others of its set leave.
LEMMA DemandSplit ==
  ASSUME NEW C, C \subseteq Requests, NEW r \in C
  PROVE  /\ Demand(C) = Spent(r, Len(r)) + Demand(C \ {r})
         /\ Spent(r, Len(r)) \in Nat /\ Demand(C \ {r}) \in Nat /\ Demand(C) \in Nat
<1>. DEFINE of(x) == SumFunction([i \in DOMAIN x |-> Cores[x[i]]])
            f == [x \in C |-> of(x)]
            g == [x \in C \ {r} |-> of(x)]
<1>1. IsFiniteSet(C) /\ IsFiniteSet(C \ {r}) /\ C \subseteq Seq(GlobalVm)
  BY HostConstants, FS_Subset
<1>2. ASSUME NEW x \in C PROVE of(x) = Spent(x, Len(x)) /\ of(x) \in Nat
  <2>1. x \in Seq(GlobalVm) /\ DOMAIN x = 1..Len(x) /\ Len(x) \in Nat
    BY <1>1, LenProperties
  <2>2. of(x) = Spent(x, Len(x))
    BY <2>1 DEF Spent
  <2>3. Spent(x, Len(x)) \in Nat
    <3>1. Len(x) \in 0..Len(x)
      BY <2>1
    <3>. QED BY <2>1, <3>1, SpentIs
  <2>. QED BY <2>2, <2>3
<1>3. f \in [C -> Nat] /\ g \in [C \ {r} -> Nat]
  <2>. HIDE DEF of
  <2>. QED BY <1>2
<1>4. g = [x \in C \ {r} |-> f[x]] /\ f[r] = of(r)
  <2>. HIDE DEF of
  <2>. QED OBVIOUS
<1>5. Demand(C) = SumFunction(f) /\ Demand(C \ {r}) = SumFunction(g)
  BY DEF Demand
<1>6. of(r) = Spent(r, Len(r)) /\ of(r) \in Nat
  BY <1>2
<1>. HIDE DEF f, g, of
<1>7. SumFunction(f) = f[r] + SumFunction(g)
  <2>1. SumFunction(f) = f[r] + SumFunction([x \in C \ {r} |-> f[x]])
    BY ZenonT(60), <1>1, <1>3, SumSplit
  <2>. QED BY <1>4, <2>1
<1>8. SumFunction(f) \in Nat /\ SumFunction(g) \in Nat
  BY <1>1, <1>3, SumType
<1>. QED BY <1>4, <1>5, <1>6, <1>7, <1>8

HostType ==
  [error : BOOLEAN, table : [Vm -> BlockType], free : SUBSET CpuCores, sched : [Vm -> SchedulerType]]

\* No core that is free belongs to a scheduler.
Clear(free, sch) == \A v \in Vm : \A i \in DOMAIN sch[v].index : sch[v].index[i] \notin free

\* The node while the machines of a request are started, which took "spent" cores.
StartedOK(h, spent) ==
  /\ h \in HostType
  /\ ~h.error =>
       /\ Kept(sched, inbox, queueTable, core, h.sched, inbox, queueTable, core)
       /\ TableOK(h.table, app, h.sched) /\ Clear(h.free, h.sched)
       /\ Cardinality(h.free) + spent >= Cardinality(freeCores)

\* The entry of a machine that was just started.
NewBlock(g) == [[VmControlBlock EXCEPT !.state = "running"] EXCEPT !.globalId = g]

LEMMA NewBlockIs ==
  ASSUME NEW g \in GlobalVm \cup {HostName}
  PROVE  LET b == NewBlock(g)
         IN  /\ b \in BlockType /\ b.request = NoRequest /\ b.state = "running"
             /\ \A p \in 1..MaxApps : b.apps[p].pid = Free
<1>. DEFINE apps == [p \in 1..MaxApps |-> FreeApp]
<1>1. /\ apps \in [1..MaxApps -> [pid : (1..MaxApps) \cup {Free}, deploymentIndex : Int]]
      /\ \A p \in 1..MaxApps : apps[p].pid = Free
  BY DEF FreeApp
<1>2. PICK a : a = apps
  OBVIOUS
<1>3. PICK base : base = VmControlBlock
  OBVIOUS
<1>4. base = [state |-> "idle", apps |-> a, globalId |-> NoRequest, request |-> NoRequest]
  BY <1>2, <1>3 DEF VmControlBlock
<1>5. PICK b : b = NewBlock(g)
  OBVIOUS
<1>6. b = [[base EXCEPT !.state = "running"] EXCEPT !.globalId = g]
  BY <1>3, <1>5 DEF NewBlock
<1>7. b = [state |-> "running", apps |-> a, globalId |-> g, request |-> NoRequest]
  BY <1>4, <1>6
<1>8. b \in BlockType
  BY <1>1, <1>2, <1>7 DEF BlockType
<1>. HIDE DEF apps
<1>. QED BY <1>1, <1>2, <1>5, <1>7, <1>8

LEMMA MachineInTable ==
  ASSUME NEW tab, NEW ap, NEW sch \in [Vm -> SchedulerType], TableOK(tab, ap, sch),
         NEW v \in Vm, tab[v].state = "idle", NEW g \in GlobalVm \cup {HostName},
         NEW sc
  PROVE  LET new == createMapping(allocateVm(tab, v), g, v)
         IN  TableOK(new, ap, Put(sch, v, sc)) /\ new \in [Vm -> BlockType]
<1>. DEFINE new == createMapping(allocateVm(tab, v), g, v)
            sch2 == Put(sch, v, sc)
            b == NewBlock(g)
<1>1. /\ b \in BlockType /\ b.request = NoRequest /\ b.state = "running"
      /\ \A p \in 1..MaxApps : b.apps[p].pid = Free
  BY NewBlockIs
<1>2. tab \in [Vm -> BlockType] /\ \A w \in Vm : BlockOK(w, tab[w], ap, sch[w])
  BY DEF TableOK
<1>3. new = [tab EXCEPT ![v] = b]
  <2>1. PICK base : base = [VmControlBlock EXCEPT !.state = "running"]
    OBVIOUS
  <2>2. allocateVm(tab, v) = [tab EXCEPT ![v] = base]
    BY <2>1 DEF allocateVm
  <2>3. b = [base EXCEPT !.globalId = g]
    BY <2>1 DEF NewBlock
  <2>. HIDE DEF b
  <2>4. createMapping([tab EXCEPT ![v] = base], g, v) = [tab EXCEPT ![v] = b]
    BY <1>2, <2>3 DEF createMapping
  <2>. QED BY <2>2, <2>4
<1>4. \A p \in 1..MaxApps : ap[<<v, p>>] = Placeholder
  BY <1>2 DEF BlockOK
<1>. HIDE DEF new, b
<1>5. BlockOK(v, b, ap, sch2[v])
  BY <1>1, <1>4 DEF BlockOK
<1>6. new \in [Vm -> BlockType] /\ new[v] = b /\ \A w \in Vm : w # v => new[w] = tab[w]
  BY <1>1, <1>2, <1>3
<1>. HIDE DEF sch2
<1>7. ASSUME NEW w \in Vm, w # v PROVE BlockOK(w, tab[w], ap, sch2[w])
  BY <1>2, <1>7 DEF BlockOK, sch2, Put
<1>8. TableOK(new, ap, sch2)
  BY <1>5, <1>6, <1>7 DEF TableOK
<1>. QED BY <1>6, <1>8 DEF new, sch2

LEMMA FreeVmIs ==
  ASSUME NEW tab \in [Vm -> BlockType], freeVm(tab) # Free
  PROVE  freeVm(tab) \in Vm /\ tab[freeVm(tab)].state = "idle"
<1>. DEFINE S == {v \in DOMAIN tab : isFree(tab[v])}
<1>1. S \in SUBSET Nat
  BY Finite
<1>2. freeVm(tab) = FirstFree(S)
  BY DEF freeVm
<1>3. S # {} /\ freeVm(tab) = LeastOf(S)
  <2>. HIDE DEF S
  <2>. QED BY <1>2 DEF FirstFree
<1>4. LeastOf(S) \in S
  <2>. HIDE DEF S
  <2>. QED BY <1>1, <1>3, LeastIs
<1>. QED BY <1>3, <1>4 DEF isFree

LEMMA KeptTwice ==
  ASSUME NEW sch, NEW box, NEW disks, NEW co, NEW sch2, NEW sch3,
         Kept(sch, box, disks, co, sch2, box, disks, co),
         Kept(sch2, box, disks, co, sch3, box, disks, co)
  PROVE  Kept(sch, box, disks, co, sch3, box, disks, co)
BY DEF Kept

\* A machine is started while there are cores for it.
LEMMA VmStarted ==
  ASSUME NEW h, NEW spent \in Nat, StartedOK(h, spent), NEW g \in GlobalVm,
         freeCores \subseteq CpuCores, spent + Cores[g] <= Cardinality(freeCores)
  PROVE  StartedOK(startVm(h, g), spent + Cores[g])
<1>. DEFINE v == freeVm(h.table)
            n == Cores[g]
            index == allocatedCores(h.free, n)
            still == h.free \ {index[i] : i \in DOMAIN index}
            sc == StartedScheduler(IdleScheduler, index)
            table == createMapping(allocateVm(h.table, v), g, v)
            h2 == startVm(h, g)
<1>1. h \in HostType /\ n \in Nat
  BY HostConstants DEF StartedOK
<1>2. CASE h.error \/ v = Free
  <2>1. h2 = [h EXCEPT !.error = TRUE]
    BY <1>2 DEF startVm
  <2>. HIDE DEF h2
  <2>2. h2 \in HostType /\ h2.error
    BY <1>1, <2>1 DEF HostType
  <2>. QED BY <2>2 DEF StartedOK, h2
<1>3. CASE ~h.error /\ v # Free
  <2>1. /\ Kept(sched, inbox, queueTable, core, h.sched, inbox, queueTable, core)
        /\ TableOK(h.table, app, h.sched) /\ Clear(h.free, h.sched)
        /\ Cardinality(h.free) + spent >= Cardinality(freeCores)
    BY <1>3 DEF StartedOK
  <2>2. /\ h.table \in [Vm -> BlockType] /\ h.free \subseteq CpuCores
        /\ h.sched \in [Vm -> SchedulerType]
    BY <1>1 DEF HostType
  <2>3. v \in Vm /\ h.table[v].state = "idle"
    BY <1>3, <2>2, FreeVmIs
  <2>4. h.sched[v] = IdleScheduler
    BY <2>1, <2>3 DEF TableOK, BlockOK
  <2>5. Cardinality(h.free) \in Nat /\ n <= Cardinality(h.free)
    <3>1. Cardinality(h.free) \in Nat /\ Cardinality(freeCores) \in Nat
      BY <2>2, Finite, FS_Subset, FS_CardinalityType
    <3>. QED BY <1>1, <2>1, <3>1
  <2>. HIDE DEF v, n, index, still
  <2>6. /\ index \in [1..n -> h.free] /\ index \in Seq(CpuCores) /\ Len(index) = n
        /\ \A i, j \in DOMAIN index : index[i] = index[j] => i = j
        /\ \A i \in DOMAIN index : index[i] \notin still
        /\ still \subseteq h.free /\ Cardinality(still) >= Cardinality(h.free) - n
    <3>1. index = allocatedCores(h.free, n) /\ still = h.free \ {index[i] : i \in DOMAIN index}
      BY DEF index, still
    <3>2. AllocationOK(h.free, n, index, still)
      BY <1>1, <2>2, <2>5, <3>1, CoresAllocated
    <3>. QED BY <3>2 DEF AllocationOK
  <2>7. \A w \in Vm : \A i \in DOMAIN h.sched[w].index, j \in DOMAIN index :
          h.sched[w].index[i] # index[j]
    BY <2>1, <2>6 DEF Clear
  <2>8. CpuInv(h.sched, inbox, queueTable, core)
    BY <2>1 DEF Kept
  <2>9. Kept(h.sched, inbox, queueTable, core, Put(h.sched, v, sc), inbox, queueTable, core)
    BY <2>3, <2>4, <2>6, <2>7, <2>8, MachineStarted
  <2>10. Kept(sched, inbox, queueTable, core, Put(h.sched, v, sc), inbox, queueTable, core)
    BY <2>1, <2>9, KeptTwice
  <2>11. sc.index = index
    <3>1. PICK all : all = [i \in 1..Len(index) |-> TRUE]
      OBVIOUS
    <3>2. sc = [running |-> TRUE, index |-> index, cores |-> all, requestsQueue |-> <<>>]
      BY <3>1, StartedIs
    <3>. QED BY <3>2
  <2>. HIDE DEF sc, table
  <2>12. TableOK(table, app, Put(h.sched, v, sc)) /\ table \in [Vm -> BlockType]
    BY <2>1, <2>2, <2>3, MachineInTable DEF table
  <2>13. Clear(still, Put(h.sched, v, sc))
    <3>1. \A w \in Vm : Put(h.sched, v, sc)[w] = IF w = v THEN sc ELSE h.sched[w]
      BY <2>2 DEF Put
    <3>. QED BY <2>1, <2>6, <2>11, <3>1 DEF Clear
  <2>14. Cardinality(still) + (spent + n) >= Cardinality(freeCores)
    <3>1. IsFiniteSet(still) /\ Cardinality(freeCores) \in Nat
      BY <2>2, <2>6, Finite, FS_Subset, FS_CardinalityType
    <3>2. Cardinality(still) \in Nat
      BY <3>1, FS_CardinalityType
    <3>. QED BY <1>1, <2>1, <2>5, <2>6, <3>1, <3>2
  <2>15. Put(h.sched, v, sc) \in [Vm -> SchedulerType]
    BY <2>10 DEF Kept, CpuInv, Machines
  <2>16. h2 = [error |-> FALSE, table |-> table, free |-> still, sched |-> Put(h.sched, v, sc)]
    BY <1>3, <2>4 DEF startVm, v, n, index, still, sc, table, Put
  <2>. HIDE DEF h2
  <2>17. h2 \in HostType /\ ~h2.error /\ h2.table = table /\ h2.free = still
         /\ h2.sched = Put(h.sched, v, sc)
    <3>1. PICK s2 : s2 = Put(h.sched, v, sc)
      OBVIOUS
    <3>2. still \in SUBSET CpuCores
      BY <2>2, <2>6
    <3>. QED BY <2>12, <2>15, <2>16, <3>1, <3>2 DEF HostType
  <2>. QED BY <2>10, <2>12, <2>13, <2>14, <2>17 DEF StartedOK, h2, n
<1>. QED BY <1>2, <1>3

StartHost == [error |-> FALSE, table |-> vmTable, free |-> freeCores, sched |-> sched]

LEMMA StartHostOK ==
  ASSUME HostInv, virtual
  PROVE  StartedOK(StartHost, 0) /\ StartHost \in HostType
<1>1. /\ vmTable \in [Vm -> BlockType] /\ freeCores \in SUBSET CpuCores
      /\ sched \in [Vm -> SchedulerType]
  BY DEF HostInv, TableOK, CoresOK, CpuInv, Machines
<1>2. PICK h : h = StartHost
  OBVIOUS
<1>3. h \in HostType /\ h.table = vmTable /\ h.free = freeCores /\ h.sched = sched
  BY <1>1, <1>2 DEF StartHost, HostType
<1>4. Kept(sched, inbox, queueTable, core, sched, inbox, queueTable, core)
  BY NothingChanged DEF HostInv
<1>5. TableOK(vmTable, app, sched) /\ Clear(freeCores, sched)
  BY DEF HostInv, CoresOK, Clear
<1>6. Cardinality(freeCores) \in Nat
  BY <1>1, Finite, FS_Subset, FS_CardinalityType
<1>. QED BY <1>2, <1>3, <1>4, <1>5, <1>6 DEF StartedOK

\* Machine after machine, as long as each step is what startVm makes of a good node.
LEMMA VmsStarted ==
  ASSUME HostInv, virtual, NEW r \in commands, NEW h, h[0] = StartHost,
         \A i \in 1..Len(r) : StartedOK(h[i - 1], Spent(r, i - 1)) => h[i] = startVm(h[i - 1], r[i])
  PROVE  \A i \in 0..Len(r) : StartedOK(h[i], Spent(r, i))
<1>. DEFINE n == Len(r)
            Good == {i \in 0..n : StartedOK(h[i], Spent(r, i))}
<1>1. r \in Seq(GlobalVm) /\ commands \subseteq Requests /\ freeCores \subseteq CpuCores
      /\ Demand(commands) <= Cardinality(freeCores)
  BY HostConstants DEF HostInv, CoresOK
<1>2. n \in Nat /\ \A i \in 1..n : r[i] \in GlobalVm /\ Cores[r[i]] \in Nat
  BY <1>1, LenProperties, ElementOfSeq, HostConstants
<1>3. /\ Spent(r, 0) = 0 /\ \A i \in 0..n : Spent(r, i) \in Nat
      /\ \A i \in 1..n : Spent(r, i) = Spent(r, i - 1) + Cores[r[i]]
      /\ \A i \in 0..n : Spent(r, i) <= Spent(r, n)
  BY <1>1, SpentIs
<1>4. Spent(r, n) <= Cardinality(freeCores) /\ Cardinality(freeCores) \in Nat
  <2>1. /\ Demand(commands) = Spent(r, n) + Demand(commands \ {r}) /\ Demand(commands) \in Nat
        /\ Spent(r, n) \in Nat /\ Demand(commands \ {r}) \in Nat
    BY <1>1, DemandSplit
  <2>2. Cardinality(freeCores) \in Nat
    BY <1>1, Finite, FS_Subset, FS_CardinalityType
  <2>. HIDE DEF n
  <2>. QED BY <1>1, <2>1, <2>2
<1>5. 0 \in Good
  BY <1>2, <1>3, StartHostOK
<1>6. \A i \in 1..n : i - 1 \in Good => i \in Good
  <2>1. SUFFICES ASSUME NEW i \in 1..n, i - 1 \in Good PROVE StartedOK(h[i], Spent(r, i))
    OBVIOUS
  <2>2. StartedOK(h[i - 1], Spent(r, i - 1)) /\ h[i] = startVm(h[i - 1], r[i])
    BY <2>1
  <2>. HIDE DEF n, Good
  <2>3. /\ Spent(r, i - 1) \in Nat /\ Spent(r, i) = Spent(r, i - 1) + Cores[r[i]]
        /\ r[i] \in GlobalVm /\ Spent(r, i) <= Cardinality(freeCores)
    <3>1. i \in 0..n /\ i - 1 \in 0..n
      BY <1>2
    <3>2. Spent(r, i) <= Spent(r, n) /\ Spent(r, i) \in Nat /\ Spent(r, n) \in Nat
      BY <1>2, <1>3, <3>1
    <3>3. Spent(r, i) <= Cardinality(freeCores)
      BY <1>4, <3>2
    <3>. QED BY <1>2, <1>3, <3>1, <3>3
  <2>4. StartedOK(startVm(h[i - 1], r[i]), Spent(r, i - 1) + Cores[r[i]])
    BY <1>1, <2>2, <2>3, VmStarted
  <2>. QED BY <2>2, <2>3, <2>4
<1>7. 0..n \subseteq Good
  <2>. HIDE DEF Good
  <2>. QED BY <1>2, <1>5, <1>6, BoundedInduction
<1>. QED BY <1>7

VmsFrom(h, r) ==
  h = [i \in 0..Len(r) |->
         IF i = 0
           THEN [error |-> FALSE, table |-> vmTable, free |-> freeCores, sched |-> sched]
           ELSE startVm(h[i - 1], r[i])]

(* The same, with the host before the request by its name. *)
HostsFrom(h, r) ==
  h = [i \in 0..Len(r) |-> IF i = 0 THEN StartHost ELSE startVm(h[i - 1], r[i])]

LEMMA SameHosts ==
  ASSUME NEW h, NEW r
  PROVE  VmsFrom(h, r) <=> HostsFrom(h, r)
BY DEF VmsFrom, HostsFrom, StartHost

LEMMA HostsAre ==
  ASSUME NEW h, NEW r, Len(r) \in Nat, HostsFrom(h, r)
  PROVE  h[0] = StartHost /\ \A i \in 1..Len(r) : h[i] = startVm(h[i - 1], r[i])
<1>. DEFINE n == Len(r)
            step(i) == IF i = 0 THEN StartHost ELSE startVm(h[i - 1], r[i])
<1>1. h = [i \in 0..n |-> step(i)]
  BY DEF HostsFrom
<1>2. \A i \in 0..n : h[i] = step(i)
  <2>. HIDE DEF step, n
  <2>. QED BY <1>1
<1>3. n \in Nat
  OBVIOUS
<1>4. 0 \in 0..n /\ \A i \in 1..n : i \in 0..n /\ i # 0
  <2>. HIDE DEF n
  <2>. QED BY <1>3
<1>. QED BY <1>2, <1>4

LEMMA HostsOf ==
  ASSUME NEW h, NEW r, Len(r) \in Nat, h = [i \in 0..Len(r) |-> h[i]],
         h[0] = StartHost, \A i \in 1..Len(r) : h[i] = startVm(h[i - 1], r[i])
  PROVE  HostsFrom(h, r)
<1>. DEFINE n == Len(r)
            step(i) == IF i = 0 THEN StartHost ELSE startVm(h[i - 1], r[i])
<1>1. n \in Nat
  OBVIOUS
<1>2. \A i \in 0..n : h[i] = step(i)
  <2>1. \A i \in 0..n : i = 0 \/ i \in 1..n
    <3>. HIDE DEF n
    <3>. QED BY <1>1
  <2>. QED BY <2>1
<1>3. h = [i \in 0..n |-> step(i)]
  <2>. HIDE DEF step
  <2>. QED BY <1>2
<1>. QED BY <1>3 DEF HostsFrom

LEMMA VmsExist ==
  ASSUME HostInv, virtual, NEW r \in commands
  PROVE  \E h : VmsFrom(h, r)
<1>. DEFINE n == Len(r)
            step == [i \in 1..n |-> [h \in HostType |->
                       IF startVm(h, r[i]) \in HostType THEN startVm(h, r[i]) ELSE h]]
<1>1. r \in Seq(GlobalVm) /\ n \in Nat
  BY HostConstants, LenProperties DEF HostInv, CoresOK
<1>2. step \in [1..n -> [HostType -> HostType]]
  OBVIOUS
<1>3. StartHost \in HostType
  BY StartHostOK
<1>4. PICK f \in [0..n -> HostType] : IsIteration(f, n, StartHost, step)
  <2>. HIDE DEF step, n
  <2>. QED BY <1>1, <1>2, <1>3, IterationExists
<1>5. f[0] = StartHost /\ \A i \in 1..n : f[i] = step[i][f[i - 1]]
  <2>. HIDE DEF step
  <2>1. \A i \in 0..n : f[i] = IF i = 0 THEN StartHost ELSE step[i][f[i - 1]]
    BY <1>4 DEF IsIteration
  <2>. QED BY <1>1, <2>1
<1>6. \A i \in 1..n : StartedOK(f[i - 1], Spent(r, i - 1)) => f[i] = startVm(f[i - 1], r[i])
  <2>1. SUFFICES ASSUME NEW i \in 1..n, StartedOK(f[i - 1], Spent(r, i - 1))
                 PROVE  f[i] = startVm(f[i - 1], r[i])
    OBVIOUS
  <2>2. f[i - 1] \in HostType /\ f[i] = step[i][f[i - 1]]
    BY <1>1, <1>4, <1>5
  <2>3. startVm(f[i - 1], r[i]) \in HostType
    <3>. HIDE DEF step, n
    <3>1. /\ freeCores \subseteq CpuCores /\ commands \subseteq Requests
          /\ Demand(commands) <= Cardinality(freeCores)
      BY DEF HostInv, CoresOK
    <3>2. startVm(f[i - 1], r[i]) \in HostType
      <4>1. r[i] \in GlobalVm /\ Cores[r[i]] \in Nat
        BY <1>1, ElementOfSeq, HostConstants DEF n
      <4>2. /\ Spent(r, i - 1) \in Nat /\ Spent(r, i) = Spent(r, i - 1) + Cores[r[i]]
            /\ Spent(r, i) <= Spent(r, n) /\ Spent(r, i) \in Nat /\ Spent(r, n) \in Nat
        <5>1. i \in 0..n /\ i - 1 \in 0..n /\ n \in 0..n
          BY <1>1
        <5>. QED BY <1>1, <5>1, SpentIs DEF n
      <4>3. /\ Demand(commands) = Spent(r, n) + Demand(commands \ {r}) /\ Demand(commands) \in Nat
            /\ Spent(r, n) \in Nat /\ Demand(commands \ {r}) \in Nat
        BY <3>1, DemandSplit DEF n
      <4>4. Cardinality(freeCores) \in Nat
        BY <3>1, Finite, FS_Subset, FS_CardinalityType
      <4>5. Spent(r, i - 1) + Cores[r[i]] <= Cardinality(freeCores)
        BY <3>1, <4>2, <4>3, <4>4
      <4>6. StartedOK(startVm(f[i - 1], r[i]), Spent(r, i - 1) + Cores[r[i]])
        BY <2>1, <3>1, <4>1, <4>2, <4>5, VmStarted
      <4>. QED BY <4>6 DEF StartedOK
    <3>. QED BY <3>2
  <2>. QED BY <2>2, <2>3
<1>7. \A i \in 0..n : StartedOK(f[i], Spent(r, i))
  <2>. HIDE DEF step
  <2>. QED BY <1>5, <1>6, VmsStarted
<1>8. \A i \in 1..n : f[i] = startVm(f[i - 1], r[i])
  <2>. HIDE DEF step
  <2>. QED BY <1>1, <1>6, <1>7
<1>9. VmsFrom(f, r)
  <2>1. f = [i \in 0..n |-> f[i]]
    BY <1>4
  <2>. HIDE DEF step
  <2>2. HostsFrom(f, r)
    BY <1>1, <1>5, <1>8, <2>1, HostsOf
  <2>. QED BY <2>2, SameHosts
<1>. QED BY <1>9

LEMMA VmRequestHost ==
  ASSUME HostInv, NEW r, handleVmRequest(r)
  PROVE  HostInv'
<1>. DEFINE after == CHOOSE h : VmsFrom(h, r)
            n == Len(r)
            host == after[n]
<1>1. r \in commands
  BY DEF handleVmRequest
<1>2. IF host.error \/ ~virtual
        THEN Fail
        ELSE /\ vmTable' = host.table /\ freeCores' = host.free /\ sched' = host.sched
             /\ commands' = commands \ {r}
             /\ UNCHANGED <<virtual, queueTable, app, events, inbox, core, failed>>
  BY DEF handleVmRequest, VmsFrom
<1>3. CASE host.error \/ ~virtual
  BY <1>2, <1>3, FailHost
<1>4. CASE ~host.error /\ virtual
  <2>1. /\ vmTable' = host.table /\ freeCores' = host.free /\ sched' = host.sched
        /\ commands' = commands \ {r} /\ virtual' = virtual /\ queueTable' = queueTable
        /\ app' = app /\ inbox' = inbox /\ core' = core /\ failed' = failed
    BY <1>2, <1>4
  <2>2. VmsFrom(after, r)
    BY <1>1, <1>4, VmsExist
  <2>. HIDE DEF after
  <2>3. n \in Nat /\ commands \subseteq Requests /\ freeCores \subseteq CpuCores
        /\ Demand(commands) <= Cardinality(freeCores)
    BY <1>1, <1>4, HostConstants, LenProperties DEF HostInv, CoresOK
  <2>4. after[0] = StartHost /\ \A i \in 1..n : after[i] = startVm(after[i - 1], r[i])
    <3>1. HostsFrom(after, r)
      BY <2>2, SameHosts
    <3>. QED BY <2>3, <3>1, HostsAre
  <2>5. StartedOK(host, Spent(r, n))
    <3>1. \A i \in 0..n : StartedOK(after[i], Spent(r, i))
      BY <1>1, <1>4, <2>4, VmsStarted
    <3>. QED BY <2>3, <3>1
  <2>. HIDE DEF host, n
  <2>6. /\ Kept(sched, inbox, queueTable, core, host.sched, inbox, queueTable, core)
        /\ TableOK(host.table, app, host.sched) /\ Clear(host.free, host.sched)
        /\ Cardinality(host.free) + Spent(r, n) >= Cardinality(freeCores)
        /\ host.free \subseteq CpuCores
    BY <1>4, <2>5 DEF StartedOK, HostType
  <2>7. /\ CallsOK(host.sched, inbox, queueTable, core, app)
        /\ CpuInv(host.sched, inbox, queueTable, core)
    BY <2>6, CallsStay DEF HostInv
  <2>8. Demand(commands \ {r}) <= Cardinality(host.free)
    <3>1. /\ Demand(commands) = Spent(r, n) + Demand(commands \ {r}) /\ Demand(commands) \in Nat
          /\ Spent(r, n) \in Nat /\ Demand(commands \ {r}) \in Nat
      BY <1>1, <2>3, DemandSplit DEF n
    <3>2. Cardinality(freeCores) \in Nat /\ Cardinality(host.free) \in Nat
      BY <2>3, <2>6, Finite, FS_Subset, FS_CardinalityType
    <3>. QED BY <2>3, <2>6, <3>1, <3>2
  <2>9. CoresOK(virtual, host.free, host.sched, commands \ {r})
    BY <1>4, <2>3, <2>6, <2>8 DEF CoresOK, Clear
  <2>. QED BY <2>1, <2>6, <2>7, <2>9 DEF HostInv
<1>. QED BY <1>3, <1>4

-----------------------------------------------------------------------------
(* The first state *)

\* The best-fit strategy never gives a node more than it has, see NoOvercommit.
RequestsFit == Demand(Requests) <= Cardinality(CpuCores)

Boxes0 == [m \in Module |-> <<>>]
Schedulers0 == [v \in Vm |-> IdleScheduler]
Disks0 == [v \in Vm |-> IdleDisk]
Apps0 == [s \in Slot |-> Placeholder]

LEMMA IdleType ==
  /\ IdleScheduler \in SchedulerType /\ IdleDisk \in DiskType
  /\ IdleScheduler.index = <<>> /\ IdleScheduler.cores = <<>>
  /\ IdleScheduler.requestsQueue = <<>> /\ IdleDisk.queue = <<>> /\ ~IdleDisk.ioFinished
  /\ ~IdleScheduler.running
BY DEF IdleScheduler, IdleDisk, SchedulerType, DiskType

LEMMA NothingIn ==
  DOMAIN <<>> = {} /\ Len(<<>>) = 0
OBVIOUS

LEMMA NothingOut ==
  ASSUME NEW v \in Vm, NEW c \in CpuCores
  PROVE  OutOn(Boxes0, IdleCores, v, c) = 0
<1>1. Boxes0[Hub] = <<>> /\ Boxes0[Core(c)] = <<>> /\ Boxes0[Scheduler(v)] = <<>>
  BY ModuleNames DEF Boxes0
<1>2. IdleCores[c] = NoCall /\ NoCall \notin OfCore(v, c)
  BY Nothing DEF IdleCores, OfCore
<1>3. One(IdleCores[c], OfCore(v, c)) = 0
  BY <1>2 DEF One
<1>. QED BY <1>1, <1>3, AmongNone DEF OutOn

LEMMA NothingTotal ==
  ASSUME NEW s
  PROVE  Total(Schedulers0, Boxes0, Disks0, IdleCores, s) = 0
<1>1. InboxCalls(Boxes0, s) = 0
  <2>1. [m \in Module |-> Among(Boxes0[m], OfSlot(s))] = [m \in Module |-> 0]
    BY AmongNone DEF Boxes0
  <2>. QED BY <2>1, Finite, SumOfZeros DEF InboxCalls
<1>2. WaitingCalls(Schedulers0, Disks0, s) = 0
  <2>1. Held(IdleScheduler, IdleDisk, s) = 0
    BY IdleType, AmongNone DEF Held
  <2>2. [v \in Vm |-> Held(Schedulers0[v], Disks0[v], s)] = [v \in Vm |-> 0]
    BY <2>1 DEF Schedulers0, Disks0
  <2>. QED BY <2>2, Finite, SumOfZeros DEF WaitingCalls
<1>3. WorkedOn(IdleCores, s) = 0
  <2>1. {c \in CpuCores : IdleCores[c] \in OfSlot(s)} = {}
    BY Nothing DEF IdleCores, OfSlot
  <2>. QED BY <2>1, FS_EmptySet DEF WorkedOn
<1>. QED BY <1>1, <1>2, <1>3 DEF Total

LEMMA CpuAtRest == CpuInv(Schedulers0, Boxes0, Disks0, IdleCores)
<1>1. Machines(Schedulers0)
  <2>1. \A v \in Vm : SchedulerOK(v, IdleScheduler)
    BY IdleType, NothingIn DEF SchedulerOK
  <2>. QED BY <2>1, IdleType DEF Machines, Schedulers0
<1>2. DiskQueues(Disks0)
  <2>1. \A v \in Vm : DiskOK(v, IdleDisk)
    BY IdleType, NothingIn DEF DiskOK
  <2>. QED BY <2>1, IdleType DEF DiskQueues, Disks0
<1>3. IdleCores \in [CpuCores -> CoreType] /\ InCores(Schedulers0, IdleCores)
  BY DEF IdleCores, CoreType, InCores
<1>4. Boxes(Schedulers0, Boxes0)
  <2>1. Boxes0 \in [Module -> Seq(Message)]
    BY DEF Boxes0
  <2>2. \A m \in Module : DOMAIN Boxes0[m] = {}
    BY NothingIn DEF Boxes0
  <2>. QED BY <2>1, <2>2 DEF Boxes
<1>5. \A v \in Vm : Schedulers0[v].index = <<>> /\ Schedulers0[v].cores = <<>>
  BY IdleType DEF Schedulers0
<1>6. Disjoint(Schedulers0) /\ Busy(Schedulers0, Boxes0, IdleCores)
  BY <1>5, NothingIn DEF Disjoint, Busy
<1>. QED BY <1>1, <1>2, <1>3, <1>4, <1>6 DEF CpuInv

LEMMA PlaceholderOK == Placeholder \in Application /\ AppOK(Placeholder) /\ CallsOf(Placeholder) = 0
<1>1. /\ Placeholder \in Application /\ Placeholder.calls = 0
      /\ Placeholder.kind = "default"
  BY DEF Placeholder, Application
<1>2. Placeholder # NoApp
  BY <1>1, Nothing
<1>. QED BY <1>1, <1>2 DEF AppOK, CallsOf

LEMMA NodeAtRest ==
  /\ CallsOK(Schedulers0, Boxes0, Disks0, IdleCores, Apps0) /\ Exits(Boxes0, Apps0)
  /\ TableOK(EmptyVmTable(Vm), Apps0, Schedulers0)
<1>1. CallsOK(Schedulers0, Boxes0, Disks0, IdleCores, Apps0)
  <2>1. Apps0 \in [Slot -> Application \cup {NoApp}] /\ \A s \in Slot : Apps0[s] = Placeholder
    BY PlaceholderOK DEF Apps0
  <2>. QED BY <2>1, PlaceholderOK, NothingTotal DEF CallsOK
<1>2. Exits(Boxes0, Apps0)
  BY ModuleNames, NothingIn DEF Exits, Boxes0
<1>3. TableOK(EmptyVmTable(Vm), Apps0, Schedulers0)
  <2>1. PICK b : b = VmControlBlock
    OBVIOUS
  <2>2. PICK a : a = [p \in 1..MaxApps |-> FreeApp]
    OBVIOUS
  <2>3. /\ a \in [1..MaxApps -> [pid : (1..MaxApps) \cup {Free}, deploymentIndex : Int]]
        /\ \A p \in 1..MaxApps : a[p].pid = Free
    BY <2>2 DEF FreeApp
  <2>4. b = [state |-> "idle", apps |-> a, globalId |-> NoRequest, request |-> NoRequest]
    BY <2>1, <2>2 DEF VmControlBlock
  <2>5. b \in BlockType
    BY <2>3, <2>4 DEF BlockType
  <2>6. b.request = NoRequest /\ b.globalId = NoRequest /\ b.apps = a
    BY <2>4
  <2>7. EmptyVmTable(Vm) = [v \in Vm |-> b]
    BY <2>1 DEF EmptyVmTable
  <2>8. \A v \in Vm, p \in 1..MaxApps : Apps0[<<v, p>>] = Placeholder
    BY DEF Apps0, Slot
  <2>9. \A v \in Vm : BlockOK(v, b, Apps0, IdleScheduler)
    BY <2>3, <2>5, <2>6, <2>8 DEF BlockOK
  <2>10. \A v \in Vm : Schedulers0[v] = IdleScheduler
    BY DEF Schedulers0
  <2>. QED BY <2>5, <2>7, <2>9, <2>10 DEF TableOK
<1>. QED BY <1>1, <1>2, <1>3

LEMMA InitHost ==
  ASSUME RequestsFit, Init
  PROVE  HostInv
<1>. DEFINE empty == EmptyVmTable(Vm)
            own == [c \in 1..Cardinality(CpuCores) |-> c]
            one == createMapping(allocateVm(empty, 1), HostName, 1)
            sc == StartedScheduler(IdleScheduler, own)
<1>1. /\ virtual \in BOOLEAN /\ failed \in BOOLEAN /\ inbox = Boxes0 /\ core = IdleCores
      /\ queueTable = Disks0 /\ app = Apps0 /\ freeCores = CpuCores
  BY HostConstants DEF Init, Boxes0, Disks0, Apps0
<1>2. CASE virtual
  <2>1. vmTable = empty /\ sched = Schedulers0 /\ commands = Requests
    BY <1>2 DEF Init, Schedulers0
  <2>2. CoresOK(virtual, freeCores, sched, commands)
    <3>1. \A v \in Vm : sched[v].index = <<>>
      BY <2>1, IdleType DEF Schedulers0
    <3>. QED BY <1>1, <1>2, <2>1, <3>1, NothingIn DEF CoresOK, RequestsFit
  <2>. QED BY <1>1, <2>1, <2>2, CpuAtRest, NodeAtRest DEF HostInv
<1>3. CASE ~virtual
  <2>1. /\ vmTable = one /\ commands = {}
        /\ sched = [v \in Vm |-> IF v = 1 THEN sc ELSE IdleScheduler]
    BY <1>3 DEF Init
  <2>2. 1 \in Vm
    BY CpuConstants, FS_CardinalityType, FS_EmptySet
  <2>3. sched = Put(Schedulers0, 1, sc)
    <3>. HIDE DEF sc
    <3>. QED BY <2>1, <2>2 DEF Put, Schedulers0
  <2>4. /\ own \in Seq(CpuCores)
        /\ \A i, j \in DOMAIN own : own[i] = own[j] => i = j
    <3>1. PICK n : n = Cardinality(CpuCores)
      OBVIOUS
    <3>2. n \in Nat /\ CpuCores = 1..n
      BY <3>1, CpuConstants, FS_CardinalityType
    <3>. QED BY <3>1, <3>2
  <2>. HIDE DEF own
  <2>5. Schedulers0[1] = IdleScheduler /\ Schedulers0 \in [Vm -> SchedulerType]
        /\ \A w \in Vm : Schedulers0[w].index = <<>>
    BY <2>2, IdleType DEF Schedulers0
  <2>6. \A w \in Vm : \A i \in DOMAIN Schedulers0[w].index, j \in DOMAIN own :
          Schedulers0[w].index[i] # own[j]
    BY <2>5, NothingIn
  <2>7. Kept(Schedulers0, Boxes0, Disks0, IdleCores, Put(Schedulers0, 1, sc),
             Boxes0, Disks0, IdleCores)
    BY <2>2, <2>4, <2>5, <2>6, CpuAtRest, MachineStarted
  <2>. HIDE DEF sc
  <2>8. /\ CallsOK(sched, inbox, queueTable, core, app)
        /\ CpuInv(sched, inbox, queueTable, core)
    BY <1>1, <2>3, <2>7, NodeAtRest, CallsStay
  <2>9. empty[1].state = "idle"
    BY <2>2 DEF EmptyVmTable, VmControlBlock
  <2>10. TableOK(one, Apps0, Put(Schedulers0, 1, sc))
    BY <2>2, <2>5, <2>9, NodeAtRest, MachineInTable
  <2>11. CoresOK(virtual, freeCores, sched, commands)
    BY <1>1, <1>3, <2>1 DEF CoresOK
  <2>. QED BY <1>1, <2>1, <2>3, <2>8, <2>10, <2>11, NodeAtRest DEF HostInv
<1>. QED BY <1>2, <1>3

LEMMA NextHost ==
  ASSUME HostInv, [Next]_vars
  PROVE  HostInv'
<1>1. CASE UNCHANGED vars
  BY <1>1 DEF vars, hostVars, cpuVars, HostInv
<1>2. CASE processSyscallStart
  BY <1>2, ForwardedCall, TerminationHost
<1>3. CASE Next /\ ~processSyscallStart
  BY <1>3, CpuHost, DiskHost, ForwardedAnswer, AppHost, VmRequestHost, AppRequestHost
     DEF Next, Commands
<1>. QED BY <1>1, <1>2, <1>3

-----------------------------------------------------------------------------
(* What the runs check *)

LEMMA CountsAgree ==
  ASSUME NEW box \in Seq(Message)
  PROVE  /\ \A s : CallsIn(box, s) = Among(box, OfSlot(s))
         /\ \A v, c : Cardinality({i \in DOMAIN box : box[i].vmId = v /\ box[i].nextModuleIndex = c})
                        = Among(box, OfCore(v, c))
         /\ \A c : Cardinality({i \in DOMAIN box : box[i].isResponse /\ box[i].nextModuleIndex = c})
                     = Among(box, BackFrom(c))
<1>1. \A i \in DOMAIN box : box[i] \in Message
  BY ElementOfSeq
<1>2. ASSUME NEW s PROVE CallsIn(box, s) = Among(box, OfSlot(s))
  <2>1. {i \in DOMAIN box : chooseIndex(box[i]) = s} = {i \in DOMAIN box : box[i] \in OfSlot(s)}
    BY <1>1 DEF OfSlot
  <2>. QED BY <2>1 DEF CallsIn, Among
<1>3. ASSUME NEW v, NEW c
      PROVE  Cardinality({i \in DOMAIN box : box[i].vmId = v /\ box[i].nextModuleIndex = c})
               = Among(box, OfCore(v, c))
  <2>1. {i \in DOMAIN box : box[i].vmId = v /\ box[i].nextModuleIndex = c}
          = {i \in DOMAIN box : box[i] \in OfCore(v, c)}
    BY <1>1 DEF OfCore
  <2>. QED BY <2>1 DEF Among
<1>4. ASSUME NEW c
      PROVE  Cardinality({i \in DOMAIN box : box[i].isResponse /\ box[i].nextModuleIndex = c})
               = Among(box, BackFrom(c))
  <2>1. {i \in DOMAIN box : box[i].isResponse /\ box[i].nextModuleIndex = c}
          = {i \in DOMAIN box : box[i] \in BackFrom(c)}
    BY <1>1 DEF BackFrom
  <2>. QED BY <2>1 DEF Among
<1>. QED BY <1>2, <1>3, <1>4

LEMMA UnderWay ==
  ASSUME CpuInv(sched, inbox, queueTable, core), NEW s
  PROVE  CallsUnderWay(s) = Total(sched, inbox, queueTable, core, s)
<1>1. /\ inbox \in [Module -> Seq(Message)] /\ core \in [CpuCores -> CoreType]
      /\ \A v \in Vm : sched[v].requestsQueue \in Seq(Message) /\ queueTable[v].queue \in Seq(Message)
  BY DEF CpuInv, Boxes, Machines, DiskQueues, SchedulerType, DiskType
<1>2. [m \in Module |-> CallsIn(inbox[m], s)] = [m \in Module |-> Among(inbox[m], OfSlot(s))]
  BY <1>1, CountsAgree
<1>3. [v \in Vm |-> CallsIn(sched[v].requestsQueue, s) + CallsIn(queueTable[v].queue, s)]
        = [v \in Vm |-> Held(sched[v], queueTable[v], s)]
  BY <1>1, CountsAgree DEF Held
<1>4. {c \in CpuCores : core[c] # NoCall /\ chooseIndex(core[c]) = s}
        = {c \in CpuCores : core[c] \in OfSlot(s)}
  BY <1>1, Nothing DEF CoreType, OfSlot
<1>. QED BY <1>2, <1>3, <1>4 DEF CallsUnderWay, Total, InboxCalls, WaitingCalls, WorkedOn

LEMMA OutOnCore ==
  ASSUME CpuInv(sched, inbox, queueTable, core), NEW v \in Vm, NEW c \in CpuCores
  PROVE  OnCore(v, c) = OutOn(inbox, core, v, c)
<1>1. /\ inbox[Hub] \in Seq(Message) /\ inbox[Core(c)] \in Seq(Message)
      /\ inbox[Scheduler(v)] \in Seq(Message) /\ core[c] \in CoreType
  BY ModuleNames DEF CpuInv, Boxes
<1>2. /\ Cardinality({i \in DOMAIN inbox[Hub] : /\ inbox[Hub][i].vmId = v
                                                /\ inbox[Hub][i].nextModuleIndex = c})
           = Among(inbox[Hub], OfCore(v, c))
      /\ Cardinality({i \in DOMAIN inbox[Core(c)] : /\ inbox[Core(c)][i].vmId = v
                                                    /\ inbox[Core(c)][i].nextModuleIndex = c})
           = Among(inbox[Core(c)], OfCore(v, c))
      /\ Cardinality({i \in DOMAIN inbox[Scheduler(v)] :
                        /\ inbox[Scheduler(v)][i].isResponse
                        /\ inbox[Scheduler(v)][i].nextModuleIndex = c})
           = Among(inbox[Scheduler(v)], BackFrom(c))
  BY <1>1, CountsAgree
<1>3. One(core[c], OfCore(v, c)) = IF core[c] # NoCall /\ core[c].vmId = v THEN 1 ELSE 0
  <2>1. core[c] = NoCall \/ core[c].nextModuleIndex = c
    BY DEF CpuInv, InCores, InCore
  <2>. QED BY <1>1, <2>1, Nothing DEF CoreType, OfCore, One
<1>. QED BY <1>2, <1>3 DEF OnCore, OutOn

LEMMA TypeHolds ==
  ASSUME HostInv
  PROVE  TypeOK
<1>1. virtual \in BOOLEAN /\ failed \in BOOLEAN /\ freeCores \subseteq CpuCores
  BY DEF HostInv, CoresOK
<1>2. /\ \A m \in Module : inbox[m] \in Seq(Message)
      /\ \A c \in CpuCores : core[c] = NoCall \/ core[c] \in Message
      /\ \A v \in Vm : sched[v] \in SchedulerType /\ queueTable[v] \in DiskType
  BY DEF HostInv, CpuInv, Boxes, CoreType, Machines, DiskQueues
<1>3. \A v \in Vm, p \in 1..MaxApps : vmTable[v].apps[p].pid \in {p, Free}
  BY DEF HostInv, TableOK, BlockOK
<1>4. \A s \in Slot : app[s] \in Application \cup {NoApp}
  BY DEF HostInv, CallsOK
<1>5. \A v \in Vm :
        /\ sched[v].running \in BOOLEAN /\ sched[v].requestsQueue \in Seq(Message)
        /\ sched[v].cores \in Seq(BOOLEAN) /\ sched[v].index \in Seq(CpuCores)
        /\ queueTable[v].queue \in Seq(Message) /\ queueTable[v].ioFinished \in BOOLEAN
  BY <1>2 DEF SchedulerType, DiskType
<1>. QED BY <1>1, <1>2, <1>3, <1>4, <1>5 DEF TypeOK

LEMMA ConservedHolds ==
  ASSUME HostInv
  PROVE  CallsConserved
<1>1. \A s : CallsUnderWay(s) = Total(sched, inbox, queueTable, core, s)
  BY UnderWay DEF HostInv
<1>. QED BY <1>1 DEF CallsConserved, HostInv, CallsOK, CallsOf

LEMMA CoresKeptHolds ==
  ASSUME HostInv
  PROVE  CoresKept
<1>1. CpuInv(sched, inbox, queueTable, core)
  BY DEF HostInv
<1>2. \A v \in Vm : SchedulerOK(v, sched[v])
  BY <1>1 DEF CpuInv, Machines
<1>3. \A v \in Vm : /\ DOMAIN sched[v].cores = DOMAIN sched[v].index
                    /\ \A i \in DOMAIN sched[v].index : sched[v].index[i] \in CpuCores
  <2>1. SUFFICES ASSUME NEW v \in Vm
                 PROVE  /\ DOMAIN sched[v].cores = DOMAIN sched[v].index
                        /\ \A i \in DOMAIN sched[v].index : sched[v].index[i] \in CpuCores
    OBVIOUS
  <2>2. /\ sched[v].cores \in Seq(BOOLEAN) /\ sched[v].index \in Seq(CpuCores)
        /\ Len(sched[v].index) = Len(sched[v].cores)
    BY <1>2 DEF SchedulerOK, SchedulerType
  <2>. QED BY <2>2, LenProperties, ElementOfSeq
<1>4. ASSUME NEW v \in Vm, NEW i \in DOMAIN sched[v].cores
      PROVE  /\ OnCore(v, sched[v].index[i]) = IF sched[v].cores[i] THEN 0 ELSE 1
             /\ \A w \in Vm \ {v} : \A j \in DOMAIN sched[w].cores :
                  sched[w].index[j] # sched[v].index[i]
             /\ virtual => sched[v].index[i] \notin freeCores
  <2>1. OnCore(v, sched[v].index[i]) = OutOn(inbox, core, v, sched[v].index[i])
    BY <1>1, <1>3, OutOnCore
  <2>2. OutOn(inbox, core, v, sched[v].index[i]) = IF sched[v].cores[i] THEN 0 ELSE 1
    BY <1>1 DEF CpuInv, Busy
  <2>3. \A w \in Vm \ {v} : \A j \in DOMAIN sched[w].cores :
          sched[w].index[j] # sched[v].index[i]
    BY <1>1, <1>3 DEF CpuInv, Disjoint
  <2>4. virtual => sched[v].index[i] \notin freeCores
    BY <1>3 DEF HostInv, CoresOK
  <2>. QED BY <2>1, <2>2, <2>3, <2>4
<1>5. \A v \in Vm : sched[v].requestsQueue # <<>> => searchIdleCPU(sched[v]) = SC_NotFound
  BY <1>2 DEF SchedulerOK, searchIdleCPU
<1>. QED BY <1>4, <1>5 DEF CoresKept

-----------------------------------------------------------------------------
(* The theorems *)

LEMMA HostInvariant == RequestsFit /\ Spec => []HostInv
<1>1. RequestsFit /\ Init => HostInv
  BY InitHost
<1>2. HostInv /\ [Next]_vars => HostInv'
  BY NextHost
<1>. QED BY <1>1, <1>2, PTL DEF Spec

\* Control table, schedulers, disk queues, cores and applications hold values of the declared kinds, and every message on its way is a well-formed system call, whatever the requests and the number of cores, as long as the node was not given more than it has (Hypervisor.cc, CpuSchedulerRR.cc, DiskManager.cc).
THEOREM HostTypeCorrect == RequestsFit /\ Spec => []TypeOK
BY HostInvariant, TypeHolds, PTL

\* Every system call an application made is in exactly one place until it returns, through the hypervisor, the round-robin queue with its preemptions, the hub, the core and the disk; an application that ended left none (Hypervisor.cc:137-176, CpuSchedulerRR.cc:188-262, DiskManager.cc:39-61).
THEOREM NoCallLost == RequestsFit /\ Spec => []CallsConserved
BY HostInvariant, ConservedHolds, PTL

\* A core that a scheduler holds for busy has exactly one computation of its VM out on it, an idle one none; no two VMs share a core, none of theirs is free, and nothing waits while a core is idle (HardwareManager.cc:66-89, CpuSchedulerRR.cc:90-147,188-262).
THEOREM CoresAccounted == RequestsFit /\ Spec => []CoresKept
BY HostInvariant, CoresKeptHolds, PTL

-----------------------------------------------------------------------------
(* The reports of the deployments *)

\* Every VM has a name of its own (VmInstance.cc:7) and is asked for once.
RequestedOnce ==
  \A r, q \in Requests : \A i \in DOMAIN r, j \in DOMAIN q : r[i] = q[j] => r = q /\ i = j

Waits(block, p) == block.apps[p].pid # Free

\* The pids of a deployment stand for the applications that did not end.
DeploymentOK(v, block, ap) ==
  /\ block.request = NoRequest =>
       \A p \in 1..MaxApps : block.apps[p].deploymentIndex = -1 /\ ~Waits(block, p)
  /\ block.request # NoRequest =>
       /\ block.globalId # NoRequest
       /\ \A p \in 1..MaxApps : Waits(block, p) <=> Live(ap[<<v, p>>])
       /\ \A p \in 1..MaxApps : Waits(block, p) =>
            /\ block.apps[p].deploymentIndex \in DOMAIN block.request
            /\ ~isFinished(block.request[block.apps[p].deploymentIndex])
       /\ \A p, q \in 1..MaxApps :
            Waits(block, p) /\ Waits(block, q)
              /\ block.apps[p].deploymentIndex = block.apps[q].deploymentIndex => p = q
       /\ \A i \in DOMAIN block.request :
            ~isFinished(block.request[i]) =>
              \E p \in 1..MaxApps : Waits(block, p) /\ block.apps[p].deploymentIndex = i

Over(v, ap) == \A p \in 1..MaxApps : ~Live(ap[<<v, p>>])
Ended(tab, ap, v) == tab[v].request # NoRequest /\ Over(v, ap)

Names(tab) ==
  \A v, w \in Vm : tab[v].globalId = tab[w].globalId /\ tab[v].globalId # NoRequest => v = w

Unnamed(tab, com) ==
  \A r \in com : \A i \in DOMAIN r : \A v \in Vm : tab[v].globalId # r[i]

EventType == [vmId : GlobalVm \cup {HostName, NoRequest},
              apps : {NoRequest} \cup Seq({"waiting", "finishedOK", "finishedError"})]

\* One report of each deployment that is over, and none of another.
Reports(tab, ap, ev) ==
  /\ ev \in Seq(EventType)
  /\ \A i \in DOMAIN ev : \E v \in Vm : /\ Ended(tab, ap, v)
                                        /\ ev[i].vmId = tab[v].globalId
                                        /\ ev[i].apps = tab[v].request
  /\ \A i, j \in DOMAIN ev : ev[i].vmId = ev[j].vmId => i = j
  /\ \A v \in Vm : Ended(tab, ap, v) => \E i \in DOMAIN ev : ev[i].vmId = tab[v].globalId

ReportsAre(tab, ap, com, ev) ==
  /\ \A v \in Vm : DeploymentOK(v, tab[v], ap)
  /\ Names(tab) /\ Unnamed(tab, com) /\ Reports(tab, ap, ev)

ReportInv == ReportsAre(vmTable, app, commands, events)

LEMMA SlotOf ==
  \A v \in Vm, p \in 1..MaxApps : <<v, p>> \in Slot /\ <<v, p>>[1] = v /\ <<v, p>>[2] = p
BY DEF Slot

\* Only who is alive matters.
LEMMA ReportsStay ==
  ASSUME NEW tab, NEW ap, NEW ap2, NEW com, NEW ev, ReportsAre(tab, ap, com, ev),
         \A s \in Slot : Live(ap2[s]) <=> Live(ap[s])
  PROVE  ReportsAre(tab, ap2, com, ev)
<1>1. \A v \in Vm, p \in 1..MaxApps : Live(ap2[<<v, p>>]) <=> Live(ap[<<v, p>>])
  BY SlotOf
<1>2. \A v \in Vm : Ended(tab, ap2, v) <=> Ended(tab, ap, v)
  BY <1>1 DEF Ended, Over
<1>3. \A v \in Vm : DeploymentOK(v, tab[v], ap2)
  BY <1>1 DEF ReportsAre, DeploymentOK
<1>4. Reports(tab, ap2, ev)
  BY <1>2 DEF ReportsAre, Reports
<1>. QED BY <1>3, <1>4 DEF ReportsAre

Marked(request, i, state) == [request EXCEPT ![i] = state]

\* What an application's end makes of its block.
LEMMA EndedBlock ==
  ASSUME NEW old \in BlockType, NEW p \in 1..MaxApps, NEW i, NEW state,
         old.request # NoRequest, NEW block,
         block = changeStateByIndex(deallocateApp(old, p), i, state)
  PROVE  /\ block.globalId = old.globalId /\ block.request = Marked(old.request, i, state)
         /\ ~Waits(block, p)
         /\ \A q \in 1..MaxApps : q # p => block.apps[q] = old.apps[q]
         /\ \A q \in 1..MaxApps : block.apps[q].deploymentIndex = old.apps[q].deploymentIndex
<1>. DEFINE mid == deallocateApp(old, p)
            apps == old.apps
            apps2 == [apps EXCEPT ![p].pid = Free]
<1>1. apps \in [1..MaxApps -> [pid : (1..MaxApps) \cup {Free}, deploymentIndex : Int]]
  BY DEF BlockType
<1>2. mid = [old EXCEPT !.apps = apps2]
  BY DEF deallocateApp, BlockType
<1>3. block = [mid EXCEPT !.request[i] = state]
  BY DEF changeStateByIndex
<1>. HIDE DEF apps, mid
<1>4. /\ apps2[p].pid = Free /\ \A q \in 1..MaxApps : q # p => apps2[q] = apps[q]
      /\ \A q \in 1..MaxApps : apps2[q].deploymentIndex = apps[q].deploymentIndex
  BY <1>1
<1>. HIDE DEF apps2
<1>5. mid.apps = apps2 /\ mid.request = old.request /\ mid.globalId = old.globalId
      /\ DOMAIN mid = DOMAIN old
  BY <1>2 DEF BlockType
<1>6. block.apps = apps2 /\ block.globalId = old.globalId
      /\ block.request = Marked(old.request, i, state)
  BY <1>3, <1>5 DEF BlockType, Marked
<1>. QED BY <1>4, <1>6 DEF Waits, apps

\* The end of an application, seen from the deployment.
LEMMA EndedDeployment ==
  ASSUME NEW old, old \in BlockType, NEW v \in Vm, NEW p \in 1..MaxApps, NEW ap, NEW ap2,
         DeploymentOK(v, old, ap), old.request # NoRequest, Live(ap[<<v, p>>]),
         ~Live(ap2[<<v, p>>]),
         \A q \in 1..MaxApps : q # p => ap2[<<v, q>>] = ap[<<v, q>>],
         NEW state \in {"finishedOK", "finishedError"}, NEW block,
         block = changeStateByIndex(deallocateApp(old, p), old.apps[p].deploymentIndex, state)
  PROVE  /\ DeploymentOK(v, block, ap2) /\ (allAppsFinished(block) <=> Over(v, ap2))
         /\ block.globalId = old.globalId /\ block.globalId # NoRequest
         /\ block.request # NoRequest /\ block \in BlockType
<1>. DEFINE i == old.apps[p].deploymentIndex
            States == {"waiting", "finishedOK", "finishedError"}
<1>1. /\ block.globalId = old.globalId /\ block.request = Marked(old.request, i, state)
      /\ ~Waits(block, p)
      /\ \A q \in 1..MaxApps : q # p => block.apps[q] = old.apps[q]
  <2>1. block = changeStateByIndex(deallocateApp(old, p), i, state)
    OBVIOUS
  <2>. HIDE DEF i
  <2>. QED BY <2>1, EndedBlock
<1>2. Waits(old, p) /\ i \in DOMAIN old.request /\ old.globalId # NoRequest
  BY DEF DeploymentOK
<1>3. isFinished(state)
  BY DEF isFinished
<1>4. /\ DOMAIN block.request = DOMAIN old.request /\ block.request[i] = state
      /\ \A k \in DOMAIN old.request : k # i => block.request[k] = old.request[k]
  BY <1>1, <1>2 DEF Marked
<1>5. old.request \in Seq(States) /\ block.request \in Seq(States) /\ block.request # NoRequest
  <2>1. old.request \in Seq(States)
    BY DEF BlockType
  <2>. DEFINE r == old.request
  <2>. HIDE DEF i, r, States
  <2>2. i \in 1..Len(r) /\ r \in Seq(States)
    BY <1>2, <2>1, LenProperties DEF r
  <2>3. state \in States
    BY DEF States
  <2>4. Marked(r, i, state) \in Seq(States)
    BY <2>2, <2>3, ExceptSeq DEF Marked
  <2>5. NoRequest \notin Seq(States)
    BY HostConstants DEF States
  <2>. QED BY <1>1, <2>1, <2>4, <2>5 DEF r
<1>6. \A q \in 1..MaxApps : Waits(block, q) => q # p /\ block.apps[q] = old.apps[q] /\ Waits(old, q)
  BY <1>1 DEF Waits
<1>7. \A q \in 1..MaxApps : q # p => (Waits(old, q) <=> Waits(block, q))
  BY <1>1 DEF Waits
<1>8. \A q \in 1..MaxApps : Waits(block, q) => block.apps[q].deploymentIndex # i
  BY <1>2, <1>6 DEF DeploymentOK
<1>. HIDE DEF i
<1>9. \A q \in 1..MaxApps : Waits(block, q) <=> Live(ap2[<<v, q>>])
  BY <1>1, <1>6, <1>7 DEF DeploymentOK
<1>10. \A q \in 1..MaxApps : Waits(block, q) =>
         /\ block.apps[q].deploymentIndex \in DOMAIN block.request
         /\ ~isFinished(block.request[block.apps[q].deploymentIndex])
  BY SMTT(60), <1>4, <1>6, <1>8 DEF DeploymentOK
<1>11. \A k \in DOMAIN block.request :
         ~isFinished(block.request[k]) =>
           \E q \in 1..MaxApps : Waits(block, q) /\ block.apps[q].deploymentIndex = k
  <2>1. SUFFICES ASSUME NEW k \in DOMAIN block.request, ~isFinished(block.request[k])
                 PROVE  \E q \in 1..MaxApps : Waits(block, q) /\ block.apps[q].deploymentIndex = k
    OBVIOUS
  <2>2. k # i /\ k \in DOMAIN old.request /\ ~isFinished(old.request[k])
    BY <1>3, <1>4, <2>1
  <2>3. PICK q \in 1..MaxApps : Waits(old, q) /\ old.apps[q].deploymentIndex = k
    BY <2>2 DEF DeploymentOK
  <2>4. q # p
    BY <2>2, <2>3 DEF i
  <2>. QED BY <1>1, <1>7, <2>3, <2>4
<1>12. \A q, r \in 1..MaxApps :
         Waits(block, q) /\ Waits(block, r)
           /\ block.apps[q].deploymentIndex = block.apps[r].deploymentIndex => q = r
  BY <1>6 DEF DeploymentOK
<1>13. DeploymentOK(v, block, ap2)
  BY <1>1, <1>2, <1>5, <1>9, <1>10, <1>11, <1>12 DEF DeploymentOK
<1>14. allAppsFinished(block) <=> Over(v, ap2)
  BY <1>9, <1>10, <1>11 DEF allAppsFinished, Over
<1>15. block \in BlockType
  <2>. DEFINE apps == old.apps
              mid == deallocateApp(old, p)
              apps2 == [apps EXCEPT ![p].pid = Free]
  <2>1. apps2 \in [1..MaxApps -> [pid : (1..MaxApps) \cup {Free}, deploymentIndex : Int]]
    BY DEF BlockType
  <2>2. mid = [old EXCEPT !.apps = apps2]
    BY DEF deallocateApp, BlockType
  <2>3. block = [mid EXCEPT !.request[i] = state]
    BY DEF changeStateByIndex, i
  <2>. HIDE DEF apps2, mid
  <2>4. mid \in BlockType /\ mid.request = old.request
    BY <2>1, <2>2 DEF BlockType
  <2>5. block = [mid EXCEPT !.request = block.request]
    BY <1>1, <2>3, <2>4 DEF Marked
  <2>. QED BY <1>5, <2>4, <2>5 DEF BlockType
<1>. QED BY <1>1, <1>2, <1>5, <1>13, <1>14, <1>15

\* The same, seen from the node: the report is sent with the last end.
LEMMA EndedReports ==
  ASSUME NEW tab, NEW ap, NEW sch, TableOK(tab, ap, sch), NEW com, NEW ev,
         ReportsAre(tab, ap, com, ev), NEW v \in Vm, NEW p \in 1..MaxApps, Live(ap[<<v, p>>]),
         NEW ap2, ~Live(ap2[<<v, p>>]), \A s \in Slot : s # <<v, p>> => ap2[s] = ap[s],
         tab[v].request # NoRequest, NEW state \in {"finishedOK", "finishedError"}, NEW block,
         block = changeStateByIndex(deallocateApp(tab[v], p), tab[v].apps[p].deploymentIndex, state),
         NEW tab2, tab2 = [tab EXCEPT ![v] = block]
  PROVE  ReportsAre(tab2, ap2, com,
                    IF allAppsFinished(block)
                      THEN Append(ev, [vmId |-> block.globalId, apps |-> block.request]) ELSE ev)
<1>1. /\ tab \in [Vm -> BlockType] /\ \A w \in Vm : DeploymentOK(w, tab[w], ap)
      /\ Names(tab) /\ Unnamed(tab, com) /\ Reports(tab, ap, ev)
  BY DEF TableOK, ReportsAre
<1>2. \A w \in Vm, q \in 1..MaxApps : w # v \/ q # p => ap2[<<w, q>>] = ap[<<w, q>>]
  BY SlotOf
<1>3. /\ DeploymentOK(v, block, ap2) /\ (allAppsFinished(block) <=> Over(v, ap2))
      /\ block.globalId = tab[v].globalId /\ block.globalId # NoRequest
      /\ block.request # NoRequest /\ block \in BlockType
  <2>. DEFINE old == tab[v]
  <2>1. old \in BlockType /\ DeploymentOK(v, old, ap) /\ old.request # NoRequest
    BY <1>1
  <2>2. \A q \in 1..MaxApps : q # p => ap2[<<v, q>>] = ap[<<v, q>>]
    BY <1>2
  <2>3. block = changeStateByIndex(deallocateApp(old, p), old.apps[p].deploymentIndex, state)
    OBVIOUS
  <2>. HIDE DEF old
  <2>4. /\ DeploymentOK(v, block, ap2) /\ (allAppsFinished(block) <=> Over(v, ap2))
        /\ block.globalId = old.globalId /\ block.globalId # NoRequest
        /\ block.request # NoRequest /\ block \in BlockType
    BY <2>1, <2>2, <2>3, EndedDeployment
  <2>. QED BY <2>4 DEF old
<1>4. tab2[v] = block /\ \A w \in Vm : w # v => tab2[w] = tab[w]
  <2>1. DOMAIN tab = Vm
    BY <1>1
  <2>2. tab2[v] = block
    BY <2>1
  <2>3. ASSUME NEW w \in Vm, w # v PROVE tab2[w] = tab[w]
    BY <2>1, <2>3
  <2>. QED BY <2>2, <2>3
<1>5. \A w \in Vm : tab2[w].globalId = tab[w].globalId
  BY <1>3, <1>4
<1>6. Names(tab2) /\ Unnamed(tab2, com)
  BY <1>1, <1>5 DEF Names, Unnamed
<1>7. \A w \in Vm : DeploymentOK(w, tab2[w], ap2)
  <2>1. ASSUME NEW w \in Vm, w # v PROVE DeploymentOK(w, tab[w], ap2)
    <3>1. \A q \in 1..MaxApps : ap2[<<w, q>>] = ap[<<w, q>>]
      BY <1>2, <2>1
    <3>2. DeploymentOK(w, tab[w], ap)
      BY <1>1
    <3>. QED BY <3>1, <3>2 DEF DeploymentOK
  <2>. QED BY <1>3, <1>4, <2>1
<1>8. /\ ~Ended(tab, ap, v) /\ (Ended(tab2, ap2, v) <=> allAppsFinished(block))
      /\ \A w \in Vm : w # v => (Ended(tab2, ap2, w) <=> Ended(tab, ap, w))
  BY <1>2, <1>3, <1>4 DEF Ended, Over
<1>9. \A i \in DOMAIN ev : ev[i].vmId # block.globalId
  BY <1>1, <1>3, <1>8 DEF Reports, Names
<1>10. \A i \in DOMAIN ev : \E w \in Vm : /\ Ended(tab2, ap2, w)
                                          /\ ev[i].vmId = tab2[w].globalId
                                          /\ ev[i].apps = tab2[w].request
  BY <1>1, <1>4, <1>8 DEF Reports
<1>11. CASE ~allAppsFinished(block)
  <2>1. Reports(tab2, ap2, ev)
    BY <1>1, <1>5, <1>8, <1>10, <1>11 DEF Reports
  <2>. QED BY <1>6, <1>7, <1>11, <2>1 DEF ReportsAre
<1>12. CASE allAppsFinished(block)
  <2>. DEFINE e == [vmId |-> block.globalId, apps |-> block.request]
              n == Len(ev)
              ev2 == Append(ev, e)
  <2>1. ev \in Seq(EventType) /\ e \in EventType /\ e.vmId = block.globalId /\ e.apps = block.request
    BY <1>1, <1>3 DEF Reports, EventType, BlockType
  <2>. HIDE DEF e
  <2>2. /\ ev2 \in Seq(EventType) /\ n \in Nat /\ DOMAIN ev = 1..n /\ DOMAIN ev2 = 1..(n + 1)
        /\ ev2[n + 1] = e /\ \A i \in 1..n : ev2[i] = ev[i]
    BY <2>1, AppendProperties
  <2>. HIDE DEF n, ev2
  <2>3. \A i \in 1..(n + 1) : i = n + 1 \/ i \in 1..n
    BY <2>2
  <2>4. \A i \in DOMAIN ev2 : \E w \in Vm : /\ Ended(tab2, ap2, w)
                                            /\ ev2[i].vmId = tab2[w].globalId
                                            /\ ev2[i].apps = tab2[w].request
    <3>1. \A i \in 1..n : \E w \in Vm : /\ Ended(tab2, ap2, w)
                                        /\ ev2[i].vmId = tab2[w].globalId
                                        /\ ev2[i].apps = tab2[w].request
      <4>1. SUFFICES ASSUME NEW i \in 1..n
                     PROVE  \E w \in Vm : /\ Ended(tab2, ap2, w)
                                          /\ ev2[i].vmId = tab2[w].globalId
                                          /\ ev2[i].apps = tab2[w].request
        OBVIOUS
      <4>2. i \in DOMAIN ev /\ ev2[i] = ev[i]
        BY <2>2
      <4>3. PICK w \in Vm : /\ Ended(tab2, ap2, w)
                            /\ ev[i].vmId = tab2[w].globalId
                            /\ ev[i].apps = tab2[w].request
        BY <1>10, <4>2
      <4>. QED BY <4>2, <4>3
    <3>2. /\ Ended(tab2, ap2, v) /\ ev2[n + 1].vmId = tab2[v].globalId
          /\ ev2[n + 1].apps = tab2[v].request
      BY <1>4, <1>8, <1>12, <2>1, <2>2
    <3>. QED BY <2>2, <2>3, <3>1, <3>2
  <2>5. \A i, j \in DOMAIN ev2 : ev2[i].vmId = ev2[j].vmId => i = j
    BY <1>1, <1>9, <2>1, <2>2, <2>3 DEF Reports
  <2>6. \A w \in Vm : Ended(tab2, ap2, w) => \E i \in DOMAIN ev2 : ev2[i].vmId = tab2[w].globalId
    <3>1. SUFFICES ASSUME NEW w \in Vm, Ended(tab2, ap2, w)
                   PROVE  \E i \in DOMAIN ev2 : ev2[i].vmId = tab2[w].globalId
      OBVIOUS
    <3>2. CASE w = v
      <4>1. n + 1 \in DOMAIN ev2 /\ ev2[n + 1].vmId = tab2[w].globalId
        BY <1>4, <2>1, <2>2, <3>2
      <4>. QED BY <4>1
    <3>3. CASE w # v
      <4>1. PICK i \in DOMAIN ev : ev[i].vmId = tab[w].globalId
        BY <1>1, <1>8, <3>1, <3>3 DEF Reports
      <4>2. i \in DOMAIN ev2 /\ ev2[i] = ev[i]
        BY <2>2
      <4>. QED BY <1>5, <4>1, <4>2
    <3>. QED BY <3>2, <3>3
  <2>7. Reports(tab2, ap2, ev2)
    BY <2>2, <2>4, <2>5, <2>6 DEF Reports
  <2>8. ReportsAre(tab2, ap2, com, ev2)
    BY <1>6, <1>7, <2>7 DEF ReportsAre
  <2>. QED BY <1>12, <2>8 DEF ev2, e
<1>. QED BY <1>11, <1>12

LEMMA TerminationReports ==
  ASSUME HostInv, ReportInv, processSyscallStart, Head(inbox[Hypervisor]).opCode \in {"EXIT", "ABORT"}
  PROVE  ReportInv'
<1>. DEFINE sm == Head(inbox[Hypervisor])
            s == chooseIndex(sm)
            v == s[1]
            p == s[2]
            i == vmTable[v].apps[p].deploymentIndex
            block == changeStateByIndex(deallocateApp(vmTable[v], p), i, "finishedOK")
<1>0. /\ CpuInv(sched, inbox, queueTable, core) /\ CallsOK(sched, inbox, queueTable, core, app)
      /\ Exits(inbox, app) /\ Boxes(sched, inbox) /\ Hypervisor \in Module
      /\ inbox[Hypervisor] # <<>> /\ TableOK(vmTable, app, sched)
  BY ModuleNames DEF HostInv, CpuInv, processSyscallStart, Arrived
<1>1. sm.opCode = "EXIT"
  <2>1. sm \in Message
    BY <1>0, BoxesHandled
  <2>. HIDE DEF sm
  <2>2. sm.opCode \in {"READ", "WRITE", "EXEC", "EXIT"}
    BY <2>1 DEF Message
  <2>. QED BY <2>2 DEF sm
<1>2. s \in Slot /\ s = <<sm.vmId, sm.pid>> /\ app[s] # NoApp /\ app[s].kind = "local"
  BY <1>0, <1>1, LastCall
<1>3. v = sm.vmId /\ p = sm.pid
  BY IndexParts
<1>4. /\ vmTable' = [vmTable EXCEPT ![v] = block] /\ app' = Put(app, s, NoApp)
      /\ events' = IF allAppsFinished(block)
                     THEN Append(events, [vmId |-> block.globalId, apps |-> block.request])
                     ELSE events
      /\ commands' = commands
  BY <1>1, <1>2, <1>3 DEF processSyscallStart, handleAppTermination, deleteApp, Put
<1>. HIDE DEF block
<1>5. v \in Vm /\ p \in 1..MaxApps /\ s = <<v, p>> /\ Live(app[s]) /\ app[s] # Placeholder
  BY <1>2, SlotParts DEF Live, Placeholder
<1>6. vmTable[v].request # NoRequest
  BY <1>0, <1>2, <1>5, TableOfApp
<1>7. ~Live(app'[s]) /\ \A t \in Slot : t # s => app'[t] = app[t]
  BY <1>0, <1>2, <1>4 DEF CallsOK, Put, Live
<1>8. block = changeStateByIndex(deallocateApp(vmTable[v], p),
                                 vmTable[v].apps[p].deploymentIndex, "finishedOK")
  BY DEF block
<1>9. ReportsAre(vmTable, app, commands, events)
  BY DEF ReportInv
<1>. HIDE DEF s, i, sm
<1>10. ReportsAre([vmTable EXCEPT ![v] = block], app', commands,
                  IF allAppsFinished(block)
                    THEN Append(events, [vmId |-> block.globalId, apps |-> block.request])
                    ELSE events)
  <2>. HIDE DEF v, p
  <2>1. PICK tab2 : tab2 = [vmTable EXCEPT ![v] = block]
    OBVIOUS
  <2>2. PICK ap2 : ap2 = app'
    OBVIOUS
  <2>3. ~Live(ap2[<<v, p>>]) /\ (\A t \in Slot : t # <<v, p>> => ap2[t] = app[t])
        /\ Live(app[<<v, p>>]) /\ v \in Vm /\ p \in 1..MaxApps
    BY <1>5, <1>7, <2>2
  <2>4. ReportsAre(tab2, ap2, commands,
                   IF allAppsFinished(block)
                     THEN Append(events, [vmId |-> block.globalId, apps |-> block.request])
                     ELSE events)
    BY <1>0, <1>6, <1>8, <1>9, <2>1, <2>3, EndedReports
  <2>. QED BY <2>1, <2>2, <2>4
<1>. QED BY <1>4, <1>10 DEF ReportInv

-----------------------------------------------------------------------------
(* A deployment *)

\* The first i applications have pids of their own.
Assigned(b, i) ==
  /\ \A p \in 1..MaxApps : IF b.apps[p].pid = Free
                             THEN b.apps[p].deploymentIndex = -1
                             ELSE b.apps[p].deploymentIndex \in 1..i
  /\ \A p, q \in 1..MaxApps : Waits(b, p) /\ Waits(b, q)
       /\ b.apps[p].deploymentIndex = b.apps[q].deploymentIndex => p = q

LEMMA OneAssigned ==
  ASSUME NEW b, b \in BlockType, NEW i \in Nat, Assigned(b, i), NEW p
  PROVE  Assigned(allocateApp(b, p, i + 1), i + 1)
<1>. DEFINE apps == b.apps
            one == [pid |-> p, deploymentIndex |-> i + 1]
            apps2 == [apps EXCEPT ![p] = one]
            new == allocateApp(b, p, i + 1)
<1>1. apps \in [1..MaxApps -> [pid : (1..MaxApps) \cup {Free}, deploymentIndex : Int]]
  BY DEF BlockType
<1>2. new = [b EXCEPT !.apps = apps2]
  BY DEF allocateApp
<1>3. \A k \in 1..MaxApps : /\ IF apps[k].pid = Free THEN apps[k].deploymentIndex = -1
                                                     ELSE apps[k].deploymentIndex \in 1..i
                            /\ apps[k].pid # Free => apps[k].deploymentIndex # i + 1
  BY DEF Assigned
<1>4. \A k, q \in 1..MaxApps : apps[k].pid # Free /\ apps[q].pid # Free
        /\ apps[k].deploymentIndex = apps[q].deploymentIndex => k = q
  BY DEF Assigned, Waits
<1>. HIDE DEF apps
<1>5. \A k \in 1..MaxApps : apps2[k] = IF k = p THEN one ELSE apps[k]
  BY <1>1
<1>6. p \in 1..MaxApps => p # Free
  BY HostConstants DEF Free
<1>7. \A j \in 1..i : j \in 1..(i + 1)
  OBVIOUS
<1>8. one.pid = p /\ one.deploymentIndex = i + 1 /\ i + 1 \in 1..(i + 1)
  OBVIOUS
<1>. HIDE DEF one, apps2
<1>9. \A k \in 1..MaxApps : IF apps2[k].pid = Free THEN apps2[k].deploymentIndex = -1
                                                   ELSE apps2[k].deploymentIndex \in 1..(i + 1)
  BY <1>3, <1>5, <1>6, <1>7, <1>8
<1>10. \A k, q \in 1..MaxApps : apps2[k].pid # Free /\ apps2[q].pid # Free
         /\ apps2[k].deploymentIndex = apps2[q].deploymentIndex => k = q
  BY <1>3, <1>4, <1>5, <1>6, <1>8
<1>11. new.apps = apps2
  <2>. HIDE DEF new
  <2>. QED BY <1>2 DEF BlockType
<1>. HIDE DEF new
<1>12. Assigned(new, i + 1)
  BY <1>9, <1>10, <1>11 DEF Assigned, Waits
<1>. QED BY <1>12 DEF new

LEMMA AllAssigned ==
  ASSUME NEW block, NEW n \in Nat, Allotted(block, n, block), Assigned(block, 0)
  PROVE  Assigned(allocateApps(block, n), n)
<1>1. PICK g : AppsInTurn(g, block, n) /\ allocateApps(block, n) = g[n]
  BY AppsAre
<1>. DEFINE Good == {i \in 0..n : Assigned(g[i], i)}
<1>2. 0 \in Good
  <2>1. 0 \in 0..n /\ g[0] = block
    BY <1>1 DEF AppsInTurn
  <2>. QED BY <2>1
<1>3. \A i \in 1..n : i - 1 \in Good => i \in Good
  <2>1. SUFFICES ASSUME NEW i \in 1..n, i - 1 \in Good PROVE i \in Good
    OBVIOUS
  <2>2. i \in 0..n /\ i # 0 /\ i - 1 \in 0..n /\ i - 1 \in Nat /\ (i - 1) + 1 = i
    OBVIOUS
  <2>3. g[i] = allocateApp(g[i - 1], freePid(g[i - 1]), i) /\ g[i - 1] \in BlockType
    BY <1>1, <2>2 DEF AppsInTurn, Allotted
  <2>4. Assigned(g[i - 1], i - 1)
    BY <2>1
  <2>5. Assigned(allocateApp(g[i - 1], freePid(g[i - 1]), (i - 1) + 1), (i - 1) + 1)
    BY <2>2, <2>3, <2>4, OneAssigned
  <2>. QED BY <2>2, <2>3, <2>5
<1>4. 0..n \subseteq Good
  <2>. HIDE DEF Good
  <2>. QED BY <1>2, <1>3, BoundedInduction
<1>5. n \in 0..n
  OBVIOUS
<1>. QED BY <1>1, <1>4, <1>5

LEMMA DeployedBlock ==
  ASSUME NEW tab, NEW ap, NEW sch, TableOK(tab, ap, sch), NEW v \in Vm, DeploymentOK(v, tab[v], ap),
         NEW g \in GlobalVm \cup {HostName}, tab[v].globalId = g, tab[v].request = NoRequest,
         NEW kinds, kinds = Deployment[g], NEW block, block = NewDeployment(tab[v], kinds),
         \A i \in DOMAIN kinds : \E p \in 1..MaxApps : block.apps[p].deploymentIndex = i,
         NEW ap2, \A p \in 1..MaxApps : Live(ap2[<<v, p>>]) <=> Waits(block, p)
  PROVE  DeploymentOK(v, block, ap2) /\ ~Over(v, ap2) /\ block.globalId = g
<1>. DEFINE old == tab[v]
            waits == [i \in DOMAIN kinds |-> "waiting"]
            mid == associateDeploymentToVm(old, waits)
            States == {"waiting", "finishedOK", "finishedError"}
            n == Len(kinds)
<1>1. /\ kinds \in Seq({"local", "iot"}) /\ n \in Nat /\ DOMAIN kinds = 1..n
      /\ n \in 1..MaxApps
  BY HostConstants
<1>2. /\ waits \in Seq(States) /\ DOMAIN waits = 1..n
      /\ \A i \in 1..n : waits[i] = "waiting"
  <2>. HIDE DEF n
  <2>. QED BY <1>1
<1>3. /\ old \in BlockType
      /\ \A p \in 1..MaxApps : old.apps[p].pid \in {p, Free}
                               /\ old.apps[p].pid = Free /\ old.apps[p].deploymentIndex = -1
  BY DEF TableOK, BlockOK, DeploymentOK, Waits
<1>4. /\ mid \in BlockType /\ mid.request = waits /\ mid.apps = old.apps
      /\ mid.globalId = old.globalId
  <2>1. mid = [old EXCEPT !.request = waits]
    BY DEF associateDeploymentToVm
  <2>. HIDE DEF waits, old, mid
  <2>. QED BY <1>2, <1>3, <2>1 DEF BlockType
<1>. HIDE DEF waits, old, mid, n, States
<1>5. Allotted(mid, n, mid) /\ Assigned(mid, 0)
  BY <1>3, <1>4 DEF Allotted, Assigned, Waits
<1>6. block = allocateApps(mid, n)
  BY DEF mid, old, waits, n, NewDeployment
<1>7. Allotted(mid, n, block) /\ Assigned(block, n)
  BY <1>1, <1>5, <1>6, AllAllotted, AllAssigned
<1>8. block.request = waits /\ block.globalId = g
  BY <1>4, <1>7 DEF Allotted, old
<1>9. waits # NoRequest /\ g # NoRequest
  <2>1. NoRequest \notin Seq(States) /\ g # NoRequest
    BY HostConstants DEF States
  <2>. QED BY <1>2, <2>1
<1>10. ~isFinished("waiting")
  BY DEF isFinished
<1>11. \A p \in 1..MaxApps : Waits(block, p) => block.apps[p].deploymentIndex \in 1..n
  BY <1>7 DEF Assigned, Waits
<1>12. \A i \in 1..n : \E p \in 1..MaxApps : Waits(block, p) /\ block.apps[p].deploymentIndex = i
  <2>1. SUFFICES ASSUME NEW i \in 1..n
                 PROVE  \E p \in 1..MaxApps : Waits(block, p) /\ block.apps[p].deploymentIndex = i
    OBVIOUS
  <2>2. i # -1 /\ i \in DOMAIN kinds
    BY <1>1
  <2>3. PICK p \in 1..MaxApps : block.apps[p].deploymentIndex = i
    BY <2>2
  <2>4. block.apps[p].pid # Free
    BY <1>7, <2>2, <2>3 DEF Assigned
  <2>. QED BY <2>3, <2>4 DEF Waits
<1>13. \A p, q \in 1..MaxApps : Waits(block, p) /\ Waits(block, q)
         /\ block.apps[p].deploymentIndex = block.apps[q].deploymentIndex => p = q
  BY <1>7 DEF Assigned
<1>14. DeploymentOK(v, block, ap2)
  <2>1. DOMAIN waits = 1..n /\ \A i \in 1..n : ~isFinished(waits[i])
    BY <1>2, <1>10
  <2>2. /\ block.request # NoRequest /\ block.globalId # NoRequest /\ DOMAIN block.request = 1..n
        /\ \A i \in 1..n : ~isFinished(block.request[i])
    BY <1>8, <1>9, <2>1
  <2>. QED BY <1>11, <1>12, <1>13, <2>2 DEF DeploymentOK
<1>15. ~Over(v, ap2)
  <2>1. 1 \in 1..n
    BY <1>1
  <2>. QED BY <1>12, <2>1 DEF Over
<1>. QED BY <1>8, <1>14, <1>15

LEMMA DeployedReports ==
  ASSUME NEW tab, tab \in [Vm -> BlockType], NEW ap, NEW com, NEW ev,
         ReportsAre(tab, ap, com, ev), NEW v \in Vm, NEW g, g # NoRequest, tab[v].globalId = g,
         tab[v].request = NoRequest, NEW block, NEW ap2,
         DeploymentOK(v, block, ap2), ~Over(v, ap2), block.globalId = g,
         \A s \in Slot : s[1] # v => Live(ap2[s]) <=> Live(ap[s])
  PROVE  ReportsAre([tab EXCEPT ![v] = block], ap2, com, ev)
<1>. DEFINE tab2 == [tab EXCEPT ![v] = block]
<1>1. /\ \A w \in Vm : DeploymentOK(w, tab[w], ap)
      /\ Names(tab) /\ Unnamed(tab, com) /\ Reports(tab, ap, ev)
  BY DEF ReportsAre
<1>2. tab2[v] = block /\ \A w \in Vm : w # v => tab2[w] = tab[w]
  OBVIOUS
<1>3. \A w \in Vm : tab2[w].globalId = tab[w].globalId
  <2>. HIDE DEF tab2
  <2>. QED BY <1>2
<1>4. \A w \in Vm, q \in 1..MaxApps : w # v => (Live(ap2[<<w, q>>]) <=> Live(ap[<<w, q>>]))
  BY SlotOf
<1>. HIDE DEF tab2
<1>5. ~Ended(tab, ap, v) /\ ~Ended(tab2, ap2, v)
  BY DEF Ended
<1>6. \A w \in Vm : Ended(tab2, ap2, w) <=> Ended(tab, ap, w)
  BY <1>2, <1>4, <1>5 DEF Ended, Over
<1>7. \A w \in Vm : DeploymentOK(w, tab2[w], ap2)
  <2>1. ASSUME NEW w \in Vm, w # v PROVE DeploymentOK(w, tab[w], ap2)
    <3>1. \A q \in 1..MaxApps : Live(ap2[<<w, q>>]) <=> Live(ap[<<w, q>>])
      BY <1>4, <2>1
    <3>2. DeploymentOK(w, tab[w], ap)
      BY <1>1
    <3>. QED BY <3>1, <3>2 DEF DeploymentOK
  <2>. QED BY <1>2, <2>1
<1>8. Names(tab2) /\ Unnamed(tab2, com)
  BY <1>1, <1>3 DEF Names, Unnamed
<1>9. \A w \in Vm : Ended(tab, ap, w) => w # v /\ tab2[w] = tab[w]
  BY <1>2, <1>5
<1>10. Reports(tab2, ap2, ev)
  BY <1>1, <1>3, <1>6, <1>9 DEF Reports
<1>11. ReportsAre(tab2, ap2, com, ev)
  BY <1>7, <1>8, <1>10 DEF ReportsAre
<1>. QED BY <1>11 DEF tab2

LEMMA AppRequestReports ==
  ASSUME HostInv, ReportInv, NEW g \in GlobalVm \cup {HostName}, handleAppRequest(g)
  PROVE  ReportInv'
<1>. DEFINE v == getLocalVmId(vmTable, g)
            kinds == Deployment[g]
            block == allocateApps(
                       associateDeploymentToVm(vmTable[v], [i \in DOMAIN kinds |-> "waiting"]),
                       Len(kinds))
            new(s) == IF s[1] = v /\ block.apps[s[2]].pid # Free
                        THEN built(app[s], kinds[block.apps[s[2]].deploymentIndex])
                        ELSE app[s]
<1>1. /\ Mapped(vmTable, g) /\ vmTable[v].request = NoRequest
      /\ \/ Fail
         \/ /\ \A i \in DOMAIN kinds : \E p \in 1..MaxApps : block.apps[p].deploymentIndex = i
            /\ vmTable' = [vmTable EXCEPT ![v] = block]
            /\ app' = [s \in Slot |-> new(s)]
            /\ UNCHANGED <<virtual, freeCores, queueTable, commands, events, cpuVars>>
  BY DEF handleAppRequest
<1>2. CASE Fail
  BY <1>2 DEF Fail, hostVars, ReportInv
<1>3. CASE /\ \A i \in DOMAIN kinds : \E p \in 1..MaxApps : block.apps[p].deploymentIndex = i
           /\ vmTable' = [vmTable EXCEPT ![v] = block]
           /\ app' = [s \in Slot |-> new(s)]
           /\ UNCHANGED <<virtual, freeCores, queueTable, commands, events, cpuVars>>
  <2>1. TableOK(vmTable, app, sched) /\ DOMAIN vmTable = Vm
    BY DEF HostInv, TableOK
  <2>2. v \in Vm /\ vmTable[v].globalId = g
    BY <1>1, <2>1 DEF Mapped, getLocalVmId
  <2>. HIDE DEF v
  <2>3. /\ block \in BlockType
        /\ \A p \in 1..MaxApps :
             /\ block.apps[p].pid \in {p, Free} /\ app[<<v, p>>] = Placeholder
             /\ block.apps[p].pid # Free =>
                  kinds[block.apps[p].deploymentIndex] \in {"local", "iot"}
    <3>1. block = NewDeployment(vmTable[v], kinds) /\ kinds = Deployment[g]
      BY DEF NewDeployment
    <3>2. TableOK(vmTable, app, sched) /\ vmTable[v].request = NoRequest
      BY <1>1, <2>1 DEF v
    <3>. HIDE DEF block, kinds, new
    <3>3. Given(block, kinds, v, app)
      BY <2>2, <3>1, <3>2, Deployed
    <3>. QED BY <3>3 DEF Given
  <2>4. block = allocateApps(
                  associateDeploymentToVm(vmTable[v], [i \in DOMAIN kinds |-> "waiting"]),
                  Len(kinds))
    OBVIOUS
  <2>5. ASSUME NEW k \in {"local", "iot"} PROVE Live(built(Placeholder, k))
    <3>1. Placeholder \in Application
      BY DEF Placeholder, Application
    <3>2. PICK b : b = built(Placeholder, k)
      OBVIOUS
    <3>3. b = [Placeholder EXCEPT !.kind = k, !.step = "starting"]
      BY <3>2 DEF built
    <3>4. b \in Application /\ b.kind = k
      BY <3>1, <3>3 DEF Application
    <3>5. b # NoApp
      BY <3>4, Nothing
    <3>. QED BY <3>2, <3>4, <3>5 DEF Live
  <2>6. ~Live(Placeholder)
    BY DEF Live, Placeholder
  <2>. HIDE DEF block
  <2>7. \A p \in 1..MaxApps : Live(app'[<<v, p>>]) <=> Waits(block, p)
    <3>1. ASSUME NEW p \in 1..MaxApps PROVE Live(app'[<<v, p>>]) <=> Waits(block, p)
      <4>1. app'[<<v, p>>] = new(<<v, p>>) /\ <<v, p>>[1] = v /\ <<v, p>>[2] = p
        BY <1>3, <2>2, SlotOf
      <4>2. app[<<v, p>>] = Placeholder
        BY <2>3
      <4>. QED BY <2>3, <2>5, <2>6, <4>1, <4>2 DEF Waits
    <3>. QED BY <3>1
  <2>8. \A s \in Slot : s[1] # v => app'[s] = app[s]
    BY <1>3
  <2>9. ReportsAre(vmTable, app, commands, events) /\ DeploymentOK(v, vmTable[v], app)
        /\ vmTable \in [Vm -> BlockType] /\ g # NoRequest
    BY <2>1, <2>2, HostConstants DEF ReportInv, ReportsAre, TableOK
  <2>10. PICK ap2 : ap2 = app'
    OBVIOUS
  <2>11. /\ \A p \in 1..MaxApps : Live(ap2[<<v, p>>]) <=> Waits(block, p)
         /\ \A s \in Slot : s[1] # v => (Live(ap2[s]) <=> Live(app[s]))
    BY <2>7, <2>8, <2>10
  <2>12. \A i \in DOMAIN kinds : \E p \in 1..MaxApps : block.apps[p].deploymentIndex = i
    BY <1>3
  <2>13. PICK ks : ks = kinds
    OBVIOUS
  <2>14. DeploymentOK(v, block, ap2) /\ ~Over(v, ap2) /\ block.globalId = g
    <3>1. /\ ks = Deployment[g] /\ block = NewDeployment(vmTable[v], ks)
          /\ \A i \in DOMAIN ks : \E p \in 1..MaxApps : block.apps[p].deploymentIndex = i
      BY <2>4, <2>12, <2>13 DEF NewDeployment
    <3>. HIDE DEF kinds
    <3>. QED BY <1>1, <2>1, <2>2, <2>9, <2>11, <3>1, DeployedBlock
  <2>15. ReportsAre([vmTable EXCEPT ![v] = block], ap2, commands, events)
    BY <1>1, <2>2, <2>9, <2>11, <2>14, DeployedReports
  <2>. QED BY <1>3, <2>10, <2>15 DEF ReportInv
<1>. QED BY <1>1, <1>2, <1>3

-----------------------------------------------------------------------------
(* The names of new machines *)

LEMMA NewBlockFields ==
  ASSUME NEW g
  PROVE  LET b == NewBlock(g)
         IN  /\ b.globalId = g /\ b.request = NoRequest /\ b.state = "running"
             /\ \A p \in 1..MaxApps : b.apps[p].deploymentIndex = -1 /\ ~Waits(b, p)
<1>1. PICK a : a = [p \in 1..MaxApps |-> FreeApp]
  OBVIOUS
<1>2. PICK base : base = VmControlBlock
  OBVIOUS
<1>3. base = [state |-> "idle", apps |-> a, globalId |-> NoRequest, request |-> NoRequest]
  BY <1>1, <1>2 DEF VmControlBlock
<1>4. PICK b : b = NewBlock(g)
  OBVIOUS
<1>5. b = [[base EXCEPT !.state = "running"] EXCEPT !.globalId = g]
  BY <1>2, <1>4 DEF NewBlock
<1>6. b = [state |-> "running", apps |-> a, globalId |-> g, request |-> NoRequest]
  BY <1>3, <1>5
<1>7. b.apps = a /\ \A p \in 1..MaxApps : a[p].deploymentIndex = -1 /\ a[p].pid = Free
  BY <1>1, <1>6 DEF FreeApp
<1>8. /\ b.globalId = g /\ b.request = NoRequest /\ b.state = "running"
      /\ \A p \in 1..MaxApps : b.apps[p].deploymentIndex = -1 /\ ~Waits(b, p)
  BY <1>6, <1>7 DEF Waits
<1>. QED BY <1>4, <1>8

LEMMA NewEntry ==
  ASSUME NEW tab, tab \in [Vm -> BlockType], NEW v \in Vm, NEW g
  PROVE  createMapping(allocateVm(tab, v), g, v) = [tab EXCEPT ![v] = NewBlock(g)]
<1>1. PICK base : base = [VmControlBlock EXCEPT !.state = "running"]
  OBVIOUS
<1>2. allocateVm(tab, v) = [tab EXCEPT ![v] = base]
  BY <1>1 DEF allocateVm
<1>3. PICK b : b = NewBlock(g)
  OBVIOUS
<1>4. b = [base EXCEPT !.globalId = g]
  BY <1>1, <1>3 DEF NewBlock
<1>5. createMapping([tab EXCEPT ![v] = base], g, v) = [tab EXCEPT ![v] = b]
  BY <1>4 DEF createMapping
<1>. QED BY <1>2, <1>3, <1>5

\* The table when the first i machines of a request were started.
NamedTable(tab, r, i) ==
  /\ tab \in [Vm -> BlockType] /\ Names(tab)
  /\ \A v \in Vm : \/ tab[v] = vmTable[v]
                   \/ vmTable[v].state = "idle" /\ \E j \in 1..i : tab[v] = NewBlock(r[j])

LEMMA OneNamed ==
  ASSUME RequestedOnce, NEW r \in Requests, \A k \in DOMAIN r : \A w \in Vm : vmTable[w].globalId # r[k],
         NEW tab, NEW i \in Nat, i + 1 \in DOMAIN r, 1..i \subseteq DOMAIN r, NamedTable(tab, r, i),
         NEW v \in Vm, tab[v].state = "idle", NewBlock(r[i + 1]) \in BlockType
  PROVE  NamedTable([tab EXCEPT ![v] = NewBlock(r[i + 1])], r, i + 1)
<1>. DEFINE b == NewBlock(r[i + 1])
            tab2 == [tab EXCEPT ![v] = b]
<1>1. /\ tab \in [Vm -> BlockType] /\ Names(tab)
      /\ \A w \in Vm : \/ tab[w] = vmTable[w]
                       \/ vmTable[w].state = "idle" /\ \E j \in 1..i : tab[w] = NewBlock(r[j])
  BY DEF NamedTable
<1>2. \A g : NewBlock(g).globalId = g /\ NewBlock(g).state = "running"
  BY NewBlockFields
<1>3. vmTable[v].state = "idle"
  BY <1>1, <1>2
<1>4. \A w \in Vm : tab[w].globalId # r[i + 1]
  <2>1. SUFFICES ASSUME NEW w \in Vm PROVE tab[w].globalId # r[i + 1]
    OBVIOUS
  <2>2. CASE tab[w] = vmTable[w]
    BY <2>2
  <2>3. ASSUME NEW j \in 1..i, tab[w] = NewBlock(r[j]) PROVE tab[w].globalId # r[i + 1]
    <3>1. j # i + 1 /\ j \in DOMAIN r
      OBVIOUS
    <3>2. r[j] # r[i + 1]
      BY <3>1 DEF RequestedOnce
    <3>. QED BY <1>2, <2>3, <3>2
  <2>. QED BY <1>1, <2>2, <2>3
<1>5. b.globalId = r[i + 1] /\ b \in BlockType
  BY <1>2
<1>6. \A j \in 1..i : j \in 1..(i + 1)
  OBVIOUS
<1>7. i + 1 \in 1..(i + 1)
  OBVIOUS
<1>8. b = NewBlock(r[i + 1])
  OBVIOUS
<1>. HIDE DEF b
<1>9. /\ tab2 \in [Vm -> BlockType] /\ tab2[v] = b
      /\ \A w \in Vm : w # v => tab2[w] = tab[w]
  BY <1>1, <1>5
<1>. HIDE DEF tab2
<1>10. Names(tab2)
  BY <1>1, <1>4, <1>5, <1>9 DEF Names
<1>11. \A w \in Vm : \/ tab2[w] = vmTable[w]
                     \/ vmTable[w].state = "idle" /\ \E j \in 1..(i + 1) : tab2[w] = NewBlock(r[j])
  BY <1>1, <1>3, <1>6, <1>7, <1>8, <1>9
<1>12. NamedTable(tab2, r, i + 1)
  BY <1>9, <1>10, <1>11 DEF NamedTable
<1>. QED BY <1>12 DEF tab2, b

LEMMA NamedReports ==
  ASSUME ReportInv, HostInv, RequestedOnce, NEW r \in commands, r \in Requests,
         commands \subseteq Requests, NEW tab, NamedTable(tab, r, Len(r)), 1..Len(r) = DOMAIN r
  PROVE  ReportsAre(tab, app, commands \ {r}, events)
<1>1. /\ \A w \in Vm : DeploymentOK(w, vmTable[w], app)
      /\ Names(vmTable) /\ Unnamed(vmTable, commands) /\ Reports(vmTable, app, events)
  BY DEF ReportInv, ReportsAre
<1>2. /\ Names(tab)
      /\ \A v \in Vm : \/ tab[v] = vmTable[v]
                       \/ vmTable[v].state = "idle" /\ \E j \in DOMAIN r : tab[v] = NewBlock(r[j])
  BY DEF NamedTable
<1>3. \A g : LET b == NewBlock(g)
             IN  /\ b.globalId = g /\ b.request = NoRequest
                 /\ \A p \in 1..MaxApps : b.apps[p].deploymentIndex = -1 /\ ~Waits(b, p)
  BY NewBlockFields
<1>4. \A v \in Vm : vmTable[v].state = "idle" => vmTable[v].request = NoRequest
  BY DEF HostInv, TableOK, BlockOK
<1>5. \A v \in Vm : DeploymentOK(v, tab[v], app)
  <2>1. \A v \in Vm : \A g : DeploymentOK(v, NewBlock(g), app)
    BY <1>3 DEF DeploymentOK
  <2>. QED BY <1>1, <1>2, <2>1
<1>6. Unnamed(tab, commands \ {r})
  <2>1. SUFFICES ASSUME NEW q \in commands, q # r, NEW i \in DOMAIN q, NEW v \in Vm
                 PROVE  tab[v].globalId # q[i]
    BY DEF Unnamed
  <2>2. CASE tab[v] = vmTable[v]
    BY <1>1, <2>2 DEF Unnamed
  <2>3. ASSUME NEW j \in DOMAIN r, tab[v] = NewBlock(r[j]) PROVE tab[v].globalId # q[i]
    <3>1. r[j] # q[i]
      BY <2>1 DEF RequestedOnce
    <3>. QED BY <1>3, <2>3, <3>1
  <2>. QED BY <1>2, <2>2, <2>3
<1>7. \A v \in Vm : vmTable[v].request # NoRequest \/ tab[v].request # NoRequest =>
        tab[v] = vmTable[v]
  BY <1>2, <1>3, <1>4
<1>8. \A v \in Vm : /\ Ended(tab, app, v) <=> Ended(vmTable, app, v)
                    /\ Ended(vmTable, app, v) => tab[v] = vmTable[v]
  BY <1>7 DEF Ended
<1>9. Reports(tab, app, events)
  BY <1>1, <1>8 DEF Reports
<1>. QED BY <1>2, <1>5, <1>6, <1>9 DEF ReportsAre

LEMMA StartedTable ==
  ASSUME NEW h \in HostType, NEW g, ~startVm(h, g).error
  PROVE  LET v == freeVm(h.table)
         IN  /\ ~h.error /\ v # Free
             /\ startVm(h, g).table = createMapping(allocateVm(h.table, v), g, v)
<1>. DEFINE v == freeVm(h.table)
            index == allocatedCores(h.free, Cores[g])
            table == createMapping(allocateVm(h.table, v), g, v)
            free == h.free \ {index[i] : i \in DOMAIN index}
            sch == [h.sched EXCEPT ![v] = StartedScheduler(@, index)]
<1>1. startVm(h, g) = IF h.error \/ v = Free
                        THEN [h EXCEPT !.error = TRUE]
                        ELSE [error |-> FALSE, table |-> table, free |-> free, sched |-> sch]
  BY DEF startVm
<1>. HIDE DEF v, table, free, sch
<1>2. [h EXCEPT !.error = TRUE].error = TRUE
  BY DEF HostType
<1>3. ~h.error /\ v # Free
  BY <1>1, <1>2
<1>4. startVm(h, g).table = table
  BY <1>1, <1>3
<1>. QED BY <1>3, <1>4 DEF v, table

LEMMA VmRequestReports ==
  ASSUME HostInv, ReportInv, RequestedOnce, NEW r, handleVmRequest(r)
  PROVE  ReportInv'
<1>. DEFINE after == CHOOSE h : VmsFrom(h, r)
            n == Len(r)
            host == after[n]
<1>1. r \in commands
  BY DEF handleVmRequest
<1>2. IF host.error \/ ~virtual
        THEN Fail
        ELSE /\ vmTable' = host.table /\ freeCores' = host.free /\ sched' = host.sched
             /\ commands' = commands \ {r}
             /\ UNCHANGED <<virtual, queueTable, app, events, inbox, core, failed>>
  BY DEF handleVmRequest, VmsFrom
<1>3. CASE host.error \/ ~virtual
  BY <1>2, <1>3 DEF Fail, hostVars, ReportInv
<1>4. CASE ~host.error /\ virtual
  <2>1. /\ vmTable' = host.table /\ commands' = commands \ {r} /\ app' = app /\ events' = events
    BY <1>2, <1>4
  <2>2. HostsFrom(after, r)
    BY <1>1, <1>4, VmsExist, SameHosts
  <2>. HIDE DEF after
  <2>3. /\ n \in Nat /\ commands \subseteq Requests /\ r \in Requests /\ r \in Seq(GlobalVm)
        /\ DOMAIN r = 1..n
    BY <1>1, HostConstants, LenProperties DEF HostInv, CoresOK
  <2>4. after[0] = StartHost /\ \A i \in 1..n : after[i] = startVm(after[i - 1], r[i])
    BY <2>2, <2>3, HostsAre
  <2>5. \A i \in 0..n : after[i] \in HostType
    <3>1. \A i \in 0..n : StartedOK(after[i], Spent(r, i))
      BY <1>1, <1>4, <2>4, VmsStarted
    <3>. QED BY <3>1 DEF StartedOK
  <2>6. \A i \in 1..n : NewBlock(r[i]) \in BlockType
    BY <2>3, ElementOfSeq, NewBlockIs
  <2>7. \A k \in DOMAIN r : \A w \in Vm : vmTable[w].globalId # r[k]
    BY <1>1 DEF ReportInv, ReportsAre, Unnamed
  <2>. DEFINE Good == {i \in 0..n : after[i].error \/ NamedTable(after[i].table, r, i)}
  <2>8. 0 \in Good
    <3>1. StartHost.table = vmTable
      BY DEF StartHost
    <3>2. vmTable \in [Vm -> BlockType] /\ Names(vmTable)
      BY DEF HostInv, TableOK, ReportInv, ReportsAre
    <3>3. NamedTable(after[0].table, r, 0)
      BY <2>4, <3>1, <3>2 DEF NamedTable
    <3>4. 0 \in 0..n
      <4>. HIDE DEF n
      <4>. QED BY <2>3
    <3>. QED BY <3>3, <3>4
  <2>. HIDE DEF n
  <2>9. \A i \in 1..n : i - 1 \in Good => i \in Good
    <3>1. SUFFICES ASSUME NEW i \in 1..n, i - 1 \in Good, ~after[i].error
                   PROVE  NamedTable(after[i].table, r, i)
      BY <2>3
    <3>2. /\ i \in 0..n /\ i - 1 \in 0..n /\ i - 1 \in Nat /\ (i - 1) + 1 = i
          /\ i \in DOMAIN r /\ 1..(i - 1) \subseteq DOMAIN r
      BY <2>3
    <3>. DEFINE h == after[i - 1]
                v == freeVm(h.table)
    <3>3. h \in HostType /\ after[i] = startVm(h, r[i])
      BY <2>4, <2>5, <3>2
    <3>4. /\ ~h.error /\ v # Free
          /\ after[i].table = createMapping(allocateVm(h.table, v), r[i], v)
      BY <3>1, <3>3, StartedTable
    <3>5. NamedTable(h.table, r, i - 1)
      BY <3>1, <3>4
    <3>. HIDE DEF h
    <3>6. h.table \in [Vm -> BlockType]
      BY <3>5 DEF NamedTable
    <3>7. v \in Vm /\ h.table[v].state = "idle"
      BY <3>4, <3>6, FreeVmIs
    <3>. HIDE DEF v
    <3>8. after[i].table = [h.table EXCEPT ![v] = NewBlock(r[i])]
      BY <3>4, <3>6, <3>7, NewEntry
    <3>9. NamedTable([h.table EXCEPT ![v] = NewBlock(r[(i - 1) + 1])], r, (i - 1) + 1)
      <4>1. (i - 1) + 1 \in DOMAIN r /\ NewBlock(r[(i - 1) + 1]) \in BlockType
        BY <2>6, <3>2
      <4>. QED BY <2>3, <2>7, <3>2, <3>5, <3>7, <4>1, OneNamed
    <3>. QED BY <3>2, <3>8, <3>9
  <2>10. n \in Good
    <3>1. n \in 0..n
      BY <2>3
    <3>2. 0..n \subseteq Good
      <4>. HIDE DEF Good
      <4>. QED BY <2>3, <2>8, <2>9, BoundedInduction
    <3>. QED BY <3>1, <3>2
  <2>11. NamedTable(host.table, r, Len(r))
    BY <1>4, <2>10 DEF n
  <2>. HIDE DEF host
  <2>12. ReportsAre(host.table, app, commands \ {r}, events)
    BY <1>1, <2>3, <2>11, NamedReports DEF n
  <2>. QED BY <2>1, <2>12 DEF ReportInv
<1>. QED BY <1>3, <1>4

LEMMA InitReports ==
  ASSUME Init
  PROVE  ReportInv
<1>. DEFINE empty == EmptyVmTable(Vm)
            one == createMapping(allocateVm(empty, 1), HostName, 1)
<1>1. app = Apps0 /\ events = <<>>
  BY DEF Init, Apps0
<1>2. PICK b : b = VmControlBlock
  OBVIOUS
<1>3. /\ b.request = NoRequest /\ b.globalId = NoRequest /\ b \in BlockType
      /\ \A p \in 1..MaxApps : b.apps[p].deploymentIndex = -1 /\ ~Waits(b, p)
  <2>1. PICK a : a = [p \in 1..MaxApps |-> FreeApp]
    OBVIOUS
  <2>2. /\ a \in [1..MaxApps -> [pid : (1..MaxApps) \cup {Free}, deploymentIndex : Int]]
        /\ \A p \in 1..MaxApps : a[p].pid = Free /\ a[p].deploymentIndex = -1
    BY <2>1 DEF FreeApp
  <2>3. b = [state |-> "idle", apps |-> a, globalId |-> NoRequest, request |-> NoRequest]
    BY <1>2, <2>1 DEF VmControlBlock
  <2>4. b \in BlockType
    BY <2>2, <2>3 DEF BlockType
  <2>. QED BY <2>2, <2>3, <2>4 DEF Waits
<1>4. empty \in [Vm -> BlockType] /\ \A v \in Vm : empty[v] = b
  BY <1>2, <1>3 DEF EmptyVmTable
<1>5. \A g : LET c == NewBlock(g)
             IN  /\ c.globalId = g /\ c.request = NoRequest
                 /\ \A p \in 1..MaxApps : c.apps[p].deploymentIndex = -1 /\ ~Waits(c, p)
  BY NewBlockFields
<1>6. \A v \in Vm : /\ vmTable[v].request = NoRequest
                    /\ \A p \in 1..MaxApps : /\ vmTable[v].apps[p].deploymentIndex = -1
                                             /\ ~Waits(vmTable[v], p)
                    /\ vmTable[v].globalId = NoRequest \/ (v = 1 /\ commands = {})
  <2>1. CASE virtual
    <3>1. vmTable = empty
      BY <2>1 DEF Init
    <3>. QED BY <1>3, <1>4, <3>1
  <2>2. CASE ~virtual
    <3>1. vmTable = one /\ commands = {}
      BY <2>2 DEF Init
    <3>2. 1 \in Vm
      BY CpuConstants, FS_CardinalityType, FS_EmptySet
    <3>3. one = [empty EXCEPT ![1] = NewBlock(HostName)]
      <4>. HIDE DEF empty
      <4>. QED BY <1>4, <3>2, NewEntry
    <3>. HIDE DEF empty, one
    <3>4. \A v \in Vm : one[v] = IF v = 1 THEN NewBlock(HostName) ELSE b
      BY <1>4, <3>2, <3>3
    <3>. QED BY <1>3, <1>5, <3>1, <3>4
  <2>. QED BY <2>1, <2>2
<1>7. commands \subseteq Requests
  BY DEF Init
<1>8. \A r \in commands : \A i \in DOMAIN r : r[i] # NoRequest
  BY <1>7, ElementOfSeq, HostConstants
<1>9. \A v \in Vm : DeploymentOK(v, vmTable[v], app)
  BY <1>6 DEF DeploymentOK
<1>10. Names(vmTable) /\ Unnamed(vmTable, commands)
  BY <1>6, <1>8 DEF Names, Unnamed
<1>11. Reports(vmTable, app, events)
  <2>1. \A v \in Vm : ~Ended(vmTable, app, v)
    BY <1>6 DEF Ended
  <2>. QED BY <1>1, <2>1, NothingIn DEF Reports
<1>. QED BY <1>9, <1>10, <1>11 DEF ReportInv, ReportsAre

LEMMA NextReports ==
  ASSUME HostInv, ReportInv, RequestedOnce, [Next]_vars
  PROVE  ReportInv'
<1>1. CASE UNCHANGED vars
  BY <1>1 DEF vars, hostVars, cpuVars, ReportInv
<1>2. CASE processSyscallStart /\ Head(inbox[Hypervisor]).opCode \in {"EXIT", "ABORT"}
  BY <1>2, TerminationReports
<1>3. CASE \/ processSyscallStart /\ Head(inbox[Hypervisor]).opCode \notin {"EXIT", "ABORT"}
           \/ processSyscallEnd \/ diskRequest \/ (\E v \in Vm : ioFinished(v)) \/ Cpu
  <2>1. UNCHANGED <<vmTable, app, commands, events>>
    BY <1>3 DEF processSyscallStart, processSyscallEnd, diskRequest, ioFinished, Cpu, hostVars
  <2>. QED BY <2>1 DEF ReportInv
<1>4. CASE \E s \in Slot : AppNext(s)
  <2>1. LiveStay
    BY <1>4, AppHost
  <2>2. UNCHANGED <<vmTable, commands, events>>
    BY <1>4 DEF AppNext, AppOnly, LocalApplicationStarts, LocalApplicationReturns,
                IotApplicationStarts, handleDataArrived, IotApplicationReturns
  <2>3. PICK ap2 : ap2 = app'
    OBVIOUS
  <2>4. \A s \in Slot : Live(ap2[s]) <=> Live(app[s])
    BY <2>1, <2>3 DEF LiveStay
  <2>5. ReportsAre(vmTable, ap2, commands, events)
    BY <2>4, ReportsStay DEF ReportInv
  <2>. QED BY <2>2, <2>3, <2>5 DEF ReportInv
<1>5. CASE Commands
  BY <1>5, VmRequestReports, AppRequestReports DEF Commands
<1>. QED BY <1>1, <1>2, <1>3, <1>4, <1>5 DEF Next

LEMMA ReportedHolds ==
  ASSUME ReportInv
  PROVE  DeploymentReported
<1>1. /\ \A v \in Vm : DeploymentOK(v, vmTable[v], app)
      /\ Names(vmTable) /\ Reports(vmTable, app, events)
  BY DEF ReportInv, ReportsAre
<1>2. SUFFICES ASSUME NEW v \in Vm, vmTable[v].request # NoRequest
               PROVE  LET reports == {i \in DOMAIN events : events[i].vmId = vmTable[v].globalId}
                          over == \A p \in 1..MaxApps :
                                    app[<<v, p>>] = NoApp \/ app[<<v, p>>].kind = "default"
                      IN  /\ Cardinality(reports) = IF over THEN 1 ELSE 0
                          /\ \A i \in reports : events[i].apps = vmTable[v].request
  BY DEF DeploymentReported
<1>. DEFINE reports == {i \in DOMAIN events : events[i].vmId = vmTable[v].globalId}
            over == \A p \in 1..MaxApps : app[<<v, p>>] = NoApp \/ app[<<v, p>>].kind = "default"
<1>3. vmTable[v].globalId # NoRequest
  BY <1>1, <1>2 DEF DeploymentOK
<1>4. (over <=> Over(v, app)) /\ (over <=> Ended(vmTable, app, v))
  BY <1>2 DEF Over, Live, Ended
<1>5. \A i \in reports : over /\ events[i].apps = vmTable[v].request
  <2>1. SUFFICES ASSUME NEW i \in reports PROVE over /\ events[i].apps = vmTable[v].request
    OBVIOUS
  <2>2. PICK w \in Vm : /\ Ended(vmTable, app, w) /\ events[i].vmId = vmTable[w].globalId
                        /\ events[i].apps = vmTable[w].request
    BY <1>1 DEF Reports
  <2>3. w = v
    BY <1>1, <1>3, <2>2 DEF Names
  <2>. QED BY <1>4, <2>2, <2>3
<1>6. Cardinality(reports) = IF over THEN 1 ELSE 0
  <2>1. CASE over
    <3>1. PICK i \in DOMAIN events : events[i].vmId = vmTable[v].globalId
      BY <1>1, <1>4, <2>1 DEF Reports
    <3>2. reports = {i}
      BY <1>1, <3>1 DEF Reports
    <3>. QED BY <2>1, <3>2, FS_Singleton
  <2>2. CASE ~over
    <3>1. reports = {}
      BY <1>5, <2>2
    <3>. QED BY <2>2, <3>1, FS_EmptySet
  <2>. QED BY <2>1, <2>2
<1>. QED BY <1>5, <1>6

\* Whatever the requests, a deployment is reported to the manager once, with the states its applications ended in, when and only when the last of them ended, as long as the node was not given more cores than it has and every VM is asked for once, under a name of its own (Hypervisor.cc:198-220, VmInstance.cc:7).
THEOREM OneReportEach == RequestsFit /\ RequestedOnce /\ Spec => []DeploymentReported
<1>. DEFINE Inv == RequestedOnce /\ HostInv /\ ReportInv
<1>1. RequestsFit /\ RequestedOnce /\ Init => Inv
  BY InitHost, InitReports
<1>2. Inv /\ [Next]_vars => Inv'
  BY NextHost, NextReports
<1>3. Inv => DeploymentReported
  BY ReportedHolds
<1>. HIDE DEF Inv
<1>. QED BY <1>1, <1>2, <1>3, PTL DEF Spec

=============================================================================
