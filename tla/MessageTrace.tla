---------------------------- MODULE MessageTrace ----------------------------
(***************************************************************************)
(* The trace a SIMCAN_Message carries, and how cSIMCAN_Core writes it.     *)
(*                                                                         *)
(* A request collects one component per core module it crosses: the module *)
(* and the gate through which the answer must leave it.  The answer is     *)
(* sent back by popping them.  A gate is named by the module at its other  *)
(* end.  The numbers of the requests, also kept in a component, are read   *)
(* only by fitWithParent, which nothing calls, and are left out.           *)
(***************************************************************************)
EXTENDS Sequences, SequencesExt

CONSTANT UnsetGate      \* SC_UnsetGateID: the module created the message

isTraceEmpty(sm) == sm.trace = <<>>

addNodeToTrace(sm, node) ==
  [sm EXCEPT !.trace = Append(@, [node |-> node, modules |-> <<>>])]

addModuleToTrace(sm, module, gate) ==
  [sm EXCEPT !.trace[Len(sm.trace)].modules =
     Append(@, [module |-> module, gate |-> gate])]

removeLastModuleFromTrace(sm) ==
  [sm EXCEPT !.trace[Len(sm.trace)].modules = Front(@)]

getLastGateId(sm) == Last(Last(sm.trace).modules).gate

(* What handleMessage does to a request before it is processed: throws on  *)
(* an empty trace, so "traceable" is a precondition of every core module.  *)
traceable(sm) == sm.trace # <<>>

updateMessageTrace(sm, module, outGate) == addModuleToTrace(sm, module, outGate)

(* sendRequestMessage of the module that created the message. *)
stampedByCreator(sm, module) ==
  IF isTraceEmpty(sm)
    THEN updateMessageTrace(addNodeToTrace(sm, module), module, UnsetGate)
    ELSE sm

(* One FIFO of arrived messages per module: events of equal time are       *)
(* handled in the order they were sent.  sent() records the arrival gate.  *)
sent(box, from, to, sm) ==
  [box EXCEPT ![to] = Append(@, [sm EXCEPT !.arrival = from])]

handled(box, module) == [box EXCEPT ![module] = Tail(@)]

sendResponseMessage(box, module, sm) ==
  sent(box, module, getLastGateId(sm), removeLastModuleFromTrace(sm))
=============================================================================
