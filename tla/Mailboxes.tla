------------------------------ MODULE Mailboxes ------------------------------
(***************************************************************************)
(* What the message queue promises its nodes: what a node pushes to        *)
(* another arrives there at most once and in the order it was pushed, and  *)
(* it arrives unless packets may be lost.  This is what module Cloud takes *)
(* for granted between users, provider and managers, of a queue that does  *)
(* not lose any.                                                           *)
(***************************************************************************)
EXTENDS Naturals, Sequences, Functions

CONSTANTS Participant, Mail,
          AtOnce    \* bound: mail of one sender handed over in a step

VARIABLES box,      \* sender -> receiver -> mail under way
          received, \* sender -> receiver -> mail handed over
          lossy,    \* whether mail may be lost
          stopped   \* whether the simulation has stopped on an error

boxVars == <<box, received, lossy, stopped>>

NoMail == [p \in Participant |-> [q \in Participant |-> <<>>]]
Init == box = NoMail /\ received = NoMail /\ stopped = FALSE /\ lossy \in BOOLEAN

(* The mail a sender hands in for one receiver, in one step.               *)
Post(p, q) ==
  /\ ~stopped
  /\ \E m \in Mail : box' = [box EXCEPT ![p][q] = Append(@, m)]
  /\ UNCHANGED <<received, lossy, stopped>>

(* A receiver is handed the oldest mail of any of its senders.             *)
Deliver(q) ==
  \E n \in [Participant -> 0..AtOnce] :
    /\ ~stopped
    /\ \E p \in Participant : n[p] > 0
    /\ \A p \in Participant : n[p] <= Len(box[p][q])
    /\ box' = [p \in Participant |-> [box[p] EXCEPT ![q] = SubSeq(@, n[p] + 1, Len(@))]]
    /\ received' = [p \in Participant |->
         [received[p] EXCEPT ![q] = @ \o SubSeq(box[p][q], 1, n[p])]]
    /\ UNCHANGED <<lossy, stopped>>

(* A packet is lost: of the mail from one to another, a run.               *)
Dropped(old, new) ==
  \E i, j \in 0..Len(old) :
    i <= j /\ new = SubSeq(old, 1, i) \o SubSeq(old, j + 1, Len(old))
Lose ==
  /\ lossy /\ ~stopped
  /\ box' = [p \in Participant |-> [q \in Participant |-> box'[p][q]]]
  /\ \A p, q \in Participant : Dropped(box[p][q], box'[p][q])
  /\ UNCHANGED <<received, lossy, stopped>>

(* An error stops all; what was under way is lost.                         *)
Stop == stopped' = TRUE /\ UNCHANGED <<received, lossy>>

Next == Stop \/ Lose \/ \E q \in Participant : Deliver(q) \/ \E p \in Participant : Post(p, q)

UnderWay(m) == \E p, q \in Participant : m \in Range(box[p][q])
HandedOver(m) == \E p, q \in Participant : m \in Range(received[p][q])
Delivery == \A m \in Mail : UnderWay(m) ~> (HandedOver(m) \/ stopped \/ lossy)

Spec == Init /\ [][Next]_boxVars /\ Delivery
=============================================================================
