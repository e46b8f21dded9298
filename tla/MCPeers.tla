------------------------------- MODULE MCPeers -------------------------------
(***************************************************************************)
(* Two or three nodes.  The enumerators of the timers are EXEC_START of    *)
(* AppBase::Event and those of P2P::P2PEvent: Declared gives the values    *)
(* they have, Apart values that tell them apart.                           *)
(***************************************************************************)
EXTENDS Peers

Declared == [EXEC_START |-> 0, PEER_DISCOVERY |-> 0, PEER_CONNECTION |-> 1, CONNECTED |-> 2]
Apart == [Declared EXCEPT !.EXEC_START = 3]

Base == [joining |-> {1, 2}, kind |-> Apart, services |-> {"dns"}, addressList |-> {}, discoveryAttempts |-> 1,
         discoveryThreshold |-> 1, coalescing |-> FALSE, pinging |-> TRUE, dnsReachable |-> TRUE]
Two == [Base EXCEPT !.services = {"hardcoded"}, !.addressList = {1}]
Three == [Base EXCEPT !.joining = {2, 3}, !.pinging = FALSE, !.services = {"hardcoded"},
                      !.addressList = {1, 2}, !.discoveryThreshold = 0]
MCSetups ==
  {[Base EXCEPT !.pinging = FALSE],
   [Base EXCEPT !.kind = Declared], [Base EXCEPT !.dnsReachable = FALSE],
   [Base EXCEPT !.joining = {1}, !.services = {"dns", "hardcoded"}, !.addressList = {Absent}],
   Two, [Two EXCEPT !.discoveryAttempts = 2, !.pinging = FALSE],
   [Two EXCEPT !.discoveryAttempts = 2, !.joining = {2}], [Two EXCEPT !.coalescing = TRUE],
   Three}
=============================================================================
