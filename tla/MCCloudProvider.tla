--------------------------- MODULE MCCloudProvider ---------------------------
(* Instances of CloudProvider for TLC. *)
EXTENDS CloudProvider

CONSTANTS r1, r2, r3

\* Two zones, the default zone (1) holding every node but 2; the names of the
\* nodes are ordered 1 < 2 < 3 and they register in any order.
MCNodeZone == [topic \in Topic |-> IF topic = 2 THEN 2 ELSE 1]

\* Requests of both sizes and for both zones.
MCCores == [r \in Request |-> IF r = r2 THEN 2 ELSE 1]
MCRequestZone == [r \in Request |-> IF r = r1 THEN 1 ELSE 2]
=============================================================================
