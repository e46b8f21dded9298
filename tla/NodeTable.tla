------------------------------ MODULE NodeTable ------------------------------
(***************************************************************************)
(* The cloud provider's table of nodes (NodeTable.cc, NodeTable.h): what   *)
(* the provider knows of every data centre or fog node that announced      *)
(* itself with a NodeUpdate.                                               *)
(*                                                                         *)
(* The C++ class keeps three vectors.  "nodes" is indexed by node id and   *)
(* only grows.  "topics" and "zones" are kept sorted by name and hold no   *)
(* name twice, so each is the function from its names to its payload, and  *)
(* the position of a name in the sorted vector is the number of names that *)
(* do not come after it.  Names are naturals, ordered as strcmp orders     *)
(* them.  Ids and positions count from 1.                                  *)
(*                                                                         *)
(* RAM and disk are stored by the code and read by nobody: they are left   *)
(* out.                                                                    *)
(***************************************************************************)
EXTENDS Naturals, FiniteSets, Sequences

CONSTANTS Topic,    \* topic names of the nodes
          Zone      \* zone names

ASSUME NamesAreOrdered == Topic \subseteq Nat \ {0} /\ Zone \subseteq Nat

NodeEntry == [cores : Nat, topicIndex : Nat \ {0}, zoneIndex : Nat \ {0}]

EmptyTable == [nodes  |-> <<>>,    \* id -> entry
               topics |-> <<>>,    \* topic -> id
               zones  |-> <<>>]    \* zone -> set of ids

\* Where a name is (or would be) in the sorted vector of the names S.
Position(name, S) == Cardinality({other \in S : other <= name})

AtPosition(i, S) == CHOOSE name \in S : Position(name, S) = i

-----------------------------------------------------------------------------
(* Lookups *)

Known(table, topic) == topic \in DOMAIN table.topics

\* The null pointer the code returns for an unknown zone is tested by every
\* caller before the set is used; HasZone is that test.
HasZone(table, zone) == zone \in DOMAIN table.zones

findNodesByZone(table, zone) == table.zones[zone]

\* The topic at the position the node recorded when it was inserted, not the
\* topic under which the node was inserted.
getTopicForNode(table, id) ==
  AtPosition(table.nodes[id].topicIndex, DOMAIN table.topics)

getZoneForNode(table, id) ==
  AtPosition(table.nodes[id].zoneIndex, DOMAIN table.zones)

-----------------------------------------------------------------------------
(* addOrUpdateNode *)

updateNode(table, topic, cores) ==
  [table EXCEPT !.nodes[table.topics[topic]].cores = cores]

\* f with x mapped to y, x in its domain or not.
Extended(f, x, y) ==
  [z \in DOMAIN f \cup {x} |-> IF z = x THEN y ELSE f[z]]

\* Mutant: a node of a zone that is known already is not entered in it.
ZonesWithoutKnown(zones, zone, id) ==
  IF zone \in DOMAIN zones THEN zones ELSE Extended(zones, zone, {id})

ZonesWith(zones, zone, id) ==
  Extended(zones, zone, IF zone \in DOMAIN zones THEN zones[zone] \cup {id} ELSE {id})

\* A new topic goes to the end of its vector, its index is remembered, and
\* the vector is sorted.  A new zone likewise; a known zone's index is its
\* position at this moment.
insertNode(table, topic, zone, cores) ==
  LET id == Len(table.nodes) + 1
  IN  [nodes  |-> Append(table.nodes,
                    [cores      |-> cores,
                     topicIndex |-> Cardinality(DOMAIN table.topics) + 1,
                     zoneIndex  |-> IF zone \in DOMAIN table.zones
                                    THEN Position(zone, DOMAIN table.zones)
                                    ELSE Cardinality(DOMAIN table.zones) + 1]),
       topics |-> Extended(table.topics, topic, id),
       zones  |-> ZonesWith(table.zones, zone, id)]

addOrUpdateNode(table, topic, zone, cores) ==
  IF Known(table, topic) THEN updateNode(table, topic, cores)
                         ELSE insertNode(table, topic, zone, cores)

=============================================================================
