------------------------------- MODULE DnsTree -------------------------------
(***************************************************************************)
(* The database of a DNS module (DnsDb, DnsTree) and the matching of       *)
(* records (DnsCommon).                                                    *)
(*                                                                         *)
(* A domain is the sequence of its labels from the root: www.us.com is     *)
(* <<"com", "us", "www">>.  A name written with a leading dot has an empty *)
(* last label, a wildcard the last label "*".  A tree maps the paths of    *)
(* its nodes, closed under prefixes and at most two labels long, to the    *)
(* records kept there.  A set of records is a set: the code's order of     *)
(* records is not a strict weak order (DnsCommon.h:33), so where several   *)
(* records of a zone match a name, which comes first is left open.         *)
(***************************************************************************)
EXTENDS Naturals, Sequences, FiniteSets, SequencesExt

Name == Seq(STRING)
Record == [type : STRING, domain : Name, ip : STRING, contents : Name]

(* A zone configuration: the records of each zone.                         *)
AreZones(zones) ==
  /\ IsFiniteSet(DOMAIN zones) /\ \A z \in DOMAIN zones : z \in Name
  /\ \A z \in DOMAIN zones : IsFiniteSet(zones[z]) /\ \A r \in zones[z] : r \in Record

(* No path has three labels.                                               *)
NoNode == <<"no", "such", "node">>

EmptyTree == [path \in {<<>>} |-> {}]

Level(path) == <<"ROOT", "TLD", "AUTHORITATIVE">>[Len(path) + 1]

UpTo(domain, n) == SubSeq(domain, 1, IF Len(domain) < n THEN Len(domain) ELSE n)

getChildOrCreate(tree, path) ==
  [p \in DOMAIN tree \cup {path} |-> IF p \in DOMAIN tree THEN tree[p] ELSE {}]

(* The labels below the second are dropped.  Without a record nothing is   *)
(* created.                                                                *)
insertRecords(tree, zone, records) ==
  LET path == UpTo(zone, 2)
      grown == getChildOrCreate(getChildOrCreate(tree, UpTo(zone, 1)), path)
  IN IF records = {} THEN tree ELSE [grown EXCEPT ![path] = @ \cup records]

insertRecord(tree, zone, record) == insertRecords(tree, zone, {record})

HasChildren(tree, path) == \E p \in DOMAIN tree : Len(p) = Len(path) + 1 /\ IsPrefix(path, p)

(* The node closest to a domain: the root of a tree without zones, a node  *)
(* without children on the way down, or the domain's own.                  *)
searchRecords(tree, domain) ==
  LET getChild(n) == IF UpTo(domain, n) \in DOMAIN tree THEN UpTo(domain, n) ELSE NoNode
      top == getChild(1)
  IN IF domain = <<>> \/ ~HasChildren(tree, <<>>)
       THEN <<>>
       ELSE IF top = NoNode \/ Len(domain) = 1 \/ ~HasChildren(tree, top)
              THEN top
              ELSE getChild(2)

(* The records of a node, or none where the code returns a null pointer.   *)
getRecords(tree, node) == IF node = NoNode THEN {} ELSE tree[node]

(* Removing from a node without records reads through a null pointer.      *)
RemovalDefined(tree, zone) ==
  searchRecords(tree, zone) = NoNode \/ getRecords(tree, searchRecords(tree, zone)) # {}

removeRecord(tree, zone, record) ==
  LET node == searchRecords(tree, zone)
  IN IF node = NoNode THEN tree ELSE [tree EXCEPT ![node] = @ \ {record}]

(* DnsDb::initialize, from the zone configuration.                         *)
zoneConfig(zones) ==
  LET filled == {z \in DOMAIN zones : zones[z] # {}}
  IN [path \in {<<>>} \cup {UpTo(z, n) : z \in filled, n \in 1..2} |->
        UNION {zones[z] : z \in {y \in filled : UpTo(y, 2) = path}}]

(***************************************************************************)
(* DnsCommon                                                               *)
(***************************************************************************)
matchWithWildcard(record, domain) ==
  IF Len(record.domain) > 1 /\ Last(record.domain) = "*"
    THEN IsPrefix(Front(record.domain), domain) /\ Len(domain) >= Len(record.domain)
    ELSE record.domain = domain

(* The part of a name that is asked at a level.                            *)
getQuestionForLevel(domain, level) ==
  CASE level = "ROOT" -> UpTo(domain, 1)
    [] level = "TLD" -> UpTo(domain, 2)
    [] OTHER -> domain

(* A name of one label is an error; one of two, asked at a TLD, is read    *)
(* through an invalid pointer.                                             *)
QuestionDefined(domain, level) ==
  Len(domain) > IF level = "TLD" THEN 2 ELSE 1

matchesAuthorityDomain(record, domain) ==
  Len(domain) > 2 /\ record.domain = Append(UpTo(domain, 2), "")
=============================================================================
