-------------------------- MODULE MCResourceManager --------------------------
(* Instances of ResourceManager for TLC: a large, a small and a full-grown
   node, a VM type that needs much memory and one that needs much disk. *)
EXTENDS ResourceManager

MCCapacity ==
  << [cores |-> 4, disk |-> 3, mem |-> 4, vms |-> 3, users |-> 1],
     [cores |-> 2, disk |-> 4, mem |-> 2, vms |-> 2, users |-> 1],
     [cores |-> 3, disk |-> 4, mem |-> 4, vms |-> 3, users |-> 1] >>

MCNeeds ==
  [compute |-> [cores |-> 1, disk |-> 1, mem |-> 2],
   storage |-> [cores |-> 1, disk |-> 2, mem |-> 1],
   large   |-> [cores |-> 2, disk |-> 2, mem |-> 1]]
=============================================================================
