-------------------------- MODULE MCStructureLocks --------------------------
(* StructureLocks on two user threads, a two-line hashtable, two algorithms *)
(* that use the hashtable and one that uses the timeline.                   *)
EXTENDS StructureLocks, TLC

Symmetry == Permutations(Users)
=============================================================================
