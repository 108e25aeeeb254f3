----------------------------- MODULE MCConsumer -----------------------------
(* An instance of Consumer for TLC. *)
EXTENDS Consumer

\* Neither the tasks nor the partitions are told apart.
Symmetry == Permutations(Pollers) \cup Permutations(Partitions)
==============================================================================
