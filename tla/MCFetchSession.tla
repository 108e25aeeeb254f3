--------------------------- MODULE MCFetchSession ---------------------------
(* An instance of FetchSession for TLC. *)
EXTENDS FetchSession

\* Neither pollers nor partitions nor parameter values are told apart.
Symmetry ==
    Permutations(Pollers) \cup Permutations(Partitions) \cup Permutations(Parameters)
==============================================================================
