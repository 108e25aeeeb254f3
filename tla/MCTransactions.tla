--------------------------- MODULE MCTransactions ---------------------------
(* Small instances of Transactions; its partitions are interchangeable.    *)
EXTENDS Transactions, TLC

Symmetry == Permutations(Partitions)
=============================================================================
