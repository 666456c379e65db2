------------------------------- MODULE MCLog -------------------------------
(* Instances of Log for TLC. *)
EXTENDS Log, TLC

\* Blocks of file contents are alike, and so are the others.
Symmetry == Permutations(Procs) \cup Permutations(DataBlocks)
            \cup Permutations(Blocks \ DataBlocks)
=============================================================================
