------------------------------- MODULE MCPipe -------------------------------
(* Pipe for TLC.                                                           *)
EXTENDS Pipe, TLC

Symmetry == Permutations(Writers) \cup Permutations(Readers) \cup Permutations(Byte)

=============================================================================
