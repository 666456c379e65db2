-------------------------------- MODULE MCFs --------------------------------
(***************************************************************************)
(* Instances of Fs for TLC; the passing ones are in MCServices.            *)
(***************************************************************************)
EXTENDS Fs

Abs(op, path) == [op |-> op, abs |-> TRUE, path |-> path, new |-> <<>>]

\* A file is made and removed, and a directory is made.
FileCalls == {Abs("creat", <<"x">>), Abs("unlink", <<"x">>), Abs("mkdir", <<"a">>)}

\* A directory in a directory, and a process that stays in one removed: ".."
\* then leads to an inode that may be free (NoPanic does not hold).
DeepCalls == {
    Abs("mkdir", <<"a">>), Abs("mkdir", <<"a", "x">>), Abs("chdir", <<"a", "x">>),
    Abs("unlink", <<"a", "x">>), Abs("unlink", <<"a">>),
    [Abs("open", <<"..">>) EXCEPT !.abs = FALSE]}
=============================================================================
