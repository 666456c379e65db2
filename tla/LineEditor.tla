----------------------------- MODULE LineEditor -----------------------------
(***************************************************************************)
(* What the console promises its readers: typed characters can be edited   *)
(* until their line is complete, and complete input is read in the order   *)
(* in which it was typed, each character once.                             *)
(***************************************************************************)
EXTENDS Integers, Sequences

CONSTANTS Size, Ordinary
VARIABLES complete, \* input that can be read
          edited    \* input that can still be erased

Init == complete = <<>> /\ edited = <<>>

Room == Len(complete) + Len(edited) < Size

\* A character is added to the line; end of line, end of file or a full buffer
\* completes it.
Type(c) ==
    LET line == Append(edited, c)
        full == Len(complete) + Len(line) = Size
    IN  /\ Room
        /\ IF full \/ c \in {"nl", "eof"}
           THEN complete' = complete \o line /\ edited' = <<>>
           ELSE edited' = line /\ UNCHANGED complete

Erase == /\ edited # <<>>
         /\ edited' = SubSeq(edited, 1, Len(edited) - 1)
         /\ UNCHANGED complete

Kill == edited' = <<>> /\ UNCHANGED complete

Take == complete # <<>> /\ complete' = Tail(complete) /\ UNCHANGED edited

Next == Erase \/ Kill \/ Take \/ \E c \in Ordinary \cup {"nl", "eof"} : Type(c)

Spec == Init /\ [][Next]_<<complete, edited>>
=============================================================================
