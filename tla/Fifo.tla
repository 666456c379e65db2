-------------------------------- MODULE Fifo --------------------------------
(* What a pipe promises: a bounded queue of bytes with two ends that close *)
(* once and for all.                                                       *)
EXTENDS Naturals, Sequences

CONSTANTS Byte, Capacity

VARIABLES queue, ropen, wopen

vars == <<queue, ropen, wopen>>

Init == queue = <<>> /\ ropen = TRUE /\ wopen = TRUE

Put(b) ==
    /\ ropen /\ wopen
    /\ Len(queue) < Capacity
    /\ queue' = Append(queue, b)
    /\ UNCHANGED <<ropen, wopen>>

Take ==
    /\ ropen
    /\ queue # <<>>
    /\ queue' = Tail(queue)
    /\ UNCHANGED <<ropen, wopen>>

CloseRead == ropen /\ ropen' = FALSE /\ UNCHANGED <<queue, wopen>>

CloseWrite == wopen /\ wopen' = FALSE /\ UNCHANGED <<queue, ropen>>

Next == (\E b \in Byte : Put(b)) \/ Take \/ CloseRead \/ CloseWrite

Spec == Init /\ [][Next]_vars
=============================================================================
