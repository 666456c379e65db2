---------------------------- MODULE AtomicStore ----------------------------
(***************************************************************************)
(* What the logging layer (kernel/log.c) promises the file system.         *)
(*                                                                         *)
(* Operations run concurrently between begin_op() and end_op() and write   *)
(* blocks.  The durable image changes only by swallowing the whole current *)
(* image at a moment when no operation is in progress, so a crash, which   *)
(* goes back to the durable image, never exposes a part of an operation.   *)
(* One thing is outside this promise: the contents of a file in a block    *)
(* where a copy from user memory failed.  They are seen, are not made      *)
(* durable, and may go back at any time to what is durable.                *)
(***************************************************************************)
CONSTANTS Procs,   \* processes that run file-system operations
          Blocks,  \* blocks the file system writes through the log
          DataBlocks,  \* those of them that hold the contents of files
          Val,     \* contents of a block
          Zero     \* the contents mkfs leaves in every block

VARIABLES stable,   \* the image a crash would leave
          volatile, \* the image bread() shows
          active,   \* processes inside an operation
          spoilt    \* blocks in which a copy failed

vars == <<stable, volatile, active, spoilt>>

Init ==
    /\ stable = [b \in Blocks |-> Zero]
    /\ volatile = stable
    /\ active = {}
    /\ spoilt = {}

Begin(p) ==
    /\ p \notin active
    /\ active' = active \cup {p}
    /\ UNCHANGED <<stable, volatile, spoilt>>

Write(p, b, v) ==
    /\ p \in active
    /\ volatile' = [volatile EXCEPT ![b] = v]
    /\ spoilt' = spoilt \ {b}
    /\ UNCHANGED <<stable, active>>

\* The copy that made the last change of b failed.
Fail(p, b) ==
    /\ p \in active
    /\ spoilt' = spoilt \cup {b}
    /\ UNCHANGED <<stable, volatile, active>>

\* What a failed copy left in b is dropped.
Revert(b) ==
    /\ b \in spoilt
    /\ volatile' = [volatile EXCEPT ![b] = stable[b]]
    /\ spoilt' = spoilt \ {b}
    /\ UNCHANGED <<stable, active>>

End(p) ==
    /\ p \in active
    /\ active' = active \ {p}
    /\ UNCHANGED <<stable, volatile, spoilt>>

\* Everything written so far becomes durable at once.
Commit ==
    /\ active = {}
    /\ stable' = [b \in Blocks |-> IF b \in spoilt THEN stable[b] ELSE volatile[b]]
    /\ UNCHANGED <<volatile, active, spoilt>>

Crash ==
    /\ volatile' = stable
    /\ active' = {}
    /\ spoilt' = {}
    /\ UNCHANGED stable

Next ==
    \/ \E p \in Procs : Begin(p) \/ End(p)
    \/ \E p \in Procs, b \in Blocks, v \in Val : Write(p, b, v)
    \/ \E p \in Procs, b \in DataBlocks : Fail(p, b)
    \/ \E b \in DataBlocks : Revert(b)
    \/ Commit
    \/ Crash

Spec == Init /\ [][Next]_vars
=============================================================================
