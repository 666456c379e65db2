------------------------------ MODULE MCSleep -------------------------------
(***************************************************************************)
(* Sleep and wakeup for TLC: two processes on two CPUs (Sched), and three  *)
(* processes that compete for the descriptors of one disk request (Bcache; *)
(* MCBcache has two requests in flight).  A behaviour is one of one of the *)
(* two; unit says which, and the other stays in its initial state.         *)
(***************************************************************************)
EXTENDS Sched, TLC

CONSTANTS Crowd, Blocks, NoBlock

VARIABLES unit,
          free, next, info, status, ops, avail, avail_idx, used_idx, used, dev_used,
          dev_avail, inflight, irq, medium, intr, disk, data, blockno, disk_pc, buf, write,
          idx, disk_panic, valid, refcnt, holder, lru, want, mem

Disk == INSTANCE Bcache WITH Procs <- Crowd, Val <- {0}, Zero <- 0, NBUF <- 3, NUM <- 4,
            WRAP <- 4, pc <- disk_pc, panic <- disk_panic

diskvars == <<free, next, info, status, ops, avail, avail_idx, used_idx, used, dev_used,
              dev_avail, inflight, irq, medium, intr, disk, data, blockno, disk_pc, buf, write,
              idx, disk_panic, valid, refcnt, holder, lru, want, mem>>

MCInit == unit \in {"sched", "disk"} /\ Init /\ Disk!Init

MCNext == /\ UNCHANGED unit
          /\ \/ unit = "sched" /\ Next /\ UNCHANGED diskvars
             \/ unit = "disk" /\ Disk!Next /\ UNCHANGED vars

MCSpec == MCInit /\ [][MCNext]_<<unit, vars, diskvars>>

Symmetry == Permutations(Crowd) \cup Permutations(Blocks)

-----------------------------------------------------------------------------
\* proc.c: sleep() and wakeup(): a process does not sleep on a condition that
\* has come true; virtio_disk.c: a process that waits for its request or for
\* descriptors has an interrupt or another process that will wake it, and the
\* driver frees no descriptor twice and meets no completion without a request.
NobodySleepsForEver == NoLostWakeup /\ Disk!SleeperHasInterrupt /\ Disk!PanicMeansAllBusy
=============================================================================
