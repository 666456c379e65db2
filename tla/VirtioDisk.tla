----------------------------- MODULE VirtioDisk -----------------------------
(***************************************************************************)
(* The disk driver, kernel/virtio_disk.c, with the device it talks to.     *)
(*                                                                         *)
(* A section under vdisk_lock is one step, except the interrupt handler,   *)
(* which holds the lock while the device goes on adding completions.  The  *)
(* device takes requests in order and completes them in any order.  The    *)
(* caller leaves a request in pc, buf and write and finds the answer when  *)
(* pc is "disk_done".  Entries of a ring and fields of a descriptor that   *)
(* nobody reads any more are reset, to keep the states few.                *)
(***************************************************************************)
EXTENDS Integers, FiniteSets

CONSTANTS Procs,   \* processes that use the disk
          Blocks,  \* disk blocks
          Val,     \* contents of a block
          NBUF,    \* buffers
          NUM,     \* descriptors, and entries of the rings
          WRAP,    \* bound: the ring indices are numbers modulo WRAP
          Zero,    \* what an unused buffer and a fresh disk hold
          NoBlock  \* the block of a buffer that was never used

ASSUME DiskAssumption ==
    /\ IsFiniteSet(Procs)
    /\ NBUF \in Nat \ {0}
    /\ NUM \in Nat /\ NUM >= 3
    /\ WRAP \in Nat \ {0} /\ WRAP % NUM = 0
    /\ NoBlock \notin Blocks /\ Zero \in Val

Bufs == 1 .. NBUF
NoBuf == 0
Descs == 0 .. NUM - 1
NoDesc == -1

VARIABLES
    \* struct disk
    free,      \* free descriptors
    next,      \* desc[i].next, NoDesc where F_NEXT is not set
    info,      \* info[i].b
    status,    \* info[i].status is 0
    ops,       \* the request of a chain: direction, buffer and sector
    avail,     \* avail->ring
    avail_idx, \* avail->idx
    used_idx,  \* how far the driver has looked in the used ring
    \* the device
    used,      \* used->ring
    dev_used,  \* used->idx
    dev_avail, \* how far the device has looked in the avail ring
    inflight,  \* chains the device works on
    irq,       \* interrupt status
    medium,    \* what is on the disk
    \* the interrupt handler and the callers
    intr,      \* where the handler is; it holds vdisk_lock unless "idle"
    disk,      \* b->disk
    data,      \* b->data
    blockno,   \* b->blockno
    pc,        \* where each process is
    buf,       \* the buffer it works on
    write,     \* argument of virtio_disk_rw
    idx,       \* local variable idx[0] of virtio_disk_rw
    panic

ringvars == <<avail, avail_idx, used_idx, used, dev_used, dev_avail>>
diskvars == <<free, next, info, status, ops, ringvars, inflight, irq, medium, intr,
              disk, data, idx, panic>>

DiskInit ==
    /\ free = Descs
    /\ next = [i \in Descs |-> NoDesc]
    /\ info = [i \in Descs |-> NoBuf]
    /\ status = [i \in Descs |-> FALSE]
    /\ ops = [i \in Descs |-> [write |-> FALSE, b |-> NoBuf, sector |-> NoBlock]]
    /\ avail = [i \in Descs |-> 0]
    /\ used = [i \in Descs |-> 0]
    /\ avail_idx = 0 /\ used_idx = 0 /\ dev_used = 0 /\ dev_avail = 0
    /\ inflight = {}
    /\ irq = FALSE
    /\ intr = "idle"
    /\ medium = [k \in Blocks |-> Zero]
    /\ disk = [b \in Bufs |-> FALSE]
    /\ data = [b \in Bufs |-> Zero]
    /\ idx = [p \in Procs |-> NoDesc]
    /\ panic = "none"

Least(S) == CHOOSE x \in S : \A y \in S : x <= y

\* p goes to l, and the processes of S that wait at s wake to t.
Wake(p, l, S, s, t) ==
    pc' = [q \in Procs |-> IF q = p THEN l ELSE IF q \in S /\ pc[q] = s THEN t
                                                                     ELSE pc[q]]
-----------------------------------------------------------------------------
\* virtio_disk_rw() up to its second sleep.  Without three descriptors the
\* ones found are freed again, which wakes whoever waits for them, and p waits.
virtio_disk_rw(p) ==
    LET i0 == Least(free)
        i1 == Least(free \ {i0})
        i2 == Least(free \ {i0, i1})
        b == buf[p]
    IN  /\ panic = "none" /\ intr = "idle"
        /\ pc[p] = "disk_rw"
        /\ IF Cardinality(free) < 3
           THEN /\ Wake(p, "desc_sleep", IF free = {} THEN {} ELSE Procs, "desc_sleep",
                        "disk_rw")
                /\ UNCHANGED diskvars
           ELSE /\ free' = free \ {i0, i1, i2}
                /\ next' = [next EXCEPT ![i0] = i1, ![i1] = i2, ![i2] = NoDesc]
                /\ ops' = [ops EXCEPT ![i0] = [write |-> write[p], b |-> b,
                                               sector |-> blockno[b]]]
                /\ status' = [status EXCEPT ![i0] = FALSE]
                /\ disk' = [disk EXCEPT ![b] = TRUE]
                /\ info' = [info EXCEPT ![i0] = b]
                /\ avail' = [avail EXCEPT ![avail_idx % NUM] = i0]
                /\ avail_idx' = (avail_idx + 1) % WRAP
                /\ idx' = [idx EXCEPT ![p] = i0]
                /\ pc' = [pc EXCEPT ![p] = "disk_sleep"]
                /\ UNCHANGED <<used_idx, used, dev_used, dev_avail, inflight, irq,
                               medium, intr, data, panic>>
        /\ UNCHANGED <<blockno, buf, write>>

\* The descriptors that free_chain(i) goes through; a chain has at most three.
Chain(i) == {i, next[i]} \cup (IF next[i] = NoDesc THEN {} ELSE {next[next[i]]})

free_chain(i) == Chain(i) \ {NoDesc}

\* After the sleep: wait again while b->disk, else free the chain.
disk_woken(p) ==
    LET ds == free_chain(idx[p])
    IN  /\ panic = "none" /\ intr = "idle"
        /\ pc[p] = "disk_woken"
        /\ IF disk[buf[p]]
           THEN pc' = [pc EXCEPT ![p] = "disk_sleep"] /\ UNCHANGED diskvars
           ELSE /\ panic' = IF ds \cap free = {} THEN "none" ELSE "free_desc"
                /\ info' = [info EXCEPT ![idx[p]] = NoBuf]
                /\ ops' = [ops EXCEPT ![idx[p]] = [write |-> FALSE, b |-> NoBuf,
                                                   sector |-> NoBlock]]
                /\ status' = [status EXCEPT ![idx[p]] = FALSE]
                /\ next' = [i \in Descs |-> IF i \in ds THEN NoDesc ELSE next[i]]
                /\ free' = free \cup ds
                /\ idx' = [idx EXCEPT ![p] = NoDesc]
                /\ Wake(p, "disk_done", Procs, "desc_sleep", "disk_rw")
                /\ UNCHANGED <<ringvars, inflight, irq, medium, intr, disk, data>>
        /\ UNCHANGED <<blockno, buf, write>>
-----------------------------------------------------------------------------
\* virtio_disk_intr(): take the lock and acknowledge the interrupt.
virtio_disk_intr ==
    /\ panic = "none" /\ intr = "idle"
    /\ irq
    /\ irq' = FALSE
    /\ intr' = "loop"
    /\ UNCHANGED <<free, next, info, status, ops, ringvars, inflight, medium, disk, data,
                   idx, panic, blockno, pc, buf, write>>

\* One turn of its loop, or the test that ends it.
intr_loop ==
    LET id == used[used_idx % NUM]
        b == info[id]
    IN  /\ panic = "none" /\ intr = "loop"
        /\ IF used_idx = dev_used
           THEN intr' = "end" /\ UNCHANGED <<used, used_idx, disk, pc, panic>>
           ELSE IF ~status[id] \/ b = NoBuf
           THEN /\ panic' = "virtio_disk_intr"
                /\ UNCHANGED <<used, used_idx, disk, pc, intr>>
           ELSE /\ disk' = [disk EXCEPT ![b] = FALSE]
                /\ pc' = [q \in Procs |-> IF pc[q] = "disk_sleep" /\ buf[q] = b
                                          THEN "disk_woken" ELSE pc[q]]
                /\ used' = [used EXCEPT ![used_idx % NUM] = 0]
                /\ used_idx' = (used_idx + 1) % WRAP
                /\ UNCHANGED <<intr, panic>>
        /\ UNCHANGED <<free, next, info, status, ops, avail, avail_idx, dev_used,
                       dev_avail, inflight, irq, medium, data, idx, blockno, buf, write>>
\* Mutant: the interrupt is acknowledged after the loop.
intr_end_ack ==
    /\ panic = "none" /\ intr = "end"
    /\ intr' = "idle"
    /\ irq' = FALSE
    /\ UNCHANGED <<free, next, info, status, ops, ringvars, inflight, medium, disk, data,
                   idx, panic, blockno, pc, buf, write>>

\* release(&disk.vdisk_lock)
intr_end ==
    /\ panic = "none" /\ intr = "end"
    /\ intr' = "idle"
    /\ UNCHANGED <<free, next, info, status, ops, ringvars, inflight, irq, medium, disk,
                   data, idx, panic, blockno, pc, buf, write>>
-----------------------------------------------------------------------------
(* The device.                                                             *)

device_fetch ==
    /\ panic = "none"
    /\ dev_avail # avail_idx
    /\ inflight' = inflight \cup {avail[dev_avail % NUM]}
    /\ avail' = [avail EXCEPT ![dev_avail % NUM] = 0]
    /\ dev_avail' = (dev_avail + 1) % WRAP
    /\ UNCHANGED <<free, next, info, status, ops, avail_idx, used_idx, used, dev_used, irq,
                   medium, intr, disk, data, idx, panic, blockno, pc, buf, write>>

device_done(i) ==
    LET r == ops[i]
    IN  /\ panic = "none"
        /\ i \in inflight
        /\ IF r.write
           THEN medium' = [medium EXCEPT ![r.sector] = data[r.b]] /\ UNCHANGED data
           ELSE data' = [data EXCEPT ![r.b] = medium[r.sector]] /\ UNCHANGED medium
        /\ inflight' = inflight \ {i}
        /\ status' = [status EXCEPT ![i] = TRUE]
        /\ used' = [used EXCEPT ![dev_used % NUM] = i]
        /\ dev_used' = (dev_used + 1) % WRAP
        /\ irq' = TRUE
        /\ UNCHANGED <<free, next, info, ops, avail, avail_idx, used_idx, dev_avail, intr,
                       disk, idx, panic, blockno, pc, buf, write>>
-----------------------------------------------------------------------------
\* kill() makes a sleeper runnable; the loops around sleep() go on waiting.
disk_kill(p) ==
    /\ panic = "none"
    /\ pc[p] \in {"desc_sleep", "disk_sleep"}
    /\ pc' = [pc EXCEPT ![p] = IF @ = "desc_sleep" THEN "disk_rw" ELSE "disk_woken"]
    /\ UNCHANGED <<diskvars, blockno, buf, write>>

DiskNext ==
    \/ virtio_disk_intr \/ intr_loop \/ intr_end \/ device_fetch
    \/ \E i \in Descs : device_done(i)
    \/ \E p \in Procs : virtio_disk_rw(p) \/ disk_woken(p) \/ disk_kill(p)
-----------------------------------------------------------------------------
\* The type of the driver's and the device's state.
DiskTypeOK ==
    /\ free \subseteq Descs /\ inflight \subseteq Descs
    /\ next \in [Descs -> Descs \cup {NoDesc}]
    /\ info \in [Descs -> Bufs \cup {NoBuf}]
    /\ status \in [Descs -> BOOLEAN]
    /\ ops \in [Descs -> [write : BOOLEAN, b : Bufs \cup {NoBuf},
                          sector : Blocks \cup {NoBlock}]]
    /\ avail \in [Descs -> Descs] /\ used \in [Descs -> Descs]
    /\ {avail_idx, used_idx, dev_used, dev_avail} \subseteq 0 .. WRAP - 1
    /\ irq \in BOOLEAN /\ intr \in {"idle", "loop", "end"}
    /\ disk \in [Bufs -> BOOLEAN]
    /\ data \in [Bufs -> Val]
    /\ medium \in [Blocks -> Val]
    /\ idx \in [Procs -> Descs \cup {NoDesc}]
=============================================================================
