------------------------------- MODULE Bcache -------------------------------
(***************************************************************************)
(* The buffer cache, kernel/bio.c, with its sleep locks (kernel/sleeplock.c)*)
(* on top of the disk driver.  A process gets a block with bread(), may    *)
(* change it and write it with bwrite(), and releases it with brelse().    *)
(* A process that uses several buffers at once is several of Procs here,   *)
(* since bio.c does not ask who its caller is but to test that it holds    *)
(* the lock.  Buffers that the log pins are in Log.                        *)
(*                                                                         *)
(* A section under bcache.lock, or under the spin lock of a sleep lock, is *)
(* one step.                                                               *)
(***************************************************************************)
EXTENDS VirtioDisk

VARIABLES valid,   \* b->valid
          refcnt,  \* b->refcnt
          holder,  \* the process that holds b->lock, None if nobody does
          lru,     \* bcache.head's list, the most recently used first
          want,    \* the block a process asks for
          mem      \* history: what was last stored in each block

None == "none"

ASSUME CacheAssumption == None \notin Procs

cachevars == <<valid, refcnt, holder, lru, want, mem>>
vars == <<diskvars, blockno, pc, buf, write, cachevars>>

Init ==
    /\ DiskInit
    /\ blockno = [b \in Bufs |-> NoBlock]
    /\ pc = [p \in Procs |-> "user"]
    /\ buf = [p \in Procs |-> NoBuf]
    /\ write = [p \in Procs |-> FALSE]
    /\ valid = [b \in Bufs |-> FALSE]
    /\ refcnt = [b \in Bufs |-> 0]
    /\ holder = [b \in Bufs |-> None]
    /\ lru = [k \in Bufs |-> NBUF + 1 - k]
    /\ want = [p \in Procs |-> NoBlock]
    /\ mem = medium

At(p, l) == panic = "none" /\ pc[p] = l

Goto(p, l) == pc' = [pc EXCEPT ![p] = l]

\* Mutant: a recycled buffer stays valid.
bget_valid(p, k) ==
    LET hits == {b \in Bufs : blockno[b] = k}
        idle == {j \in Bufs : refcnt[lru[j]] = 0}
        last == CHOOSE j \in idle : \A l \in idle : l <= j
    IN  /\ At(p, "user")
        /\ \/ /\ hits # {}
              /\ \E b \in hits : /\ buf' = [buf EXCEPT ![p] = b]
                                 /\ refcnt' = [refcnt EXCEPT ![b] = @ + 1]
              /\ Goto(p, "acquiresleep")
              /\ UNCHANGED <<blockno, valid, panic>>
           \/ /\ hits = {} /\ idle # {}
              /\ buf' = [buf EXCEPT ![p] = lru[last]]
              /\ blockno' = [blockno EXCEPT ![lru[last]] = k]
              /\ refcnt' = [refcnt EXCEPT ![lru[last]] = 1]
              /\ Goto(p, "acquiresleep")
              /\ UNCHANGED <<valid, panic>>
           \/ /\ hits = {} /\ idle = {}
              /\ panic' = "bget"
              /\ UNCHANGED <<buf, blockno, valid, refcnt, pc>>
        /\ want' = [want EXCEPT ![p] = k]
        /\ UNCHANGED <<free, next, info, status, ops, ringvars, inflight, irq, medium,
                       intr, disk, data, idx, write, holder, lru, mem>>

\* bget(), under bcache.lock: the buffer of the block, or the least recently
\* used one that nobody refers to.
bget(p, k) ==
    LET hits == {b \in Bufs : blockno[b] = k}
        idle == {j \in Bufs : refcnt[lru[j]] = 0}
        last == CHOOSE j \in idle : \A l \in idle : l <= j
    IN  /\ At(p, "user")
        /\ \/ /\ hits # {}
              /\ \E b \in hits : /\ buf' = [buf EXCEPT ![p] = b]
                                 /\ refcnt' = [refcnt EXCEPT ![b] = @ + 1]
              /\ Goto(p, "acquiresleep")
              /\ UNCHANGED <<blockno, valid, panic>>
           \/ /\ hits = {} /\ idle # {}
              /\ buf' = [buf EXCEPT ![p] = lru[last]]
              /\ blockno' = [blockno EXCEPT ![lru[last]] = k]
              /\ valid' = [valid EXCEPT ![lru[last]] = FALSE]
              /\ refcnt' = [refcnt EXCEPT ![lru[last]] = 1]
              /\ Goto(p, "acquiresleep")
              /\ UNCHANGED panic
           \/ /\ hits = {} /\ idle = {}
              /\ panic' = "bget"
              /\ UNCHANGED <<buf, blockno, valid, refcnt, pc>>
        /\ want' = [want EXCEPT ![p] = k]
        /\ UNCHANGED <<free, next, info, status, ops, ringvars, inflight, irq, medium,
                       intr, disk, data, idx, write, holder, lru, mem>>

\* One turn of acquiresleep(&b->lock); then bread() reads the block unless
\* the buffer is valid.
acquiresleep(p) ==
    LET b == buf[p]
    IN  /\ At(p, "acquiresleep")
        /\ IF holder[b] # None
           THEN Goto(p, "lock_sleep") /\ UNCHANGED <<holder, write>>
           ELSE /\ holder' = [holder EXCEPT ![b] = p]
                /\ write' = [write EXCEPT ![p] = FALSE]
                /\ Goto(p, IF valid[b] THEN "locked" ELSE "disk_rw")
        /\ UNCHANGED <<diskvars, blockno, buf, valid, refcnt, lru, want, mem>>

\* The end of bread() or bwrite().
disk_done(p) ==
    /\ At(p, "disk_done")
    /\ valid' = [valid EXCEPT ![buf[p]] = TRUE]
    /\ write' = [write EXCEPT ![p] = FALSE]
    /\ Goto(p, "locked")
    /\ UNCHANGED <<diskvars, blockno, buf, refcnt, holder, lru, want, mem>>

\* Change the buffer and bwrite() it.
bwrite(p, v) ==
    /\ At(p, "locked")
    /\ panic' = IF holder[buf[p]] = p THEN "none" ELSE "bwrite"
    /\ data' = [data EXCEPT ![buf[p]] = v]
    /\ mem' = [mem EXCEPT ![want[p]] = v]
    /\ write' = [write EXCEPT ![p] = TRUE]
    /\ Goto(p, "disk_rw")
    /\ UNCHANGED <<free, next, info, status, ops, ringvars, inflight, irq, medium, intr,
                   disk, idx, blockno, buf, valid, refcnt, holder, lru, want>>

\* brelse(): releasesleep() first.
releasesleep(p) ==
    LET b == buf[p]
    IN  /\ At(p, "locked")
        /\ panic' = IF holder[b] = p THEN "none" ELSE "brelse"
        /\ holder' = [holder EXCEPT ![b] = None]
        /\ pc' = [q \in Procs |-> IF q = p THEN "brelse"
                                  ELSE IF pc[q] = "lock_sleep" /\ buf[q] = b
                                  THEN "acquiresleep" ELSE pc[q]]
        /\ UNCHANGED <<free, next, info, status, ops, ringvars, inflight, irq, medium,
                       intr, disk, data, idx, blockno, buf, write, valid, refcnt, lru,
                       want, mem>>

\* The list with b moved to its head.
MoveFirst(b) ==
    LET j == CHOOSE k \in Bufs : lru[k] = b
    IN  [k \in Bufs |-> IF k = 1 THEN b ELSE IF k <= j THEN lru[k - 1] ELSE lru[k]]

\* Then the reference, and the place in the list.
brelse(p) ==
    LET b == buf[p]
    IN  /\ At(p, "brelse")
        /\ refcnt' = [refcnt EXCEPT ![b] = @ - 1]
        /\ lru' = IF refcnt[b] = 1 THEN MoveFirst(b) ELSE lru
        /\ buf' = [buf EXCEPT ![p] = NoBuf]
        /\ want' = [want EXCEPT ![p] = NoBlock]
        /\ Goto(p, "user")
        /\ UNCHANGED <<diskvars, blockno, write, valid, holder, mem>>

\* kill() wakes a process that waits for a sleep lock; it waits again.
kill(p) ==
    /\ At(p, "lock_sleep")
    /\ Goto(p, "acquiresleep")
    /\ UNCHANGED <<diskvars, blockno, buf, write, cachevars>>

Next ==
    \/ DiskNext /\ UNCHANGED cachevars
    \/ \E p \in Procs, k \in Blocks : bget(p, k)
    \/ \E p \in Procs, v \in Val : bwrite(p, v)
    \/ \E p \in Procs : \/ acquiresleep(p) \/ disk_done(p) \/ releasesleep(p)
                        \/ brelse(p) \/ kill(p)

Spec == Init /\ [][Next]_vars
-----------------------------------------------------------------------------
(* Properties.                                                             *)

Places == {"user", "acquiresleep", "lock_sleep", "disk_rw", "desc_sleep", "disk_sleep",
           "disk_woken", "disk_done", "locked", "brelse"}

TypeOK ==
    /\ DiskTypeOK
    /\ mem \in [Blocks -> Val]
    /\ blockno \in [Bufs -> Blocks \cup {NoBlock}]
    /\ pc \in [Procs -> Places]
    /\ buf \in [Procs -> Bufs \cup {NoBuf}]
    /\ write \in [Procs -> BOOLEAN]
    /\ valid \in [Bufs -> BOOLEAN]
    /\ refcnt \in [Bufs -> 0 .. Cardinality(Procs)]
    /\ holder \in [Bufs -> Procs \cup {None}]
    /\ lru \in [Bufs -> Bufs] /\ \A b \in Bufs : \E k \in Bufs : lru[k] = b
    /\ want \in [Procs -> Blocks \cup {NoBlock}]

(* bio.c:88, virtio_disk.c:174, 316: bget() finds no buffer only when all  *)
(* NBUF of them are in use at that moment, so no reference outlives its    *)
(* user; nothing else panics: no descriptor is freed twice, a completion   *)
(* belongs to a request, and bwrite() and brelse() have the lock.          *)
PanicMeansAllBusy ==
    panic # "none" =>
        panic = "bget" /\ \A b \in Bufs : \E p \in Procs : buf[p] = b

(* bio.c:55-137: who has a block locked has it alone, in a valid buffer    *)
(* whose contents are the last ones stored in that block, by whichever     *)
(* process and whatever buffer it was in then.                             *)
CacheCoherent ==
    /\ \A p \in Procs : pc[p] = "locked" =>
          /\ holder[buf[p]] = p /\ valid[buf[p]] /\ blockno[buf[p]] = want[p]
          /\ data[buf[p]] = mem[want[p]]
    /\ \A p, q \in Procs : pc[p] = "locked" /\ pc[q] = "locked" /\ p # q
                           => want[p] # want[q]

\* The entries of a ring between two indices.
Window(a, e) == {k \in 0 .. WRAP - 1 : (k - a) % WRAP < (e - a) % WRAP}
Entries(ring, a, e) == {ring[k % NUM] : k \in Window(a, e)}

\* Requests the device has not completed, and completions the driver has not
\* seen.
Pending == inflight \cup Entries(avail, dev_avail, avail_idx)
Unseen == Entries(used, used_idx, dev_used)

(* virtio_disk.c:283-324: no completion is lost, though the device adds    *)
(* them while the handler runs and has acknowledged the interrupt.  A      *)
(* process that sleeps for its request has it with the device or in the    *)
(* used ring, and then the handler runs or will run.  A process that waits *)
(* for descriptors waits for a process that has some.                      *)
SleeperHasInterrupt ==
    /\ \A p \in Procs : pc[p] = "disk_sleep" =>
          idx[p] \in Pending \cup Unseen /\ (idx[p] \in Unseen => irq \/ intr = "loop")
    /\ \A p \in Procs : pc[p] = "desc_sleep" =>
          \E q \in Procs : pc[q] \in {"disk_rw", "disk_sleep", "disk_woken"}
=============================================================================
