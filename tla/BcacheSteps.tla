---------------------------- MODULE BcacheSteps -----------------------------
(***************************************************************************)
(* Proofs about Bcache, second part: the device, its interrupt handler and *)
(* a process that already has its buffer (the lock, the request that is    *)
(* over, bwrite and the release of the lock) keep the invariant.           *)
(***************************************************************************)
EXTENDS BcacheLemmas

USE ZenonT(20), SMTT(20)
-----------------------------------------------------------------------------
(* A step that only moves processes between such places.                   *)
LEMMA MoveStep ==
    ASSUME CacheInv, UNCHANGED <<diskvars, blockno, buf, write, cachevars>>,
           \A p \in Procs : Same(pc[p], pc'[p]),
           pc' \in [Procs -> Places],
           \A p \in Procs : pc'[p] = "disk_sleep" => disk[buf[p]],
           DescInv'
    PROVE  CacheInv'
<1>1. /\ UNCHANGED <<free, next, info, status, ops, inflight, irq, medium, intr, disk, data,
                     idx, panic>>
      /\ UNCHANGED <<avail, avail_idx, used_idx, used, dev_used, dev_avail>>
      /\ UNCHANGED <<valid, refcnt, holder, lru, want, mem>>
  BY DEF diskvars, ringvars, cachevars
<1>2. /\ TypeOK /\ DiskTypeOK /\ RefInv /\ LockInv /\ ChainInv /\ RequestInv /\ RingInv
      /\ DataInv
  BY DEF CacheInv, TypeOK
<1>3. TypeOK'
  <2>1. DiskTypeOK'
    BY <1>1, <1>2 DEF DiskTypeOK
  <2>. QED  BY <1>1, <1>2, <2>1 DEF TypeOK
<1>4. Requesters' = Requesters
  BY DEF Requesters, Same
<1>5. \A p \in Procs : /\ pc'[p] = "user" <=> pc[p] = "user"
                       /\ pc'[p] \in Holding <=> pc[p] \in Holding
                       /\ pc'[p] \in Reading <=> pc[p] \in Reading
                       /\ pc'[p] = "disk_done" <=> pc[p] = "disk_done"
                       /\ pc'[p] = "locked" <=> pc[p] = "locked"
  BY DEF Same, Holding, Reading
<1>6. RefInv' /\ LockInv'
  BY <1>1, <1>2, <1>5, RefFrame, LockFrame
<1>7. ChainInv' /\ RequestInv'
  BY <1>1, <1>2, <1>4, ChainFrame, RequestFrame
<1>8. RingInv'
  <2>1. used_idx # dev_used => irq' \/ intr' = "loop"
    BY <1>1, <1>2 DEF RingInv
  <2>. QED  BY <1>1, <1>2, <1>4, <2>1, RingFrame DEF ringvars
<1>9. DataInv'
  BY <1>1, <1>2, <1>4, <1>5, DataFrame
<1>. QED  BY <1>3, <1>6, <1>7, <1>8, <1>9 DEF CacheInv

(* kill(): a sleeper wakes, and will find that it has to wait again.       *)
LEMMA KillStep ==
    ASSUME CacheInv, NEW p \in Procs, (disk_kill(p) /\ UNCHANGED cachevars) \/ kill(p)
    PROVE  CacheInv'
<1>1. TypeOK /\ DiskTypeOK /\ DescInv /\ RingInv
  BY DEF CacheInv, TypeOK
<1>2. /\ UNCHANGED <<diskvars, blockno, buf, write, cachevars>>
      /\ \A q \in Procs : q # p => pc'[q] = pc[q]
      /\ \/ pc[p] = "desc_sleep" /\ pc'[p] = "disk_rw"
         \/ pc[p] = "disk_sleep" /\ pc'[p] = "disk_woken"
         \/ pc[p] = "lock_sleep" /\ pc'[p] = "acquiresleep"
      /\ pc' \in [Procs -> Places]
  BY <1>1 DEF disk_kill, kill, At, Goto, TypeOK, Places
<1>3. \A q \in Procs : Same(pc[q], pc'[q])
  BY <1>2 DEF Same
<1>4. \A q \in Procs : pc'[q] = "disk_sleep" => disk[buf[q]]
  BY <1>1, <1>2 DEF RingInv
<1>5. DescInv'
  BY <1>1, <1>2 DEF DescInv
<1>. QED  BY <1>2, <1>3, <1>4, <1>5, MoveStep

(* virtio_disk_rw() without three descriptors: somebody has them.          *)
LEMMA NoDescsStep ==
    ASSUME CacheInv, NEW p \in Procs, virtio_disk_rw(p), UNCHANGED cachevars,
           Cardinality(free) < 3
    PROVE  CacheInv'
<1>1. TypeOK /\ DiskTypeOK /\ DescInv /\ RingInv /\ ChainInv
  BY DEF CacheInv, TypeOK
<1>2. /\ UNCHANGED <<diskvars, blockno, buf, write, cachevars>>
      /\ pc[p] = "disk_rw" /\ pc'[p] = "desc_sleep"
      /\ \A q \in Procs : \/ pc'[q] = pc[q]
                          \/ q = p
                          \/ pc[q] = "desc_sleep" /\ pc'[q] = "disk_rw"
      /\ pc' \in [Procs -> Places]
  BY SMTT(20), <1>1 DEF virtio_disk_rw, Wake, TypeOK, Places
<1>3. \A q \in Procs : Same(pc[q], pc'[q])
  BY <1>2 DEF Same
<1>4. \A q \in Procs : pc'[q] = "disk_sleep" => disk[buf[q]]
  BY <1>1, <1>2 DEF RingInv
<1>5. \E q \in Requesters : TRUE
  <2>1. Descs # free
    BY DiskAssumption, FS_Interval, SMTT(20) DEF DiskAssumption, Descs
  <2>2. PICK i \in Descs : i \notin free
    BY <1>1, <2>1 DEF DiskTypeOK
  <2>. QED  BY <1>1, <2>2 DEF ChainInv
<1>6. DescInv'
  BY <1>2, <1>5 DEF DescInv, Requesters
<1>. QED  BY <1>2, <1>3, <1>4, <1>6, MoveStep

(* A process that was woken too early waits again for its request.         *)
LEMMA WaitAgainStep ==
    ASSUME CacheInv, NEW p \in Procs, disk_woken(p), UNCHANGED cachevars, disk[buf[p]]
    PROVE  CacheInv'
<1>1. TypeOK /\ DiskTypeOK /\ DescInv /\ RingInv
  BY DEF CacheInv, TypeOK
<1>2. /\ UNCHANGED <<diskvars, blockno, buf, write, cachevars>>
      /\ \A q \in Procs : q # p => pc'[q] = pc[q]
      /\ pc[p] = "disk_woken" /\ pc'[p] = "disk_sleep"
      /\ pc' \in [Procs -> Places]
  BY SMTT(20), <1>1 DEF disk_woken, TypeOK, Places
<1>3. \A q \in Procs : Same(pc[q], pc'[q])
  BY <1>2 DEF Same
<1>4. \A q \in Procs : pc'[q] = "disk_sleep" => disk[buf[q]]
  BY <1>1, <1>2 DEF RingInv
<1>5. DescInv'
  BY <1>1, <1>2 DEF DescInv
<1>. QED  BY <1>2, <1>3, <1>4, <1>5, MoveStep

(* Two requests are for two buffers.                                       *)
LEMMA OwnBuffer ==
    ASSUME CacheInv, NEW p \in Procs, NEW q \in Procs,
           pc[p] \in Holding, pc[q] \in Holding, buf[p] = buf[q]
    PROVE  p = q
<1>1. pc[p] # "user"
  BY DEF Holding, Reading
<1>2. buf[p] \in Bufs
  BY SMTT(20), <1>1 DEF CacheInv, TypeOK, DiskTypeOK, RefInv
<1>. QED  BY <1>2 DEF CacheInv, LockInv

(* A requester is a process that holds a buffer, for a block.              *)
LEMMA RequesterFacts ==
    ASSUME CacheInv, NEW p \in Requesters
    PROVE  /\ p \in Procs /\ pc[p] \in Reading /\ pc[p] \in Holding
           /\ buf[p] \in Bufs /\ buf[p] # NoBuf /\ idx[p] \in Descs
           /\ want[p] \in Blocks /\ blockno[buf[p]] = want[p]
           /\ write[p] \in BOOLEAN
<1>1. p \in Procs /\ pc[p] \in Reading /\ pc[p] \in Holding /\ pc[p] # "user"
  BY DEF Requesters, Reading, Holding
<1>2. buf[p] # NoBuf /\ buf[p] \in Bufs
  BY SMTT(20), <1>1 DEF CacheInv, TypeOK, DiskTypeOK, RefInv
<1>. QED  BY <1>1, <1>2 DEF CacheInv, TypeOK, DiskTypeOK, RefInv, ChainInv, ChainOf

(* The interrupt handler takes the lock, or releases it.                   *)
LEMMA IntrStep ==
    ASSUME CacheInv, virtio_disk_intr \/ intr_end, UNCHANGED cachevars
    PROVE  CacheInv'
<1>1. /\ TypeOK /\ DiskTypeOK /\ RefInv /\ LockInv /\ ChainInv /\ RequestInv /\ RingInv /\ DescInv /\ DataInv
  BY DEF CacheInv, TypeOK
<1>2. /\ UNCHANGED <<free, next, info, status, ops, inflight, medium, disk, data, idx, panic>>
      /\ UNCHANGED <<avail, avail_idx, used_idx, used, dev_used, dev_avail>>
      /\ UNCHANGED <<blockno, pc, buf, write>>
      /\ UNCHANGED <<valid, refcnt, holder, lru, want, mem>>
      /\ irq' \in BOOLEAN /\ intr' \in {"idle", "loop", "end"}
  BY <1>1 DEF virtio_disk_intr, intr_end, ringvars, cachevars, TypeOK, DiskTypeOK
<1>3. used_idx # dev_used => irq' \/ intr' = "loop"
  BY <1>1 DEF virtio_disk_intr, intr_end, RingInv
<1>4. TypeOK'
  <2>1. DiskTypeOK'
    BY <1>1, <1>2 DEF DiskTypeOK
  <2>. QED  BY <1>1, <1>2, <2>1 DEF TypeOK
<1>5. Requesters' = Requesters
  BY <1>2 DEF Requesters
<1>6. RefInv' /\ LockInv'
  BY <1>1, <1>2, RefFrame, LockFrame
<1>7. ChainInv' /\ RequestInv'
  BY <1>1, <1>2, <1>5, ChainFrame, RequestFrame
<1>8. RingInv'
  <2>1. \A p \in Procs : pc'[p] = "disk_sleep" => disk[buf[p]] /\ buf'[p] = buf[p]
    BY <1>1, <1>2 DEF RingInv
  <2>. QED  BY <1>1, <1>2, <1>3, <1>5, <2>1, RingFrame DEF ringvars
<1>9. DescInv'
  BY <1>1, <1>2 DEF DescInv
<1>10. DataInv'
  BY <1>1, <1>2, <1>5, DataFrame
<1>. QED  BY <1>4, <1>6, <1>7, <1>8, <1>9, <1>10 DEF CacheInv

(* The next completion in the used ring is that of a request.              *)
LEMMA CompletionFacts ==
    ASSUME CacheInv, used_idx # dev_used, NEW id, id = used[used_idx % NUM]
    PROVE  /\ id \in Unseen /\ status[id] /\ id \notin Waiting \cup inflight
           /\ \E p \in Requesters : idx[p] = id /\ info[id] = buf[p]
<1>1. TypeOK /\ DiskTypeOK /\ RingInv /\ RequestInv
  BY DEF CacheInv, TypeOK
<1>2. used_idx \in Indices /\ dev_used \in Indices
  BY <1>1 DEF DiskTypeOK, Indices
<1>3. id \in Unseen
  BY <1>2, WindowShrinks DEF Unseen, Entries
<1>4. PICK p \in Requesters : idx[p] = id
  BY <1>1, <1>3 DEF RingInv
<1>5. id \notin Waiting \cup inflight
  BY <1>1, <1>3 DEF RingInv
<1>6. status[idx[p]] /\ info[idx[p]] = buf[p]
  BY <1>1, <1>4, <1>5 DEF RingInv, RequestInv
<1>. QED  BY <1>3, <1>4, <1>5, <1>6

(* One turn of the handler's loop: a request is done, and its process      *)
(* wakes; or the ring is empty.                                            *)
LEMMA IntrLoopStep ==
    ASSUME CacheInv, intr_loop, UNCHANGED cachevars
    PROVE  CacheInv' /\ panic' = "none"
<1>1. /\ TypeOK /\ DiskTypeOK /\ RefInv /\ LockInv /\ ChainInv /\ RequestInv /\ RingInv /\ DescInv /\ DataInv
  BY DEF CacheInv, TypeOK
<1>2. /\ UNCHANGED <<free, next, info, status, ops, avail, avail_idx, dev_used, dev_avail,
                     inflight, irq, medium, data, idx, blockno, buf, write>>
      /\ UNCHANGED <<valid, refcnt, holder, lru, want, mem>>
      /\ panic = "none" /\ intr = "loop"
  BY DEF intr_loop, cachevars
<1>3. CASE used_idx = dev_used
  <2>1. intr' = "end" /\ UNCHANGED <<used, used_idx, disk, pc, panic>>
    BY <1>3 DEF intr_loop
  <2>2. TypeOK'
    <3>1. DiskTypeOK'
      BY <1>1, <1>2, <2>1 DEF DiskTypeOK
    <3>. QED  BY <1>1, <1>2, <2>1, <3>1 DEF TypeOK
  <2>3. Requesters' = Requesters
    BY <2>1 DEF Requesters
  <2>4. RefInv' /\ LockInv'
    BY <1>1, <1>2, <2>1, RefFrame, LockFrame
  <2>5. ChainInv' /\ RequestInv'
    BY <1>1, <1>2, <2>1, <2>3, ChainFrame, RequestFrame
  <2>6. RingInv'
    <3>1. \A p \in Procs : pc'[p] = "disk_sleep" => disk[buf[p]] /\ buf'[p] = buf[p]
      BY <1>1, <1>2, <2>1 DEF RingInv
    <3>. QED  BY <1>1, <1>2, <1>3, <2>1, <2>3, <3>1, RingFrame DEF ringvars
  <2>7. DescInv' /\ DataInv'
    BY <1>1, <1>2, <2>1, <2>3, DataFrame DEF DescInv
  <2>. QED  BY <1>2, <2>1, <2>2, <2>4, <2>5, <2>6, <2>7 DEF CacheInv
<1>4. CASE used_idx # dev_used
  <2>. DEFINE id == used[used_idx % NUM]
              b == info[id]
  <2>1. /\ id \in Unseen /\ status[id] /\ id \notin Waiting \cup inflight
        /\ \E p \in Requesters : idx[p] = id /\ b = buf[p]
    BY <1>4, CompletionFacts
  <2>2. PICK p \in Requesters : idx[p] = id /\ b = buf[p]
    BY <2>1
  <2>3. p \in Procs /\ b \in Bufs /\ b # NoBuf /\ pc[p] \in Holding /\ id \in Descs
    BY <2>2, RequesterFacts
  <2>4. /\ disk' = [disk EXCEPT ![b] = FALSE]
        /\ pc' = [q \in Procs |-> IF pc[q] = "disk_sleep" /\ buf[q] = b
                                  THEN "disk_woken" ELSE pc[q]]
        /\ used' = [used EXCEPT ![used_idx % NUM] = 0]
        /\ used_idx' = (used_idx + 1) % WRAP
        /\ UNCHANGED <<intr, panic>>
    BY <1>4, <2>1, <2>3 DEF intr_loop
  <2>5. /\ Unseen' = Unseen \ {id} /\ OneEach(used, used_idx, dev_used)'
    <3>1. used_idx \in Indices /\ dev_used \in Indices /\ used \in [Descs -> Descs]
      BY <1>1 DEF DiskTypeOK, Indices
    <3>2. Room(used_idx, dev_used) /\ OneEach(used, used_idx, dev_used)
      BY <1>1, RingsShort DEF RingInv
    <3>3. /\ Entries(used', used_idx', dev_used) = Unseen \ {id}
          /\ OneEach(used', used_idx', dev_used)
      BY <1>4, <2>4, <3>1, <3>2, RingTake DEF Unseen
    <3>. QED  BY <1>2, <3>3 DEF Unseen, Entries, OneEach, Window
  <2>. HIDE DEF id, b
  <2>6. /\ Waiting' = Waiting
        /\ OneEach(avail, dev_avail, avail_idx)' = OneEach(avail, dev_avail, avail_idx)
    BY <1>2 DEF Waiting, Entries, Window, OneEach
  <2>7. /\ \A q \in Procs : Same(pc[q], pc'[q])
        /\ pc' \in [Procs -> Places]
        /\ \A q \in Procs : pc'[q] = "disk_sleep" => pc[q] = "disk_sleep" /\ buf[q] # b
    BY <1>1, <2>4 DEF Same, TypeOK, Places
  <2>8. TypeOK'
    <3>1. used' \in [Descs -> Descs]
      BY <1>1, <2>4, CacheFacts DEF DiskTypeOK
    <3>2. used_idx' \in 0 .. WRAP - 1
      BY <1>1, <2>4, Successor DEF DiskTypeOK, Indices
    <3>3. disk' \in [Bufs -> BOOLEAN]
      BY <1>1, <2>4 DEF DiskTypeOK
    <3>9. DiskTypeOK'
      BY SMTT(20), <1>1, <1>2, <2>4, <2>7, <3>1, <3>2, <3>3 DEF DiskTypeOK
    <3>. QED  BY <1>1, <1>2, <2>4, <2>7, <3>1, <3>2, <3>3, <3>9 DEF TypeOK
  <2>9. Requesters' = Requesters
    BY <2>7 DEF Requesters, Same
  <2>10. \A q \in Procs : /\ pc'[q] = "user" <=> pc[q] = "user"
                          /\ pc'[q] \in Holding <=> pc[q] \in Holding
                          /\ pc'[q] \in Reading <=> pc[q] \in Reading
                          /\ pc'[q] = "disk_done" <=> pc[q] = "disk_done"
                          /\ pc'[q] = "locked" <=> pc[q] = "locked"
    BY <2>7 DEF Same, Holding, Reading
  <2>11. RefInv' /\ LockInv'
    BY <1>1, <1>2, <2>10, RefFrame, LockFrame
  <2>12. ChainInv' /\ RequestInv'
    BY <1>1, <1>2, <2>9, ChainFrame, RequestFrame
  <2>13. RingInv'
    <3>1. \A q \in Requesters : q # p => buf[q] # b /\ idx[q] # id
      <4>1. \A q \in Requesters : q # p => buf[q] # b
        BY <2>2, <2>3, RequesterFacts, OwnBuffer
      <4>2. \A q \in Requesters : q # p => idx[q] # id
        BY <1>1, <2>2 DEF ChainInv, ChainOf
      <4>. QED  BY <4>1, <4>2
    <3>2. \A q \in Requesters : q # p => disk'[buf[q]] = disk[buf[q]]
      BY <1>1, <2>4, <3>1, RequesterFacts DEF TypeOK, DiskTypeOK
    <3>3. ~disk'[b]
      BY <1>1, <2>3, <2>4 DEF DiskTypeOK
    <3>4. \A q \in Requesters : disk'[buf[q]] <=> idx[q] \in Waiting \cup inflight \cup Unseen'
      BY <1>1, <2>1, <2>2, <2>5, <3>1, <3>2, <3>3 DEF RingInv
    <3>5. \A q \in Procs : pc'[q] = "disk_sleep" => disk'[buf[q]]
      <4>. TAKE q \in Procs
      <4>. HAVE pc'[q] = "disk_sleep"
      <4>1. q \in Requesters /\ q # p /\ disk[buf[q]]
        BY <1>1, <2>2, <2>7 DEF Requesters, RingInv
      <4>. QED  BY <3>2, <4>1
    <3>. QED  BY <1>1, <1>2, <2>4, <2>5, <2>6, <2>9, <3>4, <3>5 DEF RingInv
  <2>14. DescInv'
    <3>1. \A q \in Procs : pc'[q] = "desc_sleep" => pc[q] = "desc_sleep"
      BY <2>4
    <3>2. \A q \in Procs : pc[q] \in {"disk_rw", "disk_sleep", "disk_woken"} =>
                           pc'[q] \in {"disk_rw", "disk_sleep", "disk_woken"}
      BY <2>4
    <3>. QED  BY <1>1, <3>1, <3>2 DEF DescInv
  <2>15. DataInv'
    BY <1>1, <1>2, <2>9, <2>10, DataFrame
  <2>. QED  BY <1>2, <2>4, <2>8, <2>11, <2>12, <2>13, <2>14, <2>15 DEF CacheInv
<1>. QED  BY <1>3, <1>4

(* The device takes the next request from the avail ring.                  *)
LEMMA FetchStep ==
    ASSUME CacheInv, device_fetch, UNCHANGED cachevars
    PROVE  CacheInv'
<1>. DEFINE i == avail[dev_avail % NUM]
<1>1. /\ TypeOK /\ DiskTypeOK /\ RefInv /\ LockInv /\ ChainInv /\ RequestInv /\ RingInv /\ DescInv /\ DataInv
  BY DEF CacheInv, TypeOK
<1>2. /\ UNCHANGED <<free, next, info, status, ops, avail_idx, used_idx, used, dev_used, irq,
                     medium, intr, disk, data, idx, panic, blockno, pc, buf, write>>
      /\ UNCHANGED <<valid, refcnt, holder, lru, want, mem>>
      /\ dev_avail # avail_idx
      /\ inflight' = inflight \cup {i}
      /\ avail' = [avail EXCEPT ![dev_avail % NUM] = 0]
      /\ dev_avail' = (dev_avail + 1) % WRAP
  BY DEF device_fetch, cachevars
<1>3. /\ dev_avail \in Indices /\ avail_idx \in Indices /\ avail \in [Descs -> Descs]
      /\ Room(dev_avail, avail_idx) /\ OneEach(avail, dev_avail, avail_idx)
  BY <1>1, RingsShort DEF DiskTypeOK, Indices, RingInv
<1>4. i \in Waiting
  BY <1>2, <1>3, WindowShrinks DEF Waiting, Entries
<1>5. /\ Entries(avail', dev_avail', avail_idx) = Waiting \ {i}
      /\ OneEach(avail', dev_avail', avail_idx)
  BY <1>2, <1>3, RingTake DEF Waiting
<1>6. Waiting' = Waiting \ {i} /\ OneEach(avail, dev_avail, avail_idx)'
  BY <1>2, <1>5 DEF Waiting, Entries, OneEach, Window
<1>7. /\ Unseen' = Unseen
      /\ OneEach(used, used_idx, dev_used)' = OneEach(used, used_idx, dev_used)
  BY <1>2 DEF Unseen, Entries, Window, OneEach
<1>8. TypeOK'
  <2>1. i \in Descs
    BY <1>1, <1>4, RequesterFacts DEF RingInv
  <2>2. avail' \in [Descs -> Descs] /\ inflight' \subseteq Descs
    BY <1>1, <1>2, <2>1, CacheFacts DEF DiskTypeOK
  <2>3. dev_avail' \in 0 .. WRAP - 1
    BY <1>2, <1>3, Successor DEF Indices
  <2>9. DiskTypeOK'
    BY SMTT(20), <1>1, <1>2, <2>2, <2>3 DEF DiskTypeOK
  <2>. QED  BY <1>1, <1>2, <2>2, <2>3, <2>9 DEF TypeOK
<1>9. Requesters' = Requesters
  BY <1>2 DEF Requesters
<1>. HIDE DEF i
<1>10. RefInv' /\ LockInv'
  BY <1>1, <1>2, RefFrame, LockFrame
<1>11. ChainInv' /\ RequestInv'
  BY <1>1, <1>2, <1>9, ChainFrame, RequestFrame
<1>12. RingInv'
  <2>1. Waiting' \cup inflight' = Waiting \cup inflight
    BY <1>2, <1>4, <1>6
  <2>2. Waiting' \cap inflight' = {}
    BY <1>1, <1>2, <1>6 DEF RingInv
  <2>. QED  BY <1>1, <1>2, <1>6, <1>7, <1>9, <2>1, <2>2 DEF RingInv
<1>13. DescInv' /\ DataInv'
  BY <1>1, <1>2, <1>9, DataFrame DEF DescInv
<1>. QED  BY <1>8, <1>10, <1>11, <1>12, <1>13 DEF CacheInv

(* A request in progress is that of one process, which has not been told.  *)
LEMMA InflightFacts ==
    ASSUME CacheInv, NEW i \in inflight
    PROVE  /\ i \in Descs /\ i \notin Waiting /\ i \notin Unseen
           /\ \E p \in Requesters :
                 /\ idx[p] = i /\ ~status[i] /\ disk[buf[p]]
                 /\ ops[i] = [write |-> write[p], b |-> buf[p], sector |-> want[p]]
                 /\ \A q \in Requesters : q # p => idx[q] # i /\ buf[q] # buf[p]
<1>1. RingInv /\ ChainInv /\ RequestInv
  BY DEF CacheInv
<1>2. PICK p \in Requesters : idx[p] = i
  BY <1>1 DEF RingInv
<1>3. i \notin Waiting /\ i \notin Unseen /\ i \in Descs
  BY <1>1, <1>2, RequesterFacts DEF RingInv
<1>4. ~status[i] /\ disk[buf[p]]
  BY <1>1, <1>2 DEF RingInv
<1>5. ops[i] = [write |-> write[p], b |-> buf[p], sector |-> want[p]]
  BY <1>1, <1>2 DEF RequestInv
<1>6. \A q \in Requesters : q # p => idx[q] # i
  BY <1>1, <1>2 DEF ChainInv, ChainOf
<1>7. \A q \in Requesters : q # p => buf[q] # buf[p]
  BY RequesterFacts, OwnBuffer
<1>. QED  BY <1>2, <1>3, <1>4, <1>5, <1>6, <1>7

(* Who has a buffer for a block in use has the only one for it.            *)
LEMMA OwnBlock ==
    ASSUME CacheInv, NEW p \in Procs, NEW q \in Procs,
           pc[p] \in Holding, pc[q] \in Holding, want[p] = want[q]
    PROVE  p = q
<1>1. \A r \in Procs : pc[r] \in Holding =>
          buf[r] \in Bufs /\ blockno[buf[r]] = want[r] /\ want[r] \in Blocks
  BY SMTT(20) DEF CacheInv, TypeOK, DiskTypeOK, RefInv, Holding, Reading
<1>2. buf[p] = buf[q]
  BY <1>1, CacheFacts DEF CacheInv, RefInv
<1>. QED  BY <1>2, OwnBuffer

(* A writer under way holds its buffer.                                    *)
LEMMA WritingFacts ==
    ASSUME NEW p \in Procs, Writing(p)
    PROVE  pc[p] \in Reading /\ pc[p] \in Holding /\ write[p]
  BY DEF Writing, Requesters, Reading, Holding

(* The device completes a request: the disk or the buffer now has the last *)
(* contents of the block.                                                  *)
LEMMA DoneStep ==
    ASSUME CacheInv, NEW i \in Descs, device_done(i), UNCHANGED cachevars
    PROVE  CacheInv'
<1>1. /\ TypeOK /\ DiskTypeOK /\ RefInv /\ LockInv /\ ChainInv /\ RequestInv /\ RingInv /\ DescInv /\ DataInv
  BY DEF CacheInv, TypeOK
<1>2. /\ UNCHANGED <<free, next, info, ops, avail, avail_idx, used_idx, dev_avail, intr, disk,
                     idx, panic, blockno, pc, buf, write>>
      /\ UNCHANGED <<valid, refcnt, holder, lru, want, mem>>
      /\ i \in inflight /\ inflight' = inflight \ {i}
      /\ status' = [status EXCEPT ![i] = TRUE]
      /\ used' = [used EXCEPT ![dev_used % NUM] = i]
      /\ dev_used' = (dev_used + 1) % WRAP
      /\ irq' = TRUE
  BY DEF device_done, cachevars
<1>3. /\ i \notin Waiting /\ i \notin Unseen
      /\ \E p \in Requesters :
            /\ idx[p] = i /\ ~status[i] /\ disk[buf[p]]
            /\ ops[i] = [write |-> write[p], b |-> buf[p], sector |-> want[p]]
            /\ \A q \in Requesters : q # p => idx[q] # i /\ buf[q] # buf[p]
  BY <1>2, InflightFacts
<1>4. PICK p \in Requesters :
            /\ idx[p] = i /\ ~status[i] /\ disk[buf[p]]
            /\ ops[i] = [write |-> write[p], b |-> buf[p], sector |-> want[p]]
            /\ \A q \in Requesters : q # p => idx[q] # i /\ buf[q] # buf[p]
  BY <1>3
<1>5. /\ p \in Procs /\ pc[p] \in Reading /\ pc[p] \in Holding /\ buf[p] \in Bufs
      /\ want[p] \in Blocks /\ blockno[buf[p]] = want[p]
  BY RequesterFacts
<1>6. /\ write[p] => /\ medium' = [medium EXCEPT ![want[p]] = data[buf[p]]]
                     /\ data' = data
      /\ ~write[p] => /\ data' = [data EXCEPT ![buf[p]] = medium[want[p]]]
                      /\ medium' = medium
  <2>1. ops[i].write = write[p] /\ ops[i].b = buf[p] /\ ops[i].sector = want[p]
    BY SMTT(20), <1>4
  <2>. QED  BY <2>1 DEF device_done
<1>7. Unseen' = Unseen \cup {i} /\ OneEach(used, used_idx, dev_used)'
  BY <1>1, <1>2, <1>3, UsedPut
<1>8. /\ Waiting' = Waiting
      /\ OneEach(avail, dev_avail, avail_idx)' = OneEach(avail, dev_avail, avail_idx)
  BY <1>2 DEF Waiting, Entries, Window, OneEach
<1>9. TypeOK'
  <2>1. used' \in [Descs -> Descs] /\ inflight' \subseteq Descs /\ status' \in [Descs -> BOOLEAN]
    BY <1>1, <1>2 DEF DiskTypeOK
  <2>2. dev_used' \in 0 .. WRAP - 1
    BY <1>1, <1>2, Successor DEF DiskTypeOK, Indices
  <2>3. medium' \in [Blocks -> Val] /\ data' \in [Bufs -> Val]
    <3>1. medium \in [Blocks -> Val] /\ data \in [Bufs -> Val]
      BY <1>1 DEF DiskTypeOK
    <3>2. medium[want[p]] \in Val /\ data[buf[p]] \in Val
      BY <1>5, <3>1
    <3>. QED  BY <1>6, <3>1, <3>2
  <2>9. DiskTypeOK'
    BY SMTT(20), <1>1, <1>2, <2>1, <2>2, <2>3 DEF DiskTypeOK
  <2>. QED  BY <1>1, <1>2, <2>1, <2>2, <2>3, <2>9 DEF TypeOK
<1>10. Requesters' = Requesters
  BY <1>2 DEF Requesters
<1>11. RefInv' /\ LockInv'
  BY <1>1, <1>2, RefFrame, LockFrame
<1>12. ChainInv' /\ RequestInv'
  BY <1>1, <1>2, <1>10, ChainFrame, RequestFrame
<1>13. status'[i] /\ \A q \in Requesters : q # p => status'[idx[q]] = status[idx[q]]
  BY <1>1, <1>2, <1>4, RequesterFacts DEF DiskTypeOK
<1>14. RingInv'
  <2>1. Waiting' \cup inflight' \cup Unseen' = Waiting \cup inflight \cup Unseen
    BY <1>2, <1>7, <1>8
  <2>2. Waiting' \cap inflight' = {} /\ Unseen' \cap (Waiting' \cup inflight') = {}
    BY SMTT(20), <1>1, <1>2, <1>3, <1>7, <1>8 DEF RingInv
  <2>3. \A q \in Requesters : status'[idx[q]] <=> idx[q] \notin Waiting' \cup inflight'
    BY <1>1, <1>2, <1>3, <1>4, <1>8, <1>13 DEF RingInv
  <2>. QED  BY <1>1, <1>2, <1>7, <1>8, <1>10, <2>1, <2>2, <2>3 DEF RingInv
<1>15. DescInv'
  BY <1>1, <1>2 DEF DescInv
<1>16. DataInv'
  <2>1. write[p] => valid[buf[p]] /\ data[buf[p]] = mem[want[p]]
    BY <1>1, <1>5 DEF DataInv
  <2>2. ~write[p] => ~valid[buf[p]] /\ medium[want[p]] = mem[want[p]]
    <3>. HAVE ~write[p]
    <3>1. ~valid[buf[p]]
      BY <1>1, <1>5 DEF DataInv
    <3>2. \A q \in Procs : Writing(q) => want[q] # want[p]
      BY <1>5, WritingFacts, OwnBlock
    <3>. QED  BY <1>1, <1>5, <3>1, <3>2 DEF DataInv
  <2>3. data'[buf[p]] = mem[want[p]] /\ \A b \in Bufs : b # buf[p] => data'[b] = data[b]
    BY SMTT(20), <1>1, <1>5, <1>6, <2>1, <2>2 DEF TypeOK, DiskTypeOK
  <2>4. /\ write[p] => medium'[want[p]] = mem[want[p]]
        /\ \A k \in Blocks : k # want[p] => medium'[k] = medium[k]
        /\ ~write[p] => medium' = medium
    BY <1>1, <1>5, <1>6, <2>1 DEF TypeOK, DiskTypeOK
  <2>5. \A q \in Procs : q # p /\ Writing(q) => Writing(q)'
    BY <1>2, <1>10, <1>13 DEF Writing
  <2>6. \A k \in Blocks : medium'[k] = mem'[k] \/ \E q \in Procs : Writing(q)' /\ want'[q] = k
    <3>. TAKE k \in Blocks
    <3>1. CASE medium[k] = mem[k]
      BY <1>2, <2>4, <3>1
    <3>2. CASE medium[k] # mem[k]
      <4>1. PICK q \in Procs : Writing(q) /\ want[q] = k
        BY <1>1, <3>2 DEF DataInv
      <4>2. q = p => write[p] /\ k = want[p]
        BY <4>1, WritingFacts
      <4>. QED  BY <1>2, <2>4, <2>5, <4>1, <4>2
    <3>. QED  BY <3>1, <3>2
  <2>7. \A b \in Bufs : valid[b] => blockno[b] \in Blocks /\ data'[b] = mem[blockno[b]]
    BY <1>1, <1>5, <2>1, <2>2, <2>3 DEF DataInv
  <2>8. \A q \in Procs : pc[q] = "disk_done" \/ (q \in Requesters /\ status'[idx[q]])
                         => data'[buf[q]] = mem[want[q]]
    <3>. TAKE q \in Procs
    <3>. HAVE pc[q] = "disk_done" \/ (q \in Requesters /\ status'[idx[q]])
    <3>1. CASE q = p
      BY <2>3, <3>1
    <3>2. CASE q # p
      <4>1. pc[q] \in Holding
        BY DEF Requesters, Holding, Reading
      <4>2. buf[q] # buf[p] /\ buf[q] \in Bufs
        BY <1>1, <1>5, <3>2, <4>1, OwnBuffer DEF TypeOK, RefInv, Holding, Reading
      <4>3. data[buf[q]] = mem[want[q]]
        BY <1>1, <1>13, <3>2 DEF DataInv
      <4>. QED  BY <2>3, <4>2, <4>3
    <3>. QED  BY <3>1, <3>2
  <2>. QED  BY <1>1, <1>2, <1>10, <2>6, <2>7, <2>8 DEF DataInv
<1>. QED  BY <1>9, <1>11, <1>12, <1>14, <1>15, <1>16 DEF CacheInv

(* A step of a process outside the driver leaves the requests alone.       *)
LEMMA DeviceFrame ==
    ASSUME ChainInv, RequestInv, RingInv,
           UNCHANGED <<free, next, info, status, ops, ringvars, inflight, irq, intr, disk, idx>>,
           Requesters' = Requesters,
           \A p \in Requesters : /\ buf'[p] = buf[p] /\ want'[p] = want[p]
                                 /\ write'[p] = write[p],
           \A p \in Procs : pc'[p] = "disk_sleep" => pc[p] = "disk_sleep"
    PROVE  ChainInv' /\ RequestInv' /\ RingInv'
<1>1. ChainInv'
  BY ChainFrame
<1>2. RequestInv'
  BY DEF RequestInv
<1>3. RingInv'
  <2>1. \A p \in Procs : pc'[p] = "disk_sleep" => disk[buf[p]] /\ buf'[p] = buf[p]
    BY DEF RingInv, Requesters
  <2>2. used_idx # dev_used => irq' \/ intr' = "loop"
    BY DEF RingInv
  <2>. QED  BY <2>1, <2>2, RingFrame
<1>. QED  BY <1>1, <1>2, <1>3

LEMMA DescFrame ==
    ASSUME DescInv,
           \A p \in Procs : pc'[p] = "desc_sleep" => pc[p] = "desc_sleep",
           \A p \in Procs : pc[p] \in {"disk_rw", "disk_sleep", "disk_woken"} =>
                            pc'[p] \in {"disk_rw", "disk_sleep", "disk_woken"}
    PROVE  DescInv'
  BY DEF DescInv

(* acquiresleep(): the lock is free, and bread() has a valid buffer or     *)
(* goes to the disk; or somebody holds it.                                 *)
LEMMA LockStep ==
    ASSUME CacheInv, NEW p \in Procs, acquiresleep(p)
    PROVE  CacheInv'
<1>. DEFINE b == buf[p]
<1>1. /\ TypeOK /\ DiskTypeOK /\ RefInv /\ LockInv /\ ChainInv /\ RequestInv /\ RingInv /\ DescInv /\ DataInv
  BY DEF CacheInv, TypeOK
<1>2. /\ UNCHANGED <<diskvars, blockno, buf, valid, refcnt, lru, want, mem>>
      /\ pc[p] = "acquiresleep"
  BY DEF acquiresleep, At
<1>3. b \in Bufs
  BY SMTT(20), <1>1, <1>2 DEF TypeOK, RefInv
<1>4. CASE holder[b] # None
  <2>1. pc' = [pc EXCEPT ![p] = "lock_sleep"] /\ UNCHANGED <<holder, write>>
    BY <1>4 DEF acquiresleep, Goto
  <2>2. /\ pc' \in [Procs -> Places] /\ pc'[p] = "lock_sleep"
        /\ \A q \in Procs : q # p => pc'[q] = pc[q]
    BY <1>1, <2>1 DEF TypeOK, Places
  <2>3. \A q \in Procs : Same(pc[q], pc'[q])
    BY <1>2, <2>2 DEF Same
  <2>4. \A q \in Procs : pc'[q] = "disk_sleep" => disk[buf[q]]
    BY <1>1, <2>2 DEF RingInv
  <2>5. DescInv'
    BY <1>1, <1>2, <2>2, DescFrame
  <2>. QED  BY <1>2, <2>1, <2>2, <2>3, <2>4, <2>5, MoveStep DEF cachevars
<1>5. CASE holder[b] = None
  <2>1. /\ holder' = [holder EXCEPT ![b] = p] /\ write' = [write EXCEPT ![p] = FALSE]
        /\ pc' = [pc EXCEPT ![p] = IF valid[b] THEN "locked" ELSE "disk_rw"]
    BY <1>5 DEF acquiresleep, Goto
  <2>2. /\ UNCHANGED <<free, next, info, status, ops, inflight, irq, medium, intr, disk, data,
                       idx, panic>>
        /\ UNCHANGED <<avail, avail_idx, used_idx, used, dev_used, dev_avail>>
        /\ UNCHANGED <<blockno, buf, valid, refcnt, lru, want, mem>>
    BY <1>2 DEF diskvars, ringvars
  <2>3. /\ pc' \in [Procs -> Places]
        /\ pc'[p] = IF valid[b] THEN "locked" ELSE "disk_rw"
        /\ \A q \in Procs : q # p => pc'[q] = pc[q]
    BY <1>1, <2>1 DEF TypeOK, Places
  <2>4. /\ write' \in [Procs -> BOOLEAN] /\ ~write'[p]
        /\ \A q \in Procs : q # p => write'[q] = write[q]
    BY <1>1, <2>1 DEF TypeOK
  <2>5. TypeOK'
    <3>1. holder' \in [Bufs -> Procs \cup {None}]
      BY <1>1, <2>1 DEF TypeOK
    <3>9. DiskTypeOK'
      BY <1>1, <2>2, <2>3, <2>4, <3>1 DEF DiskTypeOK
    <3>. QED  BY <1>1, <2>2, <2>3, <2>4, <3>1, <3>9 DEF TypeOK
  <2>6. Requesters' = Requesters
    BY <1>2, <2>3 DEF Requesters
  <2>7. RefInv'
    BY <1>1, <1>2, <2>2, <2>3, RefFrame
  <2>8. LockInv'
    <3>1. holder'[b] = p /\ \A c \in Bufs : c # b => holder'[c] = holder[c]
      BY <1>1, <1>3, <2>1 DEF TypeOK
    <3>2. \A q \in Procs : q # p => ~(pc[q] \in Holding /\ buf[q] = b)
      BY SMTT(20), <1>1, <1>3, <1>5, CacheFacts DEF LockInv
    <3>3. pc'[p] \in Holding /\ pc[p] \notin Holding
      BY <1>2, <2>3 DEF Holding, Reading
    <3>. QED  BY SMTT(20), <1>1, <2>2, <2>3, <3>1, <3>2, <3>3 DEF LockInv
  <2>9. ChainInv' /\ RequestInv' /\ RingInv'
    <3>1. p \notin Requesters
      BY <1>2 DEF Requesters
    <3>2. \A q \in Requesters : q \in Procs /\ q # p
      BY <3>1 DEF Requesters
    <3>3. \A q \in Procs : pc'[q] = "disk_sleep" => pc[q] = "disk_sleep"
      BY <2>3
    <3>. QED  BY <1>1, <2>2, <2>4, <2>6, <3>2, <3>3, DeviceFrame DEF ringvars
  <2>10. DescInv'
    BY <1>1, <1>2, <2>3, DescFrame
  <2>11. DataInv'
    <3>1. \A q \in Procs : Writing(q) => q # p /\ Writing(q)'
      <4>1. ~Writing(p)
        BY <1>2 DEF Writing, Requesters
      <4>. QED  BY <2>2, <2>3, <2>4, <2>6, <4>1 DEF Writing
    <3>2. \A k \in Blocks : medium'[k] = mem'[k] \/ \E q \in Procs : Writing(q)' /\ want'[q] = k
      BY <1>1, <2>2, <3>1 DEF DataInv
    <3>3. \A q \in Procs : pc'[q] \in Reading => (valid[buf[q]] <=> write'[q])
      BY SMTT(20), <1>1, <2>3, <2>4 DEF DataInv, Reading
    <3>4. \A q \in Procs : pc'[q] = "locked" => valid[buf[q]]
      BY <1>1, <2>3 DEF DataInv
    <3>5. \A q \in Procs : pc'[q] = "disk_done" => pc[q] = "disk_done"
      BY <2>3
    <3>. QED  BY <1>1, <2>2, <2>6, <3>2, <3>3, <3>4, <3>5 DEF DataInv
  <2>. QED  BY <2>5, <2>7, <2>8, <2>9, <2>10, <2>11 DEF CacheInv
<1>. QED  BY <1>4, <1>5

(* The end of bread() or bwrite(): the buffer is valid.                    *)
LEMMA DiskDoneStep ==
    ASSUME CacheInv, NEW p \in Procs, disk_done(p)
    PROVE  CacheInv'
<1>. DEFINE b == buf[p]
<1>1. /\ TypeOK /\ DiskTypeOK /\ RefInv /\ LockInv /\ ChainInv /\ RequestInv /\ RingInv /\ DescInv /\ DataInv
  BY DEF CacheInv, TypeOK
<1>2. /\ UNCHANGED <<free, next, info, status, ops, inflight, irq, medium, intr, disk, data,
                     idx, panic>>
      /\ UNCHANGED <<avail, avail_idx, used_idx, used, dev_used, dev_avail>>
      /\ UNCHANGED <<blockno, buf, refcnt, holder, lru, want, mem>>
      /\ pc[p] = "disk_done" /\ pc' = [pc EXCEPT ![p] = "locked"]
      /\ valid' = [valid EXCEPT ![b] = TRUE] /\ write' = [write EXCEPT ![p] = FALSE]
  BY DEF disk_done, At, Goto, diskvars, ringvars
<1>3. b \in Bufs /\ blockno[b] = want[p] /\ want[p] \in Blocks
  BY SMTT(20), <1>1, <1>2 DEF TypeOK, RefInv
<1>4. /\ pc' \in [Procs -> Places] /\ pc'[p] = "locked"
      /\ \A q \in Procs : q # p => pc'[q] = pc[q]
  BY <1>1, <1>2 DEF TypeOK, Places
<1>5. /\ write' \in [Procs -> BOOLEAN] /\ ~write'[p]
      /\ \A q \in Procs : q # p => write'[q] = write[q]
  BY <1>1, <1>2 DEF TypeOK
<1>6. /\ valid' \in [Bufs -> BOOLEAN] /\ valid'[b]
      /\ \A c \in Bufs : c # b => valid'[c] = valid[c]
  BY <1>1, <1>2, <1>3 DEF TypeOK
<1>7. TypeOK'
  <2>1. DiskTypeOK'
    BY <1>1, <1>2, <1>4, <1>5, <1>6 DEF DiskTypeOK
  <2>. QED  BY <1>1, <1>2, <1>4, <1>5, <1>6, <2>1 DEF TypeOK
<1>8. Requesters' = Requesters
  BY <1>2, <1>4 DEF Requesters
<1>9. RefInv' /\ LockInv'
  <2>1. \A q \in Procs : /\ pc'[q] = "user" <=> pc[q] = "user"
                         /\ pc'[q] \in Holding <=> pc[q] \in Holding
    BY <1>2, <1>4 DEF Holding, Reading
  <2>. QED  BY <1>1, <1>2, <2>1, RefFrame, LockFrame
<1>10. ChainInv' /\ RequestInv' /\ RingInv'
  <2>1. \A q \in Requesters : q \in Procs /\ q # p
    BY <1>2 DEF Requesters
  <2>2. \A q \in Procs : pc'[q] = "disk_sleep" => pc[q] = "disk_sleep"
    BY <1>4
  <2>. QED  BY <1>1, <1>2, <1>5, <1>8, <2>1, <2>2, DeviceFrame DEF ringvars
<1>11. DescInv'
  BY <1>1, <1>2, <1>4, DescFrame
<1>12. DataInv'
  <2>1. \A q \in Procs : q # p /\ pc[q] \in Holding => buf[q] # b /\ buf[q] \in Bufs
    BY SMTT(20), <1>1, <1>2, OwnBuffer DEF Holding, Reading, TypeOK, RefInv
  <2>2. data[b] = mem[blockno[b]]
    BY <1>1, <1>2, <1>3 DEF DataInv
  <2>3. \A c \in Bufs : valid'[c] => blockno[c] \in Blocks /\ data[c] = mem[blockno[c]]
    BY <1>1, <1>3, <1>6, <2>2 DEF DataInv
  <2>4. \A q \in Procs : Writing(q) => q # p /\ Writing(q)'
    <3>1. ~Writing(p)
      BY <1>2 DEF Writing, Requesters
    <3>. QED  BY <1>2, <1>4, <1>5, <1>8, <3>1 DEF Writing
  <2>5. \A k \in Blocks : medium'[k] = mem'[k] \/ \E q \in Procs : Writing(q)' /\ want'[q] = k
    BY <1>1, <1>2, <2>4 DEF DataInv
  <2>6. \A q \in Procs : pc'[q] \in Reading => (valid'[buf[q]] <=> write'[q])
    BY SMTT(20), <1>1, <1>4, <1>5, <1>6, <2>1 DEF DataInv, Reading, Holding
  <2>7. \A q \in Procs : pc'[q] = "locked" => valid'[buf[q]]
    BY <1>1, <1>4, <1>6, <2>1 DEF DataInv, Holding
  <2>8. \A q \in Procs : pc'[q] = "disk_done" => pc[q] = "disk_done"
    BY <1>4
  <2>. QED  BY <1>1, <1>2, <1>8, <2>3, <2>5, <2>6, <2>7, <2>8 DEF DataInv
<1>. QED  BY <1>7, <1>9, <1>10, <1>11, <1>12 DEF CacheInv

(* bwrite(): the caller holds the buffer, so nobody else sees it change,   *)
(* and the disk will have the new contents when the write is over.         *)
LEMMA WriteStep ==
    ASSUME CacheInv, NEW p \in Procs, NEW v \in Val, bwrite(p, v)
    PROVE  CacheInv' /\ panic' = "none"
<1>. DEFINE b == buf[p]
            k == want[p]
<1>1. /\ TypeOK /\ DiskTypeOK /\ RefInv /\ LockInv /\ ChainInv /\ RequestInv /\ RingInv /\ DescInv /\ DataInv
  BY DEF CacheInv, TypeOK
<1>2. /\ UNCHANGED <<free, next, info, status, ops, inflight, irq, medium, intr, disk, idx>>
      /\ UNCHANGED <<avail, avail_idx, used_idx, used, dev_used, dev_avail>>
      /\ UNCHANGED <<blockno, buf, valid, refcnt, holder, lru, want>>
      /\ pc[p] = "locked" /\ pc' = [pc EXCEPT ![p] = "disk_rw"]
      /\ data' = [data EXCEPT ![b] = v] /\ mem' = [mem EXCEPT ![k] = v]
      /\ write' = [write EXCEPT ![p] = TRUE]
      /\ holder[b] = p => panic' = "none"
  BY DEF bwrite, At, Goto, ringvars
<1>3. b \in Bufs /\ blockno[b] = k /\ k \in Blocks
  BY SMTT(20), <1>1, <1>2 DEF TypeOK, RefInv
<1>4. panic' = "none"
  BY <1>1, <1>2, <1>3 DEF LockInv, Holding
<1>5. /\ pc' \in [Procs -> Places] /\ pc'[p] = "disk_rw"
      /\ \A q \in Procs : q # p => pc'[q] = pc[q]
  BY <1>1, <1>2 DEF TypeOK, Places
<1>6. /\ write' \in [Procs -> BOOLEAN] /\ write'[p]
      /\ \A q \in Procs : q # p => write'[q] = write[q]
  BY <1>1, <1>2 DEF TypeOK
<1>7. /\ data' \in [Bufs -> Val] /\ data'[b] = v
      /\ \A c \in Bufs : c # b => data'[c] = data[c]
  BY <1>1, <1>2, <1>3 DEF DiskTypeOK
<1>8. /\ mem' \in [Blocks -> Val] /\ mem'[k] = v
      /\ \A l \in Blocks : l # k => mem'[l] = mem[l]
  BY <1>1, <1>2, <1>3 DEF TypeOK
<1>9. TypeOK'
  <2>1. DiskTypeOK'
    BY <1>1, <1>2, <1>5, <1>6, <1>7, <1>8 DEF DiskTypeOK
  <2>. QED  BY <1>1, <1>2, <1>5, <1>6, <1>7, <1>8, <2>1 DEF TypeOK
<1>10. Requesters' = Requesters
  BY <1>2, <1>5 DEF Requesters
<1>11. RefInv' /\ LockInv'
  <2>1. \A q \in Procs : /\ pc'[q] = "user" <=> pc[q] = "user"
                         /\ pc'[q] \in Holding <=> pc[q] \in Holding
    BY <1>2, <1>5 DEF Holding, Reading
  <2>. QED  BY <1>1, <1>2, <2>1, RefFrame, LockFrame
<1>12. ChainInv' /\ RequestInv' /\ RingInv'
  <2>1. \A q \in Requesters : q \in Procs /\ q # p
    BY <1>2 DEF Requesters
  <2>2. \A q \in Procs : pc'[q] = "disk_sleep" => pc[q] = "disk_sleep"
    BY <1>5
  <2>. QED  BY <1>1, <1>2, <1>6, <1>10, <2>1, <2>2, DeviceFrame DEF ringvars
<1>13. DescInv'
  BY <1>1, <1>2, <1>5, DescFrame
<1>14. DataInv'
  <2>1. \A q \in Procs : q # p /\ pc[q] \in Holding =>
            buf[q] # b /\ buf[q] \in Bufs /\ want[q] # k /\ want[q] \in Blocks
    <3>1. \A q \in Procs : q # p /\ pc[q] \in Holding => buf[q] # b /\ want[q] # k
      BY <1>2, OwnBuffer, OwnBlock DEF Holding
    <3>2. \A q \in Procs : pc[q] \in Holding => buf[q] \in Bufs /\ want[q] \in Blocks
      BY SMTT(20), <1>1 DEF Holding, Reading, TypeOK, RefInv
    <3>. QED  BY <3>1, <3>2
  <2>2. \A c \in Bufs : c # b /\ blockno[c] \in Blocks => blockno[c] # k
    BY <1>1, <1>3, CacheFacts DEF RefInv
  <2>3. \A c \in Bufs : valid[c] => blockno[c] \in Blocks /\ data'[c] = mem'[blockno[c]]
    BY <1>1, <1>3, <1>7, <1>8, <2>2 DEF DataInv
  <2>4. Writing(p)'
    BY <1>5, <1>6 DEF Writing
  <2>5. \A q \in Procs : q # p /\ Writing(q) => Writing(q)'
    BY <1>2, <1>5, <1>6, <1>10 DEF Writing
  <2>6. \A l \in Blocks : medium'[l] = mem'[l] \/ \E q \in Procs : Writing(q)' /\ want'[q] = l
    <3>. TAKE l \in Blocks
    <3>1. CASE l = k
      BY <1>2, <2>4, <3>1
    <3>2. CASE l # k
      <4>1. CASE medium[l] = mem[l]
        BY <1>2, <1>8, <3>2, <4>1
      <4>2. CASE medium[l] # mem[l]
        <5>1. PICK q \in Procs : Writing(q) /\ want[q] = l
          BY <1>1, <4>2 DEF DataInv
        <5>. QED  BY <1>2, <2>5, <3>2, <5>1
      <4>. QED  BY <4>1, <4>2
    <3>. QED  BY <3>1, <3>2
  <2>7. \A q \in Procs : pc'[q] \in Reading => (valid[buf[q]] <=> write'[q])
    <3>1. valid[b]
      BY <1>1, <1>2 DEF DataInv
    <3>. QED  BY SMTT(20), <1>1, <1>5, <1>6, <3>1 DEF DataInv
  <2>8. \A q \in Procs : pc'[q] = "locked" => valid[buf[q]]
    BY <1>1, <1>5 DEF DataInv
  <2>9. \A q \in Procs : pc'[q] = "disk_done" \/ (q \in Requesters /\ status[idx[q]])
                         => data'[buf[q]] = mem'[want[q]]
    <3>. TAKE q \in Procs
    <3>. HAVE pc'[q] = "disk_done" \/ (q \in Requesters /\ status[idx[q]])
    <3>1. q # p /\ pc[q] \in Holding
      BY <1>2, <1>5 DEF Requesters, Holding, Reading
    <3>2. data[buf[q]] = mem[want[q]]
      BY <1>1, <1>5, <3>1 DEF DataInv
    <3>. QED  BY <1>7, <1>8, <2>1, <3>1, <3>2
  <2>. QED  BY SMTT(20), <1>2, <1>10, <2>3, <2>6, <2>7, <2>8, <2>9 DEF DataInv
<1>. QED  BY <1>4, <1>9, <1>11, <1>12, <1>13, <1>14 DEF CacheInv

(* releasesleep(): the lock is free, and whoever waits for it tries again. *)
LEMMA ReleaseStep ==
    ASSUME CacheInv, NEW p \in Procs, releasesleep(p)
    PROVE  CacheInv' /\ panic' = "none"
<1>. DEFINE b == buf[p]
<1>1. /\ TypeOK /\ DiskTypeOK /\ RefInv /\ LockInv /\ ChainInv /\ RequestInv /\ RingInv /\ DescInv /\ DataInv
  BY DEF CacheInv, TypeOK
<1>2. /\ UNCHANGED <<free, next, info, status, ops, inflight, irq, medium, intr, disk, data, idx>>
      /\ UNCHANGED <<avail, avail_idx, used_idx, used, dev_used, dev_avail>>
      /\ UNCHANGED <<blockno, buf, write, valid, refcnt, lru, want, mem>>
      /\ pc[p] = "locked"
      /\ pc' = [q \in Procs |-> IF q = p THEN "brelse"
                                ELSE IF pc[q] = "lock_sleep" /\ buf[q] = b
                                THEN "acquiresleep" ELSE pc[q]]
      /\ holder' = [holder EXCEPT ![b] = None]
      /\ holder[b] = p => panic' = "none"
  BY DEF releasesleep, At, ringvars
<1>3. b \in Bufs
  BY SMTT(20), <1>1, <1>2 DEF TypeOK, RefInv
<1>4. panic' = "none" /\ holder[b] = p
  BY <1>1, <1>2, <1>3 DEF LockInv, Holding
<1>5. /\ pc' \in [Procs -> Places] /\ pc'[p] = "brelse"
      /\ \A q \in Procs : q # p => pc'[q] = pc[q] \/ (pc[q] = "lock_sleep" /\ pc'[q] = "acquiresleep")
  BY <1>1, <1>2 DEF TypeOK, Places
<1>6. TypeOK'
  <2>1. holder' \in [Bufs -> Procs \cup {None}]
    BY <1>1, <1>2 DEF TypeOK
  <2>9. DiskTypeOK'
    BY <1>1, <1>2, <1>5, <2>1 DEF DiskTypeOK
  <2>. QED  BY SMTT(20), <1>1, <1>2, <1>5, <2>1, <2>9 DEF TypeOK
<1>7. Requesters' = Requesters
  BY <1>2, <1>5 DEF Requesters
<1>8. RefInv'
  <2>1. \A q \in Procs : pc'[q] = "user" <=> pc[q] = "user"
    BY <1>2, <1>5
  <2>. QED  BY <1>1, <1>2, <2>1, RefFrame
<1>9. LockInv'
  <2>1. holder'[b] = None /\ \A c \in Bufs : c # b => holder'[c] = holder[c]
    BY <1>1, <1>2, <1>3 DEF TypeOK
  <2>2. \A q \in Procs : q # p => (pc'[q] \in Holding <=> pc[q] \in Holding)
    BY <1>5 DEF Holding, Reading
  <2>3. \A q \in Procs : q # p => ~(pc[q] \in Holding /\ buf[q] = b)
    BY <1>1, <1>3, <1>4 DEF LockInv
  <2>4. pc'[p] \notin Holding
    BY <1>5 DEF Holding, Reading
  <2>5. \A q \in Procs, c \in Bufs : holder'[c] = q <=> pc'[q] \in Holding /\ buf[q] = c
    <3>. TAKE q \in Procs, c \in Bufs
    <3>1. CASE c = b
      BY <2>1, <2>2, <2>3, <2>4, <3>1, CacheFacts
    <3>2. CASE c # b
      BY SMTT(20), <1>1, <2>1, <2>2, <2>4, <3>2 DEF LockInv
    <3>. QED  BY <3>1, <3>2
  <2>. QED  BY SMTT(20), <1>2, <2>5 DEF LockInv
<1>10. ChainInv' /\ RequestInv' /\ RingInv'
  <2>1. \A q \in Procs : pc'[q] = "disk_sleep" => pc[q] = "disk_sleep"
    BY <1>5
  <2>. QED  BY <1>1, <1>2, <1>7, <2>1, DeviceFrame DEF ringvars
<1>11. DescInv'
  BY <1>1, <1>2, <1>5, DescFrame
<1>12. DataInv'
  <2>1. \A q \in Procs : /\ pc'[q] \in Reading <=> pc[q] \in Reading
                         /\ pc'[q] = "disk_done" <=> pc[q] = "disk_done"
                         /\ pc'[q] = "locked" => pc[q] = "locked"
    BY <1>2, <1>5 DEF Reading
  <2>2. \A q \in Procs : Writing(q) => Writing(q)'
    <3>1. \A q \in Procs : pc[q] \in {"disk_rw", "desc_sleep"} => pc'[q] = pc[q]
      BY <1>2, <1>5
    <3>. QED  BY <1>2, <1>7, <3>1 DEF Writing
  <2>3. \A k \in Blocks : medium'[k] = mem'[k] \/ \E q \in Procs : Writing(q)' /\ want'[q] = k
    BY <1>1, <1>2, <2>2 DEF DataInv
  <2>. QED  BY <1>1, <1>2, <1>7, <2>1, <2>3 DEF DataInv
<1>. QED  BY <1>4, <1>6, <1>8, <1>9, <1>10, <1>11, <1>12 DEF CacheInv
=============================================================================
