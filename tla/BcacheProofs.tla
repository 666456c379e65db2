---------------------------- MODULE BcacheProofs ----------------------------
(***************************************************************************)
(* Proofs about Bcache, last part, for any number of processes, buffers,   *)
(* blocks and descriptors: bget, brelse and the start and end of a request *)
(* keep the invariant, so it holds, and the properties of Bcache follow.   *)
(***************************************************************************)
EXTENDS BcacheSteps

USE ZenonT(20), SMTT(20)
-----------------------------------------------------------------------------
(* A process outside the driver that only begins or ends its use of a      *)
(* buffer: what a step of bget() or brelse() leaves alone.                 *)
LEMMA UseFrame ==
    ASSUME CacheInv, NEW p \in Procs,
           UNCHANGED <<free, next, info, status, ops, ringvars, inflight, irq, medium, intr, disk,
                       data, idx, write, holder, mem>>,
           pc[p] \in {"user", "brelse"}, pc'[p] \in {"user", "acquiresleep"},
           \A q \in Procs : q # p => pc'[q] = pc[q] /\ buf'[q] = buf[q] /\ want'[q] = want[q]
    PROVE  /\ LockInv' /\ ChainInv' /\ RequestInv' /\ RingInv' /\ DescInv'
           /\ \A k \in Blocks : medium'[k] = mem'[k] \/ \E q \in Procs : Writing(q)' /\ want'[q] = k
           /\ Requesters' = Requesters
<1>1. /\ TypeOK /\ DiskTypeOK /\ LockInv /\ ChainInv /\ RequestInv /\ RingInv /\ DescInv /\ DataInv
  BY DEF CacheInv, TypeOK
<1>2. Requesters' = Requesters
  BY DEF Requesters
<1>3. LockInv'
  <2>1. pc[p] \notin Holding /\ pc'[p] \notin Holding
    BY DEF Holding, Reading
  <2>. QED  BY SMTT(20), <1>1, <2>1 DEF LockInv
<1>4. ChainInv' /\ RequestInv' /\ RingInv'
  <2>1. \A q \in Requesters : q \in Procs /\ q # p
    BY DEF Requesters
  <2>2. \A q \in Procs : pc'[q] = "disk_sleep" => pc[q] = "disk_sleep"
    OBVIOUS
  <2>. QED  BY <1>1, <1>2, <2>1, <2>2, DeviceFrame
<1>5. DescInv'
  <2>1. \A q \in Procs : /\ pc'[q] = "desc_sleep" => pc[q] = "desc_sleep"
                         /\ pc[q] \in {"disk_rw", "disk_sleep", "disk_woken"} => q # p
    OBVIOUS
  <2>. QED  BY <1>1, <2>1, DescFrame
<1>6. \A q \in Procs : Writing(q) => q # p /\ Writing(q)'
  <2>1. ~Writing(p)
    BY DEF Writing, Requesters
  <2>. QED  BY <1>2, <2>1 DEF Writing
<1>7. \A k \in Blocks : medium'[k] = mem'[k] \/ \E q \in Procs : Writing(q)' /\ want'[q] = k
  BY SMTT(20), <1>1, <1>6 DEF DataInv
<1>. QED  BY <1>2, <1>3, <1>4, <1>5, <1>7

(* brelse(): the reference goes, and with the last one the buffer moves to *)
(* the head of the list.                                                   *)
LEMMA BrelseStep ==
    ASSUME CacheInv, NEW p \in Procs, brelse(p)
    PROVE  CacheInv'
<1>. DEFINE b == buf[p]
<1>1. /\ TypeOK /\ DiskTypeOK /\ RefInv /\ DataInv
  BY DEF CacheInv, TypeOK
<1>2. /\ UNCHANGED <<free, next, info, status, ops, inflight, irq, medium, intr, disk, data,
                     idx, panic>>
      /\ UNCHANGED <<avail, avail_idx, used_idx, used, dev_used, dev_avail>>
      /\ UNCHANGED <<blockno, write, valid, holder, mem>>
      /\ pc[p] = "brelse" /\ pc' = [pc EXCEPT ![p] = "user"]
      /\ refcnt' = [refcnt EXCEPT ![b] = refcnt[b] - 1]
      /\ lru' = MoveFirst(b) \/ lru' = lru
      /\ buf' = [buf EXCEPT ![p] = NoBuf] /\ want' = [want EXCEPT ![p] = NoBlock]
  BY DEF brelse, At, Goto, diskvars, ringvars
<1>3. b \in Bufs
  BY SMTT(20), <1>1, <1>2 DEF TypeOK, RefInv
<1>4. /\ pc' \in [Procs -> Places] /\ pc'[p] = "user"
      /\ \A q \in Procs : q # p => pc'[q] = pc[q]
  BY <1>1, <1>2 DEF TypeOK, Places
<1>5. /\ buf' \in [Procs -> Bufs \cup {NoBuf}] /\ buf'[p] = NoBuf
      /\ \A q \in Procs : q # p => buf'[q] = buf[q]
  BY <1>1, <1>2 DEF TypeOK
<1>6. /\ want' \in [Procs -> Blocks \cup {NoBlock}] /\ want'[p] = NoBlock
      /\ \A q \in Procs : q # p => want'[q] = want[q]
  BY <1>1, <1>2 DEF TypeOK
<1>7. \A c \in Bufs : refcnt'[c] = Cardinality(Users(buf', c))
  <2>1. \A c \in Bufs : refcnt[c] = Cardinality(Users(buf, c))
    BY <1>1 DEF RefInv, Users
  <2>2. /\ Cardinality(Users(buf', b)) = Cardinality(Users(buf, b)) - 1
        /\ \A c \in Bufs : c # b => Users(buf', c) = Users(buf, c)
    BY SMTT(20), <1>3, <1>5, UserLeaves
  <2>3. refcnt'[b] = refcnt[b] - 1 /\ \A c \in Bufs : c # b => refcnt'[c] = refcnt[c]
    BY <1>1, <1>2, <1>3 DEF TypeOK
  <2>. QED  BY <1>3, <2>1, <2>2, <2>3
<1>8. TypeOK'
  <2>1. refcnt' \in [Bufs -> 0 .. Cardinality(Procs)]
    <3>1. refcnt' = [c \in Bufs |-> refcnt'[c]]
      BY <1>1, <1>2 DEF TypeOK
    <3>. QED  BY <1>7, <3>1, UserCount
  <2>2. lru' \in [Bufs -> Bufs] /\ \A c \in Bufs : \E k \in Bufs : lru'[k] = c
    <3>1. lru \in [Bufs -> Bufs] /\ \A c \in Bufs : \E k \in Bufs : lru[k] = c
      BY <1>1 DEF TypeOK
    <3>2. MoveFirst(b) \in [Bufs -> Bufs] /\ \A c \in Bufs : \E k \in Bufs : MoveFirst(b)[k] = c
      BY <1>3, <3>1, MoveFirstKeeps
    <3>. QED  BY <1>2, <3>1, <3>2
  <2>9. DiskTypeOK'
    BY <1>1, <1>2, <1>4, <1>5, <1>6, <2>1, <2>2 DEF DiskTypeOK
  <2>. QED  BY <1>1, <1>2, <1>4, <1>5, <1>6, <2>1, <2>2, <2>9 DEF TypeOK
<1>9. RefInv'
  BY SMTT(20), <1>1, <1>2, <1>4, <1>5, <1>6, <1>7 DEF RefInv, Users
<1>10. /\ LockInv' /\ ChainInv' /\ RequestInv' /\ RingInv' /\ DescInv'
       /\ \A k \in Blocks : medium'[k] = mem'[k] \/ \E q \in Procs : Writing(q)' /\ want'[q] = k
       /\ Requesters' = Requesters
  BY <1>2, <1>4, <1>5, <1>6, UseFrame DEF ringvars
<1>11. DataInv'
  <2>1. \A q \in Procs : pc'[q] \in Reading \/ pc'[q] = "locked" \/ q \in Requesters => q # p
    BY <1>2, <1>4 DEF Reading, Requesters
  <2>2. \A q \in Procs : /\ pc'[q] \in Reading => (valid'[buf'[q]] <=> write'[q])
                         /\ pc'[q] = "locked" => valid'[buf'[q]]
    BY <1>1, <1>2, <1>4, <1>5, <2>1 DEF DataInv
  <2>3. \A q \in Procs : pc'[q] = "disk_done" \/ (q \in Requesters /\ status'[idx'[q]])
                         => data'[buf'[q]] = mem'[want'[q]]
    BY SMTT(20), <1>1, <1>2, <1>4, <1>5, <1>6, <2>1 DEF DataInv, Reading
  <2>. QED  BY <1>1, <1>2, <1>10, <2>2, <2>3 DEF DataInv
<1>. QED  BY <1>8, <1>9, <1>10, <1>11 DEF CacheInv

\* p gets buffer c for block k: the buffer was for that block already, or
\* nobody referred to it and it is not valid now.
Gets(p, k, c) ==
    /\ pc[p] = "user" /\ buf[p] = NoBuf
    /\ pc' \in [Procs -> Places] /\ pc'[p] = "acquiresleep"
    /\ buf' \in [Procs -> Bufs \cup {NoBuf}] /\ buf'[p] = c
    /\ want' \in [Procs -> Blocks \cup {NoBlock}] /\ want'[p] = k
    /\ \A q \in Procs : q # p => pc'[q] = pc[q] /\ buf'[q] = buf[q] /\ want'[q] = want[q]
    /\ refcnt' = [b \in Bufs |-> refcnt'[b]] /\ refcnt'[c] = refcnt[c] + 1
    /\ blockno' \in [Bufs -> Blocks \cup {NoBlock}] /\ blockno'[c] = k
    /\ valid' \in [Bufs -> BOOLEAN] /\ (valid'[c] => valid[c] /\ blockno[c] = k)
    /\ \A b \in Bufs : b # c => /\ refcnt'[b] = refcnt[b] /\ blockno'[b] = blockno[b]
                                /\ valid'[b] = valid[b] /\ blockno[b] # k
    /\ \A q \in Procs : buf[q] = c => blockno'[c] = blockno[c] /\ valid'[c] = valid[c]

LEMMA GetFrame ==
    ASSUME CacheInv, NEW p \in Procs, NEW k \in Blocks, NEW c \in Bufs, Gets(p, k, c),
           UNCHANGED <<free, next, info, status, ops, ringvars, inflight, irq, medium, intr, disk,
                       data, idx, write, holder, lru, mem>>
    PROVE  CacheInv'
<1>. USE DEF Gets
<1>1. /\ TypeOK /\ DiskTypeOK /\ RefInv /\ DataInv
  BY DEF CacheInv, TypeOK
<1>2. \A b \in Bufs : refcnt'[b] = Cardinality(Users(buf', b))
  <2>1. \A b \in Bufs : refcnt[b] = Cardinality(Users(buf, b))
    BY <1>1 DEF RefInv, Users
  <2>2. /\ Cardinality(Users(buf', c)) = Cardinality(Users(buf, c)) + 1
        /\ \A b \in Bufs : b # c => Users(buf', b) = Users(buf, b)
    BY SMTT(20), UserJoins
  <2>. QED  BY <2>1, <2>2
<1>3. TypeOK'
  <2>1. refcnt' \in [Bufs -> 0 .. Cardinality(Procs)]
    <3>1. \A b \in Bufs : refcnt'[b] \in 0 .. Cardinality(Procs)
      BY SMTT(20), <1>2, UserCount
    <3>. QED  BY <3>1
  <2>2. UNCHANGED <<avail, avail_idx, used_idx, used, dev_used, dev_avail>>
    BY DEF ringvars
  <2>9. DiskTypeOK'
    BY <1>1, <2>1, <2>2 DEF DiskTypeOK
  <2>. QED  BY <1>1, <2>1, <2>2, <2>9 DEF TypeOK
<1>4. \A q \in Procs : q # p /\ buf[q] # NoBuf => /\ buf[q] \in Bufs
                                                  /\ blockno'[buf[q]] = blockno[buf[q]]
                                                  /\ valid'[buf[q]] = valid[buf[q]]
  BY SMTT(20), <1>1 DEF TypeOK
<1>5. RefInv'
  <2>1. \A q \in Procs : pc'[q] = "user" <=> buf'[q] = NoBuf
    BY SMTT(20), <1>1, CacheFacts DEF RefInv
  <2>2. \A q \in Procs : buf'[q] # NoBuf => blockno'[buf'[q]] = want'[q] /\ want'[q] \in Blocks
    BY SMTT(20), <1>1, <1>4 DEF RefInv
  <2>3. \A b, d \in Bufs : blockno'[b] # NoBlock /\ blockno'[b] = blockno'[d] => b = d
    BY SMTT(20), <1>1 DEF RefInv
  <2>. QED  BY <1>2, <2>1, <2>2, <2>3 DEF RefInv, Users
<1>6. /\ LockInv' /\ ChainInv' /\ RequestInv' /\ RingInv' /\ DescInv'
      /\ \A l \in Blocks : medium'[l] = mem'[l] \/ \E q \in Procs : Writing(q)' /\ want'[q] = l
      /\ Requesters' = Requesters
  BY UseFrame
<1>7. DataInv'
  <2>1. \A q \in Procs : pc'[q] \in Reading \/ pc'[q] = "locked" \/ q \in Requesters
                         => q # p /\ buf[q] # NoBuf
    BY <1>1 DEF Reading, Requesters, RefInv
  <2>2. \A b \in Bufs : valid'[b] => blockno'[b] \in Blocks /\ data'[b] = mem'[blockno'[b]]
    <3>. TAKE b \in Bufs
    <3>. HAVE valid'[b]
    <3>1. valid[b] /\ blockno'[b] = blockno[b]
      OBVIOUS
    <3>. QED  BY SMTT(20), <1>1, <3>1 DEF DataInv
  <2>3. \A q \in Procs : /\ pc'[q] \in Reading => (valid'[buf'[q]] <=> write'[q])
                         /\ pc'[q] = "locked" => valid'[buf'[q]]
    BY SMTT(20), <1>1, <1>4, <2>1 DEF DataInv
  <2>4. \A q \in Procs : pc'[q] = "disk_done" \/ (q \in Requesters /\ status'[idx'[q]])
                         => data'[buf'[q]] = mem'[want'[q]]
    BY SMTT(20), <1>1, <2>1 DEF DataInv, Reading
  <2>. QED  BY <1>6, <2>2, <2>3, <2>4 DEF DataInv
<1>. QED  BY <1>3, <1>5, <1>6, <1>7 DEF CacheInv

LEMMA GetStep ==
    ASSUME CacheInv, NEW p \in Procs, NEW k \in Blocks, NEW c \in Bufs,
           UNCHANGED <<free, next, info, status, ops, ringvars, inflight, irq, medium, intr, disk,
                       data, idx, write, holder, lru, mem>>,
           pc[p] = "user", pc' = [pc EXCEPT ![p] = "acquiresleep"],
           buf' = [buf EXCEPT ![p] = c], want' = [want EXCEPT ![p] = k],
           refcnt' = [refcnt EXCEPT ![c] = refcnt[c] + 1],
           \/ blockno[c] = k /\ UNCHANGED <<blockno, valid>>
           \/ /\ refcnt[c] = 0 /\ \A b \in Bufs : blockno[b] # k
              /\ blockno' = [blockno EXCEPT ![c] = k]
              /\ valid' = [valid EXCEPT ![c] = FALSE]
    PROVE  CacheInv'
<1>1. TypeOK /\ DiskTypeOK /\ RefInv
  BY DEF CacheInv, TypeOK
<1>2. /\ pc' \in [Procs -> Places] /\ pc'[p] = "acquiresleep"
      /\ \A q \in Procs : q # p => pc'[q] = pc[q]
  BY <1>1 DEF TypeOK, Places
<1>3. /\ buf' \in [Procs -> Bufs \cup {NoBuf}] /\ buf'[p] = c /\ buf[p] = NoBuf
      /\ \A q \in Procs : q # p => buf'[q] = buf[q]
  BY <1>1 DEF TypeOK, RefInv
<1>4. /\ want' \in [Procs -> Blocks \cup {NoBlock}] /\ want'[p] = k
      /\ \A q \in Procs : q # p => want'[q] = want[q]
  BY <1>1 DEF TypeOK
<1>5. /\ refcnt' = [b \in Bufs |-> refcnt'[b]] /\ refcnt'[c] = refcnt[c] + 1
      /\ \A b \in Bufs : b # c => refcnt'[b] = refcnt[b]
  <2>. DEFINE n == refcnt[c] + 1
  <2>1. refcnt = [b \in Bufs |-> refcnt[b]] /\ refcnt' = [refcnt EXCEPT ![c] = n]
    BY <1>1 DEF TypeOK
  <2>. HIDE DEF n
  <2>. QED  BY <2>1 DEF n
<1>6. refcnt[c] = 0 => \A q \in Procs : buf[q] # c
  <2>. HAVE refcnt[c] = 0
  <2>0. refcnt[c] = Cardinality(Users(buf, c))
    BY <1>1 DEF RefInv, Users
  <2>1. IsFiniteSet(Users(buf, c)) /\ Cardinality(Users(buf, c)) = 0
    BY <2>0, UserCount
  <2>2. Users(buf, c) = {}
    BY <2>1, FS_EmptySet
  <2>. QED  BY <2>2 DEF Users
<1>7. /\ blockno' \in [Bufs -> Blocks \cup {NoBlock}] /\ blockno'[c] = k
      /\ valid' \in [Bufs -> BOOLEAN] /\ (valid'[c] => valid[c] /\ blockno[c] = k)
      /\ \A b \in Bufs : b # c => /\ blockno'[b] = blockno[b] /\ valid'[b] = valid[b]
                                  /\ blockno[b] # k
      /\ \A q \in Procs : buf[q] = c => blockno'[c] = blockno[c] /\ valid'[c] = valid[c]
  <2>1. blockno \in [Bufs -> Blocks \cup {NoBlock}] /\ valid \in [Bufs -> BOOLEAN]
    BY <1>1 DEF TypeOK
  <2>2. \A b \in Bufs : b # c /\ blockno[c] = k => blockno[b] # k
    BY <1>1, CacheFacts DEF RefInv
  <2>. QED  BY <1>6, <2>1, <2>2
<1>8. \A q \in Procs : q # p => pc'[q] = pc[q] /\ buf'[q] = buf[q] /\ want'[q] = want[q]
  BY <1>2, <1>3, <1>4
<1>9. \A b \in Bufs : b # c => /\ refcnt'[b] = refcnt[b] /\ blockno'[b] = blockno[b]
                               /\ valid'[b] = valid[b] /\ blockno[b] # k
  BY <1>5, <1>7
<1>10. Gets(p, k, c)
  BY <1>2, <1>3, <1>4, <1>5, <1>7, <1>8, <1>9 DEF Gets
<1>. QED  BY <1>10, GetFrame

\* bget() has panicked: every buffer has a user.
AllBusy == panic' = "bget" /\ buf' = buf /\ \A c \in Bufs : refcnt[c] # 0

(* bget(): a buffer for the block, an idle one, or none.                   *)
LEMMA BgetStep ==
    ASSUME CacheInv, NEW p \in Procs, NEW k \in Blocks, bget(p, k)
    PROVE  /\ CacheInv'
           /\ panic' = "none" \/ AllBusy
<1>. DEFINE hits == {b \in Bufs : blockno[b] = k}
            idle == {j \in Bufs : refcnt[lru[j]] = 0}
            last == CHOOSE j \in idle : \A l \in idle : l <= j
<1>1. /\ TypeOK /\ DiskTypeOK /\ RefInv
  BY DEF CacheInv, TypeOK
<1>2. /\ UNCHANGED <<free, next, info, status, ops, ringvars, inflight, irq, medium, intr, disk,
                     data, idx, write, holder, lru, mem>>
      /\ pc[p] = "user" /\ panic = "none"
      /\ want' = [want EXCEPT ![p] = k]
  BY DEF bget, At
<1>3. CASE hits # {}
  <2>1. PICK c \in hits : buf' = [buf EXCEPT ![p] = c] /\ refcnt' = [refcnt EXCEPT ![c] = @ + 1]
    BY <1>3 DEF bget
  <2>2. pc' = [pc EXCEPT ![p] = "acquiresleep"] /\ UNCHANGED <<blockno, valid, panic>>
    BY <1>3 DEF bget, Goto
  <2>3. c \in Bufs /\ blockno[c] = k
    OBVIOUS
  <2>. QED  BY <1>2, <2>1, <2>2, <2>3, GetStep
<1>4. CASE hits = {} /\ idle # {}
  <2>. DEFINE c == lru[last]
  <2>1. /\ buf' = [buf EXCEPT ![p] = c] /\ refcnt' = [refcnt EXCEPT ![c] = 1]
        /\ blockno' = [blockno EXCEPT ![c] = k] /\ valid' = [valid EXCEPT ![c] = FALSE]
        /\ pc' = [pc EXCEPT ![p] = "acquiresleep"] /\ UNCHANGED panic
    BY <1>4 DEF bget, Goto
  <2>2. last \in idle
    <3>. HIDE DEF last
    <3>1. idle \subseteq Bufs
      OBVIOUS
    <3>. QED  BY <1>4, <3>1, LastIsMember DEF last
  <2>. HIDE DEF last
  <2>3. c \in Bufs /\ refcnt[c] = 0
    BY <1>1, <2>2 DEF TypeOK
  <2>4. refcnt' = [refcnt EXCEPT ![c] = refcnt[c] + 1]
    BY SMTT(20), <2>1, <2>3
  <2>5. \A b \in Bufs : blockno[b] # k
    BY <1>4
  <2>. QED  BY <1>2, <2>1, <2>3, <2>4, <2>5, GetStep
<1>5. CASE hits = {} /\ idle = {}
  <2>1. UNCHANGED <<buf, blockno, valid, refcnt, pc>> /\ panic' = "bget"
    BY <1>5 DEF bget
  <2>2. UNCHANGED <<avail, avail_idx, used_idx, used, dev_used, dev_avail>>
    BY <1>2 DEF ringvars
  <2>3. /\ want' \in [Procs -> Blocks \cup {NoBlock}]
        /\ \A q \in Procs : q # p => want'[q] = want[q]
    BY <1>1, <1>2 DEF TypeOK
  <2>4. TypeOK'
    <3>1. DiskTypeOK'
      BY <1>1, <1>2, <2>1, <2>2, <2>3 DEF DiskTypeOK
    <3>. QED  BY <1>1, <1>2, <2>1, <2>2, <2>3, <3>1 DEF TypeOK
  <2>5. RefInv'
    <3>1. \A q \in Procs : buf[q] # NoBuf => want'[q] = want[q]
      BY <1>1, <1>2, <2>3 DEF RefInv
    <3>. QED  BY <1>1, <2>1, <3>1 DEF RefInv
  <2>6. /\ LockInv' /\ ChainInv' /\ RequestInv' /\ RingInv' /\ DescInv'
        /\ \A l \in Blocks : medium'[l] = mem'[l] \/ \E q \in Procs : Writing(q)' /\ want'[q] = l
        /\ Requesters' = Requesters
    BY <1>2, <2>1, <2>3, UseFrame
  <2>7. DataInv'
    <3>1. DataInv
      BY DEF CacheInv
    <3>2. \A q \in Procs : pc[q] = "disk_done" \/ q \in Requesters => q # p
      BY <1>2 DEF Requesters
    <3>3. UNCHANGED <<pc, buf, valid, blockno, data, mem, medium, status, idx, write>>
      BY <1>2, <2>1
    <3>4. \A q \in Procs : pc[q] = "disk_done" \/ (q \in Requesters /\ status[idx[q]])
                           => data[buf[q]] = mem[want'[q]]
      BY <2>3, <3>1, <3>2 DEF DataInv
    <3>. QED  BY <2>6, <3>1, <3>3, <3>4 DEF DataInv
  <2>8. \A c \in Bufs : refcnt[c] # 0
    BY <1>1, <1>5 DEF TypeOK
  <2>. QED  BY <2>1, <2>4, <2>5, <2>6, <2>7, <2>8 DEF CacheInv, AllBusy
<1>. QED  BY <1>3, <1>4, <1>5

(* virtio_disk_rw() with three descriptors: a new chain, a new request and *)
(* a new entry of the avail ring.                                          *)
LEMMA RequestStep ==
    ASSUME CacheInv, NEW p \in Procs, virtio_disk_rw(p), UNCHANGED cachevars,
           ~(Cardinality(free) < 3)
    PROVE  CacheInv' /\ panic' = "none"
<1>. DEFINE i0 == Least(free)
            i1 == Least(free \ {i0})
            i2 == Least(free \ {i0, i1})
            b == buf[p]
            r == [write |-> write[p], b |-> b, sector |-> blockno[b]]
<1>1. /\ TypeOK /\ DiskTypeOK /\ RefInv /\ LockInv /\ ChainInv /\ RequestInv /\ RingInv /\ DescInv /\ DataInv
  BY DEF CacheInv, TypeOK
<1>2. /\ UNCHANGED <<used_idx, used, dev_used, dev_avail, inflight, irq, medium, intr, data, panic>>
      /\ UNCHANGED <<blockno, buf, write>> /\ UNCHANGED <<valid, refcnt, holder, lru, want, mem>>
      /\ panic = "none" /\ pc[p] = "disk_rw"
  BY DEF virtio_disk_rw, cachevars
<1>0. /\ free' = free \ {i0, i1, i2}
      /\ next' = [next EXCEPT ![i0] = i1, ![i1] = i2, ![i2] = NoDesc]
      /\ ops' = [ops EXCEPT ![i0] = r]
      /\ status' = [status EXCEPT ![i0] = FALSE] /\ disk' = [disk EXCEPT ![b] = TRUE]
      /\ info' = [info EXCEPT ![i0] = b]
      /\ avail' = [avail EXCEPT ![avail_idx % NUM] = i0]
      /\ avail_idx' = (avail_idx + 1) % WRAP
      /\ idx' = [idx EXCEPT ![p] = i0] /\ pc' = [pc EXCEPT ![p] = "disk_sleep"]
  BY DEF virtio_disk_rw
<1>3. {i0, i1, i2} \subseteq free /\ i0 # i1 /\ i0 # i2 /\ i1 # i2
  BY <1>1, ThreeFree DEF DiskTypeOK
<1>. HIDE DEF i0, i1, i2, r
<1>4. {i0, i1, i2} \subseteq Descs
  BY <1>1, <1>3 DEF DiskTypeOK
<1>5. b \in Bufs /\ want[p] \in Blocks /\ blockno[b] = want[p] /\ write[p] \in BOOLEAN
  BY SMTT(20), <1>1, <1>2 DEF TypeOK, RefInv
<1>6. /\ pc' \in [Procs -> Places] /\ pc'[p] = "disk_sleep"
      /\ \A q \in Procs : q # p => pc'[q] = pc[q]
  BY <1>1, <1>0 DEF TypeOK, Places
<1>7. /\ idx' \in [Procs -> Descs \cup {NoDesc}] /\ idx'[p] = i0
      /\ \A q \in Procs : q # p => idx'[q] = idx[q]
  BY <1>1, <1>0, <1>4 DEF DiskTypeOK
<1>8. /\ next' \in [Descs -> Descs \cup {NoDesc}]
      /\ next'[i0] = i1 /\ next'[i1] = i2
      /\ \A i \in Descs : i \notin {i0, i1, i2} => next'[i] = next[i]
  <2>1. next \in [Descs -> Descs \cup {NoDesc}]
    BY <1>1 DEF DiskTypeOK
  <2>. QED  BY <1>0, <1>3, <1>4, <2>1
<1>9. /\ info' \in [Descs -> Bufs \cup {NoBuf}] /\ info'[i0] = b
      /\ \A i \in Descs : i # i0 => info'[i] = info[i]
  BY <1>1, <1>0, <1>4, <1>5 DEF DiskTypeOK
<1>10. /\ status' \in [Descs -> BOOLEAN] /\ ~status'[i0]
       /\ \A i \in Descs : i # i0 => status'[i] = status[i]
  BY <1>1, <1>0, <1>4 DEF DiskTypeOK
<1>11. /\ disk' \in [Bufs -> BOOLEAN] /\ disk'[b]
       /\ \A c \in Bufs : c # b => disk'[c] = disk[c]
  BY <1>1, <1>0, <1>5 DEF DiskTypeOK
<1>12. /\ ops' \in [Descs -> [write : BOOLEAN, b : Bufs \cup {NoBuf}, sector : Blocks \cup {NoBlock}]]
       /\ ops'[i0] = r /\ \A i \in Descs : i # i0 => ops'[i] = ops[i]
  <2>1. r \in [write : BOOLEAN, b : Bufs \cup {NoBuf}, sector : Blocks \cup {NoBlock}]
    BY <1>5 DEF r
  <2>. QED  BY <1>1, <1>0, <1>4, <2>1 DEF DiskTypeOK
<1>13. Requesters' = Requesters \cup {p} /\ p \notin Requesters
  BY <1>2, <1>6 DEF Requesters
<1>14. \A q \in Requesters : /\ q \in Procs /\ q # p /\ idx'[q] = idx[q]
                             /\ Second(q)' = Second(q) /\ Third(q)' = Third(q)
                             /\ ChainOf(q) \subseteq Descs
                             /\ i0 \notin ChainOf(q) /\ i1 \notin ChainOf(q) /\ i2 \notin ChainOf(q)
  <2>. TAKE q \in Requesters
  <2>1. q \in Procs /\ q # p
    BY <1>13 DEF Requesters
  <2>2. /\ ChainOf(q) \subseteq Descs
        /\ i0 \notin ChainOf(q) /\ i1 \notin ChainOf(q) /\ i2 \notin ChainOf(q)
    BY <1>1, <1>3 DEF ChainInv
  <2>3. \A i \in ChainOf(q) : next'[i] = next[i]
    BY <1>8, <2>2
  <2>. QED  BY <1>7, <2>1, <2>2, <2>3 DEF ChainOf, Second, Third
<1>15. i0 \notin Waiting /\ i0 \notin inflight /\ i0 \notin Unseen
  BY <1>1, <1>14 DEF RingInv, ChainOf
<1>16. Waiting' = Waiting \cup {i0} /\ OneEach(avail, dev_avail, avail_idx)'
  BY <1>1, <1>0, <1>2, <1>4, <1>15, AvailPut
<1>17. /\ Unseen' = Unseen
       /\ OneEach(used, used_idx, dev_used)' = OneEach(used, used_idx, dev_used)
  BY <1>2 DEF Unseen, Entries, Window, OneEach
<1>18. TypeOK'
  <2>1. avail' \in [Descs -> Descs] /\ free' \subseteq Descs
    BY <1>0, <1>1, <1>4 DEF DiskTypeOK
  <2>2. avail_idx' \in 0 .. WRAP - 1
    BY <1>0, <1>1, Successor DEF DiskTypeOK, Indices
  <2>9. DiskTypeOK'
    BY SMTT(20), <1>1, <1>2, <1>6, <1>7, <1>8, <1>9, <1>10, <1>11, <1>12, <2>1, <2>2 DEF DiskTypeOK
  <2>. QED  BY <1>1, <1>2, <1>6, <1>7, <1>8, <1>9, <1>10, <1>11, <1>12, <2>1, <2>2, <2>9 DEF TypeOK
<1>19. RefInv' /\ LockInv'
  <2>1. \A q \in Procs : /\ pc'[q] = "user" <=> pc[q] = "user"
                         /\ pc'[q] \in Holding <=> pc[q] \in Holding
    BY <1>2, <1>6 DEF Holding, Reading
  <2>. QED  BY <1>1, <1>2, <2>1, RefFrame, LockFrame
<1>20. /\ idx'[p] = i0 /\ Second(p)' = i1 /\ Third(p)' = i2
  BY <1>7, <1>8 DEF Second, Third
<1>21. ChainInv'
  <2>1. ChainOf(p)' = {i0, i1, i2} /\ \A q \in Requesters : ChainOf(q)' = ChainOf(q)
    BY <1>14, <1>20 DEF ChainOf
  <2>2. \A q \in Requesters' :
           /\ ChainOf(q)' \subseteq Descs \ free'
           /\ idx'[q] # Second(q)' /\ idx'[q] # Third(q)' /\ Second(q)' # Third(q)'
    <3>1. \A q \in Requesters : /\ ChainOf(q) \subseteq Descs \ free'
                                /\ idx[q] # Second(q) /\ idx[q] # Third(q) /\ Second(q) # Third(q)
      BY <1>1, <1>0, <1>2 DEF ChainInv
    <3>2. {i0, i1, i2} \subseteq Descs \ free'
      BY <1>0, <1>2, <1>4
    <3>. QED  BY <1>3, <1>13, <1>14, <1>20, <2>1, <3>1, <3>2
  <2>3. \A q, s \in Requesters' : q # s => ChainOf(q)' \cap ChainOf(s)' = {}
    <3>1. \A q \in Requesters : ChainOf(q) \cap {i0, i1, i2} = {}
      BY <1>14
    <3>2. \A q, s \in Requesters : q # s => ChainOf(q) \cap ChainOf(s) = {}
      BY <1>1 DEF ChainInv
    <3>. QED  BY SMTT(20), <1>13, <2>1, <3>1, <3>2
  <2>4. \A i \in Descs \ free' : \E q \in Requesters' : i \in ChainOf(q)'
    <3>. TAKE i \in Descs \ free'
    <3>1. i \in {i0, i1, i2} \/ i \in Descs \ free
      BY <1>0, <1>2
    <3>. QED  BY SMTT(20), <1>1, <1>13, <2>1, <3>1 DEF ChainInv
  <2>. QED  BY <2>2, <2>3, <2>4 DEF ChainInv
<1>22. \A q \in Requesters : idx[q] \in Descs /\ idx[q] # i0 /\ buf[q] \in Bufs /\ buf[q] # b
  <2>1. \A q \in Requesters : idx[q] \in Descs /\ idx[q] # i0
    BY <1>14 DEF ChainOf
  <2>2. pc[p] \in Holding
    BY <1>2 DEF Holding, Reading
  <2>. QED  BY <1>14, <2>1, <2>2, RequesterFacts, OwnBuffer
<1>23. RequestInv'
  <2>1. \A q \in Requesters :
           /\ info'[idx[q]] = buf[q]
           /\ ops'[idx[q]] = [write |-> write[q], b |-> buf[q], sector |-> want[q]]
    BY <1>1, <1>9, <1>12, <1>22 DEF RequestInv
  <2>2. ops'[i0] = [write |-> write[p], b |-> b, sector |-> want[p]]
    BY <1>5, <1>12 DEF r
  <2>. QED  BY <1>2, <1>7, <1>9, <1>13, <1>14, <2>1, <2>2 DEF RequestInv
<1>24. RingInv'
  <2>1. Waiting' \cap inflight' = {} /\ Unseen' \cap (Waiting' \cup inflight') = {}
    BY <1>1, <1>2, <1>15, <1>16, <1>17 DEF RingInv
  <2>2. \A i \in Waiting' \cup inflight' \cup Unseen' : \E q \in Requesters' : idx'[q] = i
    <3>1. \A i \in Waiting \cup inflight \cup Unseen : \E q \in Requesters : idx'[q] = i
      BY <1>1, <1>14 DEF RingInv
    <3>. QED  BY <1>2, <1>7, <1>13, <1>16, <1>17, <3>1
  <2>3. \A q \in Requesters :
           /\ disk'[buf[q]] <=> idx[q] \in Waiting' \cup inflight' \cup Unseen'
           /\ status'[idx[q]] <=> idx[q] \notin Waiting' \cup inflight'
    BY <1>1, <1>2, <1>10, <1>11, <1>16, <1>17, <1>22 DEF RingInv
  <2>4. \A q \in Requesters' :
           /\ disk'[buf'[q]] <=> idx'[q] \in Waiting' \cup inflight' \cup Unseen'
           /\ status'[idx'[q]] <=> idx'[q] \notin Waiting' \cup inflight'
    BY SMTT(20), <1>2, <1>7, <1>10, <1>11, <1>13, <1>14, <1>16, <2>3
  <2>5. \A q \in Procs : pc'[q] = "disk_sleep" => disk'[buf'[q]]
    <3>. TAKE q \in Procs
    <3>. HAVE pc'[q] = "disk_sleep"
    <3>1. CASE q = p
      BY <1>2, <1>11, <3>1
    <3>2. CASE q # p
      <4>1. q \in Requesters /\ disk[buf[q]]
        BY <1>1, <1>6, <3>2 DEF Requesters, RingInv
      <4>. QED  BY <1>2, <1>11, <1>22, <4>1
    <3>. QED  BY <3>1, <3>2
  <2>6. used_idx' # dev_used' => irq' \/ intr' = "loop"
    BY <1>1, <1>2 DEF RingInv
  <2>. QED  BY <1>1, <1>16, <1>17, <2>1, <2>2, <2>4, <2>5, <2>6 DEF RingInv
<1>25. DescInv'
  BY <1>1, <1>2, <1>6, DescFrame
<1>26. DataInv'
  <2>1. \A q \in Requesters : status'[idx'[q]] = status[idx[q]]
    BY <1>10, <1>14, <1>22
  <2>2. \A q \in Procs : Writing(q) => Writing(q)'
    <3>1. Writing(p) => Writing(p)'
      BY <1>2, <1>7, <1>10, <1>13 DEF Writing
    <3>2. \A q \in Procs : q # p /\ Writing(q) => Writing(q)'
      BY <1>2, <1>6, <1>13, <2>1 DEF Writing
    <3>. QED  BY <3>1, <3>2
  <2>3. \A k \in Blocks : medium'[k] = mem'[k] \/ \E q \in Procs : Writing(q)' /\ want'[q] = k
    BY <1>1, <1>2, <2>2 DEF DataInv
  <2>4. \A q \in Procs : /\ pc'[q] \in Reading <=> pc[q] \in Reading
                         /\ pc'[q] = "disk_done" <=> pc[q] = "disk_done"
                         /\ pc'[q] = "locked" <=> pc[q] = "locked"
    BY <1>2, <1>6 DEF Reading
  <2>5. \A q \in Requesters' : status'[idx'[q]] => q \in Requesters /\ status[idx[q]]
    BY <1>7, <1>10, <1>13, <2>1
  <2>. QED  BY <1>1, <1>2, <2>3, <2>4, <2>5 DEF DataInv
<1>. QED  BY <1>2, <1>18, <1>19, <1>21, <1>23, <1>24, <1>25, <1>26 DEF CacheInv

(* A process finds its request done and frees its chain; the descriptors   *)
(* are not free already, and whoever waits for some tries again.           *)
LEMMA FreeStep ==
    ASSUME CacheInv, NEW p \in Procs, disk_woken(p), UNCHANGED cachevars, ~disk[buf[p]]
    PROVE  CacheInv' /\ panic' = "none"
<1>. DEFINE ds == free_chain(idx[p])
            none == [write |-> FALSE, b |-> NoBuf, sector |-> NoBlock]
<1>1. /\ TypeOK /\ DiskTypeOK /\ RefInv /\ LockInv /\ ChainInv /\ RequestInv /\ RingInv /\ DescInv /\ DataInv
  BY DEF CacheInv, TypeOK
<1>2. /\ UNCHANGED <<inflight, irq, medium, intr, disk, data>>
      /\ UNCHANGED <<avail, avail_idx, used_idx, used, dev_used, dev_avail>>
      /\ UNCHANGED <<blockno, buf, write>> /\ UNCHANGED <<valid, refcnt, holder, lru, want, mem>>
      /\ pc[p] = "disk_woken"
  BY DEF disk_woken, cachevars, ringvars
<1>0. /\ panic' = IF ds \cap free = {} THEN "none" ELSE "free_desc"
      /\ info' = [info EXCEPT ![idx[p]] = NoBuf]
      /\ ops' = [ops EXCEPT ![idx[p]] = none]
      /\ status' = [status EXCEPT ![idx[p]] = FALSE]
      /\ next' = [i \in Descs |-> IF i \in ds THEN NoDesc ELSE next[i]]
      /\ free' = free \cup ds
      /\ idx' = [idx EXCEPT ![p] = NoDesc]
      /\ pc' = [q \in Procs |-> IF q = p THEN "disk_done"
                                ELSE IF q \in Procs /\ pc[q] = "desc_sleep" THEN "disk_rw"
                                ELSE pc[q]]
  BY DEF disk_woken, Wake
<1>3. p \in Requesters
  BY <1>2 DEF Requesters
<1>4. ds = ChainOf(p) /\ ds \subseteq Descs /\ ds \cap free = {} /\ idx[p] \in ds
  <2>1. ChainOf(p) \subseteq Descs \ free
    BY <1>1, <1>3 DEF ChainInv
  <2>2. NoDesc \notin ChainOf(p)
    BY <2>1, CacheFacts
  <2>3. ds = ChainOf(p)
    BY <2>2 DEF free_chain, Chain, ChainOf, Second, Third
  <2>. QED  BY <2>1, <2>3 DEF ChainOf
<1>. HIDE DEF ds, none
<1>5. panic' = "none"
  BY <1>0, <1>4
<1>6. idx[p] \notin Waiting /\ idx[p] \notin inflight /\ idx[p] \notin Unseen /\ status[idx[p]]
  BY <1>1, <1>3 DEF RingInv
<1>7. /\ pc' \in [Procs -> Places] /\ pc'[p] = "disk_done"
      /\ \A q \in Procs : q # p => \/ pc'[q] = pc[q] /\ pc[q] # "desc_sleep"
                                   \/ pc[q] = "desc_sleep" /\ pc'[q] = "disk_rw"
  BY <1>1, <1>0, <1>2 DEF TypeOK, Places
<1>8. /\ idx' \in [Procs -> Descs \cup {NoDesc}]
      /\ \A q \in Procs : q # p => idx'[q] = idx[q]
  BY <1>1, <1>0 DEF DiskTypeOK
<1>9. /\ next' \in [Descs -> Descs \cup {NoDesc}]
      /\ \A i \in Descs : i \notin ds => next'[i] = next[i]
  BY <1>1, <1>0 DEF DiskTypeOK
<1>10. /\ info' \in [Descs -> Bufs \cup {NoBuf}]
       /\ \A i \in Descs : i # idx[p] => info'[i] = info[i]
  BY <1>1, <1>0 DEF DiskTypeOK
<1>11. /\ status' \in [Descs -> BOOLEAN]
       /\ \A i \in Descs : i # idx[p] => status'[i] = status[i]
  BY <1>1, <1>0 DEF DiskTypeOK
<1>12. /\ ops' \in [Descs -> [write : BOOLEAN, b : Bufs \cup {NoBuf}, sector : Blocks \cup {NoBlock}]]
       /\ \A i \in Descs : i # idx[p] => ops'[i] = ops[i]
  <2>1. none \in [write : BOOLEAN, b : Bufs \cup {NoBuf}, sector : Blocks \cup {NoBlock}]
    BY DEF none
  <2>. QED  BY <1>1, <1>0, <2>1 DEF DiskTypeOK
<1>13. TypeOK'
  <2>1. free' \subseteq Descs
    BY <1>0, <1>1, <1>4 DEF DiskTypeOK
  <2>9. DiskTypeOK'
    BY <1>1, <1>2, <1>7, <1>8, <1>9, <1>10, <1>11, <1>12, <2>1 DEF DiskTypeOK
  <2>. QED  BY <1>1, <1>2, <1>7, <1>8, <1>9, <1>10, <1>11, <1>12, <2>1, <2>9 DEF TypeOK
<1>14. Requesters' = Requesters \ {p}
  BY <1>2, <1>7 DEF Requesters
<1>15. \A q \in Requesters' : /\ q \in Procs /\ q # p /\ q \in Requesters /\ idx'[q] = idx[q]
                              /\ Second(q)' = Second(q) /\ Third(q)' = Third(q)
                              /\ ChainOf(q)' = ChainOf(q)
                              /\ ChainOf(q) \subseteq Descs /\ ChainOf(q) \cap ds = {}
  <2>. TAKE q \in Requesters'
  <2>1. q \in Requesters /\ q \in Procs /\ q # p
    BY <1>14 DEF Requesters
  <2>2. ChainOf(q) \subseteq Descs /\ ChainOf(q) \cap ds = {}
    BY <1>1, <1>3, <1>4, <2>1 DEF ChainInv
  <2>3. \A i \in ChainOf(q) : next'[i] = next[i]
    BY <1>9, <2>2
  <2>. QED  BY <1>8, <2>1, <2>2, <2>3 DEF ChainOf, Second, Third
<1>16. \A q \in Requesters' : idx[q] \in Descs /\ idx[q] # idx[p]
  BY <1>4, <1>15 DEF ChainOf
<1>17. RefInv' /\ LockInv'
  <2>1. \A q \in Procs : /\ pc'[q] = "user" <=> pc[q] = "user"
                         /\ pc'[q] \in Holding <=> pc[q] \in Holding
    BY <1>2, <1>7 DEF Holding, Reading
  <2>. QED  BY <1>1, <1>2, <2>1, RefFrame, LockFrame
<1>18. ChainInv'
  <2>1. \A q \in Requesters' :
           /\ ChainOf(q)' \subseteq Descs \ free'
           /\ idx'[q] # Second(q)' /\ idx'[q] # Third(q)' /\ Second(q)' # Third(q)'
    BY SMTT(20), <1>1, <1>0, <1>15 DEF ChainInv
  <2>2. \A q, s \in Requesters' : q # s => ChainOf(q)' \cap ChainOf(s)' = {}
    BY <1>1, <1>15 DEF ChainInv
  <2>3. \A i \in Descs \ free' : \E q \in Requesters' : i \in ChainOf(q)'
    <3>. TAKE i \in Descs \ free'
    <3>1. i \in Descs \ free /\ i \notin ds
      BY <1>0
    <3>2. PICK q \in Requesters : i \in ChainOf(q)
      BY <1>1, <3>1 DEF ChainInv
    <3>3. q \in Requesters'
      BY <1>4, <1>14, <3>1, <3>2
    <3>. QED  BY <1>15, <3>2, <3>3
  <2>. QED  BY <2>1, <2>2, <2>3 DEF ChainInv
<1>19. RequestInv'
  <2>1. \A q \in Requesters' : info'[idx[q]] = info[idx[q]] /\ ops'[idx[q]] = ops[idx[q]]
    BY <1>10, <1>12, <1>16
  <2>2. UNCHANGED <<buf, want, write>>
    BY <1>2
  <2>. QED  BY <1>1, <1>15, <2>1, <2>2 DEF RequestInv
<1>20. RingInv'
  <2>1. /\ Waiting' = Waiting /\ Unseen' = Unseen
        /\ OneEach(avail, dev_avail, avail_idx)' = OneEach(avail, dev_avail, avail_idx)
        /\ OneEach(used, used_idx, dev_used)' = OneEach(used, used_idx, dev_used)
    BY <1>2 DEF Waiting, Unseen, Entries, Window, OneEach
  <2>2. \A i \in Waiting \cup inflight \cup Unseen : \E q \in Requesters' : idx'[q] = i
    <3>. TAKE i \in Waiting \cup inflight \cup Unseen
    <3>1. PICK q \in Requesters : idx[q] = i
      BY <1>1 DEF RingInv
    <3>2. q \in Requesters'
      BY <1>6, <1>14, <3>1
    <3>. QED  BY <1>15, <3>1, <3>2
  <2>3. \A q \in Requesters' :
           /\ disk[buf[q]] <=> idx'[q] \in Waiting \cup inflight \cup Unseen
           /\ status'[idx'[q]] <=> idx'[q] \notin Waiting \cup inflight
    BY SMTT(20), <1>1, <1>11, <1>15, <1>16 DEF RingInv
  <2>4. \A q \in Procs : pc'[q] = "disk_sleep" => disk[buf[q]]
    BY <1>1, <1>7 DEF RingInv
  <2>. QED  BY <1>1, <1>2, <2>1, <2>2, <2>3, <2>4 DEF RingInv
<1>21. DescInv'
  BY <1>7 DEF DescInv
<1>22. DataInv'
  <2>1. \A q \in Procs : Writing(q) => Writing(q)'
    <3>1. ~Writing(p)
      BY <1>2, <1>6 DEF Writing
    <3>2. \A q \in Procs : q # p /\ q \in Requesters => q \in Requesters'
      BY <1>14
    <3>3. \A q \in Procs : q # p /\ pc[q] \in {"disk_rw", "desc_sleep"} =>
                           pc'[q] \in {"disk_rw", "desc_sleep"}
      BY <1>7
    <3>. QED  BY SMTT(20), <1>2, <1>11, <1>15, <1>16, <3>1, <3>2, <3>3 DEF Writing
  <2>2. \A k \in Blocks : medium'[k] = mem'[k] \/ \E q \in Procs : Writing(q)' /\ want'[q] = k
    BY <1>1, <1>2, <2>1 DEF DataInv
  <2>3. \A q \in Procs : /\ pc'[q] \in Reading <=> pc[q] \in Reading
                         /\ pc'[q] = "locked" <=> pc[q] = "locked"
                         /\ pc'[q] = "disk_done" => q = p \/ pc[q] = "disk_done"
    BY <1>2, <1>7 DEF Reading
  <2>4. data[buf[p]] = mem[want[p]]
    BY <1>1, <1>3, <1>6 DEF DataInv
  <2>5. \A q \in Requesters' : status'[idx'[q]] => q \in Requesters /\ status[idx[q]]
    BY SMTT(20), <1>11, <1>15, <1>16
  <2>6. \A q \in Procs : pc'[q] = "disk_done" \/ (q \in Requesters' /\ status'[idx'[q]])
                         => data[buf[q]] = mem[want[q]]
    BY <1>1, <2>3, <2>4, <2>5 DEF DataInv
  <2>. QED  BY <1>1, <1>2, <2>2, <2>3, <2>6 DEF DataInv
<1>. QED  BY <1>5, <1>13, <1>17, <1>18, <1>19, <1>20, <1>21, <1>22 DEF CacheInv

(* A buffer that is referred to has a user.                                *)
LEMMA BusyBuffer ==
    ASSUME CacheInv, NEW c \in Bufs, refcnt[c] # 0
    PROVE  \E p \in Procs : buf[p] = c
<1>1. refcnt[c] = Cardinality(Users(buf, c))
  BY DEF CacheInv, RefInv, Users
<1>2. Users(buf, c) # {}
  BY <1>1, FS_EmptySet
<1>. QED  BY <1>2 DEF Users

LEMMA InitStep ==
    ASSUME Init
    PROVE  CacheInv
<1>1. NBUF \in Nat \ {0} /\ 0 \in Indices
  BY DiskAssumption, SMTT(20) DEF DiskAssumption, Indices
<1>2. Waiting = {} /\ Unseen = {} /\ Window(0, 0) = {}
  BY <1>1, EmptyRing DEF Init, DiskInit, Waiting, Unseen, Entries
<1>3. Requesters = {}
  BY DEF Init, Requesters
<1>4. \A b \in Bufs : Cardinality({p \in Procs : buf[p] = b}) = 0
  <2>. TAKE b \in Bufs
  <2>1. {p \in Procs : buf[p] = b} = {}
    BY CacheFacts DEF Init
  <2>. QED  BY <2>1, FS_EmptySet
<1>5. TypeOK
  <2>1. lru \in [Bufs -> Bufs] /\ \A b \in Bufs : \E k \in Bufs : lru[k] = b
    <3>1. \A b \in Bufs : NBUF + 1 - b \in Bufs /\ NBUF + 1 - (NBUF + 1 - b) = b
      BY <1>1, SMTT(20) DEF Bufs
    <3>2. lru = [k \in Bufs |-> NBUF + 1 - k]
      BY DEF Init
    <3>. QED  BY <3>1, <3>2
  <2>2. refcnt \in [Bufs -> 0 .. Cardinality(Procs)]
    <3>1. 0 \in 0 .. Cardinality(Procs)
      BY CacheFacts, FS_CardinalityType, SMTT(20)
    <3>. QED  BY <3>1 DEF Init
  <2>3. ops \in [Descs -> [write : BOOLEAN, b : Bufs \cup {NoBuf}, sector : Blocks \cup {NoBlock}]]
    BY DEF Init, DiskInit
  <2>4. {avail_idx, used_idx, dev_used, dev_avail} \subseteq 0 .. WRAP - 1
    BY <1>1 DEF Init, DiskInit, Indices
  <2>. QED  BY <2>1, <2>2, <2>3, <2>4, CacheFacts DEF Init, DiskInit, TypeOK, DiskTypeOK, Places
<1>6. RefInv
  BY <1>4 DEF Init, RefInv
<1>7. LockInv
  BY CacheFacts DEF Init, LockInv, Holding, Reading
<1>8. ChainInv /\ RequestInv
  BY <1>3 DEF Init, DiskInit, ChainInv, RequestInv
<1>9. RingInv
  BY <1>2, <1>3 DEF Init, DiskInit, RingInv, OneEach
<1>10. DescInv
  BY DEF Init, DescInv
<1>11. DataInv
  BY <1>3 DEF Init, DataInv, Reading
<1>. QED  BY <1>5, <1>6, <1>7, <1>8, <1>9, <1>10, <1>11 DEF CacheInv

(* Nothing happens.                                                        *)
LEMMA StutterStep ==
    ASSUME CacheInv, UNCHANGED vars
    PROVE  CacheInv'
<1>1. UNCHANGED <<diskvars, blockno, buf, write, cachevars>> /\ pc' = pc
  BY DEF vars
<1>2. TypeOK /\ RingInv /\ DescInv
  BY DEF CacheInv
<1>3. /\ \A p \in Procs : Same(pc[p], pc'[p])
      /\ \A p \in Procs : pc'[p] = "disk_sleep" => disk[buf[p]]
      /\ pc' \in [Procs -> Places] /\ DescInv'
  BY <1>1, <1>2 DEF Same, TypeOK, DiskTypeOK, RingInv, DescInv
<1>. QED  BY <1>1, <1>3, MoveStep

(* One step of each action, and when it may panic.                         *)
LEMMA NextStep ==
    ASSUME CacheInv, Next
    PROVE  /\ CacheInv'
           /\ panic' = "none" \/ AllBusy
<1>1. ASSUME UNCHANGED cachevars, virtio_disk_intr \/ intr_end
      PROVE  CacheInv' /\ panic' = "none"
  BY <1>1, IntrStep DEF virtio_disk_intr, intr_end
<1>2. ASSUME UNCHANGED cachevars, intr_loop PROVE CacheInv' /\ panic' = "none"
  BY <1>2, IntrLoopStep
<1>3. ASSUME UNCHANGED cachevars, device_fetch PROVE CacheInv' /\ panic' = "none"
  BY <1>3, FetchStep DEF device_fetch
<1>4. ASSUME UNCHANGED cachevars, NEW i \in Descs, device_done(i)
      PROVE  CacheInv' /\ panic' = "none"
  BY <1>4, DoneStep DEF device_done
<1>5. ASSUME UNCHANGED cachevars, NEW p \in Procs, virtio_disk_rw(p)
      PROVE  CacheInv' /\ panic' = "none"
  <2>1. CASE Cardinality(free) < 3
    <3>1. panic = "none" /\ UNCHANGED panic
      BY <1>5, <2>1 DEF virtio_disk_rw, diskvars
    <3>. QED  BY <1>5, <2>1, <3>1, NoDescsStep
  <2>2. CASE ~(Cardinality(free) < 3)
    BY <1>5, <2>2, RequestStep
  <2>. QED  BY <2>1, <2>2
<1>6. ASSUME UNCHANGED cachevars, NEW p \in Procs, disk_woken(p)
      PROVE  CacheInv' /\ panic' = "none"
  <2>1. CASE disk[buf[p]]
    <3>1. panic = "none" /\ UNCHANGED panic
      BY <1>6, <2>1 DEF disk_woken, diskvars
    <3>. QED  BY <1>6, <2>1, <3>1, WaitAgainStep
  <2>2. CASE ~disk[buf[p]]
    BY <1>6, <2>2, FreeStep
  <2>. QED  BY <2>1, <2>2
<1>7. ASSUME NEW p \in Procs, (disk_kill(p) /\ UNCHANGED cachevars) \/ kill(p)
      PROVE  CacheInv' /\ panic' = "none"
  <2>1. panic = "none" /\ UNCHANGED panic
    BY <1>7 DEF disk_kill, kill, At, diskvars
  <2>. QED  BY <1>7, <2>1, KillStep
<1>8. ASSUME NEW p \in Procs, NEW k \in Blocks, bget(p, k)
      PROVE  /\ CacheInv'
             /\ panic' = "none" \/ AllBusy
  BY <1>8, BgetStep
<1>9. ASSUME NEW p \in Procs, NEW v \in Val, bwrite(p, v)
      PROVE  CacheInv' /\ panic' = "none"
  BY <1>9, WriteStep
<1>10. ASSUME NEW p \in Procs, acquiresleep(p) \/ disk_done(p) \/ brelse(p)
       PROVE  CacheInv' /\ panic' = "none"
  <2>1. panic = "none" /\ UNCHANGED panic
    BY <1>10 DEF acquiresleep, disk_done, brelse, At, diskvars
  <2>. QED  BY <1>10, <2>1, LockStep, DiskDoneStep, BrelseStep
<1>11. ASSUME NEW p \in Procs, releasesleep(p)
       PROVE  CacheInv' /\ panic' = "none"
  BY <1>11, ReleaseStep
<1>12. ASSUME DiskNext, UNCHANGED cachevars PROVE CacheInv' /\ panic' = "none"
  BY <1>1, <1>2, <1>3, <1>4, <1>5, <1>6, <1>7, <1>12 DEF DiskNext
<1>. QED  BY <1>7, <1>8, <1>9, <1>10, <1>11, <1>12 DEF Next
-----------------------------------------------------------------------------
(* The theorems.                                                           *)

(* bio.c, sleeplock.c and virtio_disk.c keep CacheInv, for every number of *)
(* processes, buffers, blocks and descriptors: references are counted,     *)
(* locks have one holder, chains of descriptors are disjoint, a request is *)
(* in one place, and valid buffers and the disk agree.                     *)
THEOREM CacheInvariant == Spec => []CacheInv
<1>1. Init => CacheInv
  BY InitStep
<1>2. CacheInv /\ [Next]_vars => CacheInv'
  BY NextStep, StutterStep
<1>. QED  BY <1>1, <1>2, PTL DEF Spec

(* bio.c:55-137: who has a block locked has it alone, in a valid buffer    *)
(* with the contents that were last stored in it.                          *)
THEOREM LockedBlockIsCurrent == Spec => []CacheCoherent
<1>1. CacheInv => CacheCoherent
  <2>. SUFFICES ASSUME CacheInv PROVE CacheCoherent
    OBVIOUS
  <2>1. TypeOK /\ RefInv /\ LockInv /\ DataInv
    BY DEF CacheInv
  <2>2. \A p \in Procs : pc[p] = "locked" =>
           /\ pc[p] \in Holding /\ buf[p] \in Bufs /\ blockno[buf[p]] = want[p]
           /\ valid[buf[p]]
    BY <2>1 DEF Holding, TypeOK, RefInv, DataInv
  <2>3. \A p \in Procs : pc[p] = "locked" => holder[buf[p]] = p
    BY <2>1, <2>2 DEF LockInv
  <2>5. \A p \in Procs : pc[p] = "locked" => data[buf[p]] = mem[want[p]]
    BY <2>1, <2>2 DEF DataInv
  <2>4. \A p, q \in Procs : pc[p] = "locked" /\ pc[q] = "locked" /\ p # q => want[p] # want[q]
    BY <2>2, OwnBlock
  <2>. QED  BY <2>2, <2>3, <2>4, <2>5 DEF CacheCoherent
<1>. QED  BY <1>1, CacheInvariant, PTL

(* virtio_disk.c:283-324: a process that sleeps for a request is woken by  *)
(* an interrupt that is pending, or by the handler that runs, or has its   *)
(* request with the device still; who waits for descriptors has somebody   *)
(* to wait for.                                                            *)
THEOREM NoCompletionIsLost == Spec => []SleeperHasInterrupt
<1>1. CacheInv => SleeperHasInterrupt
  <2>. SUFFICES ASSUME CacheInv PROVE SleeperHasInterrupt
    OBVIOUS
  <2>1. DiskTypeOK /\ RingInv /\ DescInv
    BY DEF CacheInv, TypeOK
  <2>2. \A p \in Procs : pc[p] = "disk_sleep" => idx[p] \in Pending \cup Unseen
    BY <2>1 DEF RingInv, Requesters, Pending, Waiting
  <2>3. Unseen # {} => used_idx # dev_used
    BY <2>1, EmptyRing DEF DiskTypeOK, Indices, Unseen, Entries
  <2>. QED  BY <2>1, <2>2, <2>3 DEF SleeperHasInterrupt, RingInv, DescInv
<1>. QED  BY <1>1, CacheInvariant, PTL

(* bio.c:88, virtio_disk.c:174, 316: the only panic is that of bget() when *)
(* each of the NBUF buffers has a user; references do not leak, no         *)
(* descriptor is freed twice, a completion belongs to a request, and       *)
(* bwrite() and brelse() are called with the lock held.                    *)
THEOREM CachePanicsOnlyWhenFull == Spec => []PanicMeansAllBusy
<1>1. Init => PanicMeansAllBusy
  BY DEF Init, DiskInit, PanicMeansAllBusy
<1>2. CacheInv /\ PanicMeansAllBusy /\ [Next]_vars => PanicMeansAllBusy'
  <2>. SUFFICES ASSUME CacheInv, PanicMeansAllBusy, [Next]_vars
                PROVE  PanicMeansAllBusy'
    OBVIOUS
  <2>1. CASE Next
    <3>1. CASE panic' = "none"
      BY <3>1 DEF PanicMeansAllBusy
    <3>2. CASE AllBusy
      <4>1. \A c \in Bufs : \E p \in Procs : buf[p] = c
        BY <3>2, BusyBuffer DEF AllBusy
      <4>. QED  BY <3>2, <4>1 DEF AllBusy, PanicMeansAllBusy
    <3>. QED  BY <2>1, <3>1, <3>2, NextStep
  <2>2. CASE UNCHANGED vars
    BY <2>2 DEF PanicMeansAllBusy, vars, diskvars
  <2>. QED  BY <2>1, <2>2
<1>. QED  BY <1>1, <1>2, CacheInvariant, PTL DEF Spec
=============================================================================
