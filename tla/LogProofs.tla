----------------------------- MODULE LogProofs ------------------------------
(***************************************************************************)
(* Proofs about Log, for any processes, blocks and contents and any log    *)
(* size: begin_op, log_write, end_op, every step of commit(), recovery,    *)
(* the cache and crashes keep LogInv, so it is an invariant; what follows  *)
(* from it; and that the logging layer of kernel/log.c implements          *)
(* AtomicStore, which makes groups of operations durable all at once.      *)
(***************************************************************************)
EXTENDS Log, FiniteSetTheorems, TLAPS

\* Backends and time limits for the proofs of this module.
USE ZenonT(20), SMTT(20)

(* The count of operations follows the processes inside one.               *)
LEMMA ActiveFinite == IsFiniteSet(Active)
  BY LogAssumption, FS_Subset DEF Active

LEMMA ActiveEmpty ==
    ASSUME LogInv, outstanding = 0
    PROVE  \A p \in Procs : pc[p] \notin {"in_op", "log_write"}
<1>1. Cardinality(Active) = 0
  BY DEF LogInv, ControlInv
<1>2. Active = {}
  BY <1>1, ActiveFinite, FS_EmptySet
<1>. QED  BY <1>2 DEF Active

(* A process in commit() is alone there and no operation is in progress.   *)
LEMMA Alone ==
    ASSUME LogInv, NEW p \in Procs, pc[p] \in CommitPcs
    PROVE  /\ boot = "up" /\ committing /\ outstanding = 0
           /\ \A q \in Procs : q # p =>
                pc[q] \notin CommitPcs \cup {"in_op", "log_write"}
           /\ \A q \in Procs : buf[q] = NoBlock
           /\ \A b \in Blocks : Unlocked(b)
<1>1. committing /\ outstanding = 0
  BY DEF LogInv, ControlInv
<1>2. boot = "up"
  BY DEF LogInv, TypeOK, ControlInv, CommitPcs
<1>3. \A q \in Procs : pc[q] \notin {"in_op", "log_write"}
  BY <1>1, ActiveEmpty
<1>4. \A q \in Procs : q # p => pc[q] \notin CommitPcs
  BY DEF LogInv, ControlInv
<1>5. \A q \in Procs : buf[q] = NoBlock
  BY <1>3 DEF LogInv, BufferInv
<1>. QED  BY <1>1, <1>2, <1>3, <1>4, <1>5, LogAssumption DEF Unlocked

(* A process inside an operation excludes commit() and recovery.           *)
LEMMA InOp ==
    ASSUME LogInv, NEW p \in Procs, pc[p] \in {"in_op", "log_write"}
    PROVE  /\ outstanding \in Nat /\ outstanding > 0
           /\ ~committing
           /\ boot = "up"
           /\ \A q \in Procs : pc[q] \notin CommitPcs
           /\ \A l \in CommitPcs : ~At(l)
<1>1. outstanding \in Nat
  BY DEF LogInv, TypeOK
<1>2. outstanding # 0
  BY ActiveEmpty
<1>3. ~committing
  BY <1>2 DEF LogInv, ControlInv
<1>4. boot = "up"
  BY DEF LogInv, ControlInv
<1>5. \A q \in Procs : pc[q] \notin CommitPcs
  BY <1>3 DEF LogInv, ControlInv
<1>. QED  BY SMTT(20), <1>1, <1>2, <1>3, <1>4, <1>5 DEF At

(* Only one phase of commit() runs at a time.                              *)
LEMMA Together ==
    ASSUME LogInv, NEW l \in CommitPcs, NEW m \in CommitPcs, At(l), At(m)
    PROVE  l = m /\ boot = "up"
  BY Alone DEF At, LogInv, ControlInv

(* The committer moves from one phase of commit() to the next.             *)
LEMMA Phase ==
    ASSUME LogInv, NEW p \in Procs, pc[p] \in CommitPcs, NEW l \in CommitPcs,
           pc' = [pc EXCEPT ![p] = l], buf' = buf, cache' \in [Blocks -> Val \cup {NoVal}],
           UNCHANGED <<outstanding, committing, boot, panic>>
    PROVE  /\ \A m \in CommitPcs : At(m) <=> m = pc[p]
           /\ \A m \in CommitPcs : At(m)' <=> m = l
           /\ \A b \in Blocks : Unlocked(b) /\ Unlocked(b)'
           /\ BufferInv'
           /\ (l = "committed" => lh'.n = 0)
              /\ (l \in {"write_log", "install_trans"} => tail' < lh'.n)
              /\ (l = "write_head" => lh'.n > 0)
              => ControlInv'
<1>. USE DEF CommitPcs
<1>1. pc \in [Procs -> {"user", "begin_op", "asleep", "in_op", "log_write",
                       "commit", "write_log", "write_head", "install_trans",
                       "erase", "committed"}]
  BY DEF LogInv, TypeOK
<1>2. \A m \in CommitPcs : At(m) <=> m = pc[p]
  BY Alone DEF At
<1>3. \A m \in CommitPcs : At(m)' <=> m = l
  BY <1>1, Alone DEF At
<1>4. \A b \in Blocks : Unlocked(b) /\ Unlocked(b)'
  BY Alone DEF Unlocked
<1>5. \A q \in Procs : pc'[q] # "log_write" /\ buf'[q] = NoBlock
  BY <1>1, Alone
<1>6. BufferInv'
  BY <1>5 DEF BufferInv
<1>7. Active' = Active
  BY <1>1 DEF Active
<1>8. /\ committing' /\ outstanding' = 0 /\ boot' = "up"
      /\ pc'[p] \in CommitPcs
      /\ \A q \in Procs : pc'[q] \in CommitPcs => q = p
  BY <1>1, Alone
<1>9. ASSUME l = "committed" => lh'.n = 0,
             l \in {"write_log", "install_trans"} => tail' < lh'.n,
             l = "write_head" => lh'.n > 0
      PROVE  ControlInv'
  <2>1. panic' \in {"none", "too big a transaction"}
    BY DEF LogInv, ControlInv
  <2>2. outstanding' = Cardinality(Active')
    BY <1>7 DEF LogInv, ControlInv
  <2>3. /\ At("committed")' => lh'.n = 0
        /\ At("write_log")' \/ At("install_trans")' => tail' < lh'.n
        /\ At("write_head")' => lh'.n > 0
    BY <1>3, <1>9
  <2>. QED  BY <1>8, <2>1, <2>2, <2>3 DEF ControlInv
<1>. QED  BY <1>2, <1>3, <1>4, <1>6, <1>9

(* wakeup(&log) moves sleepers back into begin_op and nobody else.          *)
LEMMA Woken ==
    ASSUME NEW p \in Procs, NEW l, WakeLog(p, l)
    PROVE  /\ pc'[p] = l
           /\ \A q \in Procs \ {p} :
                pc'[q] = pc[q] \/ (pc[q] = "asleep" /\ pc'[q] = "begin_op")
<1>1. pc' = [q \in Procs |-> IF q = p THEN l
                           ELSE IF pc[q] = "asleep" THEN "begin_op" ELSE pc[q]]
  BY DEF WakeLog
<1>2. pc'[p] = l
  BY <1>1
<1>3. ASSUME NEW q \in Procs \ {p}
      PROVE  pc'[q] = pc[q] \/ (pc[q] = "asleep" /\ pc'[q] = "begin_op")
  <2>1. q \in Procs /\ q # p
    OBVIOUS
  <2>2. CASE pc[q] = "asleep"
    BY <1>1, <2>1, <2>2
  <2>3. CASE pc[q] # "asleep"
    BY <1>1, <2>1, <2>3
  <2>. QED  BY <2>2, <2>3
<1>. QED  BY <1>2, <1>3

(* The entry of the header at the loop variable of write_log and install_trans. *)
LEMMA Entry ==
    ASSUME LogInv, tail < lh.n
    PROVE  /\ lh.n \in 0 .. LOGSIZE /\ tail \in Slots
           /\ lh.block[tail] \in Blocks
           /\ \A i \in Slots : i < lh.n /\ i # tail => lh.block[i] # lh.block[tail]
<1>1. lh.n \in 0 .. LOGSIZE /\ tail \in 0 .. LOGSIZE
  BY DEF LogInv, TypeOK
<1>2. tail \in Slots
  BY SMTT(20), <1>1, LogAssumption DEF Slots, LogAssumption
<1>. QED  BY <1>1, <1>2 DEF LogInv, HeadInv, HeaderOK

(* What write_head() and read_head() copy.                                 *)
LEMMA HeadCopy ==
    ASSUME NEW h \in [n : 0 .. LOGSIZE, block : [Slots -> Blocks \cup {NoBlock}]],
           NEW g \in [n : 0 .. LOGSIZE, block : [Slots -> Blocks \cup {NoBlock}]]
    PROVE  /\ HeadOf(h, g) \in [n : 0 .. LOGSIZE, block : [Slots -> Blocks \cup {NoBlock}]]
           /\ HeadOf(h, g).n = h.n
           /\ \A i \in Slots : i < h.n => HeadOf(h, g).block[i] = h.block[i]
           /\ HeaderOK(h) => HeaderOK(HeadOf(h, g))
<1>. DEFINE blk == [i \in Slots |-> IF i < h.n THEN h.block[i] ELSE g.block[i]]
<1>1. HeadOf(h, g) = [n |-> h.n, block |-> blk]
  BY DEF HeadOf
<1>2. h.n \in 0 .. LOGSIZE
  OBVIOUS
<1>3. blk \in [Slots -> Blocks \cup {NoBlock}]
  OBVIOUS
<1>4. \A i \in Slots : i < h.n => blk[i] = h.block[i]
  OBVIOUS
<1>. HIDE DEF blk
<1>5. HeadOf(h, g) \in [n : 0 .. LOGSIZE, block : [Slots -> Blocks \cup {NoBlock}]]
  BY SMTT(20), <1>1, <1>2, <1>3
<1>6. HeadOf(h, g).n = h.n /\ HeadOf(h, g).block = blk
  BY SMTT(20), <1>1
<1>7. HeaderOK(h) => HeaderOK(HeadOf(h, g))
  BY <1>4, <1>6 DEF HeaderOK
<1>. QED  BY <1>4, <1>5, <1>6, <1>7

-----------------------------------------------------------------------------
LEMMA InitInv == Init => LogInv
<1>. SUFFICES ASSUME Init PROVE LogInv
  OBVIOUS
<1>. USE LogAssumption DEF LogAssumption
<1>1. ZeroHead \in [n : 0 .. LOGSIZE, block : [Slots -> Blocks \cup {NoBlock}]]
  <2>1. 0 \in 0 .. LOGSIZE
    BY SMTT(20)
  <2>2. [i \in Slots |-> NoBlock] \in [Slots -> Blocks \cup {NoBlock}]
    OBVIOUS
  <2>. QED  BY <2>1, <2>2 DEF ZeroHead
<1>2. TypeOK
  <2>1. /\ lh \in [n : 0 .. LOGSIZE, block : [Slots -> Blocks \cup {NoBlock}]]
        /\ head \in [n : 0 .. LOGSIZE, block : [Slots -> Blocks \cup {NoBlock}]]
    BY <1>1 DEF Init
  <2>2. /\ cache \in [Blocks -> Val \cup {NoVal}]
        /\ buf \in [Procs -> Blocks \cup {NoBlock}]
        /\ wrote \in [Procs -> SUBSET Blocks]
        /\ failed \subseteq DataBlocks
    BY DEF Init
  <2>3. pc \in [Procs -> {"user"}]
    BY DEF Init
  <2>4. /\ logblk \in [Slots -> Val]
        /\ home \in [Blocks -> Val]
        /\ pin \in [Blocks -> Nat]
    BY DEF Init
  <2>5. /\ outstanding \in Nat
        /\ tail \in 0 .. LOGSIZE
        /\ boot \in {"read_head", "install_trans", "up"}
        /\ panic \in {"none", "too big a transaction",
                      "log_write outside of trans", "log.committing"}
    BY SMTT(20) DEF Init
  <2>6. committing \in BOOLEAN
    BY DEF Init
  <2>. QED  BY <2>1, <2>2, <2>3, <2>4, <2>5, <2>6 DEF TypeOK
<1>3. Active = {}
  BY DEF Init, Active
<1>4. ZeroHead.n = 0
  BY DEF ZeroHead
<1>5. ControlInv
  BY <1>3, <1>4, FS_EmptySet DEF Init, ControlInv, CommitPcs, At
<1>6. BufferInv
  BY DEF Init, BufferInv
<1>7. CacheInv
  BY SMTT(20), <1>4 DEF Init, CacheInv, Slots
<1>8. HeadInv
  BY SMTT(20), <1>4 DEF Init, HeadInv, HeaderOK, At, Slots
<1>9. LogDataInv
  BY <1>4 DEF Init, LogDataInv, At, Slots
<1>10. FailedInv
  BY DEF Init, FailedInv
<1>. QED  BY <1>2, <1>5, <1>6, <1>7, <1>8, <1>9, <1>10 DEF LogInv

(* A step that leaves the disk, the header, the buffers and the commit     *)
(* phase alone keeps what LogInv says of the data.                         *)
LEMMA Frame ==
    ASSUME LogInv,
           UNCHANGED <<lh, head, logblk, home, cache, pin, failed, buf, tail, boot>>,
           \A l \in {"write_log", "write_head", "install_trans", "erase"} :
              At(l)' <=> At(l)
    PROVE  CacheInv' /\ FailedInv' /\ HeadInv' /\ LogDataInv'
<1>1. PinStart' = PinStart
  BY DEF PinStart
<1>2. CacheInv'
  BY <1>1 DEF LogInv, CacheInv, Unlocked
<1>3. HeadInv'
  BY DEF LogInv, HeadInv, HeaderOK
<1>4. LogDataInv'
  BY DEF LogInv, LogDataInv
<1>5. FailedInv'
  BY DEF LogInv, FailedInv, InHeader, Unlocked
<1>. QED  BY <1>2, <1>3, <1>4, <1>5

LEMMA BeginInv ==
    ASSUME LogInv, NEW p \in Procs, begin_op(p)
    PROVE  LogInv'
<1>. USE LogAssumption DEF LogAssumption
<1>1. TypeOK'
  BY SMTT(20) DEF LogInv, TypeOK, begin_op, diskvars, cachevars
<1>2. \A l \in CommitPcs : At(l)' <=> At(l)
  BY SMTT(20) DEF begin_op, At, LogInv, TypeOK, CommitPcs
<1>3. CacheInv' /\ FailedInv' /\ HeadInv' /\ LogDataInv'
  BY <1>2, Frame DEF begin_op, diskvars, cachevars, CommitPcs
<1>4. BufferInv'
  BY DEF begin_op, LogInv, TypeOK, BufferInv, cachevars
<1>5. p \notin Active
  BY DEF Active, begin_op
<1>6. outstanding' = Cardinality(Active')
  <2>1. CASE pc' = [pc EXCEPT ![p] = "asleep"] /\ outstanding' = outstanding
    <3>1. Active' = Active
      BY <2>1 DEF begin_op, Active, LogInv, TypeOK
    <3>. QED  BY <2>1, <3>1 DEF LogInv, ControlInv
  <2>2. CASE pc' = [pc EXCEPT ![p] = "in_op"] /\ outstanding' = outstanding + 1
    <3>1. Active' = Active \cup {p}
      BY SMTT(20), <2>2 DEF begin_op, Active, LogInv, TypeOK
    <3>. QED  BY <1>5, <2>2, <3>1, ActiveFinite, FS_AddElement
              DEF LogInv, ControlInv
  <2>. QED  BY <2>1, <2>2 DEF begin_op
<1>7. ControlInv'
  BY SMTT(20), <1>2, <1>6 DEF begin_op, MustWait, LogInv, TypeOK, ControlInv, CommitPcs, At
<1>. QED  BY <1>1, <1>3, <1>4, <1>7 DEF LogInv

LEMMA ModifyInv ==
    ASSUME LogInv, NEW p \in Procs, NEW b \in Blocks, NEW v \in Val,
           modify(p, b, v)
    PROVE  LogInv'
<1>. USE LogAssumption DEF LogAssumption
<1>1. TypeOK'
  BY DEF LogInv, TypeOK, modify, logvars, diskvars
<1>2. \A l \in CommitPcs : At(l)' <=> At(l)
  BY DEF modify, At, LogInv, TypeOK, CommitPcs
<1>3. /\ outstanding > 0 /\ ~committing /\ boot = "up"
      /\ \A l \in CommitPcs : ~At(l)
  BY InOp DEF modify
<1>4. \A l \in CommitPcs : ~At(l)
  BY <1>3
<1>5. ControlInv'
  <2>1. Active' = Active
    BY DEF modify, Active, LogInv, TypeOK
  <2>. QED  BY <1>2, <1>4, <2>1 DEF modify, LogInv, TypeOK, ControlInv, CommitPcs, At,
                 logvars
<1>6. BufferInv'
  BY DEF modify, LogInv, TypeOK, BufferInv, Unlocked
<1>7. PinStart' = PinStart
  BY <1>2 DEF PinStart, CommitPcs, modify, logvars
<1>8. CacheInv'
  BY SMTT(20), <1>7 DEF modify, LogInv, TypeOK, CacheInv, Unlocked, logvars, diskvars, BufferInv
<1>9. HeadInv'
  BY <1>2, <1>3 DEF modify, LogInv, HeadInv, HeaderOK, CommitPcs, logvars, diskvars
<1>10. LogDataInv'
  BY <1>2, <1>3, <1>4 DEF LogDataInv, CommitPcs, modify
<1>11. FailedInv'
  <2>1. /\ failed' = failed \ {b} /\ lh' = lh /\ boot' = boot
        /\ buf' = [buf EXCEPT ![p] = b] /\ cache' = [cache EXCEPT ![b] = v]
    BY DEF modify, logvars
  <2>2. \A c \in failed' : c \in Blocks /\ c # b /\ cache'[c] = cache[c] /\ c \in failed
    BY <2>1 DEF LogInv, TypeOK
  <2>3. \A c \in failed' : Unlocked(c)'
    BY <2>1, <2>2 DEF LogInv, TypeOK, FailedInv, Unlocked
  <2>4. \A c \in failed' : ~InHeader(c)'
    BY <2>1, <2>2 DEF LogInv, FailedInv, InHeader
  <2>. QED  BY <1>3, <2>1, <2>2, <2>3, <2>4 DEF LogInv, FailedInv
<1>. QED  BY <1>1, <1>5, <1>6, <1>8, <1>9, <1>10, <1>11 DEF LogInv

LEMMA LogWriteInv ==
    ASSUME LogInv, NEW p \in Procs, log_write(p)
    PROVE  LogInv'
<1>. USE LogAssumption DEF LogAssumption
<1>1. buf[p] \in Blocks /\ cache[buf[p]] # NoVal
  BY DEF log_write, LogInv, TypeOK, BufferInv
<1>2. /\ outstanding \in Nat /\ outstanding > 0 /\ ~committing /\ boot = "up"
      /\ \A q \in Procs : pc[q] \notin CommitPcs
  BY InOp DEF log_write
<1>3. \A l \in CommitPcs : ~At(l)
  BY <1>2 DEF At
<1>4. lh.n \in 0 .. LOGSIZE /\ lh.block \in [Slots -> Blocks \cup {NoBlock}]
  BY DEF LogInv, TypeOK
<1>5. CASE LogWritePanic # "none"
  <2>1. UNCHANGED <<lh, pin, failed, pc, buf, outstanding, committing, head, logblk,
                    home, cache, wrote, tail, boot>>
    BY <1>5 DEF log_write, diskvars
  <2>2. panic' = "too big a transaction"
    <3>1. LogWritePanic = "too big a transaction"
      BY SMTT(20), <1>2, <1>5 DEF LogWritePanic
    <3>. QED  BY <3>1 DEF log_write
  <2>3. TypeOK'
    BY <2>1, <2>2 DEF LogInv, TypeOK
  <2>4. CacheInv' /\ FailedInv' /\ HeadInv' /\ LogDataInv'
    BY <2>1, Frame DEF At
  <2>5. ControlInv' /\ BufferInv'
    BY <2>1, <2>2 DEF LogInv, ControlInv, BufferInv, At, Active
  <2>. QED  BY <2>3, <2>4, <2>5 DEF LogInv
<1>6. CASE LogWritePanic = "none"
  <2>1. lh.n < LOGSIZE /\ lh.n \in Slots
    BY SMTT(20), <1>4, <1>6 DEF LogWritePanic, Slots
  <2>2. /\ pc' = [pc EXCEPT ![p] = "in_op"]
        /\ buf' = [buf EXCEPT ![p] = NoBlock]
        /\ UNCHANGED <<outstanding, committing, head, logblk, home, cache, failed,
                       wrote, tail, boot>>
        /\ panic' = "none"
    BY <1>6 DEF log_write, diskvars
  <2>3. \A l \in CommitPcs : ~At(l)'
    BY <1>3, <2>2 DEF At, CommitPcs, LogInv, TypeOK
  <2>4. Active' = Active
    BY <2>2 DEF log_write, Active, LogInv, TypeOK
  <2>5. BufferInv'
    BY <2>2 DEF LogInv, TypeOK, BufferInv
  <2>6. LogDataInv'
    BY <1>2, <2>2, <2>3 DEF LogDataInv, CommitPcs
  <2>7. PinStart = 0 /\ PinStart' = 0
    BY <1>2, <1>3, <2>2, <2>3 DEF PinStart, CommitPcs
  <2>8. \A c \in failed : Unlocked(c)' /\ c # buf[p]
    BY <1>1, <2>2 DEF LogInv, TypeOK, FailedInv, Unlocked
  <2>9. CASE \E i \in Slots : i < lh.n /\ lh.block[i] = buf[p]
    <3>1. UNCHANGED <<lh, pin>>
      BY <1>6, <2>9 DEF log_write, InHeader
    <3>2. TypeOK'
      BY <2>2, <3>1 DEF LogInv, TypeOK
    <3>3. ControlInv'
      BY <1>2, <2>2, <2>3, <2>4, <3>1 DEF LogInv, TypeOK, ControlInv, At, CommitPcs
    <3>4. HeadInv'
      BY <1>2, <1>3, <2>2, <2>3, <3>1 DEF LogInv, HeadInv, HeaderOK, CommitPcs
    <3>5. pin[buf[p]] > 0
      BY SMTT(20), <1>1, <2>7, <2>9 DEF LogInv, CacheInv, Slots
    <3>6. CacheInv'
      <4>1. /\ \A c \in Blocks :
                 pin[c] = IF \E i \in Slots : 0 <= i /\ i < lh.n /\ lh.block[i] = c
                          THEN 1 ELSE 0
            /\ \A c \in Blocks : pin[c] > 0 => cache[c] # NoVal
        BY <2>7 DEF LogInv, CacheInv
      <4>2. \A c \in Blocks : cache[c] # NoVal /\ pin[c] = 0 /\ Unlocked(c)'
                              /\ c \notin failed => cache[c] = home[c]
        <5>1. \A c \in Blocks : c # buf[p] => (Unlocked(c)' => Unlocked(c))
          BY <2>2 DEF LogInv, TypeOK, Unlocked
        <5>2. pin[buf[p]] # 0
          BY SMTT(20), <3>5
        <5>. QED  BY <5>1, <5>2 DEF LogInv, CacheInv
      <4>. QED  BY <2>2, <2>7, <3>1, <4>1, <4>2 DEF CacheInv
    <3>7. FailedInv'
      BY <2>2, <2>8, <3>1 DEF LogInv, FailedInv, InHeader
    <3>. QED  BY <2>5, <2>6, <3>2, <3>3, <3>4, <3>6, <3>7 DEF LogInv
  <2>10. CASE ~ \E i \in Slots : i < lh.n /\ lh.block[i] = buf[p]
    <3>1. /\ lh' = [n |-> lh.n + 1, block |-> [lh.block EXCEPT ![lh.n] = buf[p]]]
          /\ pin' = [pin EXCEPT ![buf[p]] = @ + 1]
      BY <1>6, <2>10 DEF log_write, bpin, InHeader
    <3>2. lh'.n = lh.n + 1 /\ lh'.block = [lh.block EXCEPT ![lh.n] = buf[p]]
      BY <3>1
    <3>3. lh' \in [n : 0 .. LOGSIZE, block : [Slots -> Blocks \cup {NoBlock}]]
      <4>1. lh.n + 1 \in 0 .. LOGSIZE
        BY SMTT(20), <1>4, <2>1
      <4>2. [lh.block EXCEPT ![lh.n] = buf[p]] \in [Slots -> Blocks \cup {NoBlock}]
        BY <1>1, <1>4
      <4>. QED  BY <3>1, <4>1, <4>2
    <3>4. TypeOK'
      <4>1. pin' \in [Blocks -> Nat]
        <5>1. pin \in [Blocks -> Nat]
          BY DEF LogInv, TypeOK
        <5>. QED  BY SMTT(20), <1>1, <3>1, <5>1
      <4>. QED  BY <2>2, <3>3, <4>1 DEF LogInv, TypeOK
    <3>5. ControlInv'
      <4>1. \A q \in Procs : pc'[q] \notin CommitPcs
        BY <1>2, <2>2 DEF LogInv, TypeOK, CommitPcs
      <4>2. /\ ~At("committed")' /\ ~At("write_log")'
            /\ ~At("write_head")' /\ ~At("install_trans")'
        BY <2>3 DEF CommitPcs
      <4>3. outstanding' = Cardinality(Active')
        BY <2>2, <2>4 DEF LogInv, ControlInv
      <4>. QED  BY SMTT(20), <1>2, <2>2, <4>1, <4>2, <4>3 DEF ControlInv
    <3>6. HeaderOK(lh')
      <4>1. /\ \A i \in Slots : i < lh.n => lh.block[i] \in Blocks
            /\ \A i, j \in Slots :
                 i < lh.n /\ j < lh.n /\ lh.block[i] = lh.block[j] => i = j
        BY DEF LogInv, HeadInv, HeaderOK
      <4>2. \A i \in Slots : i < lh'.n =>
              \/ i < lh.n /\ lh'.block[i] = lh.block[i] /\ lh.block[i] # buf[p]
              \/ i = lh.n /\ lh'.block[i] = buf[p]
        BY SMTT(20), <1>4, <2>1, <2>10, <3>2 DEF Slots
      <4>. QED  BY <1>1, <4>1, <4>2 DEF HeaderOK
    <3>7. HeadInv'
      BY <1>2, <1>3, <2>2, <2>3, <3>6 DEF LogInv, HeadInv, HeaderOK, CommitPcs
    <3>8. pin[buf[p]] = 0
      BY <1>1, <2>10 DEF LogInv, CacheInv
    <3>9. CacheInv'
      <4>1. \A c \in Blocks :
              (\E i \in Slots : i < lh'.n /\ lh'.block[i] = c)
              <=> (c = buf[p] \/ \E i \in Slots : i < lh.n /\ lh.block[i] = c)
        <5>1. /\ \A i \in Slots : i < lh'.n <=> (i < lh.n \/ i = lh.n)
              /\ \A i \in Slots : i < lh.n => i # lh.n
          BY SMTT(20), <1>4, <2>1, <3>2 DEF Slots
        <5>2. /\ lh'.block[lh.n] = buf[p]
              /\ \A i \in Slots : i # lh.n => lh'.block[i] = lh.block[i]
          BY <1>4, <2>1, <3>2
        <5>. QED  BY <2>1, <5>1, <5>2
      <4>2. \A c \in Blocks :
              pin'[c] = IF \E i \in Slots : 0 <= i /\ i < lh'.n /\ lh'.block[i] = c
                        THEN 1 ELSE 0
        <5>1. \A c \in Blocks : 
                pin[c] = IF \E i \in Slots : 0 <= i /\ i < lh.n /\ lh.block[i] = c
                         THEN 1 ELSE 0
          BY <2>7 DEF LogInv, CacheInv
        <5>2. \A i \in Slots : 0 <= i
          BY SMTT(20) DEF Slots
        <5>3. pin' = [pin EXCEPT ![buf[p]] = 1]
          BY SMTT(20), <3>1, <3>8
        <5>. QED  BY <1>1, <4>1, <5>1, <5>2, <5>3 DEF LogInv, TypeOK
      <4>3. \A c \in Blocks : pin'[c] > 0 => cache'[c] # NoVal
        BY <1>1, <2>2, <3>1 DEF LogInv, TypeOK, CacheInv
      <4>4. \A c \in Blocks : cache'[c] # NoVal /\ pin'[c] = 0 /\ Unlocked(c)'
                              /\ c \notin failed' => cache'[c] = home'[c]
        <5>1. \A c \in Blocks : c # buf[p] =>
                pin'[c] = pin[c] /\ (Unlocked(c)' => Unlocked(c))
          BY <2>2, <3>1 DEF LogInv, TypeOK, Unlocked
        <5>2. pin'[buf[p]] = 1
          <6>1. pin \in [Blocks -> Nat]
            BY DEF LogInv, TypeOK
          <6>2. pin' = [pin EXCEPT ![buf[p]] = pin[buf[p]] + 1] /\ buf[p] \in Blocks
            BY <1>1, <3>1
          <6>3. pin'[buf[p]] = pin[buf[p]] + 1
            BY <6>1, <6>2
          <6>. QED  BY SMTT(20), <3>8, <6>3
        <5>3. \A c \in Blocks : cache[c] # NoVal /\ pin[c] = 0 /\ Unlocked(c)
                                /\ c \notin failed => cache[c] = home[c]
          BY DEF LogInv, CacheInv
        <5>4. cache' = cache /\ home' = home /\ failed' = failed
          BY <2>2
        <5>5. SUFFICES ASSUME NEW c \in Blocks, cache'[c] # NoVal, pin'[c] = 0,
                              Unlocked(c)', c \notin failed'
                       PROVE  cache'[c] = home'[c]
          OBVIOUS
        <5>6. c # buf[p]
          BY SMTT(20), <5>2, <5>5
        <5>. QED  BY <5>1, <5>3, <5>4, <5>5, <5>6
      <4>. QED  BY <2>7, <4>2, <4>3, <4>4 DEF CacheInv
    <3>10. FailedInv'
      <4>1. \A i \in Slots : i < lh'.n =>
              \/ i < lh.n /\ lh'.block[i] = lh.block[i]
              \/ lh'.block[i] = buf[p]
        BY SMTT(20), <1>4, <2>1, <3>2 DEF Slots
      <4>2. \A c \in failed : ~InHeader(c)'
        BY <2>8, <4>1 DEF LogInv, FailedInv, InHeader
      <4>. QED  BY <1>2, <2>2, <2>8, <4>2 DEF LogInv, FailedInv
    <3>. QED  BY <2>5, <2>6, <3>4, <3>5, <3>7, <3>9, <3>10 DEF LogInv
  <2>. QED  BY <2>9, <2>10
<1>. QED  BY <1>5, <1>6

LEMMA CopyFailedInv ==
    ASSUME LogInv, NEW p \in Procs, copy_failed(p)
    PROVE  LogInv'
<1>. USE LogAssumption DEF LogAssumption
<1>1. buf[p] \in Blocks /\ buf[p] \in DataBlocks /\ cache[buf[p]] # NoVal
  BY DEF copy_failed, LogInv, TypeOK, BufferInv
<1>2. /\ ~committing /\ boot = "up"
      /\ \A l \in CommitPcs : ~At(l)
  BY InOp DEF copy_failed
<1>3. /\ pc' = [pc EXCEPT ![p] = "in_op"] /\ pc[p] = "log_write"
      /\ buf' = [buf EXCEPT ![p] = NoBlock]
      /\ failed' = IF InHeader(buf[p]) THEN failed ELSE failed \cup {buf[p]}
      /\ UNCHANGED <<lh, outstanding, committing, head, logblk, home, cache, pin,
                     wrote, tail, boot, panic>>
  BY DEF copy_failed, logvars, diskvars
<1>4. \A l \in CommitPcs : ~At(l)'
  BY <1>2, <1>3 DEF At, CommitPcs, LogInv, TypeOK
<1>5. PinStart = 0 /\ PinStart' = 0
  BY <1>2, <1>3, <1>4 DEF PinStart, CommitPcs
<1>6. TypeOK'
  <2>1. failed' \subseteq DataBlocks
    BY <1>1, <1>3 DEF LogInv, TypeOK
  <2>2. pc' \in [Procs -> {"user", "begin_op", "asleep", "in_op", "log_write",
                           "commit", "write_log", "write_head", "install_trans",
                           "erase", "committed"}]
        /\ buf' \in [Procs -> Blocks \cup {NoBlock}]
    BY <1>3 DEF LogInv, TypeOK
  <2>. QED  BY <1>3, <2>1, <2>2 DEF LogInv, TypeOK
<1>7. ControlInv'
  <2>1. Active' = Active
    BY <1>3 DEF Active, LogInv, TypeOK
  <2>2. \A q \in Procs : pc'[q] \notin CommitPcs
    BY <1>4 DEF At
  <2>. QED  BY <1>2, <1>3, <1>4, <2>1, <2>2 DEF LogInv, ControlInv, CommitPcs
<1>8. BufferInv'
  BY <1>3 DEF LogInv, TypeOK, BufferInv
<1>9. \A c \in Blocks : c # buf[p] => (Unlocked(c)' <=> Unlocked(c))
  BY <1>3 DEF LogInv, TypeOK, Unlocked
<1>10. \A c \in Blocks : c = buf[p] => Unlocked(c)'
  <2>1. \A q \in Procs : q # p => buf[q] # buf[p]
    BY <1>1 DEF LogInv, BufferInv
  <2>2. buf[p] # NoBlock
    BY <1>1
  <2>. QED  BY <1>3, <2>1, <2>2 DEF LogInv, TypeOK, Unlocked
<1>11. CacheInv'
  <2>1. /\ \A c \in Blocks :
             pin'[c] = IF \E i \in Slots : PinStart' <= i /\ i < lh'.n /\ lh'.block[i] = c
                       THEN 1 ELSE 0
        /\ \A c \in Blocks : pin'[c] > 0 => cache'[c] # NoVal
    BY <1>3, <1>5 DEF LogInv, CacheInv
  <2>2. InHeader(buf[p]) => pin[buf[p]] = 1
    <3>1. \A i \in Slots : 0 <= i
      BY SMTT(20) DEF Slots
    <3>. QED  BY <1>1, <1>5, <3>1 DEF LogInv, CacheInv, InHeader
  <2>3. ASSUME NEW c \in Blocks, cache'[c] # NoVal, pin'[c] = 0, Unlocked(c)',
               c \notin failed'
        PROVE  cache'[c] = home'[c]
    <3>1. c # buf[p]
      BY SMTT(20), <1>3, <2>2, <2>3
    <3>2. c \notin failed
      BY <1>3, <2>3
    <3>. QED  BY <1>3, <1>9, <2>3, <3>1, <3>2 DEF LogInv, CacheInv
  <2>. QED  BY <2>1, <2>3 DEF CacheInv
<1>12. FailedInv'
  <2>1. ASSUME NEW c \in failed'
        PROVE  cache'[c] # NoVal /\ Unlocked(c)' /\ ~InHeader(c)'
    <3>1. CASE c \in failed
      <4>1. c \in Blocks /\ c # buf[p]
        BY <1>1, <3>1 DEF LogInv, TypeOK, FailedInv, Unlocked
      <4>. QED  BY <1>3, <1>9, <3>1, <4>1 DEF LogInv, FailedInv, InHeader
    <3>2. CASE c \notin failed
      <4>1. c = buf[p] /\ ~InHeader(c)
        BY <1>3, <2>1, <3>2
      <4>2. ~InHeader(c)'
        BY <1>3, <4>1 DEF InHeader
      <4>3. cache'[c] # NoVal
        BY <1>1, <1>3, <4>1
      <4>. QED  BY <1>1, <1>10, <4>1, <4>2, <4>3
    <3>. QED  BY <3>1, <3>2
  <2>. QED  BY <1>2, <1>3, <2>1 DEF FailedInv
<1>13. HeadInv'
  BY <1>2, <1>3, <1>4 DEF LogInv, HeadInv, HeaderOK, CommitPcs
<1>14. LogDataInv'
  BY <1>2, <1>3, <1>4 DEF LogDataInv, CommitPcs
<1>. QED  BY <1>6, <1>7, <1>8, <1>11, <1>12, <1>13, <1>14 DEF LogInv

LEMMA EndOpInv ==
    ASSUME LogInv, NEW p \in Procs, end_op(p)
    PROVE  LogInv'
<1>. USE LogAssumption DEF LogAssumption
<1>1. /\ outstanding \in Nat /\ outstanding > 0 /\ ~committing /\ boot = "up"
      /\ \A q \in Procs : pc[q] \notin CommitPcs
      /\ \A l \in CommitPcs : ~At(l)
  BY InOp DEF end_op
<1>2. pc \in [Procs -> {"user", "begin_op", "asleep", "in_op", "log_write",
                       "commit", "write_log", "write_head", "install_trans",
                       "erase", "committed"}]
  BY DEF LogInv, TypeOK
<1>3. /\ pc[p] = "in_op"
      /\ outstanding' = outstanding - 1
      /\ panic' = "none"
      /\ UNCHANGED <<lh, head, logblk, home, cache, pin, failed, buf, wrote, tail, boot>>
  BY <1>1 DEF end_op, diskvars, cachevars
<1>4. \/ /\ outstanding = 1 /\ committing' = TRUE
         /\ pc' = [pc EXCEPT ![p] = "commit"]
      \/ /\ outstanding # 1 /\ committing' = committing
         /\ WakeLog(p, "user")
  BY <1>1 DEF end_op
<1>5. /\ pc'[p] \in {"commit", "user"}
      /\ \A q \in Procs \ {p} :
           pc'[q] = pc[q] \/ (pc[q] = "asleep" /\ pc'[q] = "begin_op")
  <2>1. CASE pc' = [pc EXCEPT ![p] = "commit"]
    BY <1>2, <2>1
  <2>2. CASE WakeLog(p, "user")
    BY <2>2, Woken
  <2>. QED  BY <1>4, <2>1, <2>2
<1>6. TypeOK'
  <2>1. pc' \in [Procs -> {"user", "begin_op", "asleep", "in_op", "log_write",
                           "commit", "write_log", "write_head", "install_trans",
                           "erase", "committed"}]
    BY <1>2, <1>4 DEF WakeLog
  <2>2. outstanding' \in Nat
    BY SMTT(20), <1>1, <1>3
  <2>3. committing' \in BOOLEAN
    BY <1>4 DEF LogInv, TypeOK
  <2>. QED  BY <1>3, <2>1, <2>2, <2>3 DEF LogInv, TypeOK
<1>7. \A l \in {"write_log", "write_head", "install_trans", "erase", "committed"} :
        ~At(l) /\ ~At(l)'
  BY <1>1, <1>5 DEF At, CommitPcs
<1>8. CacheInv' /\ FailedInv' /\ HeadInv' /\ LogDataInv'
  BY <1>3, <1>7, Frame
<1>9. BufferInv'
  BY <1>3, <1>5 DEF LogInv, BufferInv
<1>10. outstanding' = Cardinality(Active')
  <2>1. Active' = Active \ {p} /\ p \in Active
    BY <1>3, <1>5 DEF Active
  <2>. QED  BY <1>1, <1>3, <2>1, ActiveFinite, FS_RemoveElement
            DEF LogInv, ControlInv
<1>11. ControlInv'
  <2>1. CASE outstanding = 1
    <3>1. committing' /\ outstanding' = 0 /\ pc' = [pc EXCEPT ![p] = "commit"]
      BY SMTT(20), <1>1, <1>3, <1>4, <2>1
    <3>2. pc'[p] \in CommitPcs /\ \A q \in Procs : pc'[q] \in CommitPcs => q = p
      BY <1>1, <1>2, <3>1 DEF CommitPcs
    <3>. QED  BY <1>1, <1>3, <1>7, <1>10, <3>1, <3>2 DEF ControlInv
  <2>2. CASE outstanding # 1
    <3>1. ~committing' /\ outstanding' # 0 /\ pc'[p] = "user"
      BY SMTT(20), <1>1, <1>2, <1>3, <1>4, <2>2 DEF WakeLog
    <3>2. \A q \in Procs : pc'[q] \notin CommitPcs
      BY <1>1, <1>5, <3>1 DEF CommitPcs
    <3>. QED  BY <1>1, <1>3, <1>7, <1>10, <3>1, <3>2 DEF ControlInv
  <2>. QED  BY <2>1, <2>2
<1>. QED  BY <1>6, <1>8, <1>9, <1>11 DEF LogInv

LEMMA EndCommitInv ==
    ASSUME LogInv, NEW p \in Procs, end_commit(p)
    PROVE  LogInv'
<1>. USE LogAssumption DEF LogAssumption
<1>1. /\ boot = "up" /\ outstanding = 0
      /\ \A q \in Procs \ {p} : pc[q] \notin CommitPcs \cup {"in_op", "log_write"}
  BY Alone DEF end_commit, CommitPcs
<1>2. pc \in [Procs -> {"user", "begin_op", "asleep", "in_op", "log_write",
                       "commit", "write_log", "write_head", "install_trans",
                       "erase", "committed"}]
  BY DEF LogInv, TypeOK
<1>3. /\ pc[p] = "committed"
      /\ committing' = FALSE
      /\ UNCHANGED <<lh, outstanding, head, logblk, home, cache, pin, failed, buf, wrote,
                     tail, boot, panic>>
  BY DEF end_commit, diskvars, cachevars
<1>4. /\ pc'[p] = "user"
      /\ \A q \in Procs \ {p} :
           pc'[q] = pc[q] \/ (pc[q] = "asleep" /\ pc'[q] = "begin_op")
  BY Woken DEF end_commit
<1>5. TypeOK'
  <2>1. pc' \in [Procs -> {"user", "begin_op", "asleep", "in_op", "log_write",
                           "commit", "write_log", "write_head", "install_trans",
                           "erase", "committed"}]
    BY <1>2 DEF end_commit, WakeLog
  <2>2. committing' \in BOOLEAN
    BY <1>3
  <2>. QED  BY <1>3, <2>1, <2>2 DEF LogInv, TypeOK
<1>6. \A l \in {"write_log", "write_head", "install_trans", "erase"} :
        ~At(l) /\ ~At(l)'
  BY <1>1, <1>3, <1>4 DEF At, CommitPcs
<1>7. CacheInv' /\ FailedInv' /\ HeadInv' /\ LogDataInv'
  BY <1>3, <1>6, Frame
<1>8. BufferInv'
  BY <1>3, <1>4 DEF LogInv, BufferInv
<1>9. lh.n = 0
  BY <1>3 DEF LogInv, ControlInv, At
<1>10. Active' = Active
  BY <1>3, <1>4 DEF Active
<1>11. \A q \in Procs : pc'[q] \notin CommitPcs
  BY <1>1, <1>4 DEF CommitPcs
<1>12. ControlInv'
  BY <1>1, <1>3, <1>6, <1>9, <1>10, <1>11 DEF LogInv, ControlInv, At
<1>. QED  BY <1>5, <1>7, <1>8, <1>12 DEF LogInv

LEMMA CommitInv ==
    ASSUME LogInv, NEW p \in Procs, commit(p)
    PROVE  LogInv'
<1>. USE LogAssumption DEF LogAssumption
<1>1. boot = "up"
  BY Alone DEF commit, CommitPcs
<1>2. PICK l \in {"write_log", "committed"} :
        /\ pc' = [pc EXCEPT ![p] = l]
        /\ l = "write_log" => lh.n > 0
        /\ l = "committed" => ~(lh.n > 0)
  BY DEF commit
<1>3. /\ pc[p] = "commit"
      /\ tail' = 0
      /\ UNCHANGED <<lh, outstanding, committing, head, logblk, home, cache, pin,
                     failed, buf, wrote, boot, panic>>
  BY DEF commit, logvars, diskvars, cachevars
<1>4. cache' \in [Blocks -> Val \cup {NoVal}] /\ lh.n \in 0 .. LOGSIZE
  BY <1>3 DEF LogInv, TypeOK
<1>5. /\ \A m \in CommitPcs : At(m) <=> m = "commit"
      /\ \A m \in CommitPcs : At(m)' <=> m = l
      /\ \A b \in Blocks : Unlocked(b) /\ Unlocked(b)'
      /\ BufferInv' /\ ControlInv'
  <2>1. l \in CommitPcs /\ pc[p] \in CommitPcs
    BY <1>3 DEF CommitPcs
  <2>2. /\ l = "committed" => lh'.n = 0
        /\ l \in {"write_log", "install_trans"} => tail' < lh'.n
        /\ l = "write_head" => lh'.n > 0
    BY SMTT(20), <1>2, <1>3, <1>4
  <2>4. /\ pc[p] \in CommitPcs /\ pc' = [pc EXCEPT ![p] = l] /\ buf' = buf
        /\ cache' \in [Blocks -> Val \cup {NoVal}]
        /\ UNCHANGED <<outstanding, committing, boot, panic>>
    BY <1>2, <1>3, <1>4, <2>1, <2>2
  <2>. QED  BY <1>2, <1>3, <1>4, <2>1, <2>2, <2>4, Phase
<1>6. TypeOK'
  <2>1. pc' \in [Procs -> {"user", "begin_op", "asleep", "in_op", "log_write",
                           "commit", "write_log", "write_head", "install_trans",
                           "erase", "committed"}]
    BY <1>2 DEF LogInv, TypeOK
  <2>2. tail' \in 0 .. LOGSIZE
    BY SMTT(20), <1>3
  <2>. QED  BY <1>3, <2>1, <2>2 DEF LogInv, TypeOK
<1>7. PinStart = 0 /\ PinStart' = 0
  BY <1>1, <1>3, <1>5 DEF PinStart, CommitPcs
<1>8. CacheInv'
  <2>1. /\ \A b \in Blocks :
             pin'[b] = IF \E i \in Slots : PinStart' <= i /\ i < lh'.n /\ lh'.block[i] = b
                       THEN 1 ELSE 0
        /\ \A b \in Blocks : pin'[b] > 0 => cache'[b] # NoVal
    BY <1>3, <1>7 DEF LogInv, CacheInv
  <2>2. \A b \in Blocks : cache[b] # NoVal /\ pin[b] = 0 /\ Unlocked(b)
                           /\ b \notin failed => cache[b] = home[b]
    BY DEF LogInv, CacheInv
  <2>3. \A b \in Blocks : cache'[b] # NoVal /\ pin'[b] = 0 /\ Unlocked(b)'
                           /\ b \notin failed' => cache'[b] = home'[b]
    BY <1>3, <1>5, <2>2
  <2>. QED  BY <2>1, <2>3 DEF CacheInv
<1>9. HeadInv'
  BY <1>1, <1>3, <1>5 DEF LogInv, HeadInv, HeaderOK, CommitPcs
<1>10. LogDataInv'
  <2>1. \A i \in Slots : ~(i < tail')
    BY SMTT(20), <1>3 DEF Slots
  <2>2. /\ ~At("write_head")' /\ ~At("install_trans")' /\ ~At("erase")'
        /\ boot' # "install_trans"
    BY <1>1, <1>3, <1>5 DEF CommitPcs
  <2>. QED  BY <2>1, <2>2 DEF LogDataInv
<1>11. FailedInv'
  BY <1>3 DEF LogInv, FailedInv, InHeader, Unlocked
<1>. QED  BY <1>5, <1>6, <1>8, <1>9, <1>10, <1>11 DEF LogInv

LEMMA WriteLogInv ==
    ASSUME LogInv, NEW p \in Procs, write_log(p)
    PROVE  LogInv'
<1>. USE LogAssumption DEF LogAssumption
<1>. DEFINE b == lh.block[tail]
<1>1. /\ boot = "up" /\ At("write_log") /\ pc[p] \in CommitPcs
      /\ \A m \in CommitPcs : At(m) => m = "write_log"
  BY Alone DEF write_log, CommitPcs, At
<1>2. /\ lh.n \in 0 .. LOGSIZE /\ tail \in Slots /\ tail < lh.n
      /\ b \in Blocks
  <2>1. tail < lh.n
    BY <1>1 DEF LogInv, ControlInv
  <2>. QED  BY <2>1, Entry
<1>3. PinStart = 0
  BY <1>1 DEF PinStart, CommitPcs
<1>4. cache[b] # NoVal
  <2>1. 0 <= tail /\ tail < lh.n /\ lh.block[tail] = b
    BY SMTT(20), <1>2 DEF Slots
  <2>2. pin[b] = 1
    BY <1>2, <1>3, <2>1 DEF LogInv, CacheInv
  <2>. QED  BY SMTT(20), <1>2, <2>2 DEF LogInv, CacheInv
<1>5. cache' = cache
  BY <1>2, <1>4 DEF write_log, View, LogInv, TypeOK
<1>6. /\ logblk' = [logblk EXCEPT ![tail] = cache[b]]
      /\ tail' = tail + 1
      /\ UNCHANGED <<lh, outstanding, committing, head, home, pin, failed, buf, wrote,
                     boot, panic>>
  BY <1>4 DEF write_log, View, logvars
<1>7. PICK l \in {"write_log", "write_head"} :
        /\ pc' = [pc EXCEPT ![p] = l]
        /\ l = "write_log" <=> tail' < lh.n
  BY DEF write_log
<1>8. /\ \A m \in CommitPcs : At(m)' <=> m = l
      /\ \A c \in Blocks : Unlocked(c) /\ Unlocked(c)'
      /\ BufferInv' /\ ControlInv'
  <2>1. l \in CommitPcs
    BY DEF CommitPcs
  <2>2. /\ l = "committed" => lh'.n = 0
        /\ l \in {"write_log", "install_trans"} => tail' < lh'.n
        /\ l = "write_head" => lh'.n > 0
    <3>1. lh'.n = lh.n /\ lh.n > 0
      BY SMTT(20), <1>2, <1>6 DEF Slots
    <3>2. l = "write_log" => tail' < lh.n
      BY <1>7
    <3>. QED  BY <3>1, <3>2
  <2>3. cache' \in [Blocks -> Val \cup {NoVal}]
    BY <1>5 DEF LogInv, TypeOK
  <2>4. /\ pc[p] \in CommitPcs /\ pc' = [pc EXCEPT ![p] = l] /\ buf' = buf
        /\ cache' \in [Blocks -> Val \cup {NoVal}]
        /\ UNCHANGED <<outstanding, committing, boot, panic>>
    BY <1>1, <1>6, <1>7, <2>1, <2>2, <2>3
  <2>. QED  BY <1>1, <1>6, <1>7, <2>1, <2>2, <2>3, <2>4, Phase
<1>9. TypeOK'
  <2>1. pc' \in [Procs -> {"user", "begin_op", "asleep", "in_op", "log_write",
                           "commit", "write_log", "write_head", "install_trans",
                           "erase", "committed"}]
    BY <1>7 DEF LogInv, TypeOK
  <2>2. tail' \in 0 .. LOGSIZE
    BY SMTT(20), <1>2, <1>6 DEF Slots
  <2>3. logblk' \in [Slots -> Val]
    BY <1>2, <1>4, <1>6 DEF LogInv, TypeOK
  <2>. QED  BY <1>5, <1>6, <2>1, <2>2, <2>3 DEF LogInv, TypeOK
<1>10. PinStart' = 0
  BY <1>1, <1>6, <1>8 DEF PinStart, CommitPcs
<1>11. CacheInv'
  BY <1>3, <1>5, <1>6, <1>8, <1>10 DEF LogInv, CacheInv
<1>12. HeadInv'
  BY <1>1, <1>6, <1>8 DEF LogInv, HeadInv, HeaderOK, CommitPcs
<1>13. LogDataInv'
  <2>1. \A i \in Slots : i < tail' => logblk'[i] = cache'[lh'.block[i]]
    <3>1. \A i \in Slots : i < tail => logblk[i] = cache[lh.block[i]]
      BY <1>1 DEF LogInv, LogDataInv
    <3>2. \A i \in Slots : i < tail' => i < tail \/ i = tail
      BY SMTT(20), <1>2, <1>6 DEF Slots
    <3>3. logblk \in [Slots -> Val]
      BY DEF LogInv, TypeOK
    <3>4. ASSUME NEW i \in Slots, i < tail'
          PROVE  logblk'[i] = cache[lh.block[i]]
      <4>1. CASE i = tail
        BY <1>6, <3>3, <4>1
      <4>2. CASE i # tail
        BY <1>6, <3>1, <3>2, <3>3, <3>4, <4>2
      <4>. QED  BY <4>1, <4>2
    <3>. QED  BY <1>5, <1>6, <3>4
  <2>2. l = "write_head" => \A i \in Slots : i < lh'.n => i < tail'
    BY SMTT(20), <1>2, <1>6, <1>7 DEF Slots
  <2>. QED  BY <1>1, <1>6, <1>7, <1>8, <2>1, <2>2 DEF LogDataInv, CommitPcs
<1>14. FailedInv'
  BY <1>5, <1>6 DEF LogInv, FailedInv, InHeader, Unlocked
<1>. QED  BY <1>8, <1>9, <1>11, <1>12, <1>13, <1>14 DEF LogInv

LEMMA WriteHeadInv ==
    ASSUME LogInv, NEW p \in Procs, write_head(p)
    PROVE  LogInv'
<1>. USE LogAssumption DEF LogAssumption
<1>1. /\ boot = "up" /\ At("write_head") /\ pc[p] \in CommitPcs
      /\ \A m \in CommitPcs : At(m) => m = "write_head"
  BY Alone DEF write_head, CommitPcs, At
<1>2. /\ lh \in [n : 0 .. LOGSIZE, block : [Slots -> Blocks \cup {NoBlock}]]
      /\ head \in [n : 0 .. LOGSIZE, block : [Slots -> Blocks \cup {NoBlock}]]
      /\ lh.n > 0
  BY <1>1 DEF LogInv, TypeOK, ControlInv
<1>3. /\ pc' = [pc EXCEPT ![p] = "install_trans"]
      /\ head' = HeadOf(lh, head)
      /\ tail' = 0
      /\ UNCHANGED <<lh, outstanding, committing, logblk, home, cache, pin,
                     failed, buf, wrote, boot, panic>>
  BY DEF write_head, logvars, cachevars
<1>4. /\ \A m \in CommitPcs : At(m)' <=> m = "install_trans"
      /\ \A c \in Blocks : Unlocked(c) /\ Unlocked(c)'
      /\ BufferInv' /\ ControlInv'
  <2>1. "install_trans" \in CommitPcs
    BY DEF CommitPcs
  <2>2. cache' \in [Blocks -> Val \cup {NoVal}]
    BY <1>3 DEF LogInv, TypeOK
  <2>4. /\ pc[p] \in CommitPcs /\ pc' = [pc EXCEPT ![p] = "install_trans"] /\ buf' = buf
        /\ cache' \in [Blocks -> Val \cup {NoVal}]
        /\ UNCHANGED <<outstanding, committing, boot, panic>>
    BY <1>1, <1>2, <1>3, <2>1, <2>2
  <2>. QED  BY <1>1, <1>2, <1>3, <2>1, <2>2, <2>4, Phase
<1>5. TypeOK'
  <2>1. pc' \in [Procs -> {"user", "begin_op", "asleep", "in_op", "log_write",
                           "commit", "write_log", "write_head", "install_trans",
                           "erase", "committed"}]
    BY <1>3 DEF LogInv, TypeOK
  <2>2. tail' \in 0 .. LOGSIZE
    BY SMTT(20), <1>3
  <2>3. head' \in [n : 0 .. LOGSIZE, block : [Slots -> Blocks \cup {NoBlock}]]
    BY <1>2, <1>3, HeadCopy
  <2>. QED  BY <1>3, <2>1, <2>2, <2>3 DEF LogInv, TypeOK
<1>6. PinStart = 0 /\ PinStart' = 0
  BY <1>1, <1>3, <1>4 DEF PinStart, CommitPcs
<1>7. CacheInv'
  BY <1>3, <1>4, <1>6 DEF LogInv, CacheInv
<1>8. HeadInv'
  <2>1. /\ HeaderOK(lh) /\ HeaderOK(head')
        /\ head'.n = lh.n
        /\ \A i \in Slots : i < lh.n => head'.block[i] = lh.block[i]
    BY SMTT(20), <1>2, <1>3, HeadCopy DEF LogInv, HeadInv
  <2>. QED  BY <1>1, <1>3, <1>4, <2>1 DEF HeadInv, HeaderOK, CommitPcs
<1>9. LogDataInv'
  <2>1. \A i \in Slots : i < lh.n => logblk[i] = cache[lh.block[i]]
    BY <1>1 DEF LogInv, LogDataInv
  <2>. QED  BY SMTT(20), <1>1, <1>3, <1>4, <2>1 DEF LogDataInv, CommitPcs, Slots
<1>10. FailedInv'
  BY <1>3 DEF LogInv, FailedInv, InHeader, Unlocked
<1>. QED  BY <1>4, <1>5, <1>7, <1>8, <1>9, <1>10 DEF LogInv

LEMMA InstallInv ==
    ASSUME LogInv, NEW p \in Procs, install_trans(p)
    PROVE  LogInv'
<1>0. LOGSIZE \in Nat /\ NoVal \notin Val
  BY LogAssumption DEF LogAssumption
<1>1. /\ boot = "up" /\ At("install_trans") /\ pc[p] \in CommitPcs
      /\ \A m \in CommitPcs : At(m) => m = "install_trans"
  BY Alone DEF install_trans, CommitPcs, At
<1>2. tail < lh.n
  BY <1>1 DEF LogInv, ControlInv
<1>3. PICK b \in Blocks :
        /\ b = lh.block[tail]
        /\ lh.n \in 0 .. LOGSIZE /\ tail \in Slots
        /\ \A i \in Slots : i < lh.n /\ i # tail => lh.block[i] # b
  BY <1>2, Entry
<1>4. /\ logblk \in [Slots -> Val] /\ pin \in [Blocks -> Nat]
      /\ home \in [Blocks -> Val] /\ cache \in [Blocks -> Val \cup {NoVal}]
  BY DEF LogInv, TypeOK
<1>5. PinStart = tail
  BY <1>1 DEF PinStart
<1>6. /\ \A i \in Slots : i < tail => home[lh.block[i]] = logblk[i]
      /\ \A i \in Slots : tail <= i /\ i < lh.n => logblk[i] = cache[lh.block[i]]
  BY <1>1 DEF LogInv, LogDataInv
<1>7. logblk[tail] = cache[b]
  <2>1. tail <= tail
    BY SMTT(20), <1>0, <1>3 DEF Slots
  <2>. QED  BY <1>2, <1>3, <1>6, <2>1
<1>8. /\ tail \in Nat /\ lh.n \in Nat
       /\ \A i \in Slots : i \in Nat
  BY SMTT(20), <1>0, <1>3 DEF Slots
<1>9. \A i \in Slots : i < lh.n /\ i # tail => lh.block[i] # b
  BY <1>3
<1>10. /\ tail' = tail + 1
      /\ UNCHANGED <<lh, outstanding, committing, head, logblk, failed, buf, wrote,
                     boot, panic>>
  BY DEF install_trans, logvars
<1>11. tail' = tail + 1
  BY <1>10
<1>12. lh' = lh
  BY <1>10
<1>13. cache' = cache
  <2>1. cache' = [cache EXCEPT ![b] = logblk[tail]]
    BY <1>3 DEF install_trans
  <2>. QED  BY <1>4, <1>7, <2>1
<1>14. pin[b] = 1
  <2>1. \E i \in Slots : tail <= i /\ i < lh.n /\ lh.block[i] = b
    BY SMTT(20), <1>0, <1>2, <1>3 DEF Slots
  <2>2. \A c \in Blocks :
          pin[c] = IF \E i \in Slots : tail <= i /\ i < lh.n /\ lh.block[i] = c
                   THEN 1 ELSE 0
    BY <1>5 DEF LogInv, CacheInv
  <2>. QED  BY <2>1, <2>2
<1>15. pin' \in [Blocks -> Nat] /\ pin' = [pin EXCEPT ![b] = 0]
  <2>1. pin' = [pin EXCEPT ![b] = pin[b] - 1]
    BY <1>3 DEF install_trans
  <2>2. pin' = [pin EXCEPT ![b] = 0]
    BY SMTT(20), <1>14, <2>1
  <2>. QED  BY <1>4, <2>2
<1>16. pin'[b] = 0 /\ \A c \in Blocks : c # b => pin'[c] = pin[c]
  BY <1>4, <1>15
<1>17. PICK l \in {"install_trans", "erase"} :
         /\ pc' = [pc EXCEPT ![p] = l]
         /\ l = "install_trans" <=> tail' < lh.n
  BY DEF install_trans
<1>18. /\ \A m \in CommitPcs : At(m)' <=> m = l
       /\ \A c \in Blocks : Unlocked(c) /\ Unlocked(c)'
       /\ BufferInv' /\ ControlInv'
  <2>1. l \in CommitPcs
    BY DEF CommitPcs
  <2>2. /\ l = "committed" => lh'.n = 0
        /\ l \in {"write_log", "install_trans"} => tail' < lh'.n
        /\ l = "write_head" => lh'.n > 0
    BY <1>10, <1>17
  <2>3. /\ pc[p] \in CommitPcs /\ pc' = [pc EXCEPT ![p] = l] /\ buf' = buf
        /\ cache' \in [Blocks -> Val \cup {NoVal}]
        /\ UNCHANGED <<outstanding, committing, boot, panic>>
    BY <1>1, <1>4, <1>10, <1>13, <1>17
  <2>. QED  BY <2>1, <2>2, <2>3, Phase
<1>19. home' \in [Blocks -> Val] /\ home' = [home EXCEPT ![b] = logblk[tail]]
  <2>1. home' = [home EXCEPT ![b] = logblk[tail]]
    BY <1>3 DEF install_trans
  <2>2. logblk[tail] \in Val
    BY <1>3, <1>4
  <2>. QED  BY <1>4, <2>1, <2>2
<1>20. home'[b] = logblk[tail] /\ \A c \in Blocks : c # b => home'[c] = home[c]
  BY <1>4, <1>19
<1>21. TypeOK'
  <2>1. pc' \in [Procs -> {"user", "begin_op", "asleep", "in_op", "log_write",
                           "commit", "write_log", "write_head", "install_trans",
                           "erase", "committed"}]
    BY <1>17 DEF LogInv, TypeOK
  <2>2. tail' \in 0 .. LOGSIZE
    BY SMTT(20), <1>0, <1>3, <1>10 DEF Slots
  <2>3. UNCHANGED <<lh, outstanding, committing, head, logblk, failed, buf, wrote,
                    boot, panic, cache>>
    BY <1>10, <1>13
  <2>4. home' \in [Blocks -> Val] /\ pin' \in [Blocks -> Nat]
    BY <1>15, <1>19
  <2>. QED  BY <2>1, <2>2, <2>3, <2>4 DEF LogInv, TypeOK
<1>22. \A i \in Slots : i < lh.n => (PinStart' <= i <=> tail + 1 <= i)
  <2>1. CASE l = "install_trans"
    BY <1>10, <1>18, <2>1 DEF PinStart, CommitPcs
  <2>2. CASE l = "erase"
    <3>1. PinStart' = lh.n
      BY <1>10, <1>18, <2>2 DEF PinStart, CommitPcs
    <3>2. ~(tail + 1 < lh.n)
      BY <1>17, <1>11, <2>2
    <3>. QED  BY SMTT(20), <1>2, <1>8, <3>1, <3>2
  <2>. QED  BY <2>1, <2>2
<1>23. CacheInv'
  <2>0. /\ \A c \in Blocks :
             pin[c] = IF \E i \in Slots : tail <= i /\ i < lh.n /\ lh.block[i] = c
                      THEN 1 ELSE 0
        /\ \A c \in Blocks : pin[c] > 0 => cache[c] # NoVal
        /\ \A c \in Blocks : cache[c] # NoVal /\ pin[c] = 0 /\ Unlocked(c)
                             /\ c \notin failed => cache[c] = home[c]
    BY <1>5 DEF LogInv, CacheInv
  <2>1. ASSUME NEW c \in Blocks
        PROVE  pin'[c] = IF \E i \in Slots : PinStart' <= i /\ i < lh'.n
                                              /\ lh'.block[i] = c
                         THEN 1 ELSE 0
    <3>1. \A i \in Slots : tail <= i <=> i = tail \/ tail + 1 <= i
      BY SMTT(20), <1>8
    <3>2. \A i \in Slots : tail + 1 <= i => i # tail
      BY SMTT(20), <1>8
    <3>4. CASE c = b
      <4>1. ~ \E i \in Slots : PinStart' <= i /\ i < lh.n /\ lh.block[i] = b
        BY <1>22, <1>9, <3>2
      <4>. QED  BY <1>12, <1>16, <3>4, <4>1
    <3>5. CASE c # b
      <4>1. pin'[c] = pin[c]
        BY <1>16, <3>5
      <4>2. (\E i \in Slots : PinStart' <= i /\ i < lh.n /\ lh.block[i] = c)
            <=> \E i \in Slots : tail <= i /\ i < lh.n /\ lh.block[i] = c
        BY <1>3, <1>22, <3>1, <3>5
      <4>. QED  BY <1>12, <2>0, <4>1, <4>2
    <3>. QED  BY <3>4, <3>5
  <2>2. \A c \in Blocks : pin'[c] > 0 => cache'[c] # NoVal
    BY SMTT(20), <1>13, <1>16, <2>0
  <2>3. ASSUME NEW c \in Blocks, cache'[c] # NoVal, pin'[c] = 0, c \notin failed'
        PROVE  cache'[c] = home'[c]
    <3>1. CASE c = b
      BY <1>7, <1>13, <1>20, <3>1
    <3>2. CASE c # b
      BY <1>10, <1>13, <1>18, <1>16, <1>20, <2>0, <2>3, <3>2
    <3>. QED  BY <3>1, <3>2
  <2>. QED  BY <2>1, <2>2, <2>3 DEF CacheInv
<1>24. HeadInv'
  BY <1>1, <1>10, <1>13, <1>18 DEF LogInv, HeadInv, HeaderOK, CommitPcs
<1>25. LogDataInv'
  <2>1. ASSUME NEW i \in Slots, i < tail'
        PROVE  home'[lh.block[i]] = logblk[i]
    <3>1. i < tail \/ i = tail
      BY SMTT(20), <1>8, <1>11, <2>1
    <3>2. CASE i = tail
      BY <1>3, <1>20, <3>2
    <3>3. CASE i < tail
      <4>1. i < lh.n /\ i # tail
        BY SMTT(20), <1>2, <1>8, <3>3
      <4>2. lh.block[i] \in Blocks
        BY <4>1 DEF LogInv, HeadInv, HeaderOK
      <4>3. lh.block[i] # b
        BY <1>9, <4>1
      <4>. QED  BY <1>6, <1>20, <3>3, <4>2, <4>3
    <3>. QED  BY <3>1, <3>2, <3>3
  <2>2. \A i \in Slots : tail' <= i /\ i < lh.n => logblk[i] = cache[lh.block[i]]
    <3>1. \A i \in Slots : tail' <= i => tail <= i
      BY SMTT(20), <1>8, <1>11
    <3>. QED  BY <1>6, <3>1
  <2>3. l = "erase" => \A i \in Slots : i < lh.n => i < tail'
    BY SMTT(20), <1>2, <1>17, <1>8, <1>11
  <2>4. UNCHANGED <<lh, logblk, cache, boot>>
    BY <1>10, <1>13
  <2>5. /\ At("install_trans")' => l = "install_trans"
        /\ At("erase")' => l = "erase"
        /\ ~At("write_log")' /\ ~At("write_head")' /\ boot' # "install_trans"
    BY <1>1, <1>18, <2>4 DEF CommitPcs
  <2>. QED  BY <2>1, <2>2, <2>3, <2>4, <2>5 DEF LogDataInv
<1>26. FailedInv'
  BY <1>10, <1>13 DEF LogInv, FailedInv, InHeader, Unlocked
<1>. QED  BY <1>18, <1>21, <1>23, <1>24, <1>25, <1>26 DEF LogInv

LEMMA EraseInv ==
    ASSUME LogInv, NEW p \in Procs, erase(p)
    PROVE  LogInv'
<1>. USE LogAssumption DEF LogAssumption
<1>1. /\ boot = "up" /\ At("erase") /\ pc[p] \in CommitPcs
      /\ \A m \in CommitPcs : At(m) => m = "erase"
  BY Alone DEF erase, CommitPcs, At
<1>2. /\ lh \in [n : 0 .. LOGSIZE, block : [Slots -> Blocks \cup {NoBlock}]]
      /\ head \in [n : 0 .. LOGSIZE, block : [Slots -> Blocks \cup {NoBlock}]]
  BY DEF LogInv, TypeOK
<1>3. /\ lh' = [lh EXCEPT !.n = 0]
      /\ head' = HeadOf(lh', head)
      /\ pc' = [pc EXCEPT ![p] = "committed"]
      /\ UNCHANGED <<outstanding, committing, logblk, home, cache, pin, failed, buf,
                     wrote, tail, boot, panic>>
  BY DEF erase, cachevars
<1>4. /\ lh' \in [n : 0 .. LOGSIZE, block : [Slots -> Blocks \cup {NoBlock}]]
      /\ lh'.n = 0
  BY SMTT(20), <1>2, <1>3
<1>5. /\ head' \in [n : 0 .. LOGSIZE, block : [Slots -> Blocks \cup {NoBlock}]]
      /\ head'.n = 0
  BY <1>2, <1>3, <1>4, HeadCopy
<1>6. /\ \A m \in CommitPcs : At(m)' <=> m = "committed"
      /\ \A c \in Blocks : Unlocked(c) /\ Unlocked(c)'
      /\ BufferInv' /\ ControlInv'
  <2>1. "committed" \in CommitPcs
    BY DEF CommitPcs
  <2>2. cache' \in [Blocks -> Val \cup {NoVal}]
    BY <1>3 DEF LogInv, TypeOK
  <2>4. /\ pc[p] \in CommitPcs /\ pc' = [pc EXCEPT ![p] = "committed"] /\ buf' = buf
        /\ cache' \in [Blocks -> Val \cup {NoVal}]
        /\ UNCHANGED <<outstanding, committing, boot, panic>>
    BY <1>1, <1>3, <1>4, <2>1, <2>2
  <2>. QED  BY <1>1, <1>3, <1>4, <2>1, <2>2, <2>4, Phase
<1>7. TypeOK'
  <2>1. pc' \in [Procs -> {"user", "begin_op", "asleep", "in_op", "log_write",
                           "commit", "write_log", "write_head", "install_trans",
                           "erase", "committed"}]
    BY <1>3 DEF LogInv, TypeOK
  <2>. QED  BY <1>3, <1>4, <1>5, <2>1 DEF LogInv, TypeOK
<1>8. \A c \in Blocks : pin[c] = 0
  <2>1. PinStart = lh.n
    BY <1>1 DEF PinStart, CommitPcs
  <2>2. ~ \E i \in Slots : lh.n <= i /\ i < lh.n
    BY SMTT(20), <1>2 DEF Slots
  <2>. QED  BY <2>1, <2>2 DEF LogInv, CacheInv
<1>9. CacheInv'
  <2>1. ~ \E i \in Slots : PinStart' <= i /\ i < lh'.n
    BY SMTT(20), <1>1, <1>3, <1>4, <1>6 DEF PinStart, CommitPcs, Slots
  <2>. QED  BY <1>3, <1>6, <1>8, <2>1 DEF LogInv, CacheInv
<1>10. HeadInv'
  <2>1. HeaderOK(lh)' /\ HeaderOK(head)'
    BY SMTT(20), <1>4, <1>5 DEF HeaderOK, Slots
  <2>. QED  BY <1>1, <1>3, <1>5, <1>6, <2>1 DEF HeadInv, CommitPcs
<1>11. LogDataInv'
  BY <1>1, <1>3, <1>6 DEF LogDataInv, CommitPcs
<1>12. FailedInv'
  <2>1. \A c \in failed' : ~InHeader(c)'
    BY SMTT(20), <1>4 DEF InHeader, Slots
  <2>. QED  BY <1>1, <1>3, <2>1 DEF LogInv, FailedInv, Unlocked
<1>. QED  BY <1>6, <1>7, <1>9, <1>10, <1>11, <1>12 DEF LogInv
-----------------------------------------------------------------------------
(* While recover_from_log runs no process is past its first line.          *)
LEMMA Booting ==
    ASSUME LogInv, boot # "up"
    PROVE  /\ \A p \in Procs : pc[p] = "user" /\ buf[p] = NoBlock
           /\ \A l \in CommitPcs : ~At(l)
           /\ \A b \in Blocks : Unlocked(b) /\ pin[b] = 0
           /\ ~committing /\ outstanding = 0 /\ Active = {}
           /\ PinStart = lh.n /\ failed = {}
<1>1. \A p \in Procs : pc[p] = "user"
  BY DEF LogInv, ControlInv
<1>2. \A p \in Procs : buf[p] = NoBlock
  BY <1>1 DEF LogInv, BufferInv
<1>3. \A l \in CommitPcs : ~At(l)
  BY <1>1 DEF At, CommitPcs
<1>4. PinStart = lh.n
  BY <1>3 DEF PinStart, CommitPcs
<1>5. lh.n \in 0 .. LOGSIZE
  BY DEF LogInv, TypeOK
<1>6. ~ \E i \in Slots : PinStart <= i /\ i < lh.n
  BY SMTT(20), <1>4, <1>5, LogAssumption DEF Slots, LogAssumption
<1>7. \A b \in Blocks : pin[b] = 0
  BY <1>6 DEF LogInv, CacheInv
<1>8. ~committing
  BY <1>1 DEF LogInv, ControlInv, CommitPcs
<1>9. Active = {}
  BY <1>1 DEF Active
<1>10. outstanding = 0
  BY <1>9, FS_EmptySet DEF LogInv, ControlInv
<1>11. \A b \in Blocks : Unlocked(b)
  BY <1>2, LogAssumption DEF Unlocked, LogAssumption
<1>12. failed = {}
  BY DEF LogInv, FailedInv
<1>. QED  BY <1>1, <1>2, <1>3, <1>4, <1>7, <1>8, <1>9, <1>10, <1>11, <1>12

(* A step that leaves the processes alone keeps the control state.         *)
LEMMA BootStep ==
    ASSUME LogInv, boot # "up",
           UNCHANGED <<outstanding, committing, pc, buf, panic, pin, failed>>,
           boot' = "up" => lh'.n = 0,
           lh' \in [n : 0 .. LOGSIZE, block : [Slots -> Blocks \cup {NoBlock}]]
    PROVE  /\ ControlInv' /\ BufferInv' /\ FailedInv'
           /\ \A l \in CommitPcs : ~At(l)'
           /\ \A b \in Blocks : pin'[b] = 0
           /\ ~ \E i \in Slots : PinStart' <= i /\ i < lh'.n
<1>1. \A p \in Procs : pc'[p] = "user" /\ buf'[p] = NoBlock
  BY Booting
<1>2. \A l \in CommitPcs : ~At(l)'
  BY <1>1 DEF At, CommitPcs
<1>3. BufferInv'
  BY <1>1 DEF BufferInv
<1>4. ControlInv'
  <2>1. Active' = Active
    BY DEF Active
  <2>2. /\ ~committing' /\ outstanding' = Cardinality(Active')
        /\ panic' \in {"none", "too big a transaction"}
    BY <2>1, Booting DEF LogInv, ControlInv
  <2>3. \A p \in Procs : pc'[p] \notin CommitPcs
    BY <1>1 DEF CommitPcs
  <2>4. /\ ~At("committed")' /\ ~At("write_log")' /\ ~At("write_head")'
        /\ ~At("install_trans")'
    BY <1>2 DEF CommitPcs
  <2>. QED  BY <1>1, <2>2, <2>3, <2>4 DEF ControlInv
<1>5. ~ \E i \in Slots : PinStart' <= i /\ i < lh'.n
  <2>1. CASE boot' = "up"
    BY SMTT(20), <2>1, LogAssumption DEF Slots, LogAssumption
  <2>2. CASE boot' # "up"
    <3>1. PinStart' = lh'.n /\ lh'.n \in 0 .. LOGSIZE
      BY <1>2, <2>2 DEF PinStart, CommitPcs
    <3>. QED  BY SMTT(20), <3>1, LogAssumption DEF Slots, LogAssumption
  <2>. QED  BY <2>1, <2>2
<1>6. FailedInv'
  BY Booting DEF FailedInv
<1>. QED  BY <1>2, <1>3, <1>4, <1>5, <1>6, Booting

LEMMA ReadHeadInv ==
    ASSUME LogInv, read_head
    PROVE  LogInv'
<1>1. /\ boot = "read_head" /\ boot' = "install_trans"
      /\ lh' = HeadOf(head, lh)
      /\ tail' = 0
      /\ UNCHANGED <<outstanding, committing, head, logblk, home, cache, pin, failed,
                     pc, buf, wrote, panic>>
  BY DEF read_head, diskvars, cachevars, procvars
<1>2. /\ lh \in [n : 0 .. LOGSIZE, block : [Slots -> Blocks \cup {NoBlock}]]
      /\ head \in [n : 0 .. LOGSIZE, block : [Slots -> Blocks \cup {NoBlock}]]
      /\ HeaderOK(head)
  BY DEF LogInv, TypeOK, HeadInv
<1>3. /\ lh' \in [n : 0 .. LOGSIZE, block : [Slots -> Blocks \cup {NoBlock}]]
      /\ lh'.n = head.n
      /\ \A i \in Slots : i < head.n => lh'.block[i] = head.block[i]
      /\ HeaderOK(lh')
  BY <1>1, <1>2, HeadCopy
<1>4. /\ ControlInv' /\ BufferInv' /\ FailedInv'
      /\ \A l \in CommitPcs : ~At(l)'
      /\ \A b \in Blocks : pin'[b] = 0
      /\ ~ \E i \in Slots : PinStart' <= i /\ i < lh'.n
  BY <1>1, <1>3, BootStep
<1>5. TypeOK'
  <2>1. tail' \in 0 .. LOGSIZE
    BY SMTT(20), <1>1, LogAssumption DEF LogAssumption
  <2>. QED  BY <1>1, <1>3, <2>1 DEF LogInv, TypeOK
<1>6. \A b \in Blocks : cache[b] = NoVal
  BY <1>1 DEF LogInv, HeadInv
<1>7. CacheInv'
  BY SMTT(20), <1>1, <1>4, <1>6 DEF CacheInv
<1>8. HeadInv'
  BY <1>1, <1>2, <1>3, <1>4 DEF HeadInv, HeaderOK, CommitPcs
<1>9. LogDataInv'
  BY SMTT(20), <1>1, <1>3, <1>4 DEF LogDataInv, CommitPcs, Slots
<1>. QED  BY <1>4, <1>5, <1>7, <1>8, <1>9 DEF LogInv

LEMMA RecoverInstallInv ==
    ASSUME LogInv, recover_install
    PROVE  LogInv'
<1>. DEFINE b == lh.block[tail]
<1>1. /\ boot = "install_trans" /\ tail < lh.n
      /\ cache' = [cache EXCEPT ![b] = logblk[tail]]
      /\ home' = [home EXCEPT ![b] = logblk[tail]]
      /\ tail' = tail + 1
      /\ UNCHANGED <<lh, outstanding, committing, head, logblk, pin, failed, pc, buf,
                     wrote, boot, panic>>
  BY DEF recover_install, logvars, procvars
<1>2. /\ lh.n \in 0 .. LOGSIZE /\ tail \in Slots
      /\ b \in Blocks
      /\ \A i \in Slots : i < lh.n /\ i # tail => lh.block[i] # b
  BY <1>1, Entry
<1>3. /\ logblk \in [Slots -> Val]
      /\ home \in [Blocks -> Val] /\ cache \in [Blocks -> Val \cup {NoVal}]
      /\ lh \in [n : 0 .. LOGSIZE, block : [Slots -> Blocks \cup {NoBlock}]]
  BY DEF LogInv, TypeOK
<1>4. /\ ControlInv' /\ BufferInv' /\ FailedInv'
      /\ \A l \in CommitPcs : ~At(l)'
      /\ \A c \in Blocks : pin'[c] = 0
      /\ ~ \E i \in Slots : PinStart' <= i /\ i < lh'.n
  BY <1>1, <1>3, BootStep
<1>5. TypeOK'
  <2>1. tail' \in 0 .. LOGSIZE
    BY SMTT(20), <1>1, <1>2, LogAssumption DEF LogAssumption, Slots
  <2>2. /\ home' \in [Blocks -> Val]
        /\ cache' \in [Blocks -> Val \cup {NoVal}]
    BY <1>1, <1>2, <1>3
  <2>3. UNCHANGED <<lh, outstanding, committing, head, logblk, pin, failed, pc, buf,
                    wrote, boot, panic>>
    BY <1>1
  <2>. QED  BY <2>1, <2>2, <2>3 DEF LogInv, TypeOK
<1>6. CacheInv'
  <2>1. \A c \in Blocks : cache[c] # NoVal => cache[c] = home[c]
    BY <1>1, Booting DEF LogInv, CacheInv
  <2>2. \A c \in Blocks : cache'[c] # NoVal => cache'[c] = home'[c]
    BY <1>1, <1>2, <1>3, <2>1
  <2>. QED  BY SMTT(20), <1>4, <2>2 DEF CacheInv
<1>7. HeadInv'
  BY <1>1, <1>4 DEF LogInv, HeadInv, HeaderOK, CommitPcs
<1>8. LogDataInv'
  <2>1. \A i \in Slots : i < tail => home[lh.block[i]] = logblk[i]
    BY <1>1 DEF LogInv, LogDataInv
  <2>2. \A i \in Slots : i < tail' => i < lh.n /\ (i < tail \/ i = tail)
    BY SMTT(20), <1>1, <1>2 DEF Slots
  <2>3. \A i \in Slots : i < lh.n => lh.block[i] \in Blocks
    BY DEF LogInv, HeadInv, HeaderOK
  <2>4. \A i \in Slots : i < tail' => home'[lh.block[i]] = logblk[i]
    BY <1>1, <1>2, <1>3, <2>1, <2>2, <2>3
  <2>5. tail' <= lh.n
    BY SMTT(20), <1>1, <1>2 DEF Slots
  <2>. QED  BY <1>1, <1>4, <2>4, <2>5 DEF LogDataInv, CommitPcs
<1>. QED  BY <1>4, <1>5, <1>6, <1>7, <1>8 DEF LogInv

LEMMA RecoverEraseInv ==
    ASSUME LogInv, recover_erase
    PROVE  LogInv'
<1>1. /\ boot = "install_trans" /\ boot' = "up"
      /\ lh' = [lh EXCEPT !.n = 0]
      /\ head' = HeadOf(lh', head)
      /\ UNCHANGED <<outstanding, committing, logblk, home, cache, pin, failed, pc,
                     buf, wrote, tail, panic>>
  BY DEF recover_erase, cachevars, procvars
<1>2. /\ lh \in [n : 0 .. LOGSIZE, block : [Slots -> Blocks \cup {NoBlock}]]
      /\ head \in [n : 0 .. LOGSIZE, block : [Slots -> Blocks \cup {NoBlock}]]
  BY DEF LogInv, TypeOK
<1>3. /\ lh' \in [n : 0 .. LOGSIZE, block : [Slots -> Blocks \cup {NoBlock}]]
      /\ lh'.n = 0
  BY SMTT(20), <1>1, <1>2, LogAssumption DEF LogAssumption
<1>4. /\ head' \in [n : 0 .. LOGSIZE, block : [Slots -> Blocks \cup {NoBlock}]]
      /\ head'.n = 0
  BY <1>1, <1>2, <1>3, HeadCopy
<1>5. /\ ControlInv' /\ BufferInv' /\ FailedInv'
      /\ \A l \in CommitPcs : ~At(l)'
      /\ \A b \in Blocks : pin'[b] = 0
      /\ ~ \E i \in Slots : PinStart' <= i /\ i < lh'.n
  BY <1>1, <1>3, BootStep
<1>6. TypeOK'
  BY <1>1, <1>3, <1>4 DEF LogInv, TypeOK
<1>7. CacheInv'
  BY <1>1, <1>5, Booting DEF LogInv, CacheInv
<1>8. HeadInv'
  <2>1. HeaderOK(lh)' /\ HeaderOK(head)'
    BY SMTT(20), <1>3, <1>4 DEF HeaderOK, Slots
  <2>. QED  BY <1>1, <1>4, <1>5, <2>1 DEF HeadInv, CommitPcs
<1>9. LogDataInv'
  BY <1>1, <1>5 DEF LogDataInv, CommitPcs
<1>. QED  BY <1>5, <1>6, <1>7, <1>8, <1>9 DEF LogInv

-----------------------------------------------------------------------------
(* While commit() copies to the log, all of the transaction is pinned.     *)
LEMMA Logged ==
    ASSUME LogInv
    PROVE  /\ At("write_log") \/ At("write_head") => PinStart = 0
           /\ At("write_log") => \A i \in Slots : i < tail => i < lh.n
<1>1. ASSUME NEW l \in {"write_log", "write_head"}, At(l)
      PROVE  PinStart = 0
  <2>1. boot = "up" /\ ~At("install_trans") /\ ~At("erase")
    BY <1>1, Together DEF CommitPcs
  <2>. QED  BY <2>1 DEF PinStart
<1>2. ASSUME At("write_log"), NEW i \in Slots, i < tail
      PROVE  i < lh.n
  <2>1. tail < lh.n
    BY <1>2 DEF LogInv, ControlInv
  <2>2. lh.n \in 0 .. LOGSIZE /\ tail \in 0 .. LOGSIZE
    BY DEF LogInv, TypeOK
  <2>. QED  BY SMTT(20), <1>2, <2>1, <2>2 DEF Slots
<1>. QED  BY <1>1, <1>2

LEMMA RecycleInv ==
    ASSUME LogInv, NEW b \in Blocks, recycle(b)
    PROVE  LogInv'
<1>1. /\ pin[b] = 0 /\ Unlocked(b)
      /\ cache' = [cache EXCEPT ![b] = NoVal]
      /\ failed' = failed \ {b}
      /\ UNCHANGED <<lh, outstanding, committing, head, logblk, home, pin, pc, buf,
                     wrote, tail, boot, panic>>
  BY DEF recycle, logvars, diskvars, procvars
<1>2. cache \in [Blocks -> Val \cup {NoVal}] /\ lh.n \in 0 .. LOGSIZE
  BY DEF LogInv, TypeOK
<1>3. \A c \in Blocks : c # b => cache'[c] = cache[c]
  BY <1>1, <1>2
<1>4. \A l : At(l)' <=> At(l)
  BY <1>1 DEF At
<1>5. PinStart' = PinStart
  BY <1>1, <1>4 DEF PinStart
<1>6. TypeOK'
  <2>1. cache' \in [Blocks -> Val \cup {NoVal}]
    BY <1>1, <1>2
  <2>. QED  BY <1>1, <2>1 DEF LogInv, TypeOK
<1>7. ControlInv'
  <2>1. Active' = Active
    BY <1>1 DEF Active
  <2>. QED  BY <1>1, <1>4, <2>1 DEF LogInv, ControlInv
<1>8. BufferInv'
  <2>1. BufferInv
    BY DEF LogInv
  <2>2. \A p \in Procs : buf[p] # b /\ (buf[p] # NoBlock => buf[p] \in Blocks)
    BY <1>1 DEF LogInv, TypeOK, Unlocked
  <2>3. buf' = buf /\ pc' = pc
    BY <1>1
  <2>4. \A p \in Procs : buf[p] # NoBlock => cache'[buf[p]] # NoVal
    BY <1>3, <2>1, <2>2 DEF BufferInv
  <2>. QED  BY <2>1, <2>3, <2>4 DEF BufferInv
<1>9. CacheInv'
  <2>1. \A c \in Blocks :
          pin'[c] = IF \E i \in Slots : PinStart' <= i /\ i < lh'.n /\ lh'.block[i] = c
                    THEN 1 ELSE 0
    BY <1>1, <1>5 DEF LogInv, CacheInv
  <2>2. /\ \A c \in Blocks : pin[c] > 0 => cache[c] # NoVal
        /\ \A c \in Blocks : cache[c] # NoVal /\ pin[c] = 0 /\ Unlocked(c)
                              /\ c \notin failed => cache[c] = home[c]
    BY DEF LogInv, CacheInv
  <2>3. /\ pin' = pin /\ home' = home /\ cache'[b] = NoVal
        /\ \A c \in Blocks : Unlocked(c)' <=> Unlocked(c)
    BY <1>1, <1>2 DEF Unlocked
  <2>4. \A c \in Blocks : pin'[c] > 0 => cache'[c] # NoVal
    BY SMTT(20), <1>1, <1>3, <2>2, <2>3
  <2>5. \A c \in Blocks : cache'[c] # NoVal /\ pin'[c] = 0 /\ Unlocked(c)'
                           /\ c \notin failed' => cache'[c] = home'[c]
    BY <1>1, <1>3, <2>2, <2>3
  <2>. QED  BY <2>1, <2>4, <2>5 DEF CacheInv
<1>10. HeadInv'
  BY <1>1, <1>2, <1>4 DEF LogInv, HeadInv, HeaderOK
<1>11. \A i \in Slots : PinStart <= i /\ i < lh.n =>
         cache'[lh.block[i]] = cache[lh.block[i]]
  <2>1. \A i \in Slots : i < lh.n => lh.block[i] \in Blocks
    BY DEF LogInv, HeadInv, HeaderOK
  <2>2. \A i \in Slots : PinStart <= i /\ i < lh.n => pin[lh.block[i]] = 1
    BY <2>1 DEF LogInv, CacheInv
  <2>. QED  BY SMTT(20), <1>1, <1>3, <2>1, <2>2
<1>12. LogDataInv'
  <2>1. At("write_log") \/ At("write_head") => PinStart = 0
    BY Logged
  <2>2. At("install_trans") => PinStart = tail
    BY DEF PinStart
  <2>3. \A i \in Slots : 0 <= i
    BY SMTT(20) DEF Slots
  <2>4. At("write_log") => \A i \in Slots : i < tail => i < lh.n
    BY Logged
  <2>5. At("write_log") => \A i \in Slots :
          i < tail => logblk[i] = cache'[lh.block[i]]
    BY <1>11, <2>1, <2>3, <2>4 DEF LogInv, LogDataInv
  <2>6. At("write_head") => \A i \in Slots :
          i < lh.n => logblk[i] = cache'[lh.block[i]]
    BY <1>11, <2>1, <2>3 DEF LogInv, LogDataInv
  <2>7. At("install_trans") => \A i \in Slots :
          tail <= i /\ i < lh.n => logblk[i] = cache'[lh.block[i]]
    BY <1>11, <2>2 DEF LogInv, LogDataInv
  <2>. QED  BY <1>1, <1>4, <2>5, <2>6, <2>7 DEF LogInv, LogDataInv
<1>13. FailedInv'
  <2>1. \A c \in failed' : c \in failed /\ c \in Blocks /\ cache'[c] = cache[c]
    BY <1>1, <1>3, LogAssumption DEF LogInv, TypeOK, LogAssumption
  <2>. QED  BY <1>1, <2>1 DEF LogInv, FailedInv, InHeader, Unlocked
<1>. QED  BY <1>6, <1>7, <1>8, <1>9, <1>10, <1>12, <1>13 DEF LogInv

LEMMA BreadInv ==
    ASSUME LogInv, NEW b \in Blocks, bread(b)
    PROVE  LogInv'
<1>1. /\ boot = "up" /\ cache[b] = NoVal
      /\ cache' = [cache EXCEPT ![b] = home[b]]
      /\ UNCHANGED <<lh, outstanding, committing, head, logblk, home, pin, failed, pc,
                     buf, wrote, tail, boot, panic>>
  BY DEF bread, logvars, diskvars, procvars
<1>2. /\ cache \in [Blocks -> Val \cup {NoVal}] /\ home \in [Blocks -> Val]
      /\ lh.n \in 0 .. LOGSIZE /\ pin \in [Blocks -> Nat]
  BY DEF LogInv, TypeOK
<1>3. /\ \A c \in Blocks : c # b => cache'[c] = cache[c]
      /\ cache'[b] = home[b] /\ home[b] # NoVal
  BY <1>1, <1>2, LogAssumption DEF LogAssumption
<1>4. \A l : At(l)' <=> At(l)
  BY <1>1 DEF At
<1>5. PinStart' = PinStart
  BY <1>1, <1>4 DEF PinStart
<1>6. TypeOK'
  <2>1. cache' \in [Blocks -> Val \cup {NoVal}]
    BY <1>1, <1>2
  <2>. QED  BY <1>1, <2>1 DEF LogInv, TypeOK
<1>7. ControlInv'
  <2>1. Active' = Active
    BY <1>1 DEF Active
  <2>. QED  BY <1>1, <1>4, <2>1 DEF LogInv, ControlInv
<1>8. BufferInv'
  BY <1>1, <1>3 DEF LogInv, TypeOK, BufferInv
<1>9. CacheInv'
  <2>1. \A c \in Blocks :
          pin'[c] = IF \E i \in Slots : PinStart' <= i /\ i < lh'.n /\ lh'.block[i] = c
                    THEN 1 ELSE 0
    BY <1>1, <1>5 DEF LogInv, CacheInv
  <2>2. /\ \A c \in Blocks : pin[c] > 0 => cache[c] # NoVal
        /\ \A c \in Blocks : cache[c] # NoVal /\ pin[c] = 0 /\ Unlocked(c)
                              /\ c \notin failed => cache[c] = home[c]
    BY DEF LogInv, CacheInv
  <2>3. /\ pin' = pin /\ home' = home /\ cache'[b] = home[b]
        /\ \A c \in Blocks : Unlocked(c)' <=> Unlocked(c)
    BY <1>1, <1>2 DEF Unlocked
  <2>4. \A c \in Blocks : pin'[c] > 0 => cache'[c] # NoVal
    BY <1>1, <1>3, <2>2, <2>3
  <2>5. \A c \in Blocks : cache'[c] # NoVal /\ pin'[c] = 0 /\ Unlocked(c)'
                           /\ c \notin failed' => cache'[c] = home'[c]
    BY <1>1, <1>3, <2>2, <2>3
  <2>. QED  BY <2>1, <2>4, <2>5 DEF CacheInv
<1>10. HeadInv'
  BY <1>1, <1>4 DEF LogInv, HeadInv, HeaderOK
<1>11. \A i \in Slots : PinStart <= i /\ i < lh.n =>
         cache'[lh.block[i]] = cache[lh.block[i]]
  <2>1. \A i \in Slots : i < lh.n => lh.block[i] \in Blocks
    BY DEF LogInv, HeadInv, HeaderOK
  <2>2. \A i \in Slots : PinStart <= i /\ i < lh.n => cache[lh.block[i]] # NoVal
    <3>1. \A i \in Slots : PinStart <= i /\ i < lh.n => pin[lh.block[i]] = 1
      BY <2>1 DEF LogInv, CacheInv
    <3>. QED  BY SMTT(20), <2>1, <3>1 DEF LogInv, CacheInv
  <2>. QED  BY <1>1, <1>3, <2>1, <2>2
<1>12. LogDataInv'
  <2>1. At("write_log") \/ At("write_head") => PinStart = 0
    BY Logged
  <2>2. At("install_trans") => PinStart = tail
    BY DEF PinStart
  <2>3. \A i \in Slots : 0 <= i
    BY SMTT(20) DEF Slots
  <2>4. At("write_log") => \A i \in Slots : i < tail => i < lh.n
    BY Logged
  <2>5. At("write_log") => \A i \in Slots :
          i < tail => logblk[i] = cache'[lh.block[i]]
    BY <1>11, <2>1, <2>3, <2>4 DEF LogInv, LogDataInv
  <2>6. At("write_head") => \A i \in Slots :
          i < lh.n => logblk[i] = cache'[lh.block[i]]
    BY <1>11, <2>1, <2>3 DEF LogInv, LogDataInv
  <2>7. At("install_trans") => \A i \in Slots :
          tail <= i /\ i < lh.n => logblk[i] = cache'[lh.block[i]]
    BY <1>11, <2>2 DEF LogInv, LogDataInv
  <2>. QED  BY <1>1, <1>4, <2>5, <2>6, <2>7 DEF LogInv, LogDataInv
<1>13. FailedInv'
  <2>1. \A c \in failed : c \in Blocks /\ cache'[c] = cache[c]
    BY <1>1, <1>3, LogAssumption DEF LogInv, TypeOK, FailedInv, LogAssumption
  <2>. QED  BY <1>1, <2>1 DEF LogInv, FailedInv, InHeader, Unlocked
<1>. QED  BY <1>6, <1>7, <1>8, <1>9, <1>10, <1>12, <1>13 DEF LogInv

(* A crash tears at most the block being written, and the block number     *)
(* the interrupted loop was at is one the header names.                    *)
LEMMA TornBlocks ==
    ASSUME LogInv, Torn
    PROVE  /\ logblk' \in [Slots -> Val] /\ home' \in [Blocks -> Val]
           /\ (logblk' = logblk /\ home' = home)
              \/ (At("write_log") /\ home' = home)
              \/ (/\ At("install_trans") \/ boot = "install_trans"
                  /\ tail < lh.n /\ logblk' = logblk
                  /\ \A b \in Blocks : b # lh.block[tail] => home'[b] = home[b])
<1>1. logblk \in [Slots -> Val] /\ home \in [Blocks -> Val]
  BY DEF LogInv, TypeOK
<1>2. CASE UNCHANGED <<logblk, home>>
  BY <1>1, <1>2
<1>3. CASE /\ At("write_log")
           /\ \E v \in Val : logblk' = [logblk EXCEPT ![tail] = v]
           /\ UNCHANGED home
  BY <1>1, <1>3
<1>4. CASE /\ At("install_trans") \/ (boot = "install_trans" /\ tail < lh.n)
           /\ \E v \in Val : home' = [home EXCEPT ![lh.block[tail]] = v]
           /\ UNCHANGED logblk
  <2>1. tail < lh.n
    BY <1>4 DEF LogInv, ControlInv
  <2>2. lh.block[tail] \in Blocks
    BY <2>1, Entry
  <2>3. PICK v \in Val : home' = [home EXCEPT ![lh.block[tail]] = v]
    BY <1>4
  <2>4. /\ home' \in [Blocks -> Val]
        /\ \A b \in Blocks : b # lh.block[tail] => home'[b] = home[b]
    BY <1>1, <2>2, <2>3
  <2>. QED  BY <1>1, <1>4, <2>1, <2>4
<1>. QED  BY <1>2, <1>3, <1>4 DEF Torn, At

LEMMA CrashInv ==
    ASSUME LogInv, Crash
    PROVE  LogInv'
<1>. USE LogAssumption DEF LogAssumption
<1>1. /\ lh' = ZeroHead /\ outstanding' = 0 /\ committing' = FALSE
      /\ cache' = [b \in Blocks |-> NoVal] /\ pin' = [b \in Blocks |-> 0]
      /\ failed' = {}
      /\ pc' = [p \in Procs |-> "user"] /\ buf' = [p \in Procs |-> NoBlock]
      /\ wrote' = [p \in Procs |-> {}]
      /\ tail' = 0 /\ boot' = "read_head" /\ panic' = "none" /\ head' = head
  BY DEF Crash
<1>2. logblk' \in [Slots -> Val] /\ home' \in [Blocks -> Val]
  BY TornBlocks DEF Crash
<1>3. ZeroHead \in [n : 0 .. LOGSIZE, block : [Slots -> Blocks \cup {NoBlock}]]
      /\ ZeroHead.n = 0
  <2>1. 0 \in 0 .. LOGSIZE
    BY SMTT(20)
  <2>2. [i \in Slots |-> NoBlock] \in [Slots -> Blocks \cup {NoBlock}]
    OBVIOUS
  <2>. QED  BY <2>1, <2>2 DEF ZeroHead
<1>4. TypeOK'
  <2>1. /\ cache' \in [Blocks -> Val \cup {NoVal}] /\ pin' \in [Blocks -> Nat]
        /\ buf' \in [Procs -> Blocks \cup {NoBlock}]
        /\ wrote' \in [Procs -> SUBSET Blocks]
        /\ failed' \subseteq DataBlocks
    BY <1>1
  <2>2. pc' \in [Procs -> {"user"}]
    BY <1>1
  <2>3. head' \in [n : 0 .. LOGSIZE, block : [Slots -> Blocks \cup {NoBlock}]]
    BY <1>1 DEF LogInv, TypeOK
  <2>4. lh' \in [n : 0 .. LOGSIZE, block : [Slots -> Blocks \cup {NoBlock}]]
    BY <1>1, <1>3
  <2>5. /\ outstanding' \in Nat /\ tail' \in 0 .. LOGSIZE /\ boot' = "read_head"
        /\ panic' = "none"
    BY SMTT(20), <1>1
  <2>6. committing' \in BOOLEAN
    BY <1>1
  <2>. QED  BY <1>2, <2>1, <2>2, <2>3, <2>4, <2>5, <2>6 DEF TypeOK
<1>5. Active' = {} /\ \A l \in CommitPcs : ~At(l)'
  BY <1>1 DEF Active, At, CommitPcs
<1>6. ControlInv'
  <2>1. \A p \in Procs : pc'[p] = "user" /\ pc'[p] \notin CommitPcs
    BY <1>1 DEF CommitPcs
  <2>2. /\ ~At("committed")' /\ ~At("write_log")' /\ ~At("write_head")'
        /\ ~At("install_trans")'
    BY <1>5 DEF CommitPcs
  <2>. QED  BY <1>1, <1>5, <2>1, <2>2, FS_EmptySet DEF ControlInv
<1>7. BufferInv'
  BY <1>1 DEF BufferInv
<1>8. CacheInv'
  BY SMTT(20), <1>1, <1>3 DEF CacheInv, Slots
<1>9. HeadInv'
  <2>1. HeaderOK(lh)'
    BY SMTT(20), <1>1, <1>3 DEF HeaderOK, Slots
  <2>2. HeaderOK(head)'
    BY <1>1 DEF LogInv, HeadInv, HeaderOK
  <2>. QED  BY <1>1, <1>3, <1>5, <2>1, <2>2 DEF HeadInv, CommitPcs
<1>10. LogDataInv'
  BY <1>1, <1>5 DEF LogDataInv, CommitPcs
<1>11. FailedInv'
  BY <1>1 DEF FailedInv
<1>. QED  BY <1>4, <1>6, <1>7, <1>8, <1>9, <1>10, <1>11 DEF LogInv

LEMMA StutterInv ==
    ASSUME LogInv, UNCHANGED vars
    PROVE  LogInv'
<1>1. UNCHANGED <<lh, outstanding, committing, head, logblk, home, cache, pin, failed,
                  pc, buf, wrote, tail, boot, panic>>
  BY DEF vars, logvars, diskvars, cachevars, procvars
<1>2. TypeOK'
  BY <1>1 DEF LogInv, TypeOK
<1>3. Active' = Active /\ \A l : At(l)' <=> At(l)
  BY <1>1 DEF Active, At
<1>4. ControlInv'
  BY <1>1, <1>3 DEF LogInv, ControlInv
<1>5. BufferInv'
  BY <1>1 DEF LogInv, BufferInv
<1>6. CacheInv' /\ FailedInv' /\ HeadInv' /\ LogDataInv'
  BY <1>1, <1>3, Frame
<1>. QED  BY <1>2, <1>4, <1>5, <1>6 DEF LogInv

(* Every step of Log keeps LogInv.                                         *)
LEMMA NextInv == LogInv /\ [Next]_vars => LogInv'
<1>. SUFFICES ASSUME LogInv, [Next]_vars PROVE LogInv'
  OBVIOUS
<1>1. ASSUME NEW p \in Procs, Operation(p) PROVE LogInv'
  BY <1>1, BeginInv, ModifyInv, LogWriteInv, CopyFailedInv, EndOpInv DEF Operation
<1>2. ASSUME NEW p \in Procs, Commit(p) PROVE LogInv'
  BY <1>2, CommitInv, WriteLogInv, WriteHeadInv, InstallInv, EraseInv, EndCommitInv
     DEF Commit
<1>3. CASE Recover
  BY <1>3, ReadHeadInv, RecoverInstallInv, RecoverEraseInv DEF Recover
<1>4. ASSUME NEW b \in Blocks, recycle(b) \/ bread(b) PROVE LogInv'
  BY <1>4, RecycleInv, BreadInv
<1>. QED  BY <1>1, <1>2, <1>3, <1>4, CrashInv, StutterInv DEF Next

(* The phases of commit(), recover_from_log() and the operations leave the  *)
(* header, log, home and cached blocks as LogInv says, whatever write a    *)
(* crash interrupts and whatever copy from user memory fails.              *)
THEOREM LogInvariant == Spec => []LogInv
<1>1. Init => LogInv
  BY InitInv
<1>2. LogInv /\ [Next]_vars => LogInv'
  BY NextInv
<1>. QED  BY <1>1, <1>2, PTL DEF Spec

(* The variables of log.c keep their types; in particular bpin and bunpin  *)
(* balance and the loops stay inside the header.                           *)
THEOREM LogTypes == Spec => []TypeOK
  BY LogInvariant, PTL DEF LogInv

-----------------------------------------------------------------------------
(* begin_op puts a process to sleep only while someone will wake it.       *)
LEMMA BeginWaker ==
    ASSUME LogInv, SleeperHasWaker, NEW p \in Procs, begin_op(p)
    PROVE  SleeperHasWaker'
<1>1. pc \in [Procs -> {"user", "begin_op", "asleep", "in_op", "log_write",
                       "commit", "write_log", "write_head", "install_trans",
                       "erase", "committed"}]
      /\ outstanding \in Nat
  BY DEF LogInv, TypeOK
<1>2. committing' = committing
  BY DEF begin_op
<1>3. CASE /\ committing \/ lh.n + (outstanding + 1) * MAXOPBLOCKS > LOGSIZE
           /\ outstanding' = outstanding
  <2>1. ASSUME ~committing, outstanding = 0 PROVE FALSE
    <3>1. lh.n = 0
      BY <2>1 DEF begin_op, LogInv, ControlInv
    <3>2. 0 + (0 + 1) * MAXOPBLOCKS > LOGSIZE
      BY <1>3, <2>1, <3>1
    <3>. QED  BY SMTT(20), <3>2, LogAssumption DEF LogAssumption
  <2>. QED  BY SMTT(20), <1>1, <1>2, <1>3, <2>1 DEF SleeperHasWaker
<1>4. CASE outstanding' = outstanding + 1
  BY SMTT(20), <1>1, <1>4 DEF SleeperHasWaker
<1>. QED  BY <1>3, <1>4 DEF begin_op, MustWait

LEMMA NextWaker ==
    LogInv /\ SleeperHasWaker /\ [Next]_vars => SleeperHasWaker'
<1>. SUFFICES ASSUME LogInv, SleeperHasWaker, [Next]_vars PROVE SleeperHasWaker'
  OBVIOUS
<1>1. pc \in [Procs -> {"user", "begin_op", "asleep", "in_op", "log_write",
                       "commit", "write_log", "write_head", "install_trans",
                       "erase", "committed"}]
  BY DEF LogInv, TypeOK
<1>2. ASSUME UNCHANGED <<outstanding, committing>>,
             \A q \in Procs : pc'[q] = "asleep" => pc[q] = "asleep"
      PROVE  SleeperHasWaker'
  BY <1>2 DEF SleeperHasWaker
<1>3. ASSUME \A q \in Procs : pc'[q] # "asleep" PROVE SleeperHasWaker'
  BY <1>3 DEF SleeperHasWaker
<1>4. ASSUME NEW p \in Procs, Operation(p) PROVE SleeperHasWaker'
  <2>1. CASE begin_op(p)
    BY <2>1, BeginWaker
  <2>2. CASE \E b \in Blocks, v \in Val : modify(p, b, v)
    BY <1>1, <1>2, <2>2 DEF modify, logvars
  <2>3. CASE log_write(p)
    BY <1>1, <1>2, <2>3 DEF log_write
  <2>5. CASE copy_failed(p)
    BY <1>1, <1>2, <2>5 DEF copy_failed, logvars
  <2>4. CASE end_op(p)
    <3>1. ~committing
      BY <2>4, InOp DEF end_op
    <3>2. CASE committing'
      BY <3>2 DEF SleeperHasWaker
    <3>3. CASE WakeLog(p, "user")
      BY <1>3, <3>3 DEF WakeLog
    <3>. QED  BY <2>4, <3>1, <3>2, <3>3 DEF end_op
  <2>. QED  BY <1>4, <2>1, <2>2, <2>3, <2>4, <2>5 DEF Operation
<1>5. ASSUME NEW p \in Procs, Commit(p) PROVE SleeperHasWaker'
  <2>1. CASE end_commit(p)
    BY <1>3, <2>1 DEF end_commit, WakeLog
  <2>2. CASE ~end_commit(p)
    BY <1>1, <1>2, <1>5, <2>2
       DEF Commit, commit, write_log, write_head, install_trans, erase, logvars
  <2>. QED  BY <2>1, <2>2
<1>6. CASE Recover
  BY <1>2, <1>6 DEF Recover, read_head, recover_install, recover_erase, logvars,
                    procvars
<1>7. ASSUME NEW b \in Blocks, recycle(b) \/ bread(b) PROVE SleeperHasWaker'
  BY <1>2, <1>7 DEF recycle, bread, logvars, procvars
<1>8. CASE Crash
  BY <1>3, <1>8 DEF Crash
<1>9. CASE UNCHANGED vars
  BY <1>2, <1>9 DEF vars, logvars, procvars
<1>. QED  BY <1>4, <1>5, <1>6, <1>7, <1>8, <1>9 DEF Next

(* begin_op:131-136: nobody sleeps on &log once the last operation and the *)
(* last commit, the only callers of wakeup(&log), are over.                *)
THEOREM NoOrphanSleeper == Spec => []SleeperHasWaker
<1>1. Init => SleeperHasWaker
  BY DEF Init, SleeperHasWaker
<1>. QED  BY <1>1, NextWaker, LogInvariant, PTL DEF Spec
-----------------------------------------------------------------------------
(* Log implements AtomicStore: each step of Log is one step of AtomicStore,*)
(* or none, under the mapping Recovered, Current, Active, failed.          *)

\* Some entry of the on-disk header names b.
Named(b) == \E i \in Slots : i < head.n /\ head.block[i] = b

(* The image after recovery: log blocks where the header says so, home     *)
(* blocks elsewhere.                                                       *)
LEMMA RecoveredAt ==
    ASSUME HeaderOK(head)
    PROVE  /\ \A i \in Slots : i < head.n => Recovered[head.block[i]] = logblk[i]
           /\ \A b \in Blocks : ~Named(b) => Recovered[b] = home[b]
<1>1. ASSUME NEW i \in Slots, i < head.n
      PROVE  Recovered[head.block[i]] = logblk[i]
  <2>. DEFINE b == head.block[i]
              P(j) == j < head.n /\ head.block[j] = b
  <2>1. b \in Blocks /\ P(i)
    BY <1>1 DEF HeaderOK
  <2>2. \A j \in Slots : P(j) => j = i
    BY <1>1 DEF HeaderOK
  <2>3. (CHOOSE j \in Slots : P(j)) = i
    BY <1>1, <2>1, <2>2
  <2>4. Recovered[b] = logblk[CHOOSE j \in Slots : P(j)]
    BY <1>1, <2>1 DEF Recovered
  <2>. QED  BY <2>3, <2>4
<1>2. ASSUME NEW b \in Blocks, ~Named(b)
      PROVE  Recovered[b] = home[b]
  BY <1>2 DEF Recovered, Named
<1>. QED  BY <1>1, <1>2

(* The same of the next state.                                             *)
LEMMA RecoveredNext ==
    ASSUME HeaderOK(head')
    PROVE  /\ \A i \in Slots : i < head'.n => Recovered'[head'.block[i]] = logblk'[i]
           /\ \A b \in Blocks : ~Named(b)' => Recovered'[b] = home'[b]
<1>1. ASSUME NEW i \in Slots, i < head'.n
      PROVE  Recovered'[head'.block[i]] = logblk'[i]
  <2>. DEFINE b == head'.block[i]
              P(j) == j < head'.n /\ head'.block[j] = b
  <2>1. b \in Blocks /\ P(i)
    BY <1>1 DEF HeaderOK
  <2>2. \A j \in Slots : P(j) => j = i
    BY <1>1 DEF HeaderOK
  <2>3. (CHOOSE j \in Slots : P(j)) = i
    BY <1>1, <2>1, <2>2
  <2>4. Recovered'[b] = logblk'[CHOOSE j \in Slots : P(j)]
    BY <1>1, <2>1 DEF Recovered
  <2>. QED  BY <2>3, <2>4
<1>2. ASSUME NEW b \in Blocks, ~Named(b)'
      PROVE  Recovered'[b] = home'[b]
  BY <1>2 DEF Recovered, Named
<1>. QED  BY <1>1, <1>2

(* Two images are equal when they agree on every block.                    *)
LEMMA SameImage ==
    ASSUME NEW f, NEW g, f = [b \in Blocks |-> f[b]], g = [b \in Blocks |-> g[b]],
           \A b \in Blocks : f[b] = g[b]
    PROVE  f = g
<1>1. [b \in Blocks |-> f[b]] = [b \in Blocks |-> g[b]]
  OBVIOUS
<1>. QED  BY <1>1

LEMMA RecoveredFcn ==
    /\ Recovered = [b \in Blocks |-> Recovered[b]]
    /\ Recovered' = [b \in Blocks |-> Recovered'[b]]
  BY DEF Recovered

(* A step that leaves the header alone, and of the log and home blocks     *)
(* only touches those recovery does not read, keeps the recovered image.   *)
LEMMA SameRecovered ==
    ASSUME HeaderOK(head), head' = head,
           \A i \in Slots : i < head.n => logblk'[i] = logblk[i],
           \A b \in Blocks : ~Named(b) => home'[b] = home[b]
    PROVE  Recovered' = Recovered
<1>1. HeaderOK(head')
  OBVIOUS
<1>2. \A b \in Blocks : Named(b)' <=> Named(b)
  BY DEF Named
<1>3. ASSUME NEW b \in Blocks PROVE Recovered'[b] = Recovered[b]
  <2>1. CASE Named(b)
    <3>1. PICK i \in Slots : i < head.n /\ head.block[i] = b
      BY <2>1 DEF Named
    <3>. QED  BY <1>1, <3>1, RecoveredAt, RecoveredNext
  <2>2. CASE ~Named(b)
    BY <1>1, <1>2, <2>2, RecoveredAt, RecoveredNext
  <2>. QED  BY <2>1, <2>2
<1>. QED  BY <1>3, RecoveredFcn, SameImage

(* What a reader of block b sees changes only with its buffer or its home. *)
LEMMA SameCurrent ==
    ASSUME boot' = boot, boot = "up" => \A b \in Blocks : View(b)' = View(b),
           Recovered' = Recovered
    PROVE  Current' = Current
<1>1. CASE boot = "up"
  <2>1. [b \in Blocks |-> View(b)]' = [b \in Blocks |-> View(b)]
    BY <1>1
  <2>. QED  BY <1>1, <2>1 DEF Current
<1>2. CASE boot # "up"
  BY <1>2 DEF Current
<1>. QED  BY <1>1, <1>2

(* Where the on-disk header is empty, recovery changes nothing.            *)
LEMMA NoneNamed ==
    ASSUME LogInv, boot = "up", ~At("install_trans"), ~At("erase")
    PROVE  /\ head.n = 0 /\ HeaderOK(head)
           /\ \A i \in Slots : ~(i < head.n)
           /\ \A b \in Blocks : ~Named(b) /\ Recovered[b] = home[b]
<1>1. head.n = 0 /\ HeaderOK(head)
  BY DEF LogInv, HeadInv
<1>2. \A i \in Slots : ~(i < head.n)
  BY SMTT(20), <1>1 DEF Slots
<1>3. \A b \in Blocks : ~Named(b)
  BY <1>2 DEF Named
<1>. QED  BY <1>1, <1>2, <1>3, RecoveredAt

(* Steps that change no block, no buffer and no header.                    *)
LEMMA SameStore ==
    ASSUME LogInv, UNCHANGED <<head, logblk, home, cache, boot, failed>>
    PROVE  Recovered' = Recovered /\ Current' = Current /\ failed' = failed
<1>1. Recovered' = Recovered
  BY DEF Recovered
<1>2. \A b \in Blocks : View(b)' = View(b)
  BY DEF View
<1>. QED  BY <1>1, <1>2, SameCurrent

LEMMA BeginStep ==
    ASSUME LogInv, NEW p \in Procs, begin_op(p)
    PROVE  [Store!Next]_(Store!vars)
<1>1. Recovered' = Recovered /\ Current' = Current /\ failed' = failed
  BY SameStore DEF begin_op, diskvars, cachevars
<1>2. p \notin Active
  BY DEF Active, begin_op
<1>3. CASE pc' = [pc EXCEPT ![p] = "asleep"]
  <2>1. Active' = Active
    BY <1>3 DEF begin_op, Active, LogInv, TypeOK
  <2>. QED  BY <1>1, <2>1 DEF Store!vars
<1>4. CASE pc' = [pc EXCEPT ![p] = "in_op"]
  <2>1. Active' = Active \cup {p}
    BY SMTT(20), <1>4 DEF begin_op, Active, LogInv, TypeOK
  <2>2. Store!Begin(p)
    BY <1>1, <1>2, <2>1 DEF Store!Begin
  <2>. QED  BY <2>2 DEF Store!Next
<1>. QED  BY <1>3, <1>4 DEF begin_op

LEMMA ModifyStep ==
    ASSUME LogInv, NEW p \in Procs, NEW b \in Blocks, NEW v \in Val, modify(p, b, v)
    PROVE  [Store!Next]_(Store!vars)
<1>1. boot = "up"
  BY InOp DEF modify
<1>2. /\ cache' = [cache EXCEPT ![b] = v] /\ pc' = [pc EXCEPT ![p] = "log_write"]
      /\ failed' = failed \ {b}
      /\ UNCHANGED <<head, logblk, home, boot>>
      /\ pc[p] = "in_op"
  BY DEF modify, diskvars
<1>3. Recovered' = Recovered
  BY <1>2 DEF Recovered
<1>4. cache \in [Blocks -> Val \cup {NoVal}] /\ v # NoVal
  BY LogAssumption DEF LogInv, TypeOK, LogAssumption
<1>5. /\ View(b)' = v
      /\ \A c \in Blocks : c # b => View(c)' = View(c)
  BY <1>2, <1>4 DEF View
<1>6. Current' = [Current EXCEPT ![b] = v]
  <2>1. Current' = [c \in Blocks |-> View(c)']
    BY <1>1, <1>2 DEF Current
  <2>2. Current = [c \in Blocks |-> View(c)]
    BY <1>1 DEF Current
  <2>3. [Current EXCEPT ![b] = v] = [c \in Blocks |-> IF c = b THEN v ELSE View(c)]
    BY <2>2
  <2>. QED  BY <1>5, <2>1, <2>3
<1>7. Active' = Active /\ p \in Active
  BY <1>2 DEF Active, LogInv, TypeOK
<1>8. Store!Write(p, b, v)
  BY <1>2, <1>3, <1>6, <1>7 DEF Store!Write
<1>. QED  BY <1>8 DEF Store!Next

LEMMA LogWriteStep ==
    ASSUME LogInv, NEW p \in Procs, log_write(p)
    PROVE  [Store!Next]_(Store!vars)
<1>1. Recovered' = Recovered /\ Current' = Current /\ failed' = failed
  BY SameStore DEF log_write, diskvars
<1>2. pc[p] = "log_write" /\ (pc' = pc \/ pc' = [pc EXCEPT ![p] = "in_op"])
  BY DEF log_write
<1>3. Active' = Active
  BY <1>2 DEF Active, LogInv, TypeOK
<1>. QED  BY <1>1, <1>3 DEF Store!vars

(* A copy that fails leaves the images alone and sets its block apart,      *)
(* unless the block is in the transaction.                                 *)
LEMMA CopyFailedStep ==
    ASSUME LogInv, NEW p \in Procs, copy_failed(p)
    PROVE  [Store!Next]_(Store!vars)
<1>1. /\ UNCHANGED <<head, logblk, home, cache, boot>>
      /\ failed' = IF InHeader(buf[p]) THEN failed ELSE failed \cup {buf[p]}
      /\ buf[p] \in DataBlocks
      /\ pc[p] = "log_write" /\ pc' = [pc EXCEPT ![p] = "in_op"]
  BY DEF copy_failed, diskvars
<1>2. Recovered' = Recovered
  BY <1>1 DEF Recovered
<1>3. Current' = Current
  BY <1>1, <1>2, SameCurrent DEF View
<1>4. Active' = Active /\ p \in Active
  BY <1>1 DEF Active, LogInv, TypeOK
<1>5. CASE InHeader(buf[p])
  BY <1>1, <1>2, <1>3, <1>4, <1>5 DEF Store!vars
<1>6. CASE ~InHeader(buf[p])
  <2>1. Store!Fail(p, buf[p])
    BY <1>1, <1>2, <1>3, <1>4, <1>6 DEF Store!Fail
  <2>. QED  BY <1>1, <2>1 DEF Store!Next
<1>. QED  BY <1>5, <1>6

LEMMA EndOpStep ==
    ASSUME LogInv, NEW p \in Procs, end_op(p)
    PROVE  [Store!Next]_(Store!vars)
<1>1. Recovered' = Recovered /\ Current' = Current /\ failed' = failed
  BY SameStore DEF end_op, diskvars, cachevars
<1>2. ~committing /\ pc[p] = "in_op"
  BY InOp DEF end_op
<1>3. pc' = [pc EXCEPT ![p] = "commit"] \/ WakeLog(p, "user")
  BY <1>2 DEF end_op
<1>4. Active' = Active \ {p}
  <2>1. CASE pc' = [pc EXCEPT ![p] = "commit"]
    BY <2>1 DEF Active, LogInv, TypeOK
  <2>2. CASE WakeLog(p, "user")
    BY <2>2, Woken DEF Active
  <2>. QED  BY <1>3, <2>1, <2>2
<1>5. p \in Active
  BY <1>2 DEF Active
<1>6. Store!End(p)
  BY <1>1, <1>4, <1>5 DEF Store!End
<1>. QED  BY <1>6 DEF Store!Next

-----------------------------------------------------------------------------
(* The steps of commit().                                                  *)

LEMMA CommitStep ==
    ASSUME LogInv, NEW p \in Procs, commit(p)
    PROVE  [Store!Next]_(Store!vars)
<1>1. Recovered' = Recovered /\ Current' = Current /\ failed' = failed
  BY SameStore DEF commit, diskvars, cachevars
<1>2. PICK l \in {"write_log", "committed"} : pc' = [pc EXCEPT ![p] = l]
  BY DEF commit
<1>3. Active' = Active
  BY <1>2 DEF commit, Active, LogInv, TypeOK
<1>. QED  BY <1>1, <1>3 DEF Store!vars

LEMMA EndCommitStep ==
    ASSUME LogInv, NEW p \in Procs, end_commit(p)
    PROVE  [Store!Next]_(Store!vars)
<1>1. Recovered' = Recovered /\ Current' = Current /\ failed' = failed
  BY SameStore DEF end_commit, diskvars, cachevars
<1>2. Active' = Active
  BY Woken DEF end_commit, Active
<1>. QED  BY <1>1, <1>2 DEF Store!vars

(* An entry of the header not yet installed has a buffer.                  *)
LEMMA PinnedCached ==
    ASSUME LogInv, NEW i \in Slots, PinStart <= i, i < lh.n
    PROVE  lh.block[i] \in Blocks /\ cache[lh.block[i]] # NoVal
<1>1. lh.block[i] \in Blocks
  BY DEF LogInv, HeadInv, HeaderOK
<1>2. pin[lh.block[i]] = 1
  BY <1>1 DEF LogInv, CacheInv
<1>. QED  BY SMTT(20), <1>1, <1>2 DEF LogInv, CacheInv

LEMMA WriteLogStep ==
    ASSUME LogInv, NEW p \in Procs, write_log(p)
    PROVE  [Store!Next]_(Store!vars)
<1>1. /\ boot = "up" /\ At("write_log")
      /\ \A m \in CommitPcs : At(m) => m = "write_log"
  BY Alone DEF write_log, CommitPcs, At
<1>2. /\ ~At("install_trans") /\ ~At("erase")
  BY <1>1 DEF CommitPcs
<1>3. tail < lh.n /\ tail \in Slots /\ PinStart <= tail
  <2>1. tail < lh.n
    BY <1>1 DEF LogInv, ControlInv
  <2>2. tail \in Slots
    BY <2>1, Entry
  <2>3. PinStart = 0
    BY <1>1, Logged
  <2>. QED  BY SMTT(20), <2>1, <2>2, <2>3 DEF Slots
<1>4. cache' = cache
  <2>1. lh.block[tail] \in Blocks /\ cache[lh.block[tail]] # NoVal
    BY <1>3, PinnedCached
  <2>. QED  BY <2>1 DEF write_log, View, LogInv, TypeOK
<1>5. UNCHANGED <<head, home, boot, failed>>
  BY DEF write_log
<1>6. Recovered' = Recovered
  BY <1>1, <1>2, <1>5, NoneNamed, SameRecovered
<1>7. Current' = Current
  BY <1>4, <1>5, <1>6, SameCurrent DEF View
<1>8. PICK l \in {"write_log", "write_head"} : pc' = [pc EXCEPT ![p] = l]
  BY DEF write_log
<1>9. Active' = Active
  BY <1>8 DEF write_log, Active, LogInv, TypeOK
<1>. QED  BY <1>5, <1>6, <1>7, <1>9 DEF Store!vars

(* The commit point: the header write makes the cached image durable.      *)
LEMMA WriteHeadStep ==
    ASSUME LogInv, LogInv', NEW p \in Procs, write_head(p)
    PROVE  [Store!Next]_(Store!vars)
<1>1. /\ boot = "up" /\ At("write_head") /\ outstanding = 0
      /\ \A m \in CommitPcs : At(m) => m = "write_head"
      /\ \A b \in Blocks : Unlocked(b)
  BY Alone DEF write_head, CommitPcs, At
<1>2. /\ pc' = [pc EXCEPT ![p] = "install_trans"] /\ pc[p] = "write_head"
      /\ head' = HeadOf(lh, head)
      /\ UNCHANGED <<lh, logblk, home, cache, failed, boot>>
  BY DEF write_head, logvars, cachevars
<1>3. /\ head'.n = lh.n
      /\ \A i \in Slots : i < lh.n => head'.block[i] = lh.block[i]
  <2>1. /\ lh \in [n : 0 .. LOGSIZE, block : [Slots -> Blocks \cup {NoBlock}]]
        /\ head \in [n : 0 .. LOGSIZE, block : [Slots -> Blocks \cup {NoBlock}]]
    BY DEF LogInv, TypeOK
  <2>. QED  BY SMTT(20), <1>2, <2>1, HeadCopy
<1>4. HeaderOK(head')
  BY DEF LogInv, HeadInv, HeaderOK
<1>5. PinStart = 0
  BY <1>1, Logged
<1>6. \A i \in Slots : i < lh.n => logblk[i] = cache[lh.block[i]]
  BY <1>1 DEF LogInv, LogDataInv
<1>7. ASSUME NEW b \in Blocks
      PROVE  Recovered'[b] = IF b \in failed THEN Recovered[b] ELSE View(b)
  <2>1. CASE Named(b)'
    <3>1. PICK i \in Slots : i < lh.n /\ lh.block[i] = b /\ head'.block[i] = b
      BY <1>3, <2>1 DEF Named
    <3>2. Recovered'[b] = logblk[i]
      BY <1>2, <1>3, <1>4, <3>1, RecoveredNext
    <3>3. cache[b] # NoVal
      BY SMTT(20), <1>5, <3>1, PinnedCached DEF Slots
    <3>4. b \notin failed
      BY <3>1 DEF LogInv, FailedInv, InHeader
    <3>. QED  BY <1>6, <3>1, <3>2, <3>3, <3>4 DEF View
  <2>2. CASE ~Named(b)'
    <3>1. ~ \E i \in Slots : i < lh.n /\ lh.block[i] = b
      BY <1>3, <2>2 DEF Named
    <3>2. pin[b] = 0
      BY <3>1 DEF LogInv, CacheInv
    <3>3. b \notin failed => View(b) = home[b]
      BY <1>1, <3>2 DEF LogInv, CacheInv, View
    <3>4. Recovered[b] = home[b]
      <4>1. ~At("install_trans") /\ ~At("erase")
        BY <1>1 DEF CommitPcs
      <4>. QED  BY <1>1, <4>1, NoneNamed
    <3>. QED  BY <1>2, <1>4, <2>2, <3>3, <3>4, RecoveredNext
  <2>. QED  BY <2>1, <2>2
<1>8. Current = [b \in Blocks |-> View(b)] /\ Current' = Current
  BY <1>1, <1>2 DEF Current, View
<1>9. Recovered' = [b \in Blocks |-> IF b \in failed THEN Recovered[b] ELSE Current[b]]
  <2>1. \A b \in Blocks : Current[b] = View(b)
    BY <1>8
  <2>2. \A b \in Blocks :
          Recovered'[b] = IF b \in failed THEN Recovered[b] ELSE Current[b]
    BY <1>7, <2>1
  <2>3. Recovered' = [b \in Blocks |-> Recovered'[b]]
    BY RecoveredFcn
  <2>. QED  BY <2>2, <2>3
<1>10. Active = {} /\ Active' = {}
  <2>1. \A q \in Procs : pc[q] \notin {"in_op", "log_write"}
    BY <1>1, ActiveEmpty
  <2>. QED  BY <1>2, <2>1 DEF Active, LogInv, TypeOK
<1>11. Store!Commit
  BY <1>2, <1>8, <1>9, <1>10 DEF Store!Commit
<1>. QED  BY <1>11 DEF Store!Next

(* Installing a block the header names changes no image.                   *)
LEMMA InstallStep ==
    ASSUME LogInv, NEW p \in Procs, install_trans(p)
    PROVE  [Store!Next]_(Store!vars)
<1>. DEFINE b == lh.block[tail]
<1>1. /\ boot = "up" /\ At("install_trans")
  BY Alone DEF install_trans, CommitPcs, At
<1>2. tail < lh.n
  BY <1>1 DEF LogInv, ControlInv
<1>3. tail \in Slots /\ b \in Blocks
  BY <1>2, Entry
<1>4. /\ cache' = [cache EXCEPT ![b] = logblk[tail]]
      /\ home' = [home EXCEPT ![b] = logblk[tail]]
      /\ UNCHANGED <<head, logblk, boot, failed>>
  BY DEF install_trans
<1>5. cache[b] # NoVal /\ logblk[tail] = cache[b]
  <2>1. PinStart = tail /\ tail <= tail
    BY SMTT(20), <1>1, <1>3 DEF PinStart, Slots
  <2>2. cache[b] # NoVal
    BY <1>2, <1>3, <2>1, PinnedCached
  <2>3. logblk[tail] = cache[b]
    BY <1>1, <1>2, <1>3, <2>1 DEF LogInv, LogDataInv
  <2>. QED  BY <2>2, <2>3
<1>6. /\ cache \in [Blocks -> Val \cup {NoVal}] /\ home \in [Blocks -> Val]
      /\ HeaderOK(head) /\ head.n = lh.n
      /\ \A i \in Slots : i < lh.n => head.block[i] = lh.block[i]
  BY <1>1 DEF LogInv, TypeOK, HeadInv
<1>7. cache' = cache
  BY <1>3, <1>4, <1>5, <1>6
<1>8. Named(b)
  BY <1>2, <1>3, <1>6 DEF Named
<1>9. \A c \in Blocks : c # b => home'[c] = home[c]
  BY <1>3, <1>4, <1>6
<1>10. Recovered' = Recovered
  BY <1>4, <1>6, <1>8, <1>9, SameRecovered
<1>11. Current' = Current
  <2>1. \A c \in Blocks : View(c)' = View(c)
    BY <1>5, <1>7, <1>9 DEF View
  <2>. QED  BY <1>4, <1>10, <2>1, SameCurrent
<1>12. PICK l \in {"install_trans", "erase"} : pc' = [pc EXCEPT ![p] = l]
  BY DEF install_trans
<1>13. Active' = Active
  BY <1>12 DEF install_trans, Active, LogInv, TypeOK
<1>. QED  BY <1>4, <1>10, <1>11, <1>13 DEF Store!vars

(* An erased header exposes the home blocks.                               *)
LEMMA Erased ==
    ASSUME LogInv, LogInv', head'.n = 0, UNCHANGED <<logblk, home>>,
           \A i \in Slots : i < head.n => home[head.block[i]] = logblk[i]
    PROVE  /\ Recovered' = Recovered
           /\ \A b \in Blocks : Recovered[b] = home[b]
<1>1. HeaderOK(head) /\ HeaderOK(head')
  BY DEF LogInv, HeadInv, HeaderOK
<1>2. \A b \in Blocks : ~Named(b)'
  BY SMTT(20) DEF Named, Slots
<1>3. \A b \in Blocks : Recovered'[b] = home[b]
  BY <1>1, <1>2, RecoveredNext
<1>4. ASSUME NEW b \in Blocks PROVE Recovered[b] = home[b]
  <2>1. CASE Named(b)
    <3>1. PICK i \in Slots : i < head.n /\ head.block[i] = b
      BY <2>1 DEF Named
    <3>. QED  BY <1>1, <3>1, RecoveredAt
  <2>2. CASE ~Named(b)
    BY <1>1, <2>2, RecoveredAt
  <2>. QED  BY <2>1, <2>2
<1>. QED  BY <1>3, <1>4, RecoveredFcn, SameImage

LEMMA EraseStep ==
    ASSUME LogInv, LogInv', NEW p \in Procs, erase(p)
    PROVE  [Store!Next]_(Store!vars)
<1>1. boot = "up" /\ At("erase")
  BY Alone DEF erase, CommitPcs, At
<1>2. /\ pc' = [pc EXCEPT ![p] = "committed"] /\ pc[p] = "erase"
      /\ lh' = [lh EXCEPT !.n = 0] /\ head' = HeadOf(lh', head)
      /\ UNCHANGED <<logblk, home, cache, boot, failed>>
  BY DEF erase, cachevars
<1>3. head'.n = 0
  <2>1. lh'.n = 0
    BY <1>2 DEF LogInv, TypeOK
  <2>. QED  BY <1>2, <2>1 DEF HeadOf
<1>4. \A i \in Slots : i < head.n => home[head.block[i]] = logblk[i]
  BY <1>1 DEF LogInv, HeadInv, LogDataInv
<1>5. Recovered' = Recovered
  BY <1>2, <1>3, <1>4, Erased
<1>6. Current' = Current
  BY <1>2, <1>5, SameCurrent DEF View
<1>7. Active' = Active
  BY <1>2 DEF Active, LogInv, TypeOK
<1>. QED  BY <1>2, <1>5, <1>6, <1>7 DEF Store!vars

-----------------------------------------------------------------------------
(* Recovery, the buffer cache and crashes.                                 *)

LEMMA ReadHeadStep ==
    ASSUME LogInv, read_head
    PROVE  [Store!Next]_(Store!vars)
<1>1. /\ boot # "up" /\ boot' # "up"
      /\ UNCHANGED <<head, logblk, home, pc, failed>>
  BY DEF read_head, diskvars, procvars, cachevars
<1>2. Recovered' = Recovered /\ Active' = Active
  BY <1>1 DEF Recovered, Active
<1>3. Current' = Current
  BY <1>1, <1>2 DEF Current
<1>. QED  BY <1>1, <1>2, <1>3 DEF Store!vars

LEMMA RecoverInstallStep ==
    ASSUME LogInv, recover_install
    PROVE  [Store!Next]_(Store!vars)
<1>. DEFINE b == lh.block[tail]
<1>1. /\ boot = "install_trans" /\ tail < lh.n
      /\ home' = [home EXCEPT ![b] = logblk[tail]]
      /\ UNCHANGED <<head, logblk, boot, pc, failed>>
  BY DEF recover_install, procvars
<1>2. tail \in Slots /\ b \in Blocks
  BY <1>1, Entry
<1>3. /\ home \in [Blocks -> Val] /\ HeaderOK(head) /\ head.n = lh.n
      /\ \A i \in Slots : i < lh.n => head.block[i] = lh.block[i]
  BY <1>1 DEF LogInv, TypeOK, HeadInv
<1>4. Named(b)
  BY <1>1, <1>2, <1>3 DEF Named
<1>5. \A c \in Blocks : c # b => home'[c] = home[c]
  BY <1>1, <1>2, <1>3
<1>6. Recovered' = Recovered
  BY <1>1, <1>3, <1>4, <1>5, SameRecovered
<1>7. Current' = Current /\ Active' = Active
  BY <1>1, <1>6 DEF Current, Active
<1>. QED  BY <1>1, <1>6, <1>7 DEF Store!vars

LEMMA RecoverEraseStep ==
    ASSUME LogInv, LogInv', recover_erase
    PROVE  [Store!Next]_(Store!vars)
<1>1. /\ boot = "install_trans" /\ boot' = "up" /\ tail >= lh.n
      /\ lh' = [lh EXCEPT !.n = 0] /\ head' = HeadOf(lh', head)
      /\ UNCHANGED <<logblk, home, cache, pc, pin, buf, failed>>
  BY DEF recover_erase, cachevars, procvars
<1>2. head'.n = 0
  <2>1. lh'.n = 0
    BY <1>1 DEF LogInv, TypeOK
  <2>. QED  BY <1>1, <2>1 DEF HeadOf
<1>3. \A i \in Slots : i < head.n => home[head.block[i]] = logblk[i]
  <2>1. /\ head.n = lh.n
        /\ \A i \in Slots : i < lh.n => head.block[i] = lh.block[i]
        /\ \A i \in Slots : i < tail => home[lh.block[i]] = logblk[i]
    BY <1>1 DEF LogInv, HeadInv, LogDataInv
  <2>2. lh.n \in 0 .. LOGSIZE /\ tail \in 0 .. LOGSIZE
    BY DEF LogInv, TypeOK
  <2>3. \A i \in Slots : i < lh.n => i < tail
    BY SMTT(20), <1>1, <2>2 DEF Slots
  <2>. QED  BY <2>1, <2>3
<1>4. /\ Recovered' = Recovered
      /\ \A b \in Blocks : Recovered[b] = home[b]
  BY <1>1, <1>2, <1>3, Erased
<1>5. \A b \in Blocks : View(b)' = home[b]
  <2>1. \A b \in Blocks : cache[b] # NoVal => cache[b] = home[b]
    BY <1>1, Booting DEF LogInv, CacheInv
  <2>. QED  BY <1>1, <2>1 DEF View
<1>6. Current = Recovered /\ Current' = [b \in Blocks |-> View(b)']
  BY <1>1 DEF Current
<1>7. Current' = Current
  BY <1>4, <1>5, <1>6, RecoveredFcn
<1>8. Active' = Active
  BY <1>1 DEF Active
<1>. QED  BY <1>1, <1>4, <1>7, <1>8 DEF Store!vars

(* Reading a block changes no image; recycling its buffer neither, unless a *)
(* copy into it failed.                                                    *)
LEMMA BreadStep ==
    ASSUME LogInv, NEW b \in Blocks, bread(b)
    PROVE  [Store!Next]_(Store!vars)
<1>1. /\ UNCHANGED <<head, logblk, home, boot, pc, failed>>
      /\ cache[b] = NoVal /\ cache' = [cache EXCEPT ![b] = home[b]]
  BY DEF bread, diskvars, procvars
<1>2. Recovered' = Recovered /\ Active' = Active
  BY <1>1 DEF Recovered, Active
<1>3. cache \in [Blocks -> Val \cup {NoVal}] /\ home \in [Blocks -> Val]
  BY DEF LogInv, TypeOK
<1>4. \A c \in Blocks : View(c)' = View(c)
  BY <1>1, <1>3, LogAssumption DEF View, LogAssumption
<1>5. Current' = Current
  BY <1>1, <1>2, <1>4, SameCurrent
<1>. QED  BY <1>1, <1>2, <1>5 DEF Store!vars

LEMMA RecycleStep ==
    ASSUME LogInv, NEW b \in Blocks, recycle(b)
    PROVE  [Store!Next]_(Store!vars)
<1>1. /\ UNCHANGED <<head, logblk, home, boot, pc>>
      /\ pin[b] = 0 /\ Unlocked(b) /\ cache[b] # NoVal
      /\ cache' = [cache EXCEPT ![b] = NoVal] /\ failed' = failed \ {b}
  BY DEF recycle, diskvars, procvars
<1>2. Recovered' = Recovered /\ Active' = Active
  BY <1>1 DEF Recovered, Active
<1>3. cache \in [Blocks -> Val \cup {NoVal}] /\ home \in [Blocks -> Val]
  BY DEF LogInv, TypeOK
<1>4. /\ View(b)' = home[b]
      /\ \A c \in Blocks : c # b => View(c)' = View(c)
  BY <1>1, <1>3 DEF View
<1>5. CASE b \notin failed
  <2>1. View(b) = home[b]
    BY <1>1, <1>5 DEF LogInv, CacheInv, View
  <2>2. Current' = Current
    BY <1>1, <1>2, <1>4, <2>1, SameCurrent
  <2>3. failed' = failed
    BY <1>1, <1>5
  <2>. QED  BY <1>2, <2>2, <2>3 DEF Store!vars
<1>6. CASE b \in failed
  <2>1. boot = "up" /\ b \in DataBlocks /\ ~InHeader(b)
    BY <1>6 DEF LogInv, TypeOK, FailedInv
  <2>2. Recovered[b] = home[b]
    <3>1. CASE ~At("install_trans") /\ ~At("erase")
      BY <2>1, <3>1, NoneNamed
    <3>2. CASE At("install_trans") \/ At("erase")
      <4>1. /\ HeaderOK(head) /\ head.n = lh.n
            /\ \A i \in Slots : i < lh.n => head.block[i] = lh.block[i]
        BY <3>2 DEF LogInv, HeadInv
      <4>2. ~Named(b)
        BY <2>1, <4>1 DEF Named, InHeader
      <4>. QED  BY <4>1, <4>2, RecoveredAt
    <3>. QED  BY <3>1, <3>2
  <2>3. Current' = [Current EXCEPT ![b] = Recovered[b]]
    <3>1. Current' = [c \in Blocks |-> View(c)']
      BY <1>1, <2>1 DEF Current
    <3>2. Current = [c \in Blocks |-> View(c)]
      BY <2>1 DEF Current
    <3>3. [Current EXCEPT ![b] = Recovered[b]] =
            [c \in Blocks |-> IF c = b THEN home[b] ELSE View(c)]
      BY <2>2, <3>2
    <3>. QED  BY <1>4, <3>1, <3>3
  <2>4. Store!Revert(b)
    BY <1>1, <1>2, <1>6, <2>3 DEF Store!Revert
  <2>. QED  BY <2>1, <2>4 DEF Store!Next
<1>. QED  BY <1>5, <1>6

(* A crash leaves the recovered image alone even when it tears a block.    *)
LEMMA CrashStep ==
    ASSUME LogInv, Crash
    PROVE  [Store!Next]_(Store!vars)
<1>1. /\ head' = head /\ boot' = "read_head" /\ pc' = [p \in Procs |-> "user"]
      /\ failed' = {}
  BY DEF Crash
<1>2. HeaderOK(head)
  BY DEF LogInv, HeadInv
<1>3. Recovered' = Recovered
  <2>1. CASE logblk' = logblk /\ home' = home
    BY <1>1, <1>2, <2>1, SameRecovered
  <2>2. CASE At("write_log") /\ home' = home
    <3>1. boot = "up" /\ ~At("install_trans") /\ ~At("erase")
      BY <2>2, Together DEF CommitPcs
    <3>. QED  BY <1>1, <1>2, <2>2, <3>1, NoneNamed, SameRecovered
  <2>3. CASE /\ At("install_trans") \/ boot = "install_trans"
             /\ tail < lh.n /\ logblk' = logblk
             /\ \A b \in Blocks : b # lh.block[tail] => home'[b] = home[b]
    <3>1. tail \in Slots
      BY <2>3, Entry
    <3>2. /\ head.n = lh.n
          /\ \A i \in Slots : i < lh.n => head.block[i] = lh.block[i]
      BY <2>3 DEF LogInv, HeadInv
    <3>3. Named(lh.block[tail])
      BY <2>3, <3>1, <3>2 DEF Named
    <3>. QED  BY <1>1, <1>2, <2>3, <3>3, SameRecovered
  <2>. QED  BY <2>1, <2>2, <2>3, TornBlocks DEF Crash
<1>4. Current' = Recovered
  BY <1>1, <1>3 DEF Current
<1>5. Active' = {}
  BY <1>1 DEF Active
<1>6. Store!Crash
  BY <1>1, <1>3, <1>4, <1>5 DEF Store!Crash
<1>. QED  BY <1>6 DEF Store!Next

-----------------------------------------------------------------------------
LEMMA InitStore == Init => Store!Init
<1>. SUFFICES ASSUME Init PROVE Store!Init
  OBVIOUS
<1>1. LogInv
  BY InitInv
<1>2. HeaderOK(head) /\ head.n = 0 /\ \A b \in Blocks : home[b] = Zero
  BY <1>1 DEF LogInv, HeadInv, Init, ZeroHead
<1>3. \A b \in Blocks : ~Named(b)
  BY SMTT(20), <1>2 DEF Named, Slots
<1>4. \A b \in Blocks : Recovered[b] = Zero
  BY <1>2, <1>3, RecoveredAt
<1>5. Recovered = [b \in Blocks |-> Zero]
  BY <1>4, RecoveredFcn
<1>6. Current = Recovered
  BY DEF Init, Current
<1>7. Active = {}
  BY DEF Init, Active
<1>8. failed = {}
  BY DEF Init
<1>. QED  BY <1>5, <1>6, <1>7, <1>8 DEF Store!Init

LEMMA NextStore == LogInv /\ LogInv' /\ [Next]_vars => [Store!Next]_(Store!vars)
<1>. SUFFICES ASSUME LogInv, LogInv', [Next]_vars PROVE [Store!Next]_(Store!vars)
  OBVIOUS
<1>1. ASSUME NEW p \in Procs, Operation(p) PROVE [Store!Next]_(Store!vars)
  BY <1>1, BeginStep, ModifyStep, LogWriteStep, CopyFailedStep, EndOpStep DEF Operation
<1>2. ASSUME NEW p \in Procs, Commit(p) PROVE [Store!Next]_(Store!vars)
  BY <1>2, CommitStep, WriteLogStep, WriteHeadStep, InstallStep, EraseStep,
     EndCommitStep DEF Commit
<1>3. CASE Recover
  BY <1>3, ReadHeadStep, RecoverInstallStep, RecoverEraseStep DEF Recover
<1>4. ASSUME NEW b \in Blocks, recycle(b) \/ bread(b)
      PROVE  [Store!Next]_(Store!vars)
  BY <1>4, RecycleStep, BreadStep
<1>5. CASE UNCHANGED vars
  <2>1. UNCHANGED <<head, logblk, home, cache, boot, pc, failed>>
    BY <1>5 DEF vars, diskvars, cachevars, procvars
  <2>2. Active' = Active
    BY <2>1 DEF Active
  <2>3. Recovered' = Recovered /\ Current' = Current
    BY <2>1, SameStore
  <2>. QED  BY <2>1, <2>2, <2>3 DEF Store!vars
<1>. QED  BY <1>1, <1>2, <1>3, <1>4, <1>5, CrashStep DEF Next

(* log.c:12-16: the durable image only ever changes by taking in all that  *)
(* finished operations wrote, at a moment when none is active, wherever a  *)
(* crash cuts commit() or recover_from_log() short.  What a failed copy    *)
(* left in a block of file contents (fs.c:522-525) is not taken in, and is *)
(* the only thing that recycling a buffer undoes.                          *)
THEOREM LogRefinesAtomicStore == Spec => ImplementsAtomicStore
<1>1. Init => Store!Init
  BY InitStore
<1>2. LogInv /\ LogInv' /\ [Next]_vars => [Store!Next]_(Store!vars)
  BY NextStore
<1>. QED  BY <1>1, <1>2, LogInvariant, PTL DEF Spec, ImplementsAtomicStore, Store!Spec
-----------------------------------------------------------------------------
(* The space begin_op reserves.                                            *)

\* The blocks the header names, and how many of its own each process has
\* among them.
InLog == {b \in Blocks : InHeader(b)}
Spent == [p \in Procs |-> Cardinality(wrote[p] \cap InLog)]

\* Each process of A has MAXOPBLOCKS places; those that f of them say are used.
Places(A) == A \X (1 .. MAXOPBLOCKS)
UsedPlaces(A, f) == {x \in Places(A) : x[2] <= f[x[1]]}

\* The header has room for what the operations in progress may still write.
RoomInv ==
    /\ \A p \in Procs : IsFiniteSet(wrote[p]) /\ Cardinality(wrote[p]) <= MAXOPBLOCKS
    /\ \A p \in Procs : pc[p] = "log_write" => buf[p] \in wrote[p]
    /\ lh.n + outstanding * MAXOPBLOCKS
         <= LOGSIZE + Cardinality(UsedPlaces(Active, Spent))

(* The places are as many as the operations have reserved.                 *)
LEMMA PlaceCount ==
    ASSUME NEW A, IsFiniteSet(A)
    PROVE  /\ IsFiniteSet(Places(A))
           /\ Cardinality(Places(A)) = Cardinality(A) * MAXOPBLOCKS
<1>1. IsFiniteSet(1 .. MAXOPBLOCKS) /\ Cardinality(1 .. MAXOPBLOCKS) = MAXOPBLOCKS
  BY FS_Interval, LogAssumption, SMTT(20)
<1>2. /\ IsFiniteSet(A \X (1 .. MAXOPBLOCKS))
      /\ Cardinality(A \X (1 .. MAXOPBLOCKS)) = Cardinality(A) * Cardinality(1 .. MAXOPBLOCKS)
  BY <1>1, FS_Product, Zenon
<1>. QED  BY <1>1, <1>2 DEF Places

LEMMA UsedCount ==
    ASSUME NEW A, IsFiniteSet(A), NEW f
    PROVE  /\ IsFiniteSet(UsedPlaces(A, f))
           /\ Cardinality(UsedPlaces(A, f)) \in Nat
           /\ UsedPlaces(A, f) \subseteq Places(A)
<1>1. UsedPlaces(A, f) \subseteq Places(A)
  BY DEF UsedPlaces
<1>2. IsFiniteSet(UsedPlaces(A, f))
  BY <1>1, PlaceCount, FS_Subset
<1>. QED  BY <1>1, <1>2, FS_CardinalityType

(* A process that has spent less than it reserved has a place left.        *)
LEMMA PlaceLeft ==
    ASSUME NEW A, IsFiniteSet(A), NEW f, NEW p \in A, f[p] \in Nat, f[p] < MAXOPBLOCKS
    PROVE  Cardinality(UsedPlaces(A, f)) + 1 <= Cardinality(A) * MAXOPBLOCKS
<1>. DEFINE x == <<p, f[p] + 1>>
            U == UsedPlaces(A, f)
<1>1. x \in Places(A) /\ x \notin U
  <2>1. f[p] + 1 \in 1 .. MAXOPBLOCKS /\ ~(f[p] + 1 <= f[p])
    BY LogAssumption, SMTT(20)
  <2>. QED  BY <2>1 DEF Places, UsedPlaces
<1>2. IsFiniteSet(U) /\ Cardinality(U) \in Nat /\ U \subseteq Places(A)
  BY UsedCount
<1>. HIDE DEF U, x
<1>3. Cardinality(U \cup {x}) = Cardinality(U) + 1
  BY <1>1, <1>2, FS_AddElement
<1>4. U \cup {x} \subseteq Places(A)
  BY <1>1, <1>2
<1>5. Cardinality(U \cup {x}) <= Cardinality(Places(A))
  BY <1>4, PlaceCount, FS_Subset
<1>6. Cardinality(U) + 1 <= Cardinality(A) * MAXOPBLOCKS
  BY <1>3, <1>5, PlaceCount
<1>. QED  BY <1>6 DEF U

(* The used places grow with what the processes have spent ...             *)
LEMMA UsedMore ==
    ASSUME NEW A, IsFiniteSet(A), NEW f, NEW g,
           \A p \in A : f[p] \in Nat /\ g[p] \in Nat /\ f[p] <= g[p]
    PROVE  /\ UsedPlaces(A, f) \subseteq UsedPlaces(A, g)
           /\ Cardinality(UsedPlaces(A, f)) <= Cardinality(UsedPlaces(A, g))
<1>1. ASSUME NEW x \in UsedPlaces(A, f) PROVE x \in UsedPlaces(A, g)
  <2>1. x \in Places(A) /\ x[2] <= f[x[1]]
    BY <1>1 DEF UsedPlaces
  <2>2. x[1] \in A /\ x[2] \in 1 .. MAXOPBLOCKS
    BY <2>1 DEF Places
  <2>3. x[2] <= g[x[1]]
    BY SMTT(20), <2>1, <2>2, LogAssumption
  <2>. QED  BY <2>1, <2>3 DEF UsedPlaces
<1>2. UsedPlaces(A, f) \subseteq UsedPlaces(A, g)
  BY <1>1
<1>3. IsFiniteSet(UsedPlaces(A, g))
  BY UsedCount
<1>. QED  BY <1>2, <1>3, FS_Subset

(* ... by one when one process spends more, within its reservation.        *)
LEMMA UsedOneMore ==
    ASSUME NEW A, IsFiniteSet(A), NEW f, NEW g,
           \A p \in A : f[p] \in Nat /\ g[p] \in Nat /\ f[p] <= g[p],
           NEW p \in A, f[p] < g[p], g[p] <= MAXOPBLOCKS
    PROVE  Cardinality(UsedPlaces(A, f)) + 1 <= Cardinality(UsedPlaces(A, g))
<1>. DEFINE x == <<p, g[p]>>
            U == UsedPlaces(A, f)
            V == UsedPlaces(A, g)
<1>1. x \in V /\ x \notin U
  <2>1. g[p] \in 1 .. MAXOPBLOCKS /\ g[p] <= g[p] /\ ~(g[p] <= f[p])
    BY LogAssumption, SMTT(20)
  <2>. QED  BY <2>1 DEF Places, UsedPlaces
<1>2. IsFiniteSet(U) /\ Cardinality(U) \in Nat /\ IsFiniteSet(V)
  BY UsedCount
<1>3. U \subseteq V
  BY UsedMore
<1>. HIDE DEF U, V, x
<1>4. Cardinality(U \cup {x}) = Cardinality(U) + 1
  BY <1>1, <1>2, FS_AddElement
<1>5. Cardinality(U \cup {x}) <= Cardinality(V)
  BY <1>1, <1>2, <1>3, FS_Subset
<1>6. Cardinality(U) + 1 <= Cardinality(V)
  BY <1>4, <1>5
<1>. QED  BY <1>6 DEF U, V

(* A process that leaves takes at most its reservation along.              *)
LEMMA UsedLeaves ==
    ASSUME NEW A, IsFiniteSet(A), NEW f, NEW p \in A
    PROVE  Cardinality(UsedPlaces(A, f)) <= Cardinality(UsedPlaces(A \ {p}, f)) + MAXOPBLOCKS
<1>. DEFINE U == UsedPlaces(A, f)
            V == UsedPlaces(A \ {p}, f)
            W == Places({p})
<1>1. IsFiniteSet(A \ {p})
  BY FS_RemoveElement
<1>2. IsFiniteSet(V) /\ Cardinality(V) \in Nat
  BY <1>1, UsedCount
<1>3. IsFiniteSet(U) /\ Cardinality(U) \in Nat
  BY UsedCount
<1>4. IsFiniteSet(W) /\ Cardinality(W) = MAXOPBLOCKS
  <2>1. IsFiniteSet({p}) /\ Cardinality({p}) = 1
    BY FS_Singleton
  <2>2. IsFiniteSet(W) /\ Cardinality(W) = 1 * MAXOPBLOCKS
    BY <2>1, PlaceCount
  <2>. QED  BY <2>2, LogAssumption, SMTT(20)
<1>5. U \subseteq V \cup W
  BY DEF UsedPlaces, Places
<1>. HIDE DEF U, V, W
<1>6. /\ IsFiniteSet(V \cup W) /\ Cardinality(V \cap W) \in Nat
      /\ Cardinality(V \cup W) = Cardinality(V) + Cardinality(W) - Cardinality(V \cap W)
  <2>1. IsFiniteSet(V \cap W)
    BY <1>2, FS_Intersection
  <2>2. Cardinality(V \cap W) \in Nat
    BY <2>1, FS_CardinalityType
  <2>. QED  BY <1>2, <1>4, <2>2, FS_Union
<1>7. Cardinality(U) <= Cardinality(V \cup W)
  BY <1>5, <1>6, FS_Subset
<1>8. Cardinality(U) <= Cardinality(V) + MAXOPBLOCKS
  BY SMTT(20), <1>2, <1>3, <1>4, <1>6, <1>7, LogAssumption
<1>. QED  BY <1>8 DEF U, V

(* The counters of struct log.                                             *)
LEMMA Counters ==
    ASSUME LogInv
    PROVE  /\ lh.n \in Nat /\ lh.n <= LOGSIZE
           /\ outstanding \in Nat /\ outstanding = Cardinality(Active)
<1>1. lh.n \in 0 .. LOGSIZE /\ outstanding \in Nat
  BY DEF LogInv, TypeOK
<1>2. outstanding = Cardinality(Active)
  BY DEF LogInv, ControlInv
<1>. QED  BY SMTT(20), <1>1, <1>2, LogAssumption

(* What a process has spent is part of what it has written.                *)
LEMMA SpentCount ==
    ASSUME LogInv, RoomInv, NEW p \in Procs
    PROVE  /\ IsFiniteSet(wrote[p] \cap InLog)
           /\ Spent[p] \in Nat /\ Spent[p] <= MAXOPBLOCKS
<1>1. IsFiniteSet(wrote[p]) /\ Cardinality(wrote[p]) <= MAXOPBLOCKS
  BY DEF RoomInv
<1>2. /\ IsFiniteSet(wrote[p] \cap InLog)
      /\ Cardinality(wrote[p] \cap InLog) <= Cardinality(wrote[p])
  BY <1>1, FS_Intersection
<1>3. Cardinality(wrote[p]) \in Nat /\ Cardinality(wrote[p] \cap InLog) \in Nat
  BY <1>1, <1>2, FS_CardinalityType
<1>4. Spent[p] = Cardinality(wrote[p] \cap InLog)
  BY DEF Spent
<1>. QED  BY SMTT(20), <1>1, <1>2, <1>3, <1>4, LogAssumption

(* log_write:219, begin_op:132: a block that is new in the header finds    *)
(* room there, because its process has not spent its reservation.          *)
LEMMA RoomForNew ==
    ASSUME LogInv, RoomInv, NEW p \in Procs, pc[p] = "log_write", buf[p] \notin InLog
    PROVE  lh.n < LOGSIZE
<1>1. p \in Active
  BY DEF Active
<1>2. Spent[p] \in Nat /\ Spent[p] < MAXOPBLOCKS
  <2>1. buf[p] \in wrote[p] /\ IsFiniteSet(wrote[p]) /\ Cardinality(wrote[p]) <= MAXOPBLOCKS
    BY DEF RoomInv
  <2>2. wrote[p] \cap InLog \subseteq wrote[p] \ {buf[p]}
    OBVIOUS
  <2>3. IsFiniteSet(wrote[p] \ {buf[p]}) /\ Cardinality(wrote[p] \ {buf[p]}) = Cardinality(wrote[p]) - 1
    BY <2>1, FS_RemoveElement
  <2>4. Cardinality(wrote[p] \cap InLog) <= Cardinality(wrote[p] \ {buf[p]})
    BY <2>2, <2>3, FS_Subset
  <2>5. Cardinality(wrote[p]) \in Nat /\ Spent[p] = Cardinality(wrote[p] \cap InLog)
    BY <2>1, FS_CardinalityType DEF Spent
  <2>6. Spent[p] \in Nat
    BY SpentCount
  <2>. QED  BY SMTT(20), <2>1, <2>3, <2>4, <2>5, <2>6, LogAssumption
<1>3. Cardinality(UsedPlaces(Active, Spent)) + 1 <= Cardinality(Active) * MAXOPBLOCKS
  BY <1>1, <1>2, ActiveFinite, PlaceLeft
<1>4. outstanding = Cardinality(Active) /\ lh.n \in Nat /\ outstanding \in Nat
  BY Counters
<1>5. Cardinality(UsedPlaces(Active, Spent)) \in Nat
  BY ActiveFinite, UsedCount
<1>6. lh.n + outstanding * MAXOPBLOCKS <= LOGSIZE + Cardinality(UsedPlaces(Active, Spent))
  BY DEF RoomInv
<1>. QED  BY SMTT(20), <1>3, <1>4, <1>5, <1>6, LogAssumption

(* The next state: Active is finite there too.                             *)
LEMMA NextCounts ==
    ASSUME LogInv'
    PROVE  /\ IsFiniteSet(Active')
           /\ Cardinality(UsedPlaces(Active', Spent')) \in Nat
           /\ lh'.n \in Nat /\ lh'.n <= LOGSIZE
<1>1. IsFiniteSet(Active')
  BY LogAssumption, FS_Subset DEF Active
<1>2. lh'.n \in 0 .. LOGSIZE
  BY DEF LogInv, TypeOK
<1>3. Cardinality(UsedPlaces(Active', Spent')) \in Nat
  BY <1>1, UsedCount
<1>. QED  BY SMTT(20), <1>1, <1>2, <1>3, LogAssumption

(* A step without operations before and after it.                          *)
LEMMA RoomQuiet ==
    ASSUME LogInv, LogInv', RoomInv, outstanding' = 0,
           \A p \in Procs : wrote'[p] = wrote[p] \/ wrote'[p] = {},
           \A p \in Procs : pc'[p] # "log_write"
    PROVE  RoomInv'
<1>1. \A p \in Procs : IsFiniteSet(wrote'[p]) /\ Cardinality(wrote'[p]) <= MAXOPBLOCKS
  <2>1. IsFiniteSet({}) /\ Cardinality({}) <= MAXOPBLOCKS
    BY FS_EmptySet, LogAssumption, SMTT(20)
  <2>. QED  BY <2>1 DEF RoomInv
<1>2. lh'.n + outstanding' * MAXOPBLOCKS
         <= LOGSIZE + Cardinality(UsedPlaces(Active', Spent'))
  BY SMTT(20), NextCounts, LogAssumption
<1>. QED  BY <1>1, <1>2 DEF RoomInv

(* A step that changes neither the header nor the operations.              *)
LEMMA RoomFrame ==
    ASSUME RoomInv, UNCHANGED <<lh, outstanding, wrote, pc, buf>>
    PROVE  RoomInv'
<1>1. InLog' = InLog
  BY DEF InLog, InHeader
<1>2. Spent' = Spent /\ Active' = Active
  BY <1>1 DEF Spent, Active
<1>. QED  BY <1>2 DEF RoomInv

(* begin_op:132-141: the guard leaves room for all that the new operation  *)
(* may write.                                                              *)
LEMMA RoomBegin ==
    ASSUME LogInv, LogInv', RoomInv, NEW p \in Procs, begin_op(p)
    PROVE  RoomInv'
<1>1. lh' = lh /\ buf' = buf /\ pc \in [Procs -> {"user", "begin_op", "asleep", "in_op",
                         "log_write", "commit", "write_log", "write_head",
                         "install_trans", "erase", "committed"}]
      /\ wrote \in [Procs -> SUBSET Blocks]
  BY DEF begin_op, LogInv, TypeOK
<1>2. CASE MustWait
  <2>1. pc' = [pc EXCEPT ![p] = "asleep"] /\ UNCHANGED <<outstanding, wrote>>
        /\ pc[p] \in {"user", "begin_op"}
    BY <1>2 DEF begin_op
  <2>2. Active' = Active
    BY <1>1, <2>1 DEF Active
  <2>3. InLog' = InLog
    BY <1>1 DEF InLog, InHeader
  <2>4. Spent' = Spent
    BY <2>1, <2>3 DEF Spent
  <2>5. \A q \in Procs : pc'[q] = "log_write" => pc[q] = "log_write"
    BY <1>1, <2>1
  <2>. QED  BY <1>1, <2>1, <2>2, <2>4, <2>5 DEF RoomInv
<1>3. CASE ~MustWait
  <2>1. /\ pc' = [pc EXCEPT ![p] = "in_op"] /\ outstanding' = outstanding + 1
        /\ wrote' = [wrote EXCEPT ![p] = {}]
    BY <1>3 DEF begin_op
  <2>2. \A q \in Procs : IsFiniteSet(wrote'[q]) /\ Cardinality(wrote'[q]) <= MAXOPBLOCKS
    <3>1. IsFiniteSet({}) /\ Cardinality({}) <= MAXOPBLOCKS
      BY FS_EmptySet, LogAssumption, SMTT(20)
    <3>2. \A q \in Procs : wrote'[q] = wrote[q] \/ wrote'[q] = {}
      BY <1>1, <2>1
    <3>. QED  BY <3>1, <3>2 DEF RoomInv
  <2>3. \A q \in Procs : pc'[q] = "log_write" => q # p /\ pc[q] = "log_write"
    BY <1>1, <2>1
  <2>4. \A q \in Procs : q # p => wrote'[q] = wrote[q]
    BY <1>1, <2>1
  <2>5. \A q \in Procs : pc'[q] = "log_write" => buf'[q] \in wrote'[q]
    BY <1>1, <2>3, <2>4 DEF RoomInv
  <2>6. lh.n + (outstanding + 1) * MAXOPBLOCKS <= LOGSIZE
    <3>1. lh.n \in Nat /\ outstanding \in Nat
      BY Counters
    <3>. QED  BY SMTT(20), <1>3, <3>1, LogAssumption DEF MustWait
  <2>7. lh'.n + outstanding' * MAXOPBLOCKS
           <= LOGSIZE + Cardinality(UsedPlaces(Active', Spent'))
    <3>1. lh'.n + outstanding' * MAXOPBLOCKS <= LOGSIZE /\ outstanding \in Nat
      BY <1>1, <2>1, <2>6 DEF LogInv, TypeOK
    <3>. QED  BY SMTT(20), <2>1, <3>1, NextCounts, LogAssumption
  <2>. QED  BY <2>2, <2>5, <2>7 DEF RoomInv
<1>. QED  BY <1>2, <1>3

(* An operation that changes a block writes no more than it reserved.      *)
LEMMA RoomModify ==
    ASSUME LogInv, LogInv', RoomInv, NEW p \in Procs, NEW b \in Blocks, NEW v \in Val,
           modify(p, b, v)
    PROVE  RoomInv'
<1>1. /\ pc[p] = "in_op" /\ pc' = [pc EXCEPT ![p] = "log_write"]
      /\ buf' = [buf EXCEPT ![p] = b] /\ wrote' = [wrote EXCEPT ![p] = @ \cup {b}]
      /\ lh' = lh /\ outstanding' = outstanding
      /\ Cardinality(wrote[p] \cup {b}) <= MAXOPBLOCKS
  BY DEF modify, logvars
<1>2. /\ pc \in [Procs -> {"user", "begin_op", "asleep", "in_op", "log_write", "commit",
                           "write_log", "write_head", "install_trans", "erase", "committed"}]
      /\ wrote \in [Procs -> SUBSET Blocks] /\ buf \in [Procs -> Blocks \cup {NoBlock}]
  BY DEF LogInv, TypeOK
<1>3. /\ wrote'[p] = wrote[p] \cup {b} /\ buf'[p] = b
      /\ \A q \in Procs : q # p => wrote'[q] = wrote[q] /\ buf'[q] = buf[q] /\ pc'[q] = pc[q]
  BY <1>1, <1>2
<1>4. Active' = Active
  BY <1>1, <1>2 DEF Active
<1>5. IsFiniteSet(wrote[p]) /\ IsFiniteSet(wrote[p] \cup {b})
  BY FS_AddElement DEF RoomInv
<1>6. \A q \in Procs : IsFiniteSet(wrote'[q]) /\ Cardinality(wrote'[q]) <= MAXOPBLOCKS
  BY <1>1, <1>3, <1>5 DEF RoomInv
<1>7. \A q \in Procs : pc'[q] = "log_write" => buf'[q] \in wrote'[q]
  BY <1>3 DEF RoomInv
<1>8. InLog' = InLog
  BY <1>1 DEF InLog, InHeader
<1>9. \A q \in Procs : Spent[q] \in Nat /\ Spent'[q] \in Nat /\ Spent[q] <= Spent'[q]
  <2>. SUFFICES ASSUME NEW q \in Procs
                PROVE  Spent[q] \in Nat /\ Spent'[q] \in Nat /\ Spent[q] <= Spent'[q]
    OBVIOUS
  <2>1. Spent[q] \in Nat
    BY SpentCount
  <2>2. Spent[q] = Cardinality(wrote[q] \cap InLog) /\ Spent'[q] = Cardinality(wrote'[q] \cap InLog)
    BY <1>8 DEF Spent
  <2>3. wrote[q] \cap InLog \subseteq wrote'[q] \cap InLog
    BY <1>3
  <2>4. IsFiniteSet(wrote'[q] \cap InLog)
    BY <1>6, FS_Intersection
  <2>5. Cardinality(wrote[q] \cap InLog) <= Cardinality(wrote'[q] \cap InLog)
    BY <2>3, <2>4, FS_Subset
  <2>6. Cardinality(wrote'[q] \cap InLog) \in Nat
    BY <2>4, FS_CardinalityType
  <2>. QED  BY <2>1, <2>2, <2>5, <2>6
<1>10. Cardinality(UsedPlaces(Active, Spent)) <= Cardinality(UsedPlaces(Active', Spent'))
  <2>1. \A q \in Active : Spent[q] \in Nat /\ Spent'[q] \in Nat /\ Spent[q] <= Spent'[q]
    BY <1>9 DEF Active
  <2>. QED  BY <1>4, <2>1, ActiveFinite, UsedMore
<1>11. Cardinality(UsedPlaces(Active, Spent)) \in Nat
  BY ActiveFinite, UsedCount
<1>12. /\ lh.n \in Nat /\ outstanding \in Nat
       /\ lh.n + outstanding * MAXOPBLOCKS <= LOGSIZE + Cardinality(UsedPlaces(Active, Spent))
  BY Counters DEF RoomInv
<1>13. lh'.n + outstanding' * MAXOPBLOCKS
         <= LOGSIZE + Cardinality(UsedPlaces(Active', Spent'))
  BY SMTT(20), <1>1, <1>10, <1>11, <1>12, NextCounts, LogAssumption
<1>. QED  BY <1>6, <1>7, <1>13 DEF RoomInv

(* log_write:219-231: an entry is added only for a block of the process    *)
(* that the header did not name, so its process has spent one more.        *)
LEMMA RoomLogWrite ==
    ASSUME LogInv, LogInv', RoomInv, NEW p \in Procs, log_write(p)
    PROVE  RoomInv'
<1>1. CASE LogWritePanic # "none"
  <2>1. UNCHANGED <<lh, outstanding, wrote, pc, buf>>
    BY <1>1 DEF log_write
  <2>. QED  BY <2>1, RoomFrame
<1>2. CASE LogWritePanic = "none"
  <2>1. /\ pc[p] = "log_write" /\ pc' = [pc EXCEPT ![p] = "in_op"]
        /\ buf' = [buf EXCEPT ![p] = NoBlock] /\ wrote' = wrote
        /\ outstanding' = outstanding
    BY <1>2 DEF log_write
  <2>2. /\ pc \in [Procs -> {"user", "begin_op", "asleep", "in_op", "log_write", "commit",
                             "write_log", "write_head", "install_trans", "erase", "committed"}]
        /\ buf \in [Procs -> Blocks \cup {NoBlock}]
    BY DEF LogInv, TypeOK
  <2>3. Active' = Active
    BY <2>1, <2>2 DEF Active
  <2>4. \A q \in Procs : pc'[q] = "log_write" => buf'[q] \in wrote'[q]
    <3>1. \A q \in Procs : pc'[q] = "log_write" => pc[q] = "log_write" /\ buf'[q] = buf[q]
      BY <2>1, <2>2
    <3>. QED  BY <2>1, <3>1 DEF RoomInv
  <2>5. \A q \in Procs : IsFiniteSet(wrote'[q]) /\ Cardinality(wrote'[q]) <= MAXOPBLOCKS
    BY <2>1 DEF RoomInv
  <2>6. /\ lh.n \in Nat /\ outstanding \in Nat
        /\ lh.n + outstanding * MAXOPBLOCKS <= LOGSIZE + Cardinality(UsedPlaces(Active, Spent))
    BY Counters DEF RoomInv
  <2>7. CASE \E i \in Slots : i < lh.n /\ lh.block[i] = buf[p]
    <3>1. lh' = lh
      BY <1>2, <2>7 DEF log_write, InHeader
    <3>2. InLog' = InLog
      BY <3>1 DEF InLog, InHeader
    <3>3. Spent' = Spent
      BY <2>1, <3>2 DEF Spent
    <3>. QED  BY <2>1, <2>3, <2>4, <2>5, <3>1, <3>3 DEF RoomInv
  <2>8. CASE ~ \E i \in Slots : i < lh.n /\ lh.block[i] = buf[p]
    <3>1. lh' = [n |-> lh.n + 1, block |-> [lh.block EXCEPT ![lh.n] = buf[p]]]
      BY <1>2, <2>8 DEF log_write, InHeader
    <3>2. lh.n \in Slots /\ lh.block \in [Slots -> Blocks \cup {NoBlock}]
      <4>1. lh.n < LOGSIZE
        BY SMTT(20), <1>2, <2>6, LogAssumption DEF LogWritePanic
      <4>2. lh.block \in [Slots -> Blocks \cup {NoBlock}]
        BY DEF LogInv, TypeOK
      <4>. QED  BY SMTT(20), <2>6, <4>1, <4>2, LogAssumption DEF Slots
    <3>3. /\ lh'.n = lh.n + 1 /\ lh'.block[lh.n] = buf[p]
          /\ \A i \in Slots : i # lh.n => lh'.block[i] = lh.block[i]
      BY <3>1, <3>2
    <3>4. /\ buf[p] \in Blocks /\ buf[p] \notin InLog
      <4>1. buf[p] # NoBlock
        BY <2>1 DEF LogInv, BufferInv
      <4>. QED  BY <2>2, <2>8, <4>1 DEF InLog, InHeader
    <3>5. InLog \subseteq InLog' /\ buf[p] \in InLog'
      <4>1. \A i \in Slots : i < lh.n => i < lh.n + 1 /\ i # lh.n
        BY SMTT(20), <2>6 DEF Slots
      <4>2. lh.n < lh.n + 1
        BY SMTT(20), <2>6
      <4>. QED  BY <3>2, <3>3, <3>4, <4>1, <4>2 DEF InLog, InHeader
    <3>6. \A q \in Procs : /\ Spent[q] \in Nat /\ Spent'[q] \in Nat
                           /\ Spent[q] <= Spent'[q] /\ Spent'[q] <= MAXOPBLOCKS
      <4>. SUFFICES ASSUME NEW q \in Procs
                    PROVE  /\ Spent[q] \in Nat /\ Spent'[q] \in Nat
                           /\ Spent[q] <= Spent'[q] /\ Spent'[q] <= MAXOPBLOCKS
        OBVIOUS
      <4>1. Spent[q] \in Nat
        BY SpentCount
      <4>2. Spent[q] = Cardinality(wrote[q] \cap InLog) /\ Spent'[q] = Cardinality(wrote[q] \cap InLog')
        BY <2>1 DEF Spent
      <4>3. IsFiniteSet(wrote[q]) /\ Cardinality(wrote[q]) <= MAXOPBLOCKS
        BY DEF RoomInv
      <4>4. /\ IsFiniteSet(wrote[q] \cap InLog')
            /\ Cardinality(wrote[q] \cap InLog') <= Cardinality(wrote[q])
        BY <4>3, FS_Intersection
      <4>5. wrote[q] \cap InLog \subseteq wrote[q] \cap InLog'
        BY <3>5
      <4>6. Cardinality(wrote[q] \cap InLog) <= Cardinality(wrote[q] \cap InLog')
        BY <4>4, <4>5, FS_Subset
      <4>7. Cardinality(wrote[q] \cap InLog') \in Nat /\ Cardinality(wrote[q]) \in Nat
        BY <4>3, <4>4, FS_CardinalityType
      <4>. QED  BY SMTT(20), <4>1, <4>2, <4>3, <4>4, <4>6, <4>7, LogAssumption
    <3>7. Spent[p] < Spent'[p]
      <4>1. IsFiniteSet(wrote[p] \cap InLog) /\ IsFiniteSet(wrote[p])
        BY SpentCount DEF RoomInv
      <4>2. buf[p] \in wrote[p]
        BY <2>1 DEF RoomInv
      <4>3. Cardinality((wrote[p] \cap InLog) \cup {buf[p]}) = Cardinality(wrote[p] \cap InLog) + 1
        BY <3>4, <4>1, FS_AddElement
      <4>4. (wrote[p] \cap InLog) \cup {buf[p]} \subseteq wrote[p] \cap InLog'
        BY <3>5, <4>2
      <4>5. IsFiniteSet(wrote[p] \cap InLog')
        BY <4>1, FS_Intersection
      <4>6. Cardinality((wrote[p] \cap InLog) \cup {buf[p]}) <= Cardinality(wrote[p] \cap InLog')
        BY <4>4, <4>5, FS_Subset
      <4>7. Spent[p] = Cardinality(wrote[p] \cap InLog) /\ Spent'[p] = Cardinality(wrote[p] \cap InLog')
        BY <2>1 DEF Spent
      <4>. QED  BY SMTT(20), <3>6, <4>3, <4>6, <4>7
    <3>8. Cardinality(UsedPlaces(Active, Spent)) + 1 <= Cardinality(UsedPlaces(Active', Spent'))
      <4>1. \A q \in Active : Spent[q] \in Nat /\ Spent'[q] \in Nat /\ Spent[q] <= Spent'[q]
        BY <3>6 DEF Active
      <4>2. p \in Active
        BY <2>1 DEF Active
      <4>. QED  BY <2>3, <3>6, <3>7, <4>1, <4>2, ActiveFinite, UsedOneMore
    <3>9. Cardinality(UsedPlaces(Active, Spent)) \in Nat
      BY ActiveFinite, UsedCount
    <3>10. lh'.n + outstanding' * MAXOPBLOCKS
             <= LOGSIZE + Cardinality(UsedPlaces(Active', Spent'))
      BY SMTT(20), <2>1, <2>6, <3>3, <3>8, <3>9, NextCounts, LogAssumption
    <3>. QED  BY <2>4, <2>5, <3>10 DEF RoomInv
  <2>. QED  BY <2>7, <2>8
<1>. QED  BY <1>1, <1>2

(* fs.c:522-525: what a failed copy leaves behind takes no room.           *)
LEMMA RoomCopyFailed ==
    ASSUME LogInv, LogInv', RoomInv, NEW p \in Procs, copy_failed(p)
    PROVE  RoomInv'
<1>1. /\ pc[p] = "log_write" /\ pc' = [pc EXCEPT ![p] = "in_op"]
      /\ buf' = [buf EXCEPT ![p] = NoBlock]
      /\ UNCHANGED <<lh, outstanding, wrote>>
  BY DEF copy_failed, logvars
<1>2. Active' = Active
  BY <1>1 DEF Active, LogInv, TypeOK
<1>3. InLog' = InLog
  BY <1>1 DEF InLog, InHeader
<1>4. Spent' = Spent
  BY <1>1, <1>3 DEF Spent
<1>5. \A q \in Procs : pc'[q] = "log_write" => pc[q] = "log_write" /\ buf'[q] = buf[q]
  BY <1>1 DEF LogInv, TypeOK
<1>. QED  BY <1>1, <1>2, <1>4, <1>5 DEF RoomInv

(* end_op:152: an operation that ends gives its reservation back.          *)
LEMMA RoomEnd ==
    ASSUME LogInv, LogInv', RoomInv, NEW p \in Procs, end_op(p)
    PROVE  RoomInv'
<1>1. /\ pc[p] = "in_op" /\ outstanding' = outstanding - 1
      /\ UNCHANGED <<lh, buf, wrote>>
  BY DEF end_op
<1>2. p \in Active /\ ~committing
  BY <1>1, InOp DEF Active
<1>3. pc \in [Procs -> {"user", "begin_op", "asleep", "in_op", "log_write", "commit",
                       "write_log", "write_head", "install_trans", "erase", "committed"}]
  BY DEF LogInv, TypeOK
<1>4. /\ pc'[p] \in {"commit", "user"}
      /\ \A q \in Procs : q # p => pc'[q] = pc[q] \/ (pc[q] = "asleep" /\ pc'[q] = "begin_op")
  BY <1>2, <1>3 DEF end_op, WakeLog
<1>5. Active' = Active \ {p}
  BY <1>4 DEF Active
<1>6. InLog' = InLog
  BY <1>1 DEF InLog, InHeader
<1>7. Spent' = Spent
  BY <1>1, <1>6 DEF Spent
<1>8. Cardinality(UsedPlaces(Active, Spent)) <= Cardinality(UsedPlaces(Active', Spent')) + MAXOPBLOCKS
  BY <1>2, <1>5, <1>7, ActiveFinite, UsedLeaves
<1>9. Cardinality(UsedPlaces(Active, Spent)) \in Nat
  BY ActiveFinite, UsedCount
<1>10. /\ lh.n \in Nat /\ outstanding \in Nat
       /\ lh.n + outstanding * MAXOPBLOCKS <= LOGSIZE + Cardinality(UsedPlaces(Active, Spent))
  BY Counters DEF RoomInv
<1>11. lh'.n + outstanding' * MAXOPBLOCKS
         <= LOGSIZE + Cardinality(UsedPlaces(Active', Spent'))
  BY SMTT(20), <1>1, <1>8, <1>9, <1>10, NextCounts, LogAssumption
<1>12. \A q \in Procs : pc'[q] = "log_write" => buf'[q] \in wrote'[q]
  BY <1>1, <1>4 DEF RoomInv
<1>. QED  BY <1>1, <1>11, <1>12 DEF RoomInv

(* commit() and recovery run without operations.                           *)
LEMMA RoomCommit ==
    ASSUME LogInv, LogInv', RoomInv, NEW p \in Procs, Commit(p)
    PROVE  RoomInv'
<1>1. pc[p] \in CommitPcs /\ UNCHANGED <<outstanding, wrote>>
  BY DEF Commit, commit, write_log, write_head, install_trans, erase, end_commit, CommitPcs,
         logvars
<1>2. outstanding = 0 /\ outstanding' = 0
  BY <1>1, Alone
<1>3. \A q \in Procs : pc'[q] # "log_write"
  <2>1. \A q \in Procs : pc'[q] \notin {"in_op", "log_write"}
    <3>1. outstanding' = 0 /\ outstanding' = Cardinality(Active')
      BY <1>2 DEF LogInv, ControlInv
    <3>2. Active' = {}
      BY <3>1, NextCounts, FS_EmptySet
    <3>. QED  BY <3>2 DEF Active
  <2>. QED  BY <2>1
<1>. QED  BY <1>1, <1>2, <1>3, RoomQuiet

LEMMA RoomRecover ==
    ASSUME LogInv, LogInv', RoomInv, Recover
    PROVE  RoomInv'
<1>1. boot # "up" /\ UNCHANGED <<outstanding, wrote, pc>>
  BY DEF Recover, read_head, recover_install, recover_erase, logvars, procvars
<1>2. outstanding = 0 /\ \A q \in Procs : pc[q] = "user"
  BY <1>1, Booting
<1>. QED  BY <1>1, <1>2, RoomQuiet

LEMMA RoomCrash ==
    ASSUME LogInv, LogInv', RoomInv, Crash
    PROVE  RoomInv'
<1>1. /\ outstanding' = 0 /\ wrote' = [q \in Procs |-> {}]
      /\ pc' = [q \in Procs |-> "user"]
  BY DEF Crash
<1>2. \A q \in Procs : wrote'[q] = {} /\ pc'[q] # "log_write"
  BY <1>1
<1>. QED  BY <1>1, <1>2, RoomQuiet

LEMMA NextRoom == LogInv /\ LogInv' /\ RoomInv /\ [Next]_vars => RoomInv'
<1>. SUFFICES ASSUME LogInv, LogInv', RoomInv, [Next]_vars PROVE RoomInv'
  OBVIOUS
<1>1. ASSUME NEW p \in Procs, Operation(p) PROVE RoomInv'
  BY <1>1, RoomBegin, RoomModify, RoomLogWrite, RoomCopyFailed, RoomEnd DEF Operation
<1>2. ASSUME NEW p \in Procs, Commit(p) PROVE RoomInv'
  BY <1>2, RoomCommit
<1>3. CASE Recover
  BY <1>3, RoomRecover
<1>4. ASSUME NEW b \in Blocks, recycle(b) \/ bread(b) PROVE RoomInv'
  <2>1. UNCHANGED <<lh, outstanding, wrote, pc, buf>>
    BY <1>4 DEF recycle, bread, logvars, procvars
  <2>. QED  BY <2>1, RoomFrame
<1>5. CASE Crash
  BY <1>5, RoomCrash
<1>6. CASE UNCHANGED vars
  <2>1. UNCHANGED <<lh, outstanding, wrote, pc, buf>>
    BY <1>6 DEF vars, logvars, procvars
  <2>. QED  BY <2>1, RoomFrame
<1>. QED  BY <1>1, <1>2, <1>3, <1>4, <1>5, <1>6 DEF Next

(* begin_op:132: at every moment the header has room for all that the      *)
(* operations in progress may still write of the MAXOPBLOCKS each of them  *)
(* has reserved.                                                           *)
THEOREM ReservationCovers == Spec => []RoomInv
<1>1. ASSUME Init PROVE RoomInv
  <2>1. \A p \in Procs : wrote[p] = {} /\ pc[p] = "user"
    BY <1>1 DEF Init
  <2>2. IsFiniteSet({}) /\ Cardinality({}) <= MAXOPBLOCKS
    BY FS_EmptySet, LogAssumption, SMTT(20)
  <2>3. lh.n = 0 /\ outstanding = 0
    BY <1>1 DEF Init, ZeroHead
  <2>4. Cardinality(UsedPlaces(Active, Spent)) \in Nat
    BY ActiveFinite, UsedCount
  <2>5. lh.n + outstanding * MAXOPBLOCKS <= LOGSIZE + Cardinality(UsedPlaces(Active, Spent))
    BY SMTT(20), <2>3, <2>4, LogAssumption
  <2>. QED  BY <2>1, <2>2, <2>5 DEF RoomInv
<1>2. RoomInv /\ LogInv /\ LogInv' /\ [Next]_vars => RoomInv'
  BY NextRoom
<1>. QED  BY <1>1, <1>2, LogInvariant, PTL DEF Spec

\* log_write:219 panics only when the on-disk log has no block for another
\* entry, or for a block it would absorb while the header is full.
PanicsWhenFull ==
    panic # "none" =>
        \E p \in Procs :
            /\ pc[p] = "log_write"
            /\ lh.n >= NLOG - 1 \/ (lh.n = LOGSIZE /\ buf[p] \in InLog)

\* Every step keeps that: the reservations leave room for the entry.
LEMMA NextPanic == LogInv /\ RoomInv /\ PanicsWhenFull /\ [Next]_vars => PanicsWhenFull'
<1>. SUFFICES ASSUME LogInv, RoomInv, PanicsWhenFull, [Next]_vars PROVE PanicsWhenFull'
  OBVIOUS
<1>1. CASE UNCHANGED <<lh, pc, buf, panic>>
  <2>1. InLog' = InLog
    BY <1>1 DEF InLog, InHeader
  <2>. QED  BY <1>1, <2>1 DEF PanicsWhenFull
<1>2. CASE panic' = "none"
  BY <1>2 DEF PanicsWhenFull
<1>3. ASSUME NEW p \in Procs, log_write(p), panic' # "none" PROVE PanicsWhenFull'
  <2>1. pc[p] = "log_write" /\ panic' = LogWritePanic /\ UNCHANGED <<lh, pc, buf>>
    BY <1>3 DEF log_write
  <2>2. InLog' = InLog
    BY <2>1 DEF InLog, InHeader
  <2>3. outstanding \in Nat /\ outstanding > 0
    BY <2>1, InOp
  <2>4. lh.n >= LOGSIZE \/ lh.n >= NLOG - 1
    <3>1. ~(outstanding < 1)
      BY SMTT(20), <2>3
    <3>. QED  BY <1>3, <2>1, <3>1 DEF LogWritePanic
  <2>5. lh.n >= NLOG - 1 \/ (lh.n = LOGSIZE /\ buf[p] \in InLog)
    <3>1. CASE lh.n >= LOGSIZE
      <4>1. lh.n \in Nat /\ lh.n <= LOGSIZE
        BY Counters
      <4>2. lh.n = LOGSIZE /\ ~(lh.n < LOGSIZE)
        BY SMTT(20), <3>1, <4>1, LogAssumption
      <4>3. buf[p] \in InLog
        BY <2>1, <4>2, RoomForNew
      <4>. QED  BY <4>2, <4>3
    <3>. QED  BY <2>4, <3>1
  <2>. QED  BY <2>1, <2>2, <2>5 DEF PanicsWhenFull
<1>4. ASSUME NEW p \in Procs, Operation(p) PROVE PanicsWhenFull'
  <2>1. CASE begin_op(p) \/ copy_failed(p) \/ \E b \in Blocks, v \in Val : modify(p, b, v)
    BY <1>2, <2>1 DEF begin_op, modify, copy_failed
  <2>2. CASE end_op(p)
    <3>1. ~committing
      BY <2>2, InOp DEF end_op
    <3>. QED  BY <1>2, <2>2, <3>1 DEF end_op
  <2>. QED  BY <1>2, <1>3, <1>4, <2>1, <2>2 DEF Operation
<1>5. ASSUME NEW p \in Procs, Commit(p) PROVE PanicsWhenFull'
  BY <1>2, <1>5 DEF Commit, commit, write_log, write_head, install_trans, erase, end_commit
<1>6. CASE Recover
  BY <1>2, <1>6 DEF Recover, read_head, recover_install, recover_erase
<1>7. ASSUME NEW b \in Blocks, recycle(b) \/ bread(b) PROVE PanicsWhenFull'
  BY <1>2, <1>7 DEF recycle, bread
<1>8. CASE Crash
  BY <1>2, <1>8 DEF Crash
<1>9. CASE UNCHANGED vars
  BY <1>1, <1>9 DEF vars, logvars, procvars
<1>. QED  BY <1>4, <1>5, <1>6, <1>7, <1>8, <1>9 DEF Next

(* log_write:219-223, end_op:153: the only panic of the log is that of a   *)
(* full log.  Where nlog, which counts the header too, is larger than      *)
(* LOGSIZE, a block that is new in the header always finds room, and only  *)
(* one that is already there can meet the panic.                           *)
THEOREM PanicMeansFullLog == Spec => []PanicsWhenFull
<1>1. Init => PanicsWhenFull
  BY DEF Init, PanicsWhenFull
<1>. QED  BY <1>1, NextPanic, LogInvariant, ReservationCovers, PTL DEF Spec
=============================================================================
