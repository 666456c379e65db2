----------------------------- MODULE PipeProofs -----------------------------
(***************************************************************************)
(* Proofs about Pipe, for any readers and writers, any size of the buffer  *)
(* and any modulus that the buffer divides: no call sleeps on a condition  *)
(* that does not hold, a read of 0 bytes is the end of file, the pipe is   *)
(* freed when it is unused, and the pipe is a bounded queue.               *)
(***************************************************************************)
EXTENDS Pipe, SequenceTheorems, TLAPS

\* Backends and time limits for the proofs of this module.
USE SMTT(20), ZenonT(30)

-----------------------------------------------------------------------------
(* The inductive invariant.                                                *)

WriterPcs == {"user", "pipewrite", "write-loop", "pipewrite-full",
              "pipewrite-sleep", "write-end", "pipeclose", "closed"}

ReaderPcs == {"user", "piperead", "pipe-empty", "read-wait", "piperead-sleep",
              "piperead-copy", "read-end", "read-fault", "pipeclose", "closed"}

\* From acquire(&pi->lock) to release or sleep.
Locked == {"write-loop", "pipewrite-full", "write-end", "pipe-empty", "read-wait",
           "piperead-copy", "read-end", "read-fault"}

\* The second half of piperead(), which ends in wakeup(&pi->nwrite).
Taking == {"piperead-copy", "read-end", "read-fault"}

\* The bytes in the buffer.
Used == (nwrite - nread) % WRAP

\* pi->lock excludes; writers write and readers read.
LockInv ==
    /\ \A p \in Writers : pc[p] \in WriterPcs
    /\ \A p \in Readers : pc[p] \in ReaderPcs
    /\ \A p \in Procs : pc[p] \in Locked <=> lock = p
    /\ \A p \in Procs : killed[p] => p \in Killable

\* An end is open until the last process that has it is in pipeclose().
CloseInv ==
    /\ \A p \in Procs : p \in refs <=> pc[p] \notin {"pipeclose", "closed"}
    /\ \A p \in Writers : pc[p] # "closed" => writeopen
    /\ \A p \in Readers : pc[p] # "closed" => readopen
    /\ \A p \in Writers : pc[p] = "pipeclose" => \A q \in Writers \ {p} : pc[q] = "closed"
    /\ \A p \in Readers : pc[p] = "pipeclose" => \A q \in Readers \ {p} : pc[q] = "closed"
    /\ freed => ~readopen /\ ~writeopen

\* What a call has found out about the pipe since it took pi->lock.
CallInv ==
    /\ Used <= PIPESIZE
    /\ \A p \in Procs : i[p] <= n[p]
    /\ \A p \in Procs : pc[p] \in {"user", "pipeclose", "closed"} => i[p] = 0
    /\ \A p \in Readers : pc[p] \notin Taking => i[p] = 0
    /\ \A p \in Procs : pc[p] = "read-wait" => Empty /\ writeopen
    /\ \A p \in Procs : pc[p] = "pipewrite-full" => Full /\ readopen
    /\ \A p \in Procs : pc[p] = "piperead-copy" /\ i[p] = 0 => ~Empty \/ ~writeopen
    /\ ZeroIsEndOfFile

\* A reader sleeps on an empty pipe, or a writer that holds pi->lock has not
\* yet called wakeup(&pi->nread); and the same for a writer.
ReaderSleepInv ==
    \A p \in Readers : pc[p] = "piperead-sleep" => writeopen /\ (Empty \/ lock \in Writers)

WriterSleepInv ==
    \A p \in Writers : pc[p] = "pipewrite-sleep" =>
        readopen /\ (Full \/ \E q \in Readers : pc[q] \in Taking)

PipeInv ==
    /\ TypeOK
    /\ LockInv
    /\ CloseInv
    /\ CallInv
    /\ WriterSleepInv
    /\ Killable \cap Writers = {} => ReaderSleepInv

-----------------------------------------------------------------------------
(* Arithmetic modulo WRAP and modulo PIPESIZE.                             *)

(* The remainder of a number less than one modulus away from the range.    *)
LEMMA Remainder ==
    ASSUME NEW a \in Int
    PROVE  /\ a \in 0 .. WRAP - 1 => a % WRAP = a
           /\ a \in WRAP .. 2 * WRAP - 1 => a % WRAP = a - WRAP
           /\ a \in -WRAP .. -1 => a % WRAP = a + WRAP
<1>. DEFINE W == WRAP
<1>. W \in Nat \ {0}
  BY PipeAssumption DEF PipeAssumption
<1>. HIDE DEF W
<1>1. \A q \in Int, r \in 0 .. W - 1 : (W * q + r) % W = r
  OBVIOUS
<1>2. ASSUME a \in 0 .. W - 1 PROVE a % W = a
  BY <1>2
<1>3. ASSUME a \in W .. 2 * W - 1 PROVE a % W = a - W
  <2>1. a - W \in 0 .. W - 1 /\ a = W * 1 + (a - W)
    BY <1>3
  <2>. QED  BY <2>1, <1>1
<1>4. ASSUME a \in -W .. -1 PROVE a % W = a + W
  <2>1. a + W \in 0 .. W - 1 /\ a = W * (-1) + (a + W)
    BY <1>4
  <2>. QED  BY <2>1, <1>1
<1>. QED  BY <1>2, <1>3, <1>4 DEF W

(* nread and nwrite, r and w here, tell how many bytes the buffer holds,   *)
(* and whether it is empty or full, also when they have wrapped around.    *)
LEMMA Ring ==
    ASSUME NEW r \in 0 .. WRAP - 1, NEW w \in 0 .. WRAP - 1
    PROVE  /\ (w - r) % WRAP = IF w >= r THEN w - r ELSE w - r + WRAP
           /\ r = w <=> (w - r) % WRAP = 0
           /\ w = (r + PIPESIZE) % WRAP <=> (w - r) % WRAP = PIPESIZE
<1>. USE PipeAssumption DEF PipeAssumption
<1>1. (w - r) % WRAP = IF w >= r THEN w - r ELSE w - r + WRAP
  <2>1. w - r \in 0 .. WRAP - 1 \/ w - r \in -WRAP .. -1
    OBVIOUS
  <2>. QED  BY <2>1, Remainder
<1>2. (r + PIPESIZE) % WRAP = IF r + PIPESIZE < WRAP THEN r + PIPESIZE
                              ELSE r + PIPESIZE - WRAP
  <2>1. r + PIPESIZE \in 0 .. WRAP - 1 \/ r + PIPESIZE \in WRAP .. 2 * WRAP - 1
    OBVIOUS
  <2>. QED  BY <2>1, Remainder
<1>. QED  BY <1>1, <1>2

(* The same, of a state.                                                   *)
LEMMA BytesUsed ==
    ASSUME TypeOK
    PROVE  /\ Used \in Nat
           /\ Used = IF nwrite >= nread THEN nwrite - nread ELSE nwrite - nread + WRAP
           /\ Empty <=> Used = 0
           /\ Full <=> Used = PIPESIZE
<1>1. nread \in 0 .. WRAP - 1 /\ nwrite \in 0 .. WRAP - 1
  BY DEF TypeOK
<1>2. WRAP \in Nat
  BY PipeAssumption DEF PipeAssumption
<1>. QED  BY <1>1, <1>2, Ring DEF Used, Empty, Full

(* nwrite++ and nread++.                                                   *)
LEMMA Increment ==
    ASSUME NEW r \in 0 .. WRAP - 1, NEW w \in 0 .. WRAP - 1
    PROVE  /\ (w + 1) % WRAP = IF w = WRAP - 1 THEN 0 ELSE w + 1
           /\ (w - r) % WRAP < PIPESIZE =>
                (((w + 1) % WRAP) - r) % WRAP = ((w - r) % WRAP) + 1
           /\ r # w => (w - ((r + 1) % WRAP)) % WRAP = ((w - r) % WRAP) - 1
<1>. USE PipeAssumption DEF PipeAssumption
<1>1. \A x \in 0 .. WRAP - 1 : (x + 1) % WRAP = IF x = WRAP - 1 THEN 0 ELSE x + 1
  <2>. TAKE x \in 0 .. WRAP - 1
  <2>1. x + 1 \in 0 .. WRAP - 1 \/ x + 1 \in WRAP .. 2 * WRAP - 1
    OBVIOUS
  <2>. QED  BY <2>1, Remainder
<1>2. (w + 1) % WRAP \in 0 .. WRAP - 1 /\ (r + 1) % WRAP \in 0 .. WRAP - 1
  BY <1>1
<1>3. \A x, y \in 0 .. WRAP - 1 :
          (y - x) % WRAP = IF y >= x THEN y - x ELSE y - x + WRAP
  BY Ring
<1>. DEFINE u == (w + 1) % WRAP
            v == (r + 1) % WRAP
<1>4. /\ (u - r) % WRAP = IF u >= r THEN u - r ELSE u - r + WRAP
      /\ (w - v) % WRAP = IF w >= v THEN w - v ELSE w - v + WRAP
  <2>. HIDE DEF u, v
  <2>1. u \in 0 .. WRAP - 1 /\ v \in 0 .. WRAP - 1
    BY <1>2 DEF u, v
  <2>. QED  BY <1>3, <2>1
<1>5. (w - r) % WRAP = IF w >= r THEN w - r ELSE w - r + WRAP
  BY <1>3
<1>6. /\ u = IF w = WRAP - 1 THEN 0 ELSE w + 1
      /\ v = IF r = WRAP - 1 THEN 0 ELSE r + 1
  BY <1>1
<1>7. (w - r) % WRAP < PIPESIZE => (u - r) % WRAP = ((w - r) % WRAP) + 1
  <2>. HIDE DEF u
  <2>. QED  BY <1>4, <1>5, <1>6
<1>8. r # w => (w - v) % WRAP = ((w - r) % WRAP) - 1
  <2>. HIDE DEF v
  <2>. QED  BY <1>4, <1>5, <1>6
<1>. QED  BY <1>6, <1>7, <1>8

(* A byte goes in, a byte comes out.                                       *)
LEMMA PutOne ==
    ASSUME TypeOK, Used <= PIPESIZE, ~Full,
           nwrite' = (nwrite + 1) % WRAP, UNCHANGED nread
    PROVE  Used < PIPESIZE /\ Used' = Used + 1
<1>1. Used < PIPESIZE
  BY BytesUsed, PipeAssumption DEF PipeAssumption
<1>2. nread \in 0 .. WRAP - 1 /\ nwrite \in 0 .. WRAP - 1
  BY DEF TypeOK
<1>3. Used' = (((nwrite + 1) % WRAP) - nread) % WRAP
  BY DEF Used
<1>. QED  BY <1>1, <1>2, <1>3, Increment DEF Used

LEMMA TakeOne ==
    ASSUME TypeOK, ~Empty, nread' = (nread + 1) % WRAP, UNCHANGED nwrite
    PROVE  Used' = Used - 1
<1>1. nread \in 0 .. WRAP - 1 /\ nwrite \in 0 .. WRAP - 1
  BY DEF TypeOK
<1>2. Used' = (nwrite - ((nread + 1) % WRAP)) % WRAP
  BY DEF Used
<1>. QED  BY <1>1, <1>2, Increment DEF Used, Empty

(* The place in the buffer of the byte with number a, when numbers are     *)
(* taken modulo WRAP; less than PIPESIZE bytes in a row have different     *)
(* places.                                                                 *)
LEMMA Place ==
    ASSUME NEW a \in Int
    PROVE  /\ a % PIPESIZE \in 0 .. PIPESIZE - 1
           /\ (a + WRAP) % PIPESIZE = a % PIPESIZE
           /\ \A b \in Int : a < b /\ b < a + PIPESIZE => a % PIPESIZE # b % PIPESIZE
<1>. USE PipeAssumption DEF PipeAssumption
<1>1. \A x \in Int : /\ x \div PIPESIZE \in Int
                     /\ x % PIPESIZE \in 0 .. PIPESIZE - 1
                     /\ x = PIPESIZE * (x \div PIPESIZE) + (x % PIPESIZE)
  OBVIOUS
<1>2. \A q \in Int, s \in 0 .. PIPESIZE - 1 : (PIPESIZE * q + s) % PIPESIZE = s
  OBVIOUS
<1>3. (a + WRAP) % PIPESIZE = a % PIPESIZE
  <2>. DEFINE q == a \div PIPESIZE
              c == WRAP \div PIPESIZE
              s == a % PIPESIZE
  <2>1. q \in Int /\ c \in Int /\ s \in 0 .. PIPESIZE - 1
    BY <1>1
  <2>2. a = PIPESIZE * q + s /\ WRAP = PIPESIZE * c + 0
    BY <1>1
  <2>. HIDE DEF q, c, s
  <2>3. PIPESIZE * (q + c) = PIPESIZE * q + PIPESIZE * c
    BY <2>1
  <2>4. a + WRAP = PIPESIZE * (q + c) + s
    BY <2>1, <2>2, <2>3
  <2>5. (a + WRAP) % PIPESIZE = s
    BY <2>1, <2>4, <1>2
  <2>. QED  BY <2>5 DEF s
<1>4. ASSUME NEW b \in Int, a < b, b < a + PIPESIZE, a % PIPESIZE = b % PIPESIZE
      PROVE  FALSE
  <2>1. PICK q \in Int : a = PIPESIZE * q + (a % PIPESIZE)
    BY <1>1, Zenon
  <2>2. PICK s \in Int : b = PIPESIZE * s + (b % PIPESIZE)
    BY <1>1, Zenon
  <2>3. b - a = PIPESIZE * (s - q)
    BY <2>1, <2>2, <1>1, <1>4
  <2>4. s - q >= 1
    <3>1. ASSUME s - q <= 0 PROVE PIPESIZE * (s - q) <= 0
      BY <3>1
    <3>. QED  BY <2>3, <3>1, <1>4
  <2>5. PIPESIZE * (s - q) >= PIPESIZE
    BY <2>4
  <2>. QED  BY <2>3, <2>5, <1>4
<1>. QED  BY <1>1, <1>3, <1>4, Zenon

-----------------------------------------------------------------------------
(* Every action keeps the invariant.                                       *)

(* acquire(&pi->lock): nobody else holds it.                               *)
LEMMA AcquireInv ==
    ASSUME PipeInv, NEW p \in Procs, acquire(p)
    PROVE  PipeInv'
<1>. USE PipeAssumption DEF PipeAssumption, PipeInv
<1>1. TypeOK'
  BY DEF TypeOK, acquire, Goto, pipe
<1>2. LockInv'
  BY DEF TypeOK, LockInv, WriterPcs, ReaderPcs, Locked, Procs, acquire, Goto
<1>3. CloseInv'
  BY DEF CloseInv, acquire, Goto, pipe
<1>4. CallInv'
  BY DEF CallInv, Taking, Used, Empty, Full, ZeroIsEndOfFile, acquire, Goto,
     pipe
<1>5. WriterSleepInv'
  BY DEF WriterSleepInv, Taking, Full, acquire, Goto, pipe
<1>6. (Killable \cap Writers = {} => ReaderSleepInv)'
  BY DEF ReaderSleepInv, Empty, acquire, Goto, pipe
<1>. QED  BY <1>1, <1>2, <1>3, <1>4, <1>5, <1>6

(* A turn of the loop of pipewrite().                                      *)
LEMMA WriteLoopInv ==
    ASSUME PipeInv, NEW p \in Procs, write_loop(p)
    PROVE  PipeInv'
<1>. USE PipeAssumption DEF PipeAssumption, PipeInv
<1>0. At(p, "write-loop") /\ UNCHANGED <<nread, readopen, writeopen, freed, refs, killed>>
  BY DEF write_loop
<1>1. ASSUME Goto(p, "write-end"), UNCHANGED <<data, nwrite, lock, n, i>>
      PROVE  PipeInv'
  <2>1. TypeOK'
    BY <1>1, <1>0 DEF TypeOK, Goto
  <2>2. LockInv'
    BY <1>1, <1>0 DEF LockInv, WriterPcs, ReaderPcs, Locked, At, Goto
  <2>3. CloseInv'
    BY <1>1, <1>0 DEF CloseInv, At, Goto
  <2>4. CallInv'
    BY <1>1, <1>0 DEF CallInv, Taking, Used, Empty, Full, ZeroIsEndOfFile,
       At, Goto
  <2>5. WriterSleepInv'
    BY <1>1, <1>0 DEF WriterSleepInv, Taking, Full, At, Goto
  <2>6. (Killable \cap Writers = {} => ReaderSleepInv)'
    BY <1>1, <1>0 DEF ReaderSleepInv, Empty, Goto
  <2>. QED  BY <2>1, <2>2, <2>3, <2>4, <2>5, <2>6
<1>2. ASSUME ~readopen \/ killed[p], Return(p), Goto(p, "user"), UNCHANGED <<data, nwrite>>
      PROVE  PipeInv'
  <2>1. TypeOK'
    BY <1>2, <1>0 DEF TypeOK, Goto, Return
  <2>2. LockInv'
    BY <1>2, <1>0 DEF TypeOK, LockInv, WriterPcs, ReaderPcs, Locked, Procs,
       At, Goto, Return
  <2>3. CloseInv'
    BY <1>2, <1>0 DEF CloseInv, At, Goto
  <2>4. CallInv'
    BY <1>2, <1>0 DEF TypeOK, CallInv, Used, Empty, Full, ZeroIsEndOfFile,
       Goto, Return
  <2>5. WriterSleepInv'
    BY <1>2, <1>0 DEF WriterSleepInv, Taking, Full, At, Goto
  <2>6. (Killable \cap Writers = {} => ReaderSleepInv)'
    BY <1>2, <1>0 DEF LockInv, CloseInv, ReaderSleepInv, Empty, At, Goto
  <2>. QED  BY <2>1, <2>2, <2>3, <2>4, <2>5, <2>6
<1>3. ASSUME readopen, Full, Goto(p, "pipewrite-full"), UNCHANGED <<data, nwrite, lock, n, i>>
      PROVE  PipeInv'
  <2>1. TypeOK'
    BY <1>3, <1>0 DEF TypeOK, Goto
  <2>2. LockInv'
    BY <1>3, <1>0 DEF LockInv, WriterPcs, ReaderPcs, Locked, At, Goto
  <2>3. CloseInv'
    BY <1>3, <1>0 DEF CloseInv, At, Goto
  <2>4. CallInv'
    BY <1>3, <1>0 DEF CallInv, Taking, Used, Empty, Full, ZeroIsEndOfFile,
       At, Goto
  <2>5. WriterSleepInv'
    BY <1>3, <1>0 DEF WriterSleepInv, Full
  <2>6. (Killable \cap Writers = {} => ReaderSleepInv)'
    BY <1>3, <1>0 DEF ReaderSleepInv, Empty, Goto
  <2>. QED  BY <2>1, <2>2, <2>3, <2>4, <2>5, <2>6
<1>4. ASSUME readopen, ~Full, i[p] # n[p], NEW b \in Byte,
             data' = [data EXCEPT ![nwrite % PIPESIZE] = b],
             nwrite' = (nwrite + 1) % WRAP, i' = [i EXCEPT ![p] = @ + 1],
             UNCHANGED <<pc, lock, n>>
      PROVE  PipeInv'
  <2>1. TypeOK'
    <3>1. i[p] + 1 \in 0 .. MAXN
      BY <1>4 DEF TypeOK, CallInv, Procs
    <3>2. nwrite' \in 0 .. WRAP - 1
      BY <1>4, Increment DEF TypeOK
    <3>. QED  BY <1>4, <1>0, <3>1, <3>2 DEF TypeOK
  <2>2. LockInv'
    BY <1>4, <1>0 DEF LockInv
  <2>3. CloseInv'
    BY <1>4, <1>0 DEF CloseInv
  <2>4. CallInv'
    <3>1. Used < PIPESIZE /\ Used' = Used + 1
      BY <1>4, <1>0, PutOne DEF CallInv
    <3>2. Used' <= PIPESIZE
      BY <3>1, BytesUsed
    <3>3. \A q \in Procs : pc[q] \in Locked => q = p
      BY <1>0 DEF LockInv, Locked, At
    <3>4. i[p] + 1 <= n[p]
      BY <1>4 DEF TypeOK, CallInv
    <3>5. p \in Writers
      BY <1>0 DEF LockInv, Procs, ReaderPcs, At
    <3>. QED
      BY <1>4, <1>0, <3>2, <3>3, <3>4, <3>5 DEF CallInv, Locked,
         ZeroIsEndOfFile, At
  <2>5. WriterSleepInv'
    BY <1>4, <1>0 DEF WriterSleepInv
  <2>6. (Killable \cap Writers = {} => ReaderSleepInv)'
    BY <1>4, <1>0 DEF LockInv, ReaderSleepInv, ReaderPcs, Procs, At
  <2>. QED  BY <2>1, <2>2, <2>3, <2>4, <2>5, <2>6
<1>. QED
  BY <1>1, <1>2, <1>3, <1>4 DEF write_loop

(* A writer sleeps on a full pipe, after wakeup(&pi->nread).               *)
LEMMA PipewriteFullInv ==
    ASSUME PipeInv, NEW p \in Procs, pipewrite_full(p)
    PROVE  PipeInv'
<1>. USE PipeAssumption DEF PipeAssumption, PipeInv
<1>1. TypeOK'
  BY DEF TypeOK, pipewrite_full, WakeReaders, Wakeup, pipe
<1>2. LockInv'
  BY DEF LockInv, WriterPcs, ReaderPcs, Locked, Procs, pipewrite_full, At,
     WakeReaders, Wakeup
<1>3. CloseInv'
  BY DEF CloseInv, Procs, pipewrite_full, At, WakeReaders, Wakeup, pipe
<1>4. CallInv'
  BY DEF CallInv, Taking, Procs, Used, Empty, Full, ZeroIsEndOfFile,
     pipewrite_full, At, WakeReaders, Wakeup, pipe
<1>5. WriterSleepInv'
  BY DEF CallInv, WriterSleepInv, Full, pipewrite_full, At, pipe
<1>6. (Killable \cap Writers = {} => ReaderSleepInv)'
  BY DEF ReaderSleepInv, Procs, pipewrite_full, WakeReaders, Wakeup
<1>. QED  BY <1>1, <1>2, <1>3, <1>4, <1>5, <1>6

(* The end of pipewrite() wakes the readers.                               *)
LEMMA WriteEndInv ==
    ASSUME PipeInv, NEW p \in Procs, write_end(p)
    PROVE  PipeInv'
<1>. USE PipeAssumption DEF PipeAssumption, PipeInv
<1>1. TypeOK'
  BY DEF TypeOK, write_end, WakeReaders, Wakeup, Return, pipe
<1>2. LockInv'
  BY DEF LockInv, WriterPcs, ReaderPcs, Locked, Procs, write_end, At,
     WakeReaders, Wakeup, Return
<1>3. CloseInv'
  BY DEF CloseInv, Procs, write_end, At, WakeReaders, Wakeup, pipe
<1>4. CallInv'
  BY DEF TypeOK, CallInv, Taking, Procs, Used, Empty, Full, ZeroIsEndOfFile,
     write_end, WakeReaders, Wakeup, Return, pipe
<1>5. WriterSleepInv'
  BY DEF WriterSleepInv, Taking, Procs, Full, write_end, At, WakeReaders,
     Wakeup, pipe
<1>6. (Killable \cap Writers = {} => ReaderSleepInv)'
  BY DEF ReaderSleepInv, Procs, write_end, WakeReaders, Wakeup
<1>. QED  BY <1>1, <1>2, <1>3, <1>4, <1>5, <1>6

(* A reader looks whether the pipe is empty.                               *)
LEMMA PipeEmptyInv ==
    ASSUME PipeInv, NEW p \in Procs, pipe_empty(p)
    PROVE  PipeInv'
<1>. USE PipeAssumption DEF PipeAssumption, PipeInv
<1>0. At(p, "pipe-empty") /\ UNCHANGED <<pipe, freed, refs, killed>>
  BY DEF pipe_empty
<1>1. ASSUME Return(p), Goto(p, "user")
      PROVE  PipeInv'
  <2>1. TypeOK'
    BY <1>1, <1>0 DEF TypeOK, Goto, Return, pipe
  <2>2. LockInv'
    BY <1>1, <1>0 DEF TypeOK, LockInv, WriterPcs, ReaderPcs, Locked, Procs,
       At, Goto, Return
  <2>3. CloseInv'
    BY <1>1, <1>0 DEF CloseInv, At, Goto, pipe
  <2>4. CallInv'
    BY <1>1, <1>0 DEF LockInv, CallInv, WriterPcs, Taking, Procs, Used,
       Empty, Full, ZeroIsEndOfFile, At, Goto, Return, pipe
  <2>5. WriterSleepInv'
    BY <1>1, <1>0 DEF WriterSleepInv, Taking, Full, At, Goto, pipe
  <2>6. (Killable \cap Writers = {} => ReaderSleepInv)'
    BY <1>1, <1>0 DEF LockInv, ReaderSleepInv, WriterPcs, Empty, At, Goto,
       pipe
  <2>. QED  BY <2>1, <2>2, <2>3, <2>4, <2>5, <2>6
<1>2. ASSUME Empty, writeopen, Goto(p, "read-wait"), UNCHANGED <<lock, n, i>>
      PROVE  PipeInv'
  <2>1. TypeOK'
    BY <1>2, <1>0 DEF TypeOK, Goto, pipe
  <2>2. LockInv'
    BY <1>2, <1>0 DEF LockInv, WriterPcs, ReaderPcs, Locked, At, Goto
  <2>3. CloseInv'
    BY <1>2, <1>0 DEF CloseInv, At, Goto, pipe
  <2>4. CallInv'
    BY <1>2, <1>0 DEF CallInv, Taking, Used, Empty, Full, ZeroIsEndOfFile,
       At, Goto, pipe
  <2>5. WriterSleepInv'
    BY <1>2, <1>0 DEF WriterSleepInv, Taking, Full, At, Goto, pipe
  <2>6. (Killable \cap Writers = {} => ReaderSleepInv)'
    BY <1>2, <1>0 DEF ReaderSleepInv, Empty, pipe
  <2>. QED  BY <2>1, <2>2, <2>3, <2>4, <2>5, <2>6
<1>3. ASSUME ~Empty \/ ~writeopen, Goto(p, "piperead-copy"), UNCHANGED <<lock, n, i>>
      PROVE  PipeInv'
  <2>1. TypeOK'
    BY <1>3, <1>0 DEF TypeOK, Goto, pipe
  <2>2. LockInv'
    BY <1>3, <1>0 DEF LockInv, WriterPcs, ReaderPcs, Locked, At, Goto
  <2>3. CloseInv'
    BY <1>3, <1>0 DEF CloseInv, At, Goto, pipe
  <2>4. CallInv'
    BY <1>3, <1>0 DEF CallInv, Taking, Used, Empty, Full, ZeroIsEndOfFile,
       Goto, pipe
  <2>5. WriterSleepInv'
    BY <1>3, <1>0 DEF WriterSleepInv, Taking, Full, Goto, pipe
  <2>6. (Killable \cap Writers = {} => ReaderSleepInv)'
    BY <1>3, <1>0 DEF ReaderSleepInv, Goto, pipe
  <2>. QED  BY <2>1, <2>2, <2>3, <2>4, <2>5, <2>6
<1>. QED
  BY <1>1, <1>2, <1>3 DEF pipe_empty

(* A reader sleeps on an empty pipe.                                       *)
LEMMA ReadWaitInv ==
    ASSUME PipeInv, NEW p \in Procs, read_wait(p)
    PROVE  PipeInv'
<1>. USE PipeAssumption DEF PipeAssumption, PipeInv
<1>1. TypeOK'
  BY DEF TypeOK, read_wait, Goto, pipe
<1>2. LockInv'
  BY DEF TypeOK, LockInv, WriterPcs, ReaderPcs, Locked, Procs, read_wait, At,
     Goto
<1>3. CloseInv'
  BY DEF CloseInv, read_wait, At, Goto, pipe
<1>4. CallInv'
  BY DEF CallInv, Taking, Used, Empty, Full, ZeroIsEndOfFile, read_wait, At,
     Goto, pipe
<1>5. WriterSleepInv'
  <2>1. \A q \in Procs : pc'[q] = IF q = p THEN "piperead-sleep" ELSE pc[q]
    BY DEF TypeOK, read_wait, Goto
  <2>2. pc[p] \notin Taking
    BY DEF Taking, read_wait, At
  <2>. QED  BY <2>1, <2>2 DEF WriterSleepInv, Procs, Full, read_wait, pipe
<1>6. (Killable \cap Writers = {} => ReaderSleepInv)'
  BY DEF CallInv, ReaderSleepInv, Empty, read_wait, At, pipe
<1>. QED  BY <1>1, <1>2, <1>3, <1>4, <1>5, <1>6

(* A turn of the second loop of piperead().                                *)
LEMMA PipereadCopyInv ==
    ASSUME PipeInv, NEW p \in Procs, piperead_copy(p)
    PROVE  PipeInv'
<1>. USE PipeAssumption DEF PipeAssumption, PipeInv
<1>0. /\ At(p, "piperead-copy")
      /\ UNCHANGED <<data, nwrite, readopen, writeopen, lock, freed, refs, n, killed>>
  BY DEF piperead_copy
<1>1. ASSUME i[p] = n[p] \/ Empty, Goto(p, "read-end"), UNCHANGED <<nread, i>>
      PROVE  PipeInv'
  <2>1. TypeOK'
    BY <1>1, <1>0 DEF TypeOK, Goto
  <2>2. LockInv'
    BY <1>1, <1>0 DEF LockInv, WriterPcs, ReaderPcs, Locked, At, Goto
  <2>3. CloseInv'
    BY <1>1, <1>0 DEF CloseInv, At, Goto
  <2>4. CallInv'
    BY <1>1, <1>0 DEF CallInv, Taking, Used, Empty, Full, ZeroIsEndOfFile,
       At, Goto
  <2>5. WriterSleepInv'
    BY <1>1, <1>0 DEF WriterSleepInv, Taking, Full, Goto
  <2>6. (Killable \cap Writers = {} => ReaderSleepInv)'
    BY <1>1, <1>0 DEF ReaderSleepInv, Empty, Goto
  <2>. QED  BY <2>1, <2>2, <2>3, <2>4, <2>5, <2>6
<1>2. ASSUME ~Empty, i[p] # n[p], nread' = (nread + 1) % WRAP,
             i' = [i EXCEPT ![p] = @ + 1], UNCHANGED pc
      PROVE  PipeInv'
  <2>1. TypeOK'
    <3>1. i[p] + 1 \in 0 .. MAXN
      BY <1>2 DEF TypeOK, CallInv, Procs
    <3>2. nread' \in 0 .. WRAP - 1
      BY <1>2, Increment DEF TypeOK
    <3>. QED  BY <1>2, <1>0, <3>1, <3>2 DEF TypeOK
  <2>2. LockInv'
    BY <1>2, <1>0 DEF LockInv
  <2>3. CloseInv'
    BY <1>2, <1>0 DEF CloseInv
  <2>4. CallInv'
    <3>1. Used' <= PIPESIZE
      BY <1>2, <1>0, TakeOne, BytesUsed DEF CallInv
    <3>2. \A q \in Procs : pc[q] \in Locked => q = p
      BY <1>0 DEF LockInv, Locked, At
    <3>3. i[p] \in Nat /\ n[p] \in Nat /\ i[p] <= n[p]
      BY <1>0 DEF TypeOK, CallInv, Procs
    <3>4. i[p] + 1 <= n[p] /\ i[p] + 1 # 0
      BY <1>2, <3>3
    <3>5. p \in Readers
      BY <1>0 DEF LockInv, Procs, WriterPcs, At
    <3>. QED
      BY <1>2, <1>0, <3>1, <3>2, <3>4, <3>5 DEF TypeOK, CallInv, Locked, Taking,
         ZeroIsEndOfFile, At
  <2>5. WriterSleepInv'
    BY <1>2, <1>0 DEF LockInv, WriterSleepInv, WriterPcs, Taking, Procs, At
  <2>6. (Killable \cap Writers = {} => ReaderSleepInv)'
    BY <1>2, <1>0 DEF ReaderSleepInv
  <2>. QED  BY <2>1, <2>2, <2>3, <2>4, <2>5, <2>6
<1>3. ASSUME ~Empty, nread' = (nread + 1) % WRAP, Goto(p, "read-fault"), UNCHANGED i
      PROVE  PipeInv'
  <2>1. TypeOK'
    BY <1>3, <1>0 DEF TypeOK, Goto
  <2>2. LockInv'
    BY <1>3, <1>0 DEF LockInv, WriterPcs, ReaderPcs, Locked, At, Goto
  <2>3. CloseInv'
    BY <1>3, <1>0 DEF CloseInv, At, Goto
  <2>4. CallInv'
    <3>1. Used' <= PIPESIZE
      BY <1>3, <1>0, TakeOne, BytesUsed DEF CallInv
    <3>2. \A q \in Procs : pc[q] \in Locked => q = p
      BY <1>0 DEF LockInv, Locked, At
    <3>. QED
      BY <1>3, <1>0, <3>1, <3>2 DEF TypeOK, CallInv, Locked, Taking,
         ZeroIsEndOfFile, Goto
  <2>5. WriterSleepInv'
    BY <1>3, <1>0 DEF LockInv, WriterSleepInv, WriterPcs, Taking, Procs, At,
       Goto
  <2>6. (Killable \cap Writers = {} => ReaderSleepInv)'
    BY <1>3, <1>0 DEF ReaderSleepInv, Goto
  <2>. QED  BY <2>1, <2>2, <2>3, <2>4, <2>5, <2>6
<1>. QED
  BY <1>1, <1>2, <1>3 DEF piperead_copy

(* The end of piperead() wakes the writers.                                *)
LEMMA ReadEndInv ==
    ASSUME PipeInv, NEW p \in Procs, read_end(p)
    PROVE  PipeInv'
<1>. USE PipeAssumption DEF PipeAssumption, PipeInv
<1>1. TypeOK'
  BY DEF TypeOK, read_end, WakeWriters, Wakeup, Return, pipe
<1>2. LockInv'
  BY DEF LockInv, WriterPcs, ReaderPcs, Locked, Procs, read_end, At,
     WakeWriters, Wakeup, Return
<1>3. CloseInv'
  BY DEF CloseInv, Procs, read_end, At, WakeWriters, Wakeup, pipe
<1>4. CallInv'
  BY DEF TypeOK, CallInv, Taking, Procs, Used, Empty, Full, ZeroIsEndOfFile,
     read_end, WakeWriters, Wakeup, Return, pipe
<1>5. WriterSleepInv'
  BY DEF WriterSleepInv, Procs, read_end, WakeWriters, Wakeup
<1>6. (Killable \cap Writers = {} => ReaderSleepInv)'
  BY DEF LockInv, ReaderSleepInv, WriterPcs, Procs, Empty, read_end, At,
     WakeWriters, Wakeup, pipe
<1>. QED  BY <1>1, <1>2, <1>3, <1>4, <1>5, <1>6

(* fileclose(): the last of a side goes on to pipeclose().                 *)
LEMMA FilecloseInv ==
    ASSUME PipeInv, NEW p \in Procs, fileclose(p)
    PROVE  PipeInv'
<1>. USE PipeAssumption DEF PipeAssumption, PipeInv
<1>1. TypeOK'
  BY DEF TypeOK, fileclose, Goto, pipe
<1>2. LockInv'
  BY DEF LockInv, WriterPcs, ReaderPcs, Locked, fileclose, Goto
<1>3. CloseInv'
  BY DEF TypeOK, CloseInv, Procs, fileclose, Goto, Side, pipe
<1>4. CallInv'
  BY DEF CallInv, Used, Empty, Full, ZeroIsEndOfFile, fileclose, Goto, pipe
<1>5. WriterSleepInv'
  BY DEF WriterSleepInv, Taking, Full, fileclose, Goto, pipe
<1>6. (Killable \cap Writers = {} => ReaderSleepInv)'
  BY DEF ReaderSleepInv, Empty, fileclose, Goto, pipe
<1>. QED  BY <1>1, <1>2, <1>3, <1>4, <1>5, <1>6

(* pipeclose() wakes the other side.                                       *)
LEMMA PipecloseInv ==
    ASSUME PipeInv, NEW p \in Procs, pipeclose(p)
    PROVE  PipeInv'
<1>. USE PipeAssumption DEF PipeAssumption, PipeInv
<1>1. TypeOK'
  BY DEF TypeOK, pipeclose, WakeReaders, WakeWriters, Wakeup
<1>2. LockInv'
  <2>1. /\ \A q \in Writers : pc'[q] \in WriterPcs
        /\ \A q \in Readers : pc'[q] \in ReaderPcs
    BY DEF LockInv, WriterPcs, ReaderPcs, Procs, pipeclose, WakeReaders,
       WakeWriters, Wakeup
  <2>2. \A q \in Procs : pc'[q] \in Locked <=> lock' = q
    BY DEF LockInv, Locked, pipeclose, WakeReaders, WakeWriters, Wakeup
  <2>. QED  BY <2>1, <2>2 DEF LockInv, pipeclose
<1>3. CloseInv'
  <2>1. CASE p \in Writers
    <3>1. \A q \in Procs : pc'[q] = IF q = p THEN "closed"
                                   ELSE IF pc[q] = "piperead-sleep" THEN "piperead"
                                   ELSE pc[q]
      BY <2>1 DEF pipeclose, WakeReaders, Wakeup
    <3>2. readopen' = readopen /\ freed' = (~readopen' /\ ~writeopen')
      BY <2>1 DEF TypeOK, pipeclose
    <3>. QED  BY <2>1, <3>1, <3>2, Zenon DEF CloseInv, Procs, pipeclose
  <2>2. CASE p \in Readers
    <3>1. \A q \in Procs : pc'[q] = IF q = p THEN "closed"
                                   ELSE IF pc[q] = "pipewrite-sleep" THEN "pipewrite"
                                   ELSE pc[q]
      BY <2>2 DEF pipeclose, WakeWriters, Wakeup
    <3>2. writeopen' = writeopen /\ freed' = (~readopen' /\ ~writeopen')
      BY <2>2 DEF TypeOK, pipeclose
    <3>. QED  BY <2>2, <3>1, <3>2, Zenon DEF CloseInv, Procs, pipeclose
  <2>. QED  BY <2>1, <2>2 DEF Procs
<1>4. CallInv'
  <2>1. \A q \in Procs : pc[q] \notin Locked /\ pc'[q] \notin Locked
    BY DEF LockInv, Locked, Procs, pipeclose, WakeReaders, WakeWriters, Wakeup
  <2>2. \A q \in Procs : pc'[q] \in {"user", "pipeclose", "closed"} => i[q] = 0
    BY DEF CallInv, pipeclose, WakeReaders, WakeWriters, Wakeup
  <2>3. \A q \in Procs : q \in Readers => i[q] = 0
    BY <2>1 DEF CallInv, Locked, Taking
  <2>. QED
    BY <2>1, <2>2, <2>3 DEF CallInv, Locked, Procs, Used, ZeroIsEndOfFile, pipeclose
<1>5. WriterSleepInv'
  BY Zenon DEF WriterSleepInv, Taking, Procs, Full, pipeclose, WakeReaders,
     WakeWriters, Wakeup
<1>6. (Killable \cap Writers = {} => ReaderSleepInv)'
  BY Zenon DEF ReaderSleepInv, Procs, Empty, pipeclose, WakeReaders, WakeWriters,
     Wakeup
<1>. QED  BY <1>1, <1>2, <1>3, <1>4, <1>5, <1>6

(* kill() wakes a sleeper.                                                 *)
LEMMA KillInv ==
    ASSUME PipeInv, NEW p \in Procs, kill(p)
    PROVE  PipeInv'
<1>. USE PipeAssumption DEF PipeAssumption, PipeInv
<1>1. TypeOK'
  BY DEF TypeOK, kill, Goto, pipe
<1>2. LockInv'
  BY DEF LockInv, WriterPcs, ReaderPcs, Locked, kill, Goto
<1>3. CloseInv'
  BY DEF CloseInv, kill, Goto, pipe
<1>4. CallInv'
  BY DEF CallInv, Taking, Used, Empty, Full, ZeroIsEndOfFile, kill, Goto,
     pipe
<1>5. WriterSleepInv'
  BY DEF WriterSleepInv, Taking, Full, kill, Goto, pipe
<1>6. (Killable \cap Writers = {} => ReaderSleepInv)'
  BY DEF ReaderSleepInv, Empty, kill, Goto, pipe
<1>. QED  BY <1>1, <1>2, <1>3, <1>4, <1>5, <1>6

(* A call of read or write starts.                                         *)
LEMMA StartCallInv ==
    ASSUME PipeInv, NEW p \in Procs, NEW k \in 0 .. MAXN, call(p, k)
    PROVE  PipeInv'
<1>. USE PipeAssumption DEF PipeAssumption, PipeInv
<1>1. TypeOK'
  BY DEF TypeOK, call, Goto, pipe
<1>2. LockInv'
  BY DEF LockInv, WriterPcs, ReaderPcs, Locked, call, Goto
<1>3. CloseInv'
  BY DEF CloseInv, call, Goto, pipe
<1>4. CallInv'
  BY DEF CallInv, Used, Empty, Full, ZeroIsEndOfFile, call, Goto, pipe
<1>5. WriterSleepInv'
  BY DEF WriterSleepInv, Taking, Full, call, Goto, pipe
<1>6. (Killable \cap Writers = {} => ReaderSleepInv)'
  BY DEF ReaderSleepInv, Empty, call, Goto, pipe
<1>. QED  BY <1>1, <1>2, <1>3, <1>4, <1>5, <1>6

(* Every step keeps the invariant.                                         *)
LEMMA NextInv ==
    ASSUME PipeInv, [Next]_vars
    PROVE  PipeInv'
<1>1. CASE UNCHANGED vars
  BY <1>1 DEF PipeInv, TypeOK, LockInv, CloseInv, CallInv, WriterSleepInv,
     ReaderSleepInv, Used, Empty, Full, ZeroIsEndOfFile, vars, pipe
<1>2. ASSUME NEW p \in Procs, Kernel(p)
      PROVE  PipeInv'
  BY <1>2, AcquireInv, WriteLoopInv, PipewriteFullInv, WriteEndInv, PipeEmptyInv,
     ReadWaitInv, PipereadCopyInv, ReadEndInv, PipecloseInv DEF Kernel
<1>. QED
  BY <1>1, <1>2, FilecloseInv, KillInv, StartCallInv DEF Next

LEMMA InitInv == Init => PipeInv
<1>. USE PipeAssumption DEF PipeAssumption
<1>. SUFFICES ASSUME Init PROVE PipeInv
  OBVIOUS
<1>1. TypeOK
  <2>1. 0 \in 0 .. WRAP - 1 /\ 0 \in 0 .. MAXN
    OBVIOUS
  <2>. QED  BY <2>1, Zenon DEF Init, TypeOK
<1>2. Used = 0
  BY <1>1, BytesUsed DEF Init, Empty
<1>3. LockInv /\ CloseInv
  BY DEF Init, LockInv, CloseInv, Procs, WriterPcs, ReaderPcs, Locked
<1>4. CallInv
  BY <1>2 DEF Init, CallInv, ZeroIsEndOfFile, Procs
<1>5. WriterSleepInv /\ ReaderSleepInv
  BY DEF Init, WriterSleepInv, ReaderSleepInv, Procs
<1>. QED  BY <1>1, <1>3, <1>4, <1>5 DEF PipeInv

(* The inductive invariant of pipe.c: mutual exclusion by pi->lock, when   *)
(* the ends close, and what each call knows of the buffer.                 *)
THEOREM PipeInvariant == Spec => []PipeInv
<1>1. PipeInv /\ [Next]_vars => PipeInv'
  BY NextInv
<1>. QED  BY InitInv, <1>1, PTL DEF Spec

(* pipe.c:88-90: a writer sleeps only while the pipe is full and has       *)
(* readers, whoever is killed.                                             *)
THEOREM WritersSleepOnFull == Spec => []WriterSleepsOnFull
<1>1. PipeInv => WriterSleepsOnFull
  BY PipeAssumption DEF PipeInv, LockInv, WriterSleepInv, WriterSleepsOnFull,
     Locked, Taking, ReaderPcs, Procs
<1>. QED  BY <1>1, PipeInvariant, PTL

(* pipe.c:113-118: when no writer is killed, a reader sleeps only while    *)
(* the pipe is empty and has writers.  A killed writer returns without     *)
(* wakeup(&pi->nread), so the hypothesis is needed.                        *)
THEOREM ReadersSleepOnEmpty ==
    ASSUME Killable \cap Writers = {}
    PROVE  Spec => []ReaderSleepsOnEmpty
<1>1. PipeInv => ReaderSleepsOnEmpty
  <2>1. ASSUME PipeInv, NEW p \in Procs, lock = None, pc[p] = "piperead-sleep"
        PROVE  Empty /\ writeopen
    <3>1. p \in Readers /\ lock \notin Writers
      BY <2>1, PipeAssumption DEF PipeInv, LockInv, WriterPcs, Procs
    <3>. QED  BY <2>1, <3>1 DEF PipeInv, ReaderSleepInv
  <2>. QED  BY <2>1 DEF ReaderSleepsOnEmpty
<1>. QED  BY <1>1, PipeInvariant, PTL

(* pipe.c:113-129: a read that asked for bytes and faulted on none returns *)
(* 0 only when the pipe is empty and every writer has closed it.           *)
THEOREM ZeroOnlyAtEndOfFile == Spec => []ZeroIsEndOfFile
<1>1. PipeInv => ZeroIsEndOfFile
  BY DEF PipeInv, CallInv
<1>. QED  BY <1>1, PipeInvariant, PTL

(* pipe.c:69-71: kfree(pi) comes after the last use of the pipe.           *)
THEOREM FreedWhenUnused == Spec => []FreedIsUnused
<1>1. PipeInv => FreedIsUnused
  BY DEF PipeInv, CloseInv, FreedIsUnused, Procs
<1>. QED  BY <1>1, PipeInvariant, PTL
-----------------------------------------------------------------------------
(* The pipe is a bounded queue.                                            *)

(* Contents is a sequence of as many bytes as the counters say.            *)
LEMMA ContentsSeq ==
    ASSUME TypeOK
    PROVE  /\ Contents \in Seq(Byte)
           /\ Len(Contents) = Used
           /\ \A k \in 1 .. Used : Contents[k] = data[(nread + k - 1) % PIPESIZE]
<1>1. Used \in Nat
  BY BytesUsed
<1>2. nread \in Int /\ data \in [0 .. PIPESIZE - 1 -> Byte]
  BY DEF TypeOK
<1>3. \A k \in 1 .. Used : data[(nread + k - 1) % PIPESIZE] \in Byte
  <2>. TAKE k \in 1 .. Used
  <2>1. nread + k - 1 \in Int
    BY <1>1, <1>2
  <2>2. (nread + k - 1) % PIPESIZE \in 0 .. PIPESIZE - 1
    BY <2>1, Place
  <2>. QED  BY <1>2, <2>2
<1>4. Contents = [k \in 1 .. Used |-> data[(nread + k - 1) % PIPESIZE]]
  BY DEF Contents, Used
<1>5. Contents \in [1 .. Used -> Byte]
  BY <1>3, <1>4
<1>. QED  BY <1>1, <1>4, <1>5

(* pipe.c:92-96: the byte goes behind the others and overwrites none.      *)
LEMMA PutAppends ==
    ASSUME PipeInv, NEW b \in Byte, ~Full,
           data' = [data EXCEPT ![nwrite % PIPESIZE] = b],
           nwrite' = (nwrite + 1) % WRAP, UNCHANGED nread
    PROVE  Contents' = Append(Contents, b)
<1>. USE PipeAssumption DEF PipeAssumption
<1>1. TypeOK /\ Used <= PIPESIZE
  BY DEF PipeInv, CallInv
<1>2. Used \in Nat /\ Used < PIPESIZE /\ Used' = Used + 1
  BY <1>1, BytesUsed, PutOne
<1>3. /\ nread \in 0 .. WRAP - 1 /\ nwrite \in 0 .. WRAP - 1
      /\ data \in [0 .. PIPESIZE - 1 -> Byte]
  BY <1>1 DEF TypeOK
<1>4. nread + Used = nwrite \/ nread + Used = nwrite + WRAP
  <2>1. Used = IF nwrite >= nread THEN nwrite - nread ELSE nwrite - nread + WRAP
    BY <1>1, BytesUsed
  <2>. QED  BY <1>2, <1>3, <2>1
<1>5. /\ nwrite % PIPESIZE \in 0 .. PIPESIZE - 1
      /\ (nwrite + WRAP) % PIPESIZE = nwrite % PIPESIZE
  <2>1. nwrite \in Int
    BY <1>3
  <2>. QED  BY <2>1, Place, Zenon
<1>6. (nread + Used) % PIPESIZE = nwrite % PIPESIZE
  BY <1>4, <1>5
<1>7. \A k \in 1 .. Used : /\ (nread + k - 1) % PIPESIZE \in 0 .. PIPESIZE - 1
                           /\ (nread + k - 1) % PIPESIZE # nwrite % PIPESIZE
  <2>. TAKE k \in 1 .. Used
  <2>1. /\ nread + k - 1 \in Int /\ nread + Used \in Int
        /\ nread + k - 1 < nread + Used
        /\ nread + Used < nread + k - 1 + PIPESIZE
    BY <1>2, <1>3
  <2>2. (nread + k - 1) % PIPESIZE # (nread + Used) % PIPESIZE
    BY <2>1, Place
  <2>. QED  BY <2>1, <2>2, <1>6, Place, Zenon
<1>8. \A k \in 1 .. Used : data'[(nread + k - 1) % PIPESIZE]
                           = data[(nread + k - 1) % PIPESIZE]
  BY <1>3, <1>5, <1>7
<1>9. data'[(nread + (Used + 1) - 1) % PIPESIZE] = b
  <2>1. nread + (Used + 1) - 1 = nread + Used
    BY <1>2, <1>3
  <2>. QED  BY <2>1, <1>3, <1>5, <1>6
<1>10. Contents' = [k \in 1 .. Used + 1 |-> data'[(nread + k - 1) % PIPESIZE]]
  BY <1>2 DEF Contents, Used
<1>11. /\ Contents \in Seq(Byte) /\ Len(Contents) = Used
       /\ \A k \in 1 .. Used : Contents[k] = data[(nread + k - 1) % PIPESIZE]
  BY <1>1, ContentsSeq
<1>12. \A k \in 1 .. Used + 1 :
           data'[(nread + k - 1) % PIPESIZE] = IF k <= Used THEN Contents[k] ELSE b
  BY <1>2, <1>8, <1>9, <1>11
<1>13. Append(Contents, b) = [k \in 1 .. Used + 1 |-> IF k <= Used THEN Contents[k] ELSE b]
  <2>. DEFINE t == Append(Contents, b)
  <2>1. /\ t \in Seq(Byte) /\ Len(t) = Used + 1 /\ t[Used + 1] = b
        /\ \A k \in 1 .. Used : t[k] = Contents[k]
    BY <1>11, AppendProperties
  <2>2. t = [k \in 1 .. Used + 1 |-> t[k]]
    <3>. HIDE DEF t
    <3>. QED  BY <2>1, LenProperties
  <2>3. \A k \in 1 .. Used + 1 : t[k] = IF k <= Used THEN Contents[k] ELSE b
    <3>. HIDE DEF t
    <3>. QED  BY <1>2, <2>1
  <2>. QED  BY <2>2, <2>3, Zenon
<1>. QED  BY <1>10, <1>12, <1>13

(* pipe.c:119-127: the first byte comes out.                               *)
LEMMA TakeTail ==
    ASSUME PipeInv, ~Empty, nread' = (nread + 1) % WRAP, UNCHANGED <<nwrite, data>>
    PROVE  Contents # <<>> /\ Contents' = Tail(Contents)
<1>. USE PipeAssumption DEF PipeAssumption
<1>1. TypeOK
  BY DEF PipeInv
<1>2. Used \in Nat /\ Used # 0 /\ Used' = Used - 1
  BY <1>1, BytesUsed, TakeOne
<1>3. nread \in 0 .. WRAP - 1
  BY <1>1 DEF TypeOK
<1>4. nread' = nread + 1 \/ (nread + 1 = nread' + WRAP /\ nread' = 0)
  BY <1>3, Increment
<1>5. nread' \in Int
  BY <1>3, <1>4
<1>6. \A k \in 1 .. Used - 1 :
          (nread' + k - 1) % PIPESIZE = (nread + (k + 1) - 1) % PIPESIZE
  <2>. TAKE k \in 1 .. Used - 1
  <2>. DEFINE a == nread' + k - 1
  <2>1. a \in Int
    BY <1>5
  <2>2. nread + (k + 1) - 1 = a \/ nread + (k + 1) - 1 = a + WRAP
    BY <1>3, <1>4, <1>5
  <2>3. (a + WRAP) % PIPESIZE = a % PIPESIZE
    <3>. HIDE DEF a
    <3>. QED  BY <2>1, Place, Zenon
  <2>. QED  BY <2>2, <2>3
<1>7. Contents' = [k \in 1 .. Used - 1 |-> data[(nread' + k - 1) % PIPESIZE]]
  BY <1>2 DEF Contents, Used
<1>8. /\ Contents \in Seq(Byte) /\ Len(Contents) = Used
      /\ \A k \in 1 .. Used : Contents[k] = data[(nread + k - 1) % PIPESIZE]
  BY <1>1, ContentsSeq
<1>9. \A k \in 1 .. Used - 1 : data[(nread' + k - 1) % PIPESIZE] = Contents[k + 1]
  BY <1>2, <1>6, <1>8
<1>10. Contents # <<>>
  BY <1>2, <1>8
<1>11. Tail(Contents) = [k \in 1 .. Used - 1 |-> Contents[k + 1]]
  <2>. DEFINE t == Tail(Contents)
  <2>1. /\ t \in Seq(Byte) /\ Len(t) = Used - 1
        /\ \A k \in 1 .. Used - 1 : t[k] = Contents[k + 1]
    BY <1>8, <1>10, HeadTailProperties
  <2>2. t = [k \in 1 .. Used - 1 |-> t[k]]
    <3>. HIDE DEF t
    <3>. QED  BY <2>1, LenProperties
  <2>. QED  BY <2>1, <2>2
<1>. QED  BY <1>7, <1>9, <1>10, <1>11

(* Steps that leave the buffer, the counters and the ends alone.           *)
LEMMA Stutter ==
    ASSUME UNCHANGED <<data, nread, nwrite, readopen, writeopen>>
    PROVE  UNCHANGED Queue!vars
  BY DEF Contents, Queue!vars

(* pipeclose() closes one end, once.                                       *)
LEMMA PipecloseQueue ==
    ASSUME PipeInv, NEW p \in Procs, pipeclose(p)
    PROVE  Queue!Next
<1>. USE PipeAssumption DEF PipeAssumption
<1>1. UNCHANGED Contents
  BY DEF pipeclose, Contents
<1>2. CASE p \in Writers
  <2>1. writeopen /\ p \notin Readers
    BY <1>2 DEF PipeInv, CloseInv, pipeclose
  <2>2. writeopen' = FALSE /\ readopen' = readopen
    BY <1>2, <2>1, Zenon DEF PipeInv, TypeOK, pipeclose
  <2>. QED  BY <1>1, <2>1, <2>2 DEF Queue!Next, Queue!CloseWrite
<1>3. CASE p \in Readers
  <2>1. readopen /\ p \notin Writers
    BY <1>3 DEF PipeInv, CloseInv, pipeclose
  <2>2. readopen' = FALSE /\ writeopen' = writeopen
    BY <1>3, <2>1, Zenon DEF PipeInv, TypeOK, pipeclose
  <2>. QED  BY <1>1, <2>1, <2>2 DEF Queue!Next, Queue!CloseRead
<1>. QED  BY <1>2, <1>3 DEF Procs

(* A turn of the loop of pipewrite() puts a byte into the queue or does    *)
(* nothing to it.                                                          *)
LEMMA WriteLoopQueue ==
    ASSUME PipeInv, NEW p \in Procs, write_loop(p)
    PROVE  [Queue!Next]_(Queue!vars)
<1>1. CASE UNCHANGED <<data, nwrite>>
  BY <1>1, Stutter DEF write_loop
<1>2. ASSUME readopen, ~Full, NEW b \in Byte,
             data' = [data EXCEPT ![nwrite % PIPESIZE] = b],
             nwrite' = (nwrite + 1) % WRAP
      PROVE  Queue!Next
  <2>1. UNCHANGED <<nread, readopen, writeopen>>
    BY DEF write_loop
  <2>2. writeopen
    BY PipeAssumption DEF PipeAssumption, PipeInv, LockInv, CloseInv, ReaderPcs,
       Procs, write_loop, At
  <2>3. Contents' = Append(Contents, b)
    BY <1>2, <2>1, PutAppends, Zenon
  <2>4. Len(Contents) < PIPESIZE
    BY <1>2, <2>1, ContentsSeq, PutOne DEF PipeInv, CallInv
  <2>5. Queue!Put(b)
    BY <1>2, <2>1, <2>2, <2>3, <2>4 DEF Queue!Put
  <2>. QED  BY <2>5 DEF Queue!Next
<1>. QED  BY <1>1, <1>2 DEF write_loop

(* A turn of the second loop of piperead() takes the first byte of the     *)
(* queue, even when copyout() fails, or leaves it.                         *)
LEMMA PipereadCopyQueue ==
    ASSUME PipeInv, NEW p \in Procs, piperead_copy(p)
    PROVE  [Queue!Next]_(Queue!vars)
<1>1. UNCHANGED <<data, nwrite, readopen, writeopen>>
  BY DEF piperead_copy
<1>2. CASE UNCHANGED nread
  BY <1>1, <1>2, Stutter
<1>3. ASSUME ~Empty, nread' = (nread + 1) % WRAP
      PROVE  Queue!Next
  <2>1. readopen
    BY PipeAssumption DEF PipeAssumption, PipeInv, LockInv, CloseInv, WriterPcs,
       Procs, piperead_copy, At
  <2>2. Contents # <<>> /\ Contents' = Tail(Contents)
    BY <1>1, <1>3, TakeTail
  <2>. QED  BY <1>1, <2>1, <2>2 DEF Queue!Next, Queue!Take
<1>. QED  BY <1>2, <1>3 DEF piperead_copy

LEMMA NextQueue ==
    ASSUME PipeInv, [Next]_vars
    PROVE  [Queue!Next]_(Queue!vars)
<1>1. CASE UNCHANGED vars
  BY <1>1, Stutter DEF vars, pipe
<1>2. ASSUME NEW p \in Procs, Kernel(p)
      PROVE  [Queue!Next]_(Queue!vars)
  <2>1. CASE write_loop(p)
    BY <2>1, WriteLoopQueue
  <2>2. CASE piperead_copy(p)
    BY <2>2, PipereadCopyQueue
  <2>3. CASE pipeclose(p)
    BY <2>3, PipecloseQueue
  <2>4. ASSUME UNCHANGED pipe
        PROVE  [Queue!Next]_(Queue!vars)
    BY <2>4, Stutter DEF pipe
  <2>. QED
    BY <1>2, <2>1, <2>2, <2>3, <2>4
    DEF Kernel, acquire, pipewrite_full, write_end, pipe_empty, read_wait, read_end
<1>3. ASSUME NEW p \in Procs, fileclose(p) \/ kill(p) \/ \E k \in 0 .. MAXN : call(p, k)
      PROVE  [Queue!Next]_(Queue!vars)
  BY <1>3, Stutter DEF fileclose, kill, call, pipe
<1>. QED  BY <1>1, <1>2, <1>3 DEF Next

(* pipe.c:76-130: whatever the number of readers and writers and the size  *)
(* of the buffer, also when nread and nwrite wrap around, the pipe is a    *)
(* bounded queue: bytes come out once, in the order in which they went in, *)
(* and none is overwritten.                                                *)
THEOREM PipeImplementsFifo == Spec => ImplementsFifo
<1>1. Init => Queue!Init
  <2>. SUFFICES ASSUME Init PROVE Queue!Init
    OBVIOUS
  <2>1. TypeOK
    BY InitInv DEF PipeInv
  <2>2. Contents \in Seq(Byte) /\ Len(Contents) = 0
    BY <2>1, ContentsSeq, BytesUsed DEF Init, Empty
  <2>3. Contents = <<>>
    BY <2>2, EmptySeq
  <2>. QED  BY <2>3 DEF Init, Queue!Init
<1>2. PipeInv /\ [Next]_vars => [Queue!Next]_(Queue!vars)
  BY NextQueue
<1>. QED  BY <1>1, <1>2, PipeInvariant, PTL DEF Spec, ImplementsFifo, Queue!Spec
=============================================================================
