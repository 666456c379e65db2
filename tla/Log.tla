-------------------------------- MODULE Log --------------------------------
(***************************************************************************)
(* The write-ahead log of the file system: kernel/log.c, with the part of  *)
(* kernel/bio.c it relies on (a pinned buffer is never recycled).          *)
(*                                                                         *)
(* Every disk write is a step of its own, so that the machine may crash    *)
(* between any two of them.  A section under log.lock is one step.  The    *)
(* sleep on &log releases log.lock and sleeps in one step (proc.c:sleep).  *)
(* Buffers of log blocks are not modelled: write_log and install_trans     *)
(* only see them equal to the disk.                                        *)
(*                                                                         *)
(* writei() fills a block of file contents from user memory, and that copy *)
(* may fail half-way: the buffer has changed, but log_write is not called. *)
(* Such a buffer is neither pinned nor logged.  The change is seen until   *)
(* the buffer is recycled, and is then gone, with or without a crash.      *)
(***************************************************************************)
EXTENDS Integers, FiniteSets

CONSTANTS Procs,        \* processes that run file-system operations
          Blocks,       \* home blocks the operations write
          DataBlocks,   \* those of them that hold the contents of files
          Val,          \* contents of a block
          Zero,         \* the contents mkfs leaves in every block
          NoVal,        \* no valid buffer holds the block
          NoBlock,      \* the process holds no buffer
          MAXOPBLOCKS,  \* param.h: most blocks one operation writes
          LOGSIZE,      \* param.h: entries of the log header
          NLOG          \* superblock nlog: blocks of the on-disk log

ASSUME LogAssumption ==
    /\ IsFiniteSet(Procs)
    /\ DataBlocks \subseteq Blocks
    /\ Zero \in Val
    /\ NoVal \notin Val
    /\ NoBlock \notin Blocks
    /\ MAXOPBLOCKS \in Nat \ {0}
    /\ LOGSIZE \in Nat /\ LOGSIZE >= MAXOPBLOCKS
    /\ NLOG \in Nat

Slots == 0 .. LOGSIZE - 1

VARIABLES
    \* struct log
    lh,           \* in-memory header: n and block[]
    outstanding,  \* operations between begin_op and end_op
    committing,   \* commit() is running
    \* the disk
    head,         \* header block of the on-disk log
    logblk,       \* data blocks of the on-disk log
    home,         \* home locations
    \* the buffer cache
    cache,        \* contents of the buffer of a block, NoVal if none
    pin,          \* references taken by bpin
    failed,       \* history: blocks whose buffer holds what a failed copy left
                  \* there, outside the transaction
    \* processes
    pc,           \* where each process is
    buf,          \* block whose buffer the process has locked and modified
    wrote,        \* blocks the process has written in this operation
    tail,         \* loop variable of write_log and install_trans
    boot,         \* progress of recover_from_log in the first process
    panic         \* argument of panic(), "none" while the kernel runs

logvars   == <<lh, outstanding, committing>>
diskvars  == <<head, logblk, home>>
cachevars == <<cache, pin, failed>>
procvars  == <<pc, buf, wrote>>
vars == <<logvars, diskvars, cachevars, procvars, tail, boot, panic>>

\* What bread(b) returns: the buffer if there is a valid one, else the disk.
View(b) == IF cache[b] = NoVal THEN home[b] ELSE cache[b]

\* No process has the buffer of b locked.
Unlocked(b) == \A p \in Procs : buf[p] # b

\* Mutant: no wakeup(&log).
WakeLog_none(p, l) == pc' = [pc EXCEPT ![p] = l]

\* Mutant: only one sleeper is woken.
WakeLog_one(p, l) ==
    LET asleep == {q \in Procs : pc[q] = "asleep"}
    IN  IF asleep = {} THEN pc' = [pc EXCEPT ![p] = l]
        ELSE \E q \in asleep : pc' = [pc EXCEPT ![p] = l, ![q] = "begin_op"]

\* wakeup(&log), and p itself moves to l.
WakeLog(p, l) ==
    pc' = [q \in Procs |-> IF q = p THEN l
                           ELSE IF pc[q] = "asleep" THEN "begin_op" ELSE pc[q]]

\* Mutant: the last entry is not copied.
HeadOf_short(h, old) ==
    [n |-> h.n, block |-> [i \in Slots |-> IF i < h.n - 1 THEN h.block[i]
                                                          ELSE old.block[i]]]

\* write_head() copies only the first n entries into the header block.
HeadOf(h, old) ==
    [n |-> h.n, block |-> [i \in Slots |-> IF i < h.n THEN h.block[i]
                                                      ELSE old.block[i]]]

ZeroHead == [n |-> 0, block |-> [i \in Slots |-> NoBlock]]

\* The disk as mkfs leaves it, and a kernel about to run initlog().
Init ==
    /\ lh = ZeroHead
    /\ outstanding = 0
    /\ committing = FALSE
    /\ head = ZeroHead
    /\ logblk = [i \in Slots |-> Zero]
    /\ home = [b \in Blocks |-> Zero]
    /\ cache = [b \in Blocks |-> NoVal]
    /\ pin = [b \in Blocks |-> 0]
    /\ failed = {}
    /\ pc = [p \in Procs |-> "user"]
    /\ buf = [p \in Procs |-> NoBlock]
    /\ wrote = [p \in Procs |-> {}]
    /\ tail = 0
    /\ boot = "read_head"
    /\ panic = "none"
-----------------------------------------------------------------------------
(* File-system operations.                                                 *)

\* Mutant: begin_op does not look at log.committing.
MustWait_uncommitted == lh.n + (outstanding + 1) * MAXOPBLOCKS > LOGSIZE

\* The two conditions on which begin_op sleeps.
MustWait == committing \/ lh.n + (outstanding + 1) * MAXOPBLOCKS > LOGSIZE

\* One turn of the loop of begin_op.
begin_op(p) ==
    /\ panic = "none"
    /\ boot = "up"
    /\ pc[p] \in {"user", "begin_op"}
    /\ IF MustWait
       THEN /\ pc' = [pc EXCEPT ![p] = "asleep"]
            /\ UNCHANGED <<outstanding, wrote>>
       ELSE /\ outstanding' = outstanding + 1
            /\ pc' = [pc EXCEPT ![p] = "in_op"]
            /\ wrote' = [wrote EXCEPT ![p] = {}]
    /\ UNCHANGED <<lh, committing, diskvars, cachevars, buf, tail, boot, panic>>

\* bread(b), then the operation changes the data: assignments and memmove()
\* for metadata, either_copyin() for the contents of files.  An operation
\* writes at most MAXOPBLOCKS blocks.
modify(p, b, v) ==
    /\ panic = "none"
    /\ pc[p] = "in_op"
    /\ Unlocked(b)
    /\ Cardinality(wrote[p] \cup {b}) <= MAXOPBLOCKS
    /\ cache' = [cache EXCEPT ![b] = v]
    /\ failed' = failed \ {b}
    /\ buf' = [buf EXCEPT ![p] = b]
    /\ wrote' = [wrote EXCEPT ![p] = @ \cup {b}]
    /\ pc' = [pc EXCEPT ![p] = "log_write"]
    /\ UNCHANGED <<logvars, diskvars, pin, tail, boot, panic>>

\* The checks of log_write: the panic it raises, if any.
LogWritePanic ==
    IF lh.n >= LOGSIZE \/ lh.n >= NLOG - 1 THEN "too big a transaction"
    ELSE IF outstanding < 1 THEN "log_write outside of trans"
    ELSE "none"

\* The buffer stays in the cache until install_trans has written it home.
bpin(b) == pin' = [pin EXCEPT ![b] = @ + 1]

\* The block is in the transaction already.
InHeader(b) == \E i \in Slots : i < lh.n /\ lh.block[i] = b

\* log_write(b), then brelse(b).  A block already in the header is absorbed.
log_write(p) ==
    /\ panic = "none"
    /\ pc[p] = "log_write"
    /\ panic' = LogWritePanic
    /\ IF LogWritePanic # "none"
       THEN UNCHANGED <<lh, pin, pc, buf>>
       ELSE /\ IF InHeader(buf[p])
               THEN UNCHANGED <<lh, pin>>
               ELSE /\ lh' = [n |-> lh.n + 1,
                              block |-> [lh.block EXCEPT ![lh.n] = buf[p]]]
                    /\ bpin(buf[p])
            /\ pc' = [pc EXCEPT ![p] = "in_op"]
            /\ buf' = [buf EXCEPT ![p] = NoBlock]
    /\ UNCHANGED <<outstanding, committing, diskvars, cache, failed, wrote, tail, boot>>

\* writei() when either_copyin() fails: brelse(b) without log_write(b).  What
\* was copied is in the buffer; it is in the transaction only if the block is.
copy_failed(p) ==
    /\ panic = "none"
    /\ pc[p] = "log_write"
    /\ buf[p] \in DataBlocks
    /\ failed' = IF InHeader(buf[p]) THEN failed ELSE failed \cup {buf[p]}
    /\ pc' = [pc EXCEPT ![p] = "in_op"]
    /\ buf' = [buf EXCEPT ![p] = NoBlock]
    /\ UNCHANGED <<logvars, diskvars, cache, pin, wrote, tail, boot, panic>>

\* end_op up to the release of log.lock.
end_op(p) ==
    /\ panic = "none"
    /\ pc[p] = "in_op"
    /\ outstanding' = outstanding - 1
    /\ panic' = IF committing THEN "log.committing" ELSE "none"
    /\ IF committing
       THEN UNCHANGED <<committing, pc>>
       ELSE IF outstanding = 1
       THEN /\ committing' = TRUE
            /\ pc' = [pc EXCEPT ![p] = "commit"]
       ELSE /\ WakeLog(p, "user")
            /\ UNCHANGED committing
    /\ UNCHANGED <<lh, diskvars, cachevars, buf, wrote, tail, boot>>
-----------------------------------------------------------------------------
(* commit(), run by the last end_op without log.lock.                      *)

commit(p) ==
    /\ panic = "none"
    /\ pc[p] = "commit"
    /\ pc' = [pc EXCEPT ![p] = IF lh.n > 0 THEN "write_log" ELSE "committed"]
    /\ tail' = 0
    /\ UNCHANGED <<logvars, diskvars, cachevars, buf, wrote, boot, panic>>

\* One turn of the loop of write_log: cache block to log block.
write_log(p) ==
    /\ panic = "none"
    /\ pc[p] = "write_log"
    /\ LET b == lh.block[tail]
       IN  /\ Unlocked(b)
           /\ cache' = [cache EXCEPT ![b] = View(b)]
           /\ logblk' = [logblk EXCEPT ![tail] = View(b)]
    /\ tail' = tail + 1
    /\ pc' = [pc EXCEPT ![p] = IF tail' < lh.n THEN @ ELSE "write_head"]
    /\ UNCHANGED <<logvars, head, home, pin, failed, buf, wrote, boot, panic>>

\* The write of the header is the commit.
write_head(p) ==
    /\ panic = "none"
    /\ pc[p] = "write_head"
    /\ head' = HeadOf(lh, head)
    /\ tail' = 0
    /\ pc' = [pc EXCEPT ![p] = "install_trans"]
    /\ UNCHANGED <<logvars, logblk, home, cachevars, buf, wrote, boot, panic>>

\* One turn of the loop of install_trans(0): log block to home location.
install_trans(p) ==
    /\ panic = "none"
    /\ pc[p] = "install_trans"
    /\ LET b == lh.block[tail]
       IN  /\ Unlocked(b)
           /\ cache' = [cache EXCEPT ![b] = logblk[tail]]
           /\ home' = [home EXCEPT ![b] = logblk[tail]]
           /\ pin' = [pin EXCEPT ![b] = @ - 1]
    /\ tail' = tail + 1
    /\ pc' = [pc EXCEPT ![p] = IF tail' < lh.n THEN @ ELSE "erase"]
    /\ UNCHANGED <<logvars, head, logblk, failed, buf, wrote, boot, panic>>

\* log.lh.n = 0 and the second write_head.
erase(p) ==
    /\ panic = "none"
    /\ pc[p] = "erase"
    /\ lh' = [lh EXCEPT !.n = 0]
    /\ head' = HeadOf(lh', head)
    /\ pc' = [pc EXCEPT ![p] = "committed"]
    /\ UNCHANGED <<outstanding, committing, logblk, home, cachevars,
                   buf, wrote, tail, boot, panic>>

\* Mutant: log.committing is not reset.
end_commit_locked(p) ==
    /\ panic = "none"
    /\ pc[p] = "committed"
    /\ WakeLog(p, "user")
    /\ UNCHANGED <<logvars, diskvars, cachevars, buf, wrote, tail, boot, panic>>

\* The rest of end_op.
end_commit(p) ==
    /\ panic = "none"
    /\ pc[p] = "committed"
    /\ committing' = FALSE
    /\ WakeLog(p, "user")
    /\ UNCHANGED <<lh, outstanding, diskvars, cachevars, buf, wrote,
                   tail, boot, panic>>
-----------------------------------------------------------------------------
(* recover_from_log(), run by the first process before any operation.      *)

read_head ==
    /\ panic = "none"
    /\ boot = "read_head"
    /\ lh' = HeadOf(head, lh)
    /\ tail' = 0
    /\ boot' = "install_trans"
    /\ UNCHANGED <<outstanding, committing, diskvars, cachevars, procvars, panic>>

\* One turn of the loop of install_trans(1).
recover_install ==
    /\ panic = "none"
    /\ boot = "install_trans"
    /\ tail < lh.n
    /\ cache' = [cache EXCEPT ![lh.block[tail]] = logblk[tail]]
    /\ home' = [home EXCEPT ![lh.block[tail]] = logblk[tail]]
    /\ tail' = tail + 1
    /\ UNCHANGED <<logvars, head, logblk, pin, failed, procvars, boot, panic>>

recover_erase ==
    /\ panic = "none"
    /\ boot = "install_trans"
    /\ tail >= lh.n
    /\ lh' = [lh EXCEPT !.n = 0]
    /\ head' = HeadOf(lh', head)
    /\ boot' = "up"
    /\ UNCHANGED <<outstanding, committing, logblk, home, cachevars, procvars,
                   tail, panic>>
-----------------------------------------------------------------------------
(* The buffer cache and the machine.                                       *)

\* Mutant: bget recycles pinned buffers too.
recycle_pinned(b) ==
    /\ panic = "none"
    /\ cache[b] # NoVal
    /\ Unlocked(b)
    /\ cache' = [cache EXCEPT ![b] = NoVal]
    /\ failed' = failed \ {b}
    /\ UNCHANGED <<logvars, diskvars, pin, procvars, tail, boot, panic>>

\* bget recycles a buffer nobody refers to.
recycle(b) ==
    /\ panic = "none"
    /\ cache[b] # NoVal
    /\ pin[b] = 0
    /\ Unlocked(b)
    /\ cache' = [cache EXCEPT ![b] = NoVal]
    /\ failed' = failed \ {b}
    /\ UNCHANGED <<logvars, diskvars, pin, procvars, tail, boot, panic>>

\* A reader outside any operation (readi from fileread) has the block cached.
bread(b) ==
    /\ panic = "none"
    /\ boot = "up"
    /\ cache[b] = NoVal
    /\ cache' = [cache EXCEPT ![b] = home[b]]
    /\ UNCHANGED <<logvars, diskvars, pin, failed, procvars, tail, boot, panic>>

\* Block writes a crash may cut short.  The header fits one sector, so its
\* write is atomic; a log or home block then holds anything.
Torn ==
    \/ UNCHANGED <<logblk, home>>
    \/ /\ \E p \in Procs : pc[p] = "write_log"
       /\ \E v \in Val : logblk' = [logblk EXCEPT ![tail] = v]
       /\ UNCHANGED home
    \/ /\ \/ \E p \in Procs : pc[p] = "install_trans"
          \/ boot = "install_trans" /\ tail < lh.n
       /\ \E v \in Val : home' = [home EXCEPT ![lh.block[tail]] = v]
       /\ UNCHANGED logblk

\* Power failure or reset: memory is lost, the disk is not.
Crash ==
    /\ Torn
    /\ lh' = ZeroHead
    /\ outstanding' = 0
    /\ committing' = FALSE
    /\ cache' = [b \in Blocks |-> NoVal]
    /\ pin' = [b \in Blocks |-> 0]
    /\ failed' = {}
    /\ pc' = [p \in Procs |-> "user"]
    /\ buf' = [p \in Procs |-> NoBlock]
    /\ wrote' = [p \in Procs |-> {}]
    /\ tail' = 0
    /\ boot' = "read_head"
    /\ panic' = "none"
    /\ UNCHANGED head

Commit(p) == commit(p) \/ write_log(p) \/ write_head(p) \/ install_trans(p)
             \/ erase(p) \/ end_commit(p)

Operation(p) == \/ begin_op(p)
                \/ \E b \in Blocks, v \in Val : modify(p, b, v)
                \/ log_write(p)
                \/ copy_failed(p)
                \/ end_op(p)

Recover == read_head \/ recover_install \/ recover_erase

Next ==
    \/ \E p \in Procs : Operation(p) \/ Commit(p)
    \/ Recover
    \/ \E b \in Blocks : recycle(b) \/ bread(b)
    \/ Crash

Spec == Init /\ [][Next]_vars

(* A kernel that is not switched off goes on: the committer and the         *)
(* recovery are never preempted forever, a process that has changed a      *)
(* buffer goes on to release it, and every system call writes finitely     *)
(* many blocks before its end_op.                                          *)
Fairness ==
    /\ WF_vars(Recover)
    /\ \A p \in Procs : WF_vars(Commit(p)) /\ WF_vars(log_write(p) \/ copy_failed(p))
                        /\ SF_vars(end_op(p))

FairSpec == Spec /\ Fairness
-----------------------------------------------------------------------------
(* Properties.                                                             *)

TypeOK ==
    /\ lh \in [n : 0 .. LOGSIZE, block : [Slots -> Blocks \cup {NoBlock}]]
    /\ outstanding \in Nat
    /\ committing \in BOOLEAN
    /\ head \in [n : 0 .. LOGSIZE, block : [Slots -> Blocks \cup {NoBlock}]]
    /\ logblk \in [Slots -> Val]
    /\ home \in [Blocks -> Val]
    /\ cache \in [Blocks -> Val \cup {NoVal}]
    /\ pin \in [Blocks -> Nat]
    /\ failed \subseteq DataBlocks
    /\ pc \in [Procs -> {"user", "begin_op", "asleep", "in_op", "log_write",
                         "commit", "write_log", "write_head", "install_trans",
                         "erase", "committed"}]
    /\ buf \in [Procs -> Blocks \cup {NoBlock}]
    /\ wrote \in [Procs -> SUBSET Blocks]
    /\ tail \in 0 .. LOGSIZE
    /\ boot \in {"read_head", "install_trans", "up"}
    /\ panic \in {"none", "too big a transaction", "log_write outside of trans",
                  "log.committing"}

\* Processes inside an operation.
Active == {p \in Procs : pc[p] \in {"in_op", "log_write"}}

\* The image recover_from_log would leave on the disk if it ran now.
Recovered ==
    [b \in Blocks |->
        IF \E i \in Slots : i < head.n /\ head.block[i] = b
        THEN logblk[CHOOSE i \in Slots : i < head.n /\ head.block[i] = b]
        ELSE home[b]]

\* The image the file system sees through the cache once it is up.
Current == IF boot = "up" THEN [b \in Blocks |-> View(b)] ELSE Recovered

Store == INSTANCE AtomicStore
         WITH stable <- Recovered, volatile <- Current, active <- Active, spoilt <- failed

(* log.c:12-16: commits happen only when no operation is active, each is   *)
(* atomic whatever disk write a crash interrupts (recovery's included),    *)
(* and recycling buffers never loses or exposes a write that was logged.   *)
(* Only a block of file contents in which a copy from user memory failed   *)
(* (fs.c:522-525) can go back, alone, to what was last committed in it.    *)
ImplementsAtomicStore == Store!Spec

(* begin_op:131-136: a process sleeps on &log only while some other        *)
(* process is bound to call wakeup(&log): the committer, or the end_op of  *)
(* an operation in progress.                                               *)
SleeperHasWaker ==
    \A p \in Procs : pc[p] = "asleep" => committing \/ outstanding > 0

(* The kernel never reaches the panics of log_write and end_op.            *)
NoPanic == panic = "none"

(* param.h:9-10: when no operation writes more than MAXOPBLOCKS blocks,    *)
(* begin_op's reservation of log space is enough and log_write never       *)
(* finds the log full.                                                     *)
ReservationSuffices == panic # "too big a transaction"

\* Some process is at l.
At(l) == \E p \in Procs : pc[p] = l

CommitPcs == {"commit", "write_log", "write_head", "install_trans", "erase",
              "committed"}

\* Headers name distinct blocks.
HeaderOK(h) ==
    /\ \A i \in Slots : i < h.n => h.block[i] \in Blocks
    /\ \A i, j \in Slots : i < h.n /\ j < h.n /\ h.block[i] = h.block[j] => i = j

\* One committer, which excludes operations; the count of operations is exact.
ControlInv ==
    /\ panic \in {"none", "too big a transaction"}
    /\ committing <=> \E p \in Procs : pc[p] \in CommitPcs
    /\ \A p, q \in Procs : pc[p] \in CommitPcs /\ pc[q] \in CommitPcs => p = q
    /\ outstanding = Cardinality(Active)
    /\ committing => outstanding = 0
    /\ boot # "up" => \A p \in Procs : pc[p] = "user"
    /\ boot = "up" /\ ~committing /\ outstanding = 0 => lh.n = 0
    /\ At("committed") => lh.n = 0
    /\ At("write_log") \/ At("install_trans") => tail < lh.n
    /\ At("write_head") => lh.n > 0

\* A buffer is modified by one process at a time, on its way to log_write.
BufferInv ==
    /\ \A p \in Procs : buf[p] # NoBlock <=> pc[p] = "log_write"
    /\ \A p, q \in Procs : buf[p] = buf[q] /\ buf[p] # NoBlock => p = q
    /\ \A p \in Procs : buf[p] # NoBlock => cache[buf[p]] # NoVal

\* The first header entry whose block install_trans has not yet unpinned.
PinStart == IF At("install_trans") THEN tail
            ELSE IF At("erase") \/ boot # "up" THEN lh.n ELSE 0

\* Exactly the logged blocks not yet installed are pinned, and a pinned block
\* has a buffer; any other buffer nobody is changing agrees with the disk,
\* unless a copy into it failed.
CacheInv ==
    /\ \A b \in Blocks :
         pin[b] = IF \E i \in Slots : PinStart <= i /\ i < lh.n /\ lh.block[i] = b
                  THEN 1 ELSE 0
    /\ \A b \in Blocks : pin[b] > 0 => cache[b] # NoVal
    /\ \A b \in Blocks : cache[b] # NoVal /\ pin[b] = 0 /\ Unlocked(b) /\ b \notin failed
                         => cache[b] = home[b]

\* What a failed copy leaves is in a buffer, of file contents, that nobody
\* changes and no transaction takes in; none is left when the kernel boots.
FailedInv ==
    /\ \A b \in failed : cache[b] # NoVal /\ Unlocked(b) /\ ~InHeader(b)
    /\ boot # "up" => failed = {}

\* The on-disk header is empty except from the commit point to the erase, and
\* during recovery; then it names what the in-memory header names.
HeadInv ==
    /\ HeaderOK(lh) /\ HeaderOK(head)
    /\ At("install_trans") \/ At("erase") \/ boot = "install_trans" =>
         /\ head.n = lh.n
         /\ \A i \in Slots : i < lh.n => head.block[i] = lh.block[i]
    /\ boot = "up" /\ ~At("install_trans") /\ ~At("erase") => head.n = 0
    /\ boot = "read_head" => lh.n = 0 /\ tail = 0
                             /\ \A b \in Blocks : cache[b] = NoVal

\* What the log blocks hold: up to tail while write_log runs, all of the
\* transaction afterwards; what install_trans has passed is home.
LogDataInv ==
    /\ At("write_log") => \A i \in Slots :
         i < tail => logblk[i] = cache[lh.block[i]]
    /\ At("write_head") => \A i \in Slots :
         i < lh.n => logblk[i] = cache[lh.block[i]]
    /\ At("install_trans") => \A i \in Slots :
         /\ i < tail => home[lh.block[i]] = logblk[i]
         /\ tail <= i /\ i < lh.n => logblk[i] = cache[lh.block[i]]
    /\ At("erase") => \A i \in Slots :
         i < lh.n => home[lh.block[i]] = logblk[i]
    /\ boot = "install_trans" =>
         /\ tail <= lh.n
         /\ \A i \in Slots : i < tail => home[lh.block[i]] = logblk[i]

(* The invariant behind the crash safety of commit() and                   *)
(* recover_from_log(): what each phase has made true of the header, the    *)
(* log blocks, the home blocks, the cache and its pins, and that a copy    *)
(* that fails (fs.c:522-525) stays out of all of them.                     *)
LogInv == /\ TypeOK /\ ControlInv /\ BufferInv /\ CacheInv /\ FailedInv
          /\ HeadInv /\ LogDataInv

(* end_op:163-174: a commit that starts ends.                              *)
CommitEnds == committing ~> ~committing

(* begin_op:131-136: a process that sleeps on &log is woken.               *)
SleeperWakes == \A p \in Procs : pc[p] = "asleep" ~> pc[p] # "asleep"
=============================================================================
