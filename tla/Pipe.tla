-------------------------------- MODULE Pipe --------------------------------
(***************************************************************************)
(* A pipe: kernel/pipe.c, and the references to its two struct files that  *)
(* decide when fileclose() calls pipeclose().                              *)
(*                                                                         *)
(* pi->lock is held from acquire to release or sleep; every turn of a loop *)
(* under it is a step, because kill() does not need pi->lock.  Going to    *)
(* sleep and the release of pi->lock are one step, as in Sched.            *)
(***************************************************************************)
EXTENDS Integers, FiniteSets

CONSTANTS Writers,   \* processes with the write end
          Readers,   \* processes with the read end
          Killable,  \* processes that somebody may kill
          Byte,      \* what a byte may be
          PIPESIZE,  \* bytes in the buffer
          WRAP,      \* bound: nread and nwrite are numbers modulo WRAP
          MAXN,      \* bound: the most bytes in one call
          None       \* nobody

ASSUME PipeAssumption ==
    /\ Writers \cap Readers = {}
    /\ None \notin Writers \cup Readers
    /\ PIPESIZE \in Nat \ {0}
    /\ WRAP \in Nat /\ WRAP > PIPESIZE /\ WRAP % PIPESIZE = 0
    /\ MAXN \in Nat

Procs == Writers \cup Readers

VARIABLES
    data, nread, nwrite, readopen, writeopen,  \* struct pipe
    lock,    \* pi->lock: the process that holds it
    freed,   \* kfree(pi) has been called
    refs,    \* processes that have not closed their end
    pc,      \* where each process is
    n,       \* bytes asked for
    i,       \* bytes done
    killed   \* p->killed

pipe == <<data, nread, nwrite, readopen, writeopen>>
vars == <<pipe, lock, freed, refs, pc, n, i, killed>>

\* pipealloc()
Init ==
    /\ data \in [0 .. PIPESIZE - 1 -> Byte]
    /\ nread = 0 /\ nwrite = 0
    /\ readopen = TRUE /\ writeopen = TRUE
    /\ lock = None
    /\ freed = FALSE
    /\ refs = Procs
    /\ pc = [p \in Procs |-> "user"]
    /\ n = [p \in Procs |-> 0]
    /\ i = [p \in Procs |-> 0]
    /\ killed = [p \in Procs |-> FALSE]

Empty == nread = nwrite

\* Mutant: one byte too late.
Full_late == nwrite = (nread + PIPESIZE + 1) % WRAP

Full == nwrite = (nread + PIPESIZE) % WRAP

At(p, l) == pc[p] = l /\ lock = p

Goto(p, l) == pc' = [pc EXCEPT ![p] = l]

\* wakeup(chan), where the sleepers on chan are at s and wake to l; p goes to k.
Wakeup(p, s, l, k) ==
    pc' = [q \in Procs |-> IF q = p THEN k ELSE IF pc[q] = s THEN l ELSE pc[q]]

WakeReaders(p, k) == Wakeup(p, "piperead-sleep", "piperead", k)
WakeWriters(p, k) == Wakeup(p, "pipewrite-sleep", "pipewrite", k)

\* The call ends.
Return(p) ==
    /\ lock' = None
    /\ n' = [n EXCEPT ![p] = 0]
    /\ i' = [i EXCEPT ![p] = 0]

\* A read or a write of k bytes.
call(p, k) ==
    /\ pc[p] = "user" /\ p \in refs /\ ~killed[p]
    /\ n' = [n EXCEPT ![p] = k]
    /\ Goto(p, IF p \in Writers THEN "pipewrite" ELSE "piperead")
    /\ UNCHANGED <<pipe, lock, freed, refs, i, killed>>

\* Mutant: a reader that gets the lock does not test the pipe again.
acquire_once(p) ==
    /\ pc[p] \in {"pipewrite", "piperead"}
    /\ lock = None
    /\ lock' = p
    /\ Goto(p, IF pc[p] = "pipewrite" THEN "write-loop" ELSE "piperead-copy")
    /\ UNCHANGED <<pipe, freed, refs, n, i, killed>>

\* acquire(&pi->lock), at the start of a call or at the end of sleep().
acquire(p) ==
    /\ pc[p] \in {"pipewrite", "piperead"}
    /\ lock = None
    /\ lock' = p
    /\ Goto(p, IF pc[p] = "pipewrite" THEN "write-loop" ELSE "pipe-empty")
    /\ UNCHANGED <<pipe, freed, refs, n, i, killed>>
-----------------------------------------------------------------------------
(* pipewrite()                                                             *)

\* One turn of the loop; copyin() may fail.
write_loop(p) ==
    /\ At(p, "write-loop")
    /\ IF i[p] = n[p]
       THEN Goto(p, "write-end") /\ UNCHANGED <<data, nwrite, lock, n, i>>
       ELSE IF ~readopen \/ killed[p]
       THEN Return(p) /\ Goto(p, "user") /\ UNCHANGED <<data, nwrite>>
       ELSE IF Full
       THEN Goto(p, "pipewrite-full") /\ UNCHANGED <<data, nwrite, lock, n, i>>
       ELSE \/ \E b \in Byte :
                 /\ data' = [data EXCEPT ![nwrite % PIPESIZE] = b]
                 /\ nwrite' = (nwrite + 1) % WRAP
                 /\ i' = [i EXCEPT ![p] = @ + 1]
                 /\ UNCHANGED <<pc, lock, n>>
            \/ Goto(p, "write-end") /\ UNCHANGED <<data, nwrite, lock, n, i>>
    /\ UNCHANGED <<nread, readopen, writeopen, freed, refs, killed>>

\* wakeup(&pi->nread), sleep(&pi->nwrite, &pi->lock).
pipewrite_full(p) ==
    /\ At(p, "pipewrite-full")
    /\ WakeReaders(p, "pipewrite-sleep")
    /\ lock' = None
    /\ UNCHANGED <<pipe, freed, refs, n, i, killed>>

\* Mutant: the readers are not woken.
write_end_quiet(p) ==
    /\ At(p, "write-end")
    /\ Goto(p, "user")
    /\ Return(p)
    /\ UNCHANGED <<pipe, freed, refs, killed>>

write_end(p) ==
    /\ At(p, "write-end")
    /\ WakeReaders(p, "user")
    /\ Return(p)
    /\ UNCHANGED <<pipe, freed, refs, killed>>
-----------------------------------------------------------------------------
(* piperead()                                                              *)

\* The condition of the first loop, and killed().
pipe_empty(p) ==
    /\ At(p, "pipe-empty")
    /\ IF Empty /\ writeopen
       THEN IF killed[p]
            THEN Return(p) /\ Goto(p, "user")
            ELSE Goto(p, "read-wait") /\ UNCHANGED <<lock, n, i>>
       ELSE Goto(p, "piperead-copy") /\ UNCHANGED <<lock, n, i>>
    /\ UNCHANGED <<pipe, freed, refs, killed>>

\* sleep(&pi->nread, &pi->lock).
read_wait(p) ==
    /\ At(p, "read-wait")
    /\ lock' = None
    /\ Goto(p, "piperead-sleep")
    /\ UNCHANGED <<pipe, freed, refs, n, i, killed>>

\* One turn of the second loop; copyout() may fail, after the byte is taken.
piperead_copy(p) ==
    /\ At(p, "piperead-copy")
    /\ IF i[p] = n[p] \/ Empty
       THEN Goto(p, "read-end") /\ UNCHANGED <<nread, i>>
       ELSE /\ nread' = (nread + 1) % WRAP
            /\ \/ i' = [i EXCEPT ![p] = @ + 1] /\ UNCHANGED pc
               \/ Goto(p, "read-fault") /\ UNCHANGED i
    /\ UNCHANGED <<data, nwrite, readopen, writeopen, lock, freed, refs, n, killed>>

\* Mutant: the writers are not woken.
read_end_quiet(p) ==
    /\ At(p, "read-end") \/ At(p, "read-fault")
    /\ Goto(p, "user")
    /\ Return(p)
    /\ UNCHANGED <<pipe, freed, refs, killed>>

read_end(p) ==
    /\ At(p, "read-end") \/ At(p, "read-fault")
    /\ WakeWriters(p, "user")
    /\ Return(p)
    /\ UNCHANGED <<pipe, freed, refs, killed>>
-----------------------------------------------------------------------------
Side(p) == IF p \in Writers THEN Writers ELSE Readers

\* fileclose(): the last reference to the file goes on to pipeclose().
fileclose(p) ==
    /\ pc[p] = "user" /\ p \in refs
    /\ refs' = refs \ {p}
    /\ Goto(p, IF refs \cap Side(p) = {p} THEN "pipeclose" ELSE "closed")
    /\ UNCHANGED <<pipe, lock, freed, n, i, killed>>

\* Mutant: freed with the first end that closes.
pipeclose_first(p) ==
    /\ pc[p] = "pipeclose"
    /\ lock = None
    /\ writeopen' = (writeopen /\ p \notin Writers)
    /\ readopen' = (readopen /\ p \notin Readers)
    /\ IF p \in Writers THEN WakeReaders(p, "closed") ELSE WakeWriters(p, "closed")
    /\ freed' = TRUE
    /\ UNCHANGED <<data, nread, nwrite, lock, refs, n, i, killed>>

\* pipeclose(), one section under pi->lock.
pipeclose(p) ==
    /\ pc[p] = "pipeclose"
    /\ lock = None
    /\ writeopen' = (writeopen /\ p \notin Writers)
    /\ readopen' = (readopen /\ p \notin Readers)
    /\ IF p \in Writers THEN WakeReaders(p, "closed") ELSE WakeWriters(p, "closed")
    /\ freed' = (~readopen' /\ ~writeopen')
    /\ UNCHANGED <<data, nread, nwrite, lock, refs, n, i, killed>>

\* kill(): a sleeper wakes.
kill(p) ==
    /\ p \in Killable /\ ~killed[p] /\ pc[p] # "closed"
    /\ killed' = [killed EXCEPT ![p] = TRUE]
    /\ Goto(p, IF pc[p] = "pipewrite-sleep" THEN "pipewrite"
               ELSE IF pc[p] = "piperead-sleep" THEN "piperead" ELSE pc[p])
    /\ UNCHANGED <<pipe, lock, freed, refs, n, i>>
-----------------------------------------------------------------------------
Kernel(p) == \/ acquire(p)
             \/ write_loop(p) \/ pipewrite_full(p) \/ write_end(p)
             \/ pipe_empty(p) \/ read_wait(p) \/ piperead_copy(p) \/ read_end(p)
             \/ pipeclose(p)

Next == \/ \E p \in Procs : Kernel(p) \/ fileclose(p) \/ kill(p)
        \/ \E p \in Procs, k \in 0 .. MAXN : call(p, k)
        \/ refs = {} /\ (\A p \in Procs : pc[p] = "closed") /\ UNCHANGED vars

Spec == Init /\ [][Next]_vars

-----------------------------------------------------------------------------
(* Properties.                                                             *)

TypeOK ==
    /\ data \in [0 .. PIPESIZE - 1 -> Byte]
    /\ nread \in 0 .. WRAP - 1 /\ nwrite \in 0 .. WRAP - 1
    /\ readopen \in BOOLEAN /\ writeopen \in BOOLEAN
    /\ lock \in Procs \cup {None}
    /\ freed \in BOOLEAN
    /\ refs \subseteq Procs
    /\ pc \in [Procs -> {"user", "pipewrite", "write-loop", "pipewrite-full",
                         "pipewrite-sleep", "write-end", "piperead", "pipe-empty",
                         "read-wait", "piperead-sleep", "piperead-copy", "read-end",
                         "read-fault", "pipeclose", "closed"}]
    /\ n \in [Procs -> 0 .. MAXN]
    /\ i \in [Procs -> 0 .. MAXN]
    /\ killed \in [Procs -> BOOLEAN]

\* The bytes in the pipe, in order.
Contents == [k \in 1 .. (nwrite - nread) % WRAP |-> data[(nread + k - 1) % PIPESIZE]]

Queue == INSTANCE Fifo WITH Capacity <- PIPESIZE, queue <- Contents,
                            ropen <- readopen, wopen <- writeopen

(* pipe.c:76-130: whatever the number of readers and writers, and also     *)
(* when nread and nwrite wrap around, the pipe is a bounded queue: bytes   *)
(* come out once, in the order in which they went in, and none is          *)
(* overwritten.                                                            *)
ImplementsFifo == Queue!Spec

(* pipe.c:113-118: when nobody holds pi->lock, a reader sleeps only while  *)
(* the pipe is empty and has writers.                                      *)
ReaderSleepsOnEmpty ==
    \A p \in Procs : lock = None /\ pc[p] = "piperead-sleep" => Empty /\ writeopen

(* pipe.c:88-90: and a writer only while it is full and has readers.       *)
WriterSleepsOnFull ==
    \A p \in Procs : lock = None /\ pc[p] = "pipewrite-sleep" => Full /\ readopen

(* pipe.c:113-129: a read that asked for bytes and faulted on none returns *)
(* 0 only at the end of file.                                              *)
ZeroIsEndOfFile ==
    \A p \in Procs : pc[p] = "read-end" /\ i[p] = 0 /\ n[p] > 0 => Empty /\ ~writeopen

(* pipe.c:69-71: the pipe is freed when nobody can touch it any more.      *)
FreedIsUnused == freed => \A p \in Procs : pc[p] = "closed"
=============================================================================
