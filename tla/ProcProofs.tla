----------------------------- MODULE ProcProofs -----------------------------
(***************************************************************************)
(* Proofs about Proc, for any size of the process table and any pids: the  *)
(* parents form a tree of processes that can wait, a slot is freed off its *)
(* stack, no exit goes unnoticed, and a kill() of a pid other than 0 hits  *)
(* the process with that pid.                                              *)
(***************************************************************************)
EXTENDS Proc, TLAPS

\* Backends and time limits for the proofs of this module.
USE ZenonT(20), SMTT(20)

-----------------------------------------------------------------------------
(* The inductive invariant.                                                *)

\* Between allocproc() and the end of fork().
Forking == {"set_parent", "set_runnable"}

\* The steps with wait_lock held.
Waiting == {"reparent", "wake_parent", "zombie", "scan", "scanned", "sleep"}

\* The processes that may still call wait(), and the slots not of a process.
Live == {"RUNNABLE", "RUNNING", "SLEEPING"}
Empty == {"UNUSED", "USED"}

\* The end of exit().
Exiting == {"reparent", "wake_parent", "zombie", "dead"}

\* What the state of a slot says about its thread.
StateInv ==
    \A p \in Procs :
        /\ state[p] = "UNUSED" => pc[p] = "dead" /\ parent[p] = None /\ pid[p] = 0
        /\ state[p] = "USED" => pc[p] = "forkret"
        /\ state[p] = "RUNNABLE" => pc[p] \in {"forkret", "wait"}
        /\ state[p] = "RUNNING" => pc[p] # "dead"
        /\ state[p] = "SLEEPING" => pc[p] = "wait" /\ chan[p] = p
        /\ state[p] = "ZOMBIE" => pc[p] = "dead"

\* p->lock is held across steps on the way to sched(), and a CPU is on the
\* stack of a thread until scheduler() has released that lock.
StackInv ==
    \A p \in Procs :
        /\ onstack[p] <=> state[p] = "RUNNING" \/ locked[p]
        /\ locked[p] /\ state[p] = "RUNNING" => pc[p] = "go_to_sleep"
        /\ locked[p] => state[p] \in {"RUNNING", "SLEEPING", "ZOMBIE"}
        /\ pc[p] = "go_to_sleep" => locked[p]

\* wait_lock excludes.
LockInv == \A p \in Procs : pc[p] \in Waiting <=> wait_lock = p

\* A slot between allocproc() and RUNNABLE belongs to one fork().
ForkInv ==
    /\ \A p \in Procs : pc[p] \in Forking <=> np[p] # None
    /\ \A p \in Procs : np[p] # None => state[np[p]] = "USED"
    /\ \A p, q \in Procs : np[p] # None /\ np[p] = np[q] => p = q
    /\ \A p \in Procs : pc[p] = "set_parent" => parent[np[p]] = None
    /\ \A p \in Procs : pc[p] = "set_runnable" => parent[np[p]] = p
    /\ \A q \in Procs : state[q] = "USED" => \E p \in Procs : np[p] = q

\* init lives; a process that others have as parent has not left them to init.
TreeInv ==
    /\ state[initproc] \in Live
    /\ pc[initproc] \notin Exiting
    /\ parent[initproc] = None
    /\ \A q \in Started \ {initproc} : parent[q] # None
    /\ \A q \in Procs : parent[q] # None =>
          /\ state[parent[q]] \in Live
          /\ pc[parent[q]] \notin {"wake_parent", "zombie"}

\* The parents of a set of processes are not all in the set.
Acyclic ==
    \A S \in SUBSET (Started \ {initproc}) : S # {} => \E q \in S : parent[q] \notin S

\* A process with a zombie child has not yet passed it in wait(); one with a
\* child about to become a zombie has been woken.
ExitInv ==
    /\ \A q \in Procs : state[q] = "ZOMBIE" /\ parent[q] # None =>
          /\ state[parent[q]] # "SLEEPING"
          /\ pc[parent[q]] \notin {"scanned", "sleep", "go_to_sleep"}
          /\ pc[parent[q]] = "scan" => q >= i[parent[q]]
    /\ \A q \in Procs : pc[q] = "zombie" =>
          state[parent[q]] # "SLEEPING" /\ pc[parent[q]] # "go_to_sleep"

\* p->killed comes from a kill() of the pid in the slot.
KillInv ==
    /\ \A p \in Procs : pc[p] = "kill" => target[p] \in KillPids
    /\ None \notin KillPids =>
          /\ \A p \in Procs : state[p] = "UNUSED" => ~killed[p]
          /\ KilledByItsPid

ProcInv ==
    /\ TypeOK
    /\ StateInv
    /\ StackInv
    /\ LockInv
    /\ ForkInv
    /\ TreeInv
    /\ Acyclic
    /\ ExitInv
    /\ KillInv

(* The numbers that stand for init and for no process.                     *)
LEMMA ProcFacts == initproc \in Procs /\ None \notin Procs /\ 1 \in Procs
  BY SMTT(20), ProcAssumption DEF ProcAssumption, Procs, initproc, None

(* An error of fork() or wait() ends init and lets other programs go on.   *)
LEMMA FailedPc == \A p \in Procs : Failed(p) \in {"user", "exit"}
  BY DEF Failed

-----------------------------------------------------------------------------
(* What keeps each conjunct of the invariant.                              *)

(* A parent is a slot of the table, and an exiting process has one.        *)
LEMMA ParentFacts ==
    ASSUME ProcInv
    PROVE  /\ \A r \in Procs : parent[r] # None => parent[r] \in Procs
           /\ \A r \in Procs : pc[r] = "zombie" => parent[r] # None
           /\ \A r \in Procs : np[r] # None => np[r] \in Procs
<1>. USE DEF ProcInv
<1>1. \A r \in Procs : parent[r] # None => parent[r] \in Procs
  BY DEF TypeOK
<1>2. \A r \in Procs : np[r] # None => np[r] \in Procs
  BY DEF TypeOK
<1>3. ASSUME NEW r \in Procs, pc[r] = "zombie"
      PROVE  parent[r] # None
  <2>1. r # initproc
    BY <1>3 DEF TreeInv, Exiting
  <2>2. r \in Started
    BY <1>3 DEF Started, StateInv
  <2>. QED  BY <2>1, <2>2 DEF TreeInv
<1>. QED  BY <1>1, <1>2, <1>3

(* fork() is not concerned by what happens to other slots.                 *)
LEMMA ForkFrame ==
    ASSUME ProcInv, UNCHANGED <<np, parent>>,
           \A r \in Procs : state'[r] = "USED" <=> state[r] = "USED",
           \A r \in Procs : \/ pc'[r] = pc[r]
                            \/ pc[r] \notin Forking /\ pc'[r] \notin Forking
    PROVE  ForkInv'
<1>1. \A r \in Procs : np[r] # None => np[r] \in Procs
  BY ParentFacts
<1>2. \A r \in Procs : pc'[r] \in Forking <=> np'[r] # None
  BY DEF ProcInv, ForkInv
<1>3. \A r \in Procs : np'[r] # None => state'[np'[r]] = "USED"
  BY <1>1 DEF ProcInv, ForkInv
<1>4. \A r \in Procs : /\ pc'[r] = "set_parent" => parent'[np'[r]] = None
                       /\ pc'[r] = "set_runnable" => parent'[np'[r]] = r
  BY DEF ProcInv, ForkInv, Forking
<1>5. \A r \in Procs : state'[r] = "USED" => \E s \in Procs : np'[s] = r
  BY DEF ProcInv, ForkInv
<1>. QED  BY SMTT(20), <1>2, <1>3, <1>4, <1>5 DEF ProcInv, ForkInv

(* Processes that stay alive keep their children.                          *)
LEMMA TreeFrame ==
    ASSUME ProcInv, UNCHANGED parent,
           \A r \in Procs : state[r] \in Live => state'[r] \in Live,
           \A r \in Procs : state[r] \in Empty => state'[r] \in Empty,
           pc'[initproc] \in Exiting => pc[initproc] \in Exiting,
           \A r \in Procs : pc'[r] \in {"wake_parent", "zombie"} =>
                                pc[r] \in {"wake_parent", "zombie"}
    PROVE  TreeInv' /\ Acyclic'
<1>1. Started' \subseteq Started
  BY DEF Started, Empty
<1>2. Acyclic'
  BY <1>1, Zenon DEF ProcInv, Acyclic
<1>3. state'[initproc] \in Live /\ pc'[initproc] \notin Exiting /\ parent'[initproc] = None
  BY ProcFacts DEF ProcInv, TreeInv
<1>4. \A q \in Started' \ {initproc} : parent'[q] # None
  BY <1>1 DEF ProcInv, TreeInv
<1>5. ASSUME NEW q \in Procs, parent[q] # None
      PROVE  /\ state'[parent[q]] \in Live
             /\ pc'[parent[q]] \notin {"wake_parent", "zombie"}
  <2>1. parent[q] \in Procs
    BY <1>5, ParentFacts
  <2>2. state[parent[q]] \in Live /\ pc[parent[q]] \notin {"wake_parent", "zombie"}
    BY <1>5 DEF ProcInv, TreeInv
  <2>. QED  BY <2>1, <2>2
<1>. QED  BY <1>2, <1>3, <1>4, <1>5 DEF TreeInv

(* A process that does not get on with wait() or exit() misses nothing.    *)
LEMMA ExitFrame ==
    ASSUME ProcInv, UNCHANGED parent,
           \A r \in Procs : state'[r] = "ZOMBIE" => state[r] = "ZOMBIE",
           \A r \in Procs : state'[r] = "SLEEPING" => state[r] = "SLEEPING",
           \A r \in Procs : pc'[r] \in {"scanned", "sleep", "go_to_sleep"} =>
                                pc[r] \in {"scanned", "sleep", "go_to_sleep"},
           \A r \in Procs : pc'[r] \in {"go_to_sleep", "zombie"} => pc[r] = pc'[r],
           \A r \in Procs : pc'[r] = "scan" => pc[r] = "scan" /\ i'[r] = i[r]
    PROVE  ExitInv'
<1>1. ASSUME NEW q \in Procs, state'[q] = "ZOMBIE", parent[q] # None
      PROVE  /\ state'[parent[q]] # "SLEEPING"
             /\ pc'[parent[q]] \notin {"scanned", "sleep", "go_to_sleep"}
             /\ pc'[parent[q]] = "scan" => q >= i'[parent[q]]
  <2>1. parent[q] \in Procs
    BY <1>1, ParentFacts
  <2>2. state[q] = "ZOMBIE"
    BY <1>1
  <2>3. /\ state[parent[q]] # "SLEEPING"
        /\ pc[parent[q]] \notin {"scanned", "sleep", "go_to_sleep"}
        /\ pc[parent[q]] = "scan" => q >= i[parent[q]]
    BY <1>1, <2>2 DEF ProcInv, ExitInv
  <2>. QED  BY <2>1, <2>3
<1>2. ASSUME NEW q \in Procs, pc'[q] = "zombie"
      PROVE  state'[parent[q]] # "SLEEPING" /\ pc'[parent[q]] # "go_to_sleep"
  <2>1. pc[q] = "zombie" /\ parent[q] \in Procs
    BY SMTT(20), <1>2, ParentFacts
  <2>2. state[parent[q]] # "SLEEPING" /\ pc[parent[q]] # "go_to_sleep"
    BY <2>1 DEF ProcInv, ExitInv
  <2>. QED  BY <2>1, <2>2
<1>. QED  BY <1>1, <1>2 DEF ExitInv

(* A process that nobody kills.                                            *)
LEMMA KillFrame ==
    ASSUME ProcInv,
           \A r \in Procs : \/ state'[r] # "UNUSED" /\ pid'[r] = pid[r]
                            \/ state[r] = "UNUSED",
           \A r \in Procs : \/ ~killed'[r]
                            \/ killed'[r] = killed[r] /\ kpid'[r] = kpid[r],
           \A r \in Procs : pc'[r] = "kill" => pc[r] = "kill" /\ target'[r] = target[r]
    PROVE  KillInv'
<1>1. \A r \in Procs : pc'[r] = "kill" => target'[r] \in KillPids
  BY DEF ProcInv, KillInv
<1>2. ASSUME None \notin KillPids, NEW r \in Procs
      PROVE  /\ state'[r] = "UNUSED" => ~killed'[r]
             /\ killed'[r] => kpid'[r] = pid'[r]
  <2>1. state[r] = "UNUSED" => ~killed[r]
    BY <1>2 DEF ProcInv, KillInv
  <2>2. killed[r] => kpid[r] = pid[r]
    BY <1>2 DEF ProcInv, KillInv, KilledByItsPid
  <2>. QED  BY <2>1, <2>2
<1>. QED  BY <1>1, <1>2, Zenon DEF KillInv, KilledByItsPid

-----------------------------------------------------------------------------
(* The steps of the scheduler, of traps, of fork() and of exit().          *)

(* scheduler() takes a runnable process.                                   *)
LEMMA DispatchStep ==
    ASSUME ProcInv, NEW p \in Procs, dispatch(p)
    PROVE  ProcInv'
<1>. USE ProcFacts DEF ProcInv
<1>1. /\ state[p] = "RUNNABLE" /\ ~locked[p]
      /\ state'[p] = "RUNNING" /\ onstack'[p] /\ chan'[p] = None
      /\ \A r \in Procs : r # p => state'[r] = state[r] /\ onstack'[r] = onstack[r] /\ chan'[r] = chan[r]
      /\ UNCHANGED <<parent, pid, killed, locked, wait_lock, np, target, i, pc, kpid>>
  BY DEF TypeOK, dispatch, table, locals
<1>2. TypeOK'
  BY DEF TypeOK, dispatch, table, locals
<1>3. StateInv'
  BY SMTT(20), <1>1 DEF StateInv
<1>4. StackInv'
  BY <1>1 DEF StackInv
<1>5. LockInv'
  BY <1>1 DEF LockInv, Waiting
<1>6. ForkInv'
  BY <1>1, ForkFrame DEF Forking
<1>7. TreeInv' /\ Acyclic'
  BY <1>1, TreeFrame DEF Live, Empty, Exiting
<1>8. ExitInv'
  BY <1>1, ExitFrame
<1>9. KillInv'
  BY <1>1, KillFrame DEF StateInv
<1>. QED  BY <1>2, <1>3, <1>4, <1>5, <1>6, <1>7, <1>8, <1>9

(* scheduler() releases the lock of a thread that has left its stack.      *)
LEMMA SwtchStep ==
    ASSUME ProcInv, NEW p \in Procs, swtch(p)
    PROVE  ProcInv'
<1>. USE ProcFacts DEF ProcInv
<1>1. /\ state[p] \in {"SLEEPING", "ZOMBIE"} /\ locked[p]
      /\ ~onstack'[p] /\ ~locked'[p]
      /\ \A r \in Procs : r # p => onstack'[r] = onstack[r] /\ locked'[r] = locked[r]
      /\ UNCHANGED <<state, parent, pid, killed, chan, wait_lock, np, target, i, pc, kpid>>
  BY DEF TypeOK, swtch, table, locals
<1>2. TypeOK'
  BY DEF TypeOK, swtch, table, locals
<1>3. StateInv'
  BY <1>1 DEF StateInv
<1>4. StackInv'
  BY <1>1 DEF StackInv, StateInv
<1>5. LockInv'
  BY <1>1 DEF LockInv, Waiting
<1>6. ForkInv'
  BY <1>1, ForkFrame DEF Forking
<1>7. TreeInv' /\ Acyclic'
  BY <1>1, TreeFrame DEF Live, Empty, Exiting
<1>8. ExitInv'
  BY <1>1, ExitFrame
<1>9. KillInv'
  BY <1>1, KillFrame DEF StateInv
<1>. QED  BY <1>2, <1>3, <1>4, <1>5, <1>6, <1>7, <1>8, <1>9

(* A thread enters a system call, returns to user space or goes to exit(). *)
LEMMA TrapStep ==
    ASSUME ProcInv, NEW p \in Procs, NEW n \in KillPids \cup {None},
           \/ forkret(p) \/ sys_fork(p) \/ sys_wait(p) \/ sys_exit(p) \/ die(p)
           \/ (n \in KillPids /\ sys_kill(p, n))
    PROVE  ProcInv'
<1>. USE ProcFacts DEF ProcInv
<1>1. /\ pc[p] \in {"forkret", "user"} /\ state[p] = "RUNNING"
      /\ pc'[p] \in {"user", "allocproc", "wait", "exit", "kill"}
      /\ \A r \in Procs : r # p => pc'[r] = pc[r] /\ target'[r] = target[r]
      /\ UNCHANGED <<state, parent, pid, killed, chan, locked, wait_lock, np, i, onstack, kpid>>
  BY SMTT(20) DEF TypeOK, forkret, sys_fork, sys_wait, sys_exit, die, sys_kill, Syscall, Runs, Goto,
     table, locals
<1>2. pc'[p] = "kill" => target'[p] \in KillPids
  BY DEF TypeOK, forkret, sys_fork, sys_wait, sys_exit, die, sys_kill, Syscall, Goto
<1>3. TypeOK'
  BY SMTT(20) DEF TypeOK, forkret, sys_fork, sys_wait, sys_exit, die, sys_kill, Syscall, Goto, table,
     locals
<1>4. StateInv' /\ StackInv'
  BY SMTT(20), <1>1 DEF StateInv, StackInv
<1>5. LockInv'
  BY <1>1 DEF LockInv, Waiting
<1>6. ForkInv'
  BY <1>1, ForkFrame DEF Forking
<1>7. TreeInv' /\ Acyclic'
  BY <1>1, TreeFrame DEF Live, Empty, Exiting
<1>8. ExitInv'
  BY <1>1, ExitFrame
<1>9. KillInv'
  <2>1. \A r \in Procs : pc'[r] = "kill" => target'[r] \in KillPids
    BY <1>1, <1>2 DEF KillInv
  <2>. QED  BY <1>1, <2>1 DEF KillInv, KilledByItsPid
<1>. QED  BY <1>3, <1>4, <1>5, <1>6, <1>7, <1>8, <1>9

(* An exception in user space.                                             *)
LEMMA FaultStep ==
    ASSUME ProcInv, NEW p \in Procs, fault(p)
    PROVE  ProcInv'
<1>. USE ProcFacts DEF ProcInv
<1>1. /\ pc[p] = "user" /\ state[p] = "RUNNING"
      /\ pc'[p] = "exit" /\ killed'[p] /\ kpid'[p] = pid[p]
      /\ \A r \in Procs : r # p => pc'[r] = pc[r] /\ killed'[r] = killed[r] /\ kpid'[r] = kpid[r]
      /\ UNCHANGED <<state, parent, pid, chan, locked, wait_lock, np, target, i, onstack>>
  BY DEF TypeOK, fault, Runs, Goto, table, locals
<1>2. TypeOK'
  BY DEF TypeOK, fault, Runs, Goto, table, locals
<1>3. StateInv'
  BY <1>1 DEF StateInv
<1>4. StackInv'
  BY <1>1 DEF StackInv
<1>5. LockInv'
  BY <1>1 DEF LockInv, Waiting
<1>6. ForkInv'
  BY <1>1, ForkFrame DEF Forking
<1>7. TreeInv' /\ Acyclic'
  BY <1>1, TreeFrame DEF Live, Empty, Exiting
<1>8. ExitInv'
  BY <1>1, ExitFrame
<1>9. KillInv'
  <2>1. \A r \in Procs : pc'[r] = "kill" => target'[r] \in KillPids
    BY <1>1 DEF KillInv
  <2>. QED  BY <1>1, <2>1 DEF KillInv, KilledByItsPid
<1>. QED  BY <1>2, <1>3, <1>4, <1>5, <1>6, <1>7, <1>8, <1>9

(* A turn of the loop of allocproc(): the slot is in use, becomes a new    *)
(* process, or is given back because memory has run out.                   *)
LEMMA AllocprocStep ==
    ASSUME ProcInv, NEW p \in Procs, allocproc(p)
    PROVE  ProcInv'
<1>. USE ProcFacts DEF ProcInv
<1>. DEFINE q == i[p]
<1>1. q \in Procs /\ pc[p] = "allocproc" /\ state[p] = "RUNNING"
  BY DEF TypeOK, allocproc, Runs
<1>2. /\ UNCHANGED <<locked, wait_lock, havekids, target, shell, onstack, panic>>
      /\ \A r \in Procs : r # p => i'[r] = i[r]
  BY DEF TypeOK, allocproc
<1>3. TypeOK'
  <2>1. i' \in [Procs -> Procs]
    <3>1. q # NPROC => q + 1 \in Procs
      BY SMTT(20), <1>1, ProcAssumption DEF ProcAssumption, Procs
    <3>. QED  BY SMTT(20), <1>1, <3>1 DEF TypeOK, allocproc
  <2>2. nextpid' \in 2 .. MAXPID + 1
    <3>1. nextpid \in 2 .. MAXPID + 1 /\ MAXPID \in Nat
      BY ProcAssumption DEF ProcAssumption, TypeOK
    <3>2. \/ UNCHANGED nextpid
          \/ nextpid' = IF nextpid <= MAXPID THEN nextpid + 1 ELSE nextpid
      BY DEF allocproc, table
    <3>. QED  BY SMTT(20), <3>1, <3>2
  <2>3. /\ 0 \in 0 .. MAXPID /\ None = 0
        /\ nextpid <= MAXPID => nextpid \in 0 .. MAXPID
    BY SMTT(20), ProcAssumption DEF ProcAssumption, TypeOK, None
  <2>4. CASE state[q] # "UNUSED"
    <3>1. PICK l \in {"user", "exit", "allocproc"} : pc' = [pc EXCEPT ![p] = l]
      BY <1>1, <2>4, FailedPc DEF allocproc, Goto
    <3>2. UNCHANGED <<table, np, kpid>>
      BY <2>4 DEF allocproc
    <3>. QED  BY <1>2, <2>1, <2>2, <3>1, <3>2 DEF TypeOK, table
  <2>5. CASE freeproc(q)
    BY SMTT(20), <1>1, <1>2, <2>1, <2>2, <2>3, <2>5, FailedPc DEF TypeOK, allocproc, freeproc, Goto
  <2>6. ASSUME nextpid <= MAXPID, state' = [state EXCEPT ![q] = "USED"],
               pid' = [pid EXCEPT ![q] = nextpid], np' = [np EXCEPT ![p] = q],
               pc' = [pc EXCEPT ![p] = "set_parent", ![q] = "forkret"],
               UNCHANGED <<parent, killed, chan, kpid>>
        PROVE  TypeOK'
    BY <1>1, <1>2, <2>1, <2>2, <2>3, <2>6 DEF TypeOK
  <2>. QED  BY <2>4, <2>5, <2>6 DEF allocproc
\* The slot is in use, or is given back.
<1>4. ASSUME \/ UNCHANGED <<table, kpid>>
             \/ state[q] = "UNUSED" /\ freeproc(q),
             UNCHANGED np,
             \A r \in Procs : pc'[r] = pc[r] \/ (r = p /\ pc'[r] \in {"user", "exit"})
      PROVE  ProcInv'
  <2>1. \A r \in Procs : /\ state'[r] = state[r] /\ parent'[r] = parent[r]
                         /\ pid'[r] = pid[r] /\ np'[r] = np[r]
                         /\ chan'[r] = chan[r] \/ state[r] = "UNUSED"
                         /\ \/ ~killed'[r]
                            \/ killed'[r] = killed[r] /\ kpid'[r] = kpid[r]
    BY SMTT(20), <1>1, <1>4 DEF TypeOK, StateInv, table, freeproc, None
  <2>2. \A r \in Procs : pc'[r] = pc[r] \/ (r = p /\ pc'[r] \in {"user", "exit"})
    BY <1>4
  <2>3. StateInv'
    BY SMTT(20), <1>1, <2>1, <2>2 DEF StateInv
  <2>4. StackInv'
    <3>1. \A r \in Procs : state'[r] = state[r]
      BY <2>1
    <3>2. ~locked[p] /\ locked' = locked /\ onstack' = onstack
      BY <1>1, <1>2 DEF StackInv
    <3>. QED  BY <2>2, <3>1, <3>2 DEF StackInv
  <2>5. LockInv'
    BY <1>1, <1>2, <2>2 DEF LockInv, Waiting
  <2>6. UNCHANGED <<np, parent>>
    <3>1. parent' \in [Procs -> Procs \cup {None}]
      BY <1>3 DEF TypeOK
    <3>2. parent' = parent
      BY SMTT(20), <2>1, <3>1 DEF TypeOK
    <3>. QED  BY <1>4, <3>2
  <2>7. ForkInv'
    BY <1>1, <2>1, <2>2, <2>6, ForkFrame DEF Forking
  <2>8. TreeInv' /\ Acyclic'
    BY <1>1, <2>1, <2>2, <2>6, TreeFrame DEF Live, Empty, Exiting
  <2>9. ExitInv'
    BY <1>1, <1>2, <2>1, <2>2, <2>6, ExitFrame
  <2>10. KillInv'
    BY <1>1, <1>2, <2>1, <2>2, KillFrame
  <2>. QED  BY <1>3, <2>3, <2>4, <2>5, <2>7, <2>8, <2>9, <2>10
\* The slot becomes a process.
<1>5. ASSUME state[q] = "UNUSED", state' = [state EXCEPT ![q] = "USED"],
             pid' = [pid EXCEPT ![q] = nextpid], np' = [np EXCEPT ![p] = q],
             pc' = [pc EXCEPT ![p] = "set_parent", ![q] = "forkret"],
             UNCHANGED <<parent, killed, chan, kpid>>
      PROVE  ProcInv'
  <2>1. /\ q # p /\ pc[q] = "dead" /\ parent[q] = None /\ ~locked[q] /\ q # initproc
        /\ state[q] = "UNUSED"
        /\ \A r \in Procs : np[r] # q
    BY SMTT(20), <1>1, <1>5 DEF StateInv, StackInv, ForkInv, TreeInv, Live
  <2>2. /\ state'[q] = "USED" /\ np'[p] = q /\ pc'[q] = "forkret" /\ pc'[p] = "set_parent"
        /\ \A r \in Procs : /\ r # q => state'[r] = state[r] /\ pid'[r] = pid[r]
                            /\ r # p => np'[r] = np[r]
                            /\ r # p /\ r # q => pc'[r] = pc[r]
    BY <1>1, <1>5, <2>1 DEF TypeOK
  <2>3. UNCHANGED <<parent, killed, chan, kpid>>
    BY <1>5
  <2>4. StateInv'
    BY SMTT(20), <1>1, <2>1, <2>2, <2>3 DEF StateInv
  <2>5. StackInv'
    BY SMTT(20), <1>1, <1>2, <2>1, <2>2 DEF StackInv
  <2>6. LockInv'
    BY <1>1, <1>2, <2>1, <2>2 DEF LockInv, Waiting
  <2>7. ForkInv'
    <3>1. \A r \in Procs : np[r] # None => np[r] \in Procs
      BY DEF TypeOK
    <3>2. np[p] = None
      BY <1>1 DEF ForkInv, Forking
    <3>. QED  BY SMTT(20), <1>1, <2>1, <2>2, <2>3, <3>1, <3>2 DEF ForkInv, Forking
  <2>8. TreeInv' /\ Acyclic'
    BY <1>1, <2>1, <2>2, <2>3, TreeFrame DEF Live, Empty, Exiting
  <2>9. ExitInv'
    BY <1>1, <1>2, <2>1, <2>2, <2>3, ExitFrame
  <2>10. KillInv'
    BY <1>1, <1>2, <2>1, <2>2, <2>3, KillFrame
  <2>. QED  BY <1>3, <2>4, <2>5, <2>6, <2>7, <2>8, <2>9, <2>10
<1>6. ASSUME NEW l \in {"user", "exit", "allocproc"}, pc' = [pc EXCEPT ![p] = l]
      PROVE  \A r \in Procs : pc'[r] = pc[r] \/ (r = p /\ pc'[r] \in {"user", "exit"})
  BY <1>1, <1>6 DEF TypeOK
<1>. QED  BY <1>4, <1>5, <1>6, FailedPc DEF allocproc, Goto, table

(* fork() sets the parent, under wait_lock.                                *)
LEMMA SetParentStep ==
    ASSUME ProcInv, NEW p \in Procs, set_parent(p)
    PROVE  ProcInv'
<1>. USE ProcFacts DEF ProcInv
<1>. DEFINE c == np[p]
<1>0. /\ c \in Procs /\ c # p /\ c # initproc /\ state[c] = "USED" /\ pc[c] = "forkret"
      /\ \A r \in Procs : parent[r] # c /\ (r # p => np[r] # c)
  <2>1. pc[p] = "set_parent"
    BY DEF set_parent, Runs
  <2>2. c # None /\ c \in Procs /\ state[c] = "USED"
    BY <2>1, ParentFacts DEF ForkInv, Forking
  <2>3. pc[c] = "forkret"
    BY <2>2 DEF StateInv
  <2>. QED  BY <2>1, <2>2, <2>3 DEF ForkInv, TreeInv, Live
<1>1. /\ pc[p] = "set_parent" /\ state[p] = "RUNNING" /\ wait_lock = None
      /\ pc'[p] = "set_runnable" /\ parent'[c] = p
      /\ \A r \in Procs : (r # p => pc'[r] = pc[r]) /\ (r # c => parent'[r] = parent[r])
      /\ UNCHANGED <<state, pid, killed, chan, locked, wait_lock, np, target, i, onstack,
                     kpid>>
  BY <1>0 DEF TypeOK, set_parent, Runs, Goto, locals
<1>2. TypeOK'
  BY <1>0 DEF TypeOK, set_parent, Runs, Goto, locals
<1>3. StateInv'
  BY SMTT(20), <1>0, <1>1 DEF StateInv
<1>4. StackInv'
  BY <1>1 DEF StackInv
<1>5. LockInv'
  BY <1>1 DEF LockInv, Waiting
<1>6. ForkInv'
  BY SMTT(20), <1>0, <1>1, ParentFacts DEF ForkInv, Forking
<1>7. TreeInv' /\ Acyclic'
  <2>1. Started' = Started /\ c \notin Started
    BY <1>0, <1>1 DEF Started
  <2>2. \A q \in Started : parent'[q] = parent[q]
    BY <1>1, <2>1 DEF Started
  <2>3. Acyclic'
    BY <2>1, <2>2 DEF Acyclic
  <2>4. TreeInv'
    BY SMTT(20), <1>0, <1>1, <2>1, <2>2, ParentFacts DEF TreeInv, Live, Exiting
  <2>. QED  BY <2>3, <2>4
<1>8. ExitInv'
  BY SMTT(20), <1>0, <1>1, ParentFacts DEF ExitInv
<1>9. KillInv'
  BY <1>1, KillFrame
<1>. QED  BY <1>2, <1>3, <1>4, <1>5, <1>6, <1>7, <1>8, <1>9

(* fork() makes the child runnable: it joins the tree as a leaf.           *)
LEMMA SetRunnableStep ==
    ASSUME ProcInv, NEW p \in Procs, set_runnable(p)
    PROVE  ProcInv'
<1>. USE ProcFacts DEF ProcInv
<1>. DEFINE c == np[p]
<1>0. /\ c \in Procs /\ c # p /\ c # initproc /\ state[c] = "USED" /\ pc[c] = "forkret"
      /\ \A r \in Procs : parent[r] # c /\ (r # p => np[r] # c)
  <2>1. pc[p] = "set_runnable"
    BY DEF set_runnable, Runs
  <2>2. c # None /\ c \in Procs /\ state[c] = "USED"
    BY <2>1, ParentFacts DEF ForkInv, Forking
  <2>3. pc[c] = "forkret"
    BY <2>2 DEF StateInv
  <2>. QED  BY <2>1, <2>2, <2>3 DEF ForkInv, TreeInv, Live
<1>1. /\ pc[p] = "set_runnable" /\ state[p] = "RUNNING" /\ ~locked[c]
      /\ pc'[p] = "user" /\ np'[p] = None /\ state'[c] = "RUNNABLE"
      /\ \A r \in Procs : /\ r # p => pc'[r] = pc[r] /\ np'[r] = np[r]
                          /\ r # c => state'[r] = state[r]
      /\ UNCHANGED <<parent, pid, killed, chan, locked, wait_lock, target, i, onstack,
                     kpid>>
  BY <1>0 DEF TypeOK, set_runnable, Runs, Goto
<1>2. TypeOK'
  BY <1>0 DEF TypeOK, set_runnable, Runs, Goto
<1>3. StateInv'
  BY SMTT(20), <1>0, <1>1 DEF StateInv
<1>4. StackInv'
  BY SMTT(20), <1>0, <1>1 DEF StackInv
<1>5. LockInv'
  BY <1>1 DEF LockInv, Waiting
<1>6. ForkInv'
  BY SMTT(20), <1>0, <1>1, ParentFacts DEF ForkInv, Forking
<1>7. TreeInv' /\ Acyclic'
  <2>1. Started' = Started \cup {c}
    BY <1>0, <1>1 DEF Started
  <2>2. parent' = parent /\ parent[c] = p
    BY <1>1 DEF ForkInv
  <2>3. \A q \in Procs : parent[q] # c
    BY <1>0
  <2>4. ASSUME NEW S \in SUBSET (Started' \ {initproc}), S # {}
        PROVE  \E q \in S : parent[q] \notin S
    <3>1. CASE c \notin S
      BY <2>1, <2>4, <3>1 DEF Acyclic
    <3>2. CASE S = {c}
      BY <1>0, <2>2, <3>2
    <3>3. CASE c \in S /\ S # {c}
      <4>. DEFINE T == S \ {c}
      <4>1. T \in SUBSET (Started \ {initproc}) /\ T # {}
        BY <2>1, <2>4, <3>3
      <4>2. PICK q \in T : parent[q] \notin T
        BY <4>1, Zenon DEF Acyclic
      <4>3. parent[q] # c
        BY <2>3, <2>4, <4>2, <4>1 DEF Started
      <4>. QED  BY <4>2, <4>3
    <3>. QED  BY <3>1, <3>2, <3>3
  <2>5. Acyclic'
    BY <2>2, <2>4 DEF Acyclic
  <2>6. TreeInv'
    BY SMTT(20), <1>0, <1>1, <2>1, <2>2, ParentFacts DEF TreeInv, Live, Exiting
  <2>. QED  BY <2>5, <2>6
<1>8. ExitInv'
  BY <1>0, <1>1, ExitFrame
<1>9. KillInv'
  BY <1>0, <1>1, KillFrame
<1>. QED  BY <1>2, <1>3, <1>4, <1>5, <1>6, <1>7, <1>8, <1>9

(* exit() takes wait_lock; that of init panics.                            *)
LEMMA ExitStep ==
    ASSUME ProcInv, NEW p \in Procs, exit(p)
    PROVE  ProcInv'
<1>. USE ProcFacts DEF ProcInv
<1>1. /\ pc[p] = "exit" /\ state[p] = "RUNNING"
      /\ UNCHANGED <<state, parent, pid, killed, chan, locked, np, target, i, onstack, kpid>>
  BY DEF exit, Runs, table, locals
<1>2. \/ pc' = pc /\ wait_lock' = wait_lock
      \/ /\ p # initproc /\ wait_lock = None /\ wait_lock' = p
         /\ pc'[p] = "reparent" /\ \A r \in Procs : r # p => pc'[r] = pc[r]
  BY DEF TypeOK, exit, Goto
<1>3. TypeOK'
  BY DEF TypeOK, exit, Goto, table, locals
<1>4. StateInv'
  BY <1>1, <1>2 DEF StateInv
<1>5. StackInv'
  BY <1>1, <1>2 DEF StackInv
<1>6. LockInv'
  BY <1>1, <1>2 DEF LockInv, Waiting
<1>7. ForkInv'
  BY <1>1, <1>2, ForkFrame DEF Forking
<1>8. TreeInv' /\ Acyclic'
  BY <1>1, <1>2, TreeFrame DEF Live, Empty, Exiting
<1>9. ExitInv'
  BY <1>1, <1>2, ExitFrame
<1>10. KillInv'
  BY <1>1, <1>2, KillFrame
<1>. QED  BY <1>3, <1>4, <1>5, <1>6, <1>7, <1>8, <1>9, <1>10

(* reparent() gives the children to init and wakes it.                     *)
LEMMA ReparentStep ==
    ASSUME ProcInv, NEW p \in Procs, reparent(p)
    PROVE  ProcInv'
<1>. USE ProcFacts DEF ProcInv
<1>1. /\ pc[p] = "reparent" /\ state[p] = "RUNNING"
      /\ UNCHANGED <<pid, killed, chan, locked, wait_lock, np, target, i, onstack, kpid>>
      /\ pc'[p] = "wake_parent"
      /\ \A r \in Procs : /\ r # p => pc'[r] = pc[r]
                          /\ parent[r] = p => parent'[r] = initproc
                          /\ parent[r] # p => parent'[r] = parent[r]
  BY DEF TypeOK, reparent, Runs, Goto, locals
<1>2. \A r \in Procs : \/ state'[r] = state[r]
                       \/ state[r] = "SLEEPING" /\ state'[r] = "RUNNABLE" /\ ~locked[r]
  BY SMTT(20) DEF TypeOK, reparent, wakeup
<1>3. p # initproc /\ wait_lock = p
  BY <1>1 DEF TreeInv, Exiting, LockInv, Waiting
<1>4. TypeOK'
  BY SMTT(20) DEF TypeOK, reparent, Goto, wakeup, locals
<1>5. StateInv'
  BY SMTT(20), <1>1, <1>2 DEF StateInv
<1>6. StackInv'
  BY <1>1, <1>2 DEF StackInv
<1>7. LockInv'
  BY <1>1, <1>3 DEF LockInv, Waiting
<1>8. ForkInv'
  <2>1. \A r \in Procs : parent[r] = p => parent'[r] # None
    BY <1>1
  <2>2. \A r \in Procs : parent'[r] = parent[r] \/ parent[r] = p
    BY <1>1
  <2>3. \A r \in Procs : pc[r] \in Forking => parent[np[r]] # p
    BY SMTT(20), <1>1, ParentFacts DEF ForkInv, Forking
  <2>4. \A r \in Procs : pc[r] \in Forking => parent'[np[r]] = parent[np[r]]
    BY <2>2, <2>3, ParentFacts DEF ForkInv
  <2>5. \A r \in Procs : state'[r] = "USED" <=> state[r] = "USED"
    BY <1>2
  <2>6. \A r \in Procs : pc'[r] = pc[r]
                         \/ (pc[r] \notin Forking /\ pc'[r] \notin Forking)
    BY <1>1 DEF Forking
  <2>. QED  BY SMTT(20), <1>1, <2>4, <2>5, <2>6, ParentFacts DEF ForkInv, Forking
<1>9. TreeInv'
  <2>1. Started' = Started
    BY <1>2 DEF Started
  <2>2. \A r \in Procs : state[r] \in Live => state'[r] \in Live
    BY <1>2 DEF Live
  <2>3. state'[initproc] \in Live /\ pc'[initproc] \notin Exiting /\ parent'[initproc] = None
    BY <1>1, <1>3, <2>2 DEF TreeInv
  <2>4. ASSUME NEW q \in Procs, parent'[q] # None
        PROVE  /\ state'[parent'[q]] \in Live
               /\ pc'[parent'[q]] \notin {"wake_parent", "zombie"}
    <3>1. CASE parent[q] = p
      BY <1>1, <2>3, <3>1 DEF Exiting
    <3>2. CASE parent[q] # p
      <4>1. parent'[q] = parent[q] /\ parent[q] \in Procs
        BY <1>1, <2>4, <3>2, ParentFacts
      <4>. QED  BY <1>1, <2>2, <2>4, <3>2, <4>1 DEF TreeInv
    <3>. QED  BY <3>1, <3>2
  <2>5. \A q \in Started' \ {initproc} : parent'[q] # None
    BY SMTT(20), <1>1, <2>1 DEF TreeInv, Started
  <2>. QED  BY <2>3, <2>4, <2>5 DEF TreeInv
<1>10. Acyclic'
  <2>1. Started' = Started
    BY <1>2 DEF Started
  <2>2. ASSUME NEW S \in SUBSET (Started \ {initproc}), S # {}
        PROVE  \E q \in S : parent'[q] \notin S
    <3>1. PICK q \in S : parent[q] \notin S
      BY <2>2, Zenon DEF Acyclic
    <3>2. q \in Procs /\ initproc \notin S
      BY <2>2 DEF Started
    <3>. QED  BY <1>1, <3>1, <3>2
  <2>. QED  BY <2>1, <2>2, Zenon DEF Acyclic
<1>11. ExitInv'
  <2>1. ASSUME NEW r \in Procs, parent[r] = p
        PROVE  state'[initproc] # "SLEEPING" /\ pc'[initproc] # "go_to_sleep"
    <3>1. wakeup(p, initproc)
      BY <2>1 DEF reparent
    <3>2. ~locked[initproc] /\ (state[initproc] = "SLEEPING" => chan[initproc] = initproc)
      BY <1>3, <3>1 DEF wakeup, StateInv
    <3>. QED  BY <1>1, <1>3, <3>1, <3>2 DEF wakeup, StackInv
  <2>2. pc'[initproc] \notin {"scan", "scanned", "sleep"}
    BY <1>1, <1>3 DEF LockInv, Waiting
  <2>3. ASSUME NEW q \in Procs, state'[q] = "ZOMBIE", parent'[q] # None
        PROVE  /\ state'[parent'[q]] # "SLEEPING"
               /\ pc'[parent'[q]] \notin {"scanned", "sleep", "go_to_sleep"}
               /\ pc'[parent'[q]] = "scan" => q >= i'[parent'[q]]
    <3>1. CASE parent[q] = p
      BY <1>1, <2>1, <2>2, <3>1
    <3>2. CASE parent[q] # p
      <4>1. state[q] = "ZOMBIE" /\ parent'[q] = parent[q] /\ parent[q] \in Procs
        BY <1>1, <1>2, <2>3, <3>2, ParentFacts
      <4>. QED  BY SMTT(20), <1>1, <1>2, <4>1 DEF ExitInv
    <3>. QED  BY <3>1, <3>2
  <2>4. \A q \in Procs : pc'[q] # "zombie"
    BY <1>1, <1>3 DEF LockInv, Waiting
  <2>. QED  BY <2>3, <2>4 DEF ExitInv
<1>12. KillInv'
  BY <1>1, <1>2, KillFrame
<1>. QED  BY <1>4, <1>5, <1>6, <1>7, <1>8, <1>9, <1>10, <1>11, <1>12

(* exit() wakes the parent.                                                *)
LEMMA WakeParentStep ==
    ASSUME ProcInv, NEW p \in Procs, wake_parent(p)
    PROVE  ProcInv'
<1>. USE ProcFacts DEF ProcInv
<1>1. /\ pc[p] = "wake_parent" /\ state[p] = "RUNNING"
      /\ UNCHANGED <<parent, pid, killed, chan, locked, wait_lock, np, target, i, onstack,
                     kpid>>
      /\ pc'[p] = "zombie" /\ \A r \in Procs : r # p => pc'[r] = pc[r]
  BY DEF TypeOK, wake_parent, Runs, Goto, locals
<1>2. \A r \in Procs : \/ state'[r] = state[r]
                       \/ state[r] = "SLEEPING" /\ state'[r] = "RUNNABLE" /\ ~locked[r]
  BY DEF TypeOK, wake_parent, wakeup
<1>3. TypeOK'
  BY DEF TypeOK, wake_parent, Goto, wakeup, locals
<1>4. StateInv'
  BY SMTT(20), <1>1, <1>2 DEF StateInv
<1>5. StackInv'
  BY <1>1, <1>2 DEF StackInv
<1>6. LockInv'
  BY <1>1 DEF LockInv, Waiting
<1>7. ForkInv'
  BY <1>1, <1>2, ForkFrame DEF Forking
<1>8. TreeInv' /\ Acyclic'
  BY <1>1, <1>2, TreeFrame DEF Live, Empty, Exiting
<1>9. ExitInv'
  <2>1. ASSUME NEW q \in Procs, state'[q] = "ZOMBIE", parent[q] # None
        PROVE  /\ state'[parent[q]] # "SLEEPING"
               /\ pc'[parent[q]] \notin {"scanned", "sleep", "go_to_sleep"}
               /\ pc'[parent[q]] = "scan" => q >= i'[parent[q]]
    <3>1. state[q] = "ZOMBIE" /\ parent[q] \in Procs
      BY <1>2, <2>1, ParentFacts
    <3>. QED  BY <1>1, <1>2, <2>1, <3>1 DEF ExitInv
  <2>2. parent[p] \in Procs
    <3>1. p # initproc /\ p \in Started
      BY <1>1 DEF TreeInv, Exiting, Started
    <3>. QED  BY <3>1, ParentFacts DEF TreeInv
  <2>3. state'[parent[p]] # "SLEEPING" /\ pc'[parent[p]] # "go_to_sleep"
    <3>1. CASE parent[p] = p
      BY <1>1, <1>2, <3>1
    <3>2. CASE parent[p] # p
      <4>1. ~locked[parent[p]] /\ (state[parent[p]] = "SLEEPING" => chan[parent[p]] = parent[p])
        BY <2>2, <3>2 DEF wake_parent, wakeup, StateInv
      <4>2. state'[parent[p]] # "SLEEPING"
        BY <2>2, <3>2, <4>1 DEF wake_parent, wakeup
      <4>3. pc'[parent[p]] # "go_to_sleep"
        BY <1>1, <2>2, <3>2, <4>1 DEF StackInv
      <4>. QED  BY <4>2, <4>3
    <3>. QED  BY <3>1, <3>2
  <2>4. \A q \in Procs : pc'[q] = "zombie" => q = p
    BY <1>1 DEF LockInv, Waiting
  <2>. QED  BY <1>1, <2>1, <2>3, <2>4 DEF ExitInv
<1>10. KillInv'
  BY <1>1, <1>2, KillFrame
<1>. QED  BY <1>3, <1>4, <1>5, <1>6, <1>7, <1>8, <1>9, <1>10
-----------------------------------------------------------------------------
(* The end of exit(), and the steps of wait() and of kill().               *)

(* exit() makes the process a zombie.                                      *)
LEMMA ZombieStep ==
    ASSUME ProcInv, NEW p \in Procs, zombie(p)
    PROVE  ProcInv'
<1>. USE ProcFacts DEF ProcInv
<1>1. /\ pc[p] = "zombie" /\ state[p] = "RUNNING" /\ ~locked[p]
      /\ pc'[p] = "dead" /\ state'[p] = "ZOMBIE" /\ locked'[p]
      /\ \A r \in Procs : r # p => pc'[r] = pc[r] /\ state'[r] = state[r] /\ locked'[r] = locked[r]
      /\ UNCHANGED <<parent, pid, killed, chan, np, target, i, onstack, kpid>>
      /\ wait_lock' = None
  BY DEF TypeOK, zombie, Runs, Goto, table, locals
<1>2. TypeOK'
  BY DEF TypeOK, zombie, Runs, Goto, table, locals
<1>3. StateInv'
  BY SMTT(20), <1>1 DEF StateInv
<1>4. StackInv'
  BY SMTT(20), <1>1 DEF StackInv
<1>5. LockInv'
  BY <1>1 DEF LockInv, Waiting
<1>6. ForkInv'
  BY <1>1, ForkFrame DEF Forking
<1>7. TreeInv' /\ Acyclic'
  <2>1. p # initproc /\ \A r \in Procs : parent[r] # p
    BY <1>1 DEF TreeInv, Exiting
  <2>2. Started' = Started
    BY <1>1 DEF Started
  <2>3. Acyclic'
    BY <1>1, <2>2 DEF Acyclic
  <2>4. TreeInv'
    BY <1>1, <2>1, <2>2, ParentFacts DEF TreeInv
  <2>. QED  BY <2>3, <2>4
<1>8. ExitInv'
  <2>1. parent[p] \in Procs /\ parent[p] # p
    BY <1>1, ParentFacts DEF TreeInv
  <2>2. /\ state[parent[p]] # "SLEEPING" /\ pc[parent[p]] # "go_to_sleep"
        /\ pc[parent[p]] \notin {"scan", "scanned", "sleep"}
    BY <1>1, <2>1 DEF ExitInv, LockInv, Waiting
  <2>3. \A r \in Procs : pc'[r] # "zombie"
    BY SMTT(20), <1>1 DEF LockInv, Waiting
  <2>4. ASSUME NEW q \in Procs, state'[q] = "ZOMBIE", parent[q] # None
        PROVE  /\ state'[parent[q]] # "SLEEPING"
               /\ pc'[parent[q]] \notin {"scanned", "sleep", "go_to_sleep"}
               /\ pc'[parent[q]] = "scan" => q >= i'[parent[q]]
    <3>1. CASE q = p
      BY <1>1, <2>1, <2>2, <3>1
    <3>2. CASE q # p
      BY <1>1, <2>4, <3>2, ParentFacts DEF ExitInv
    <3>. QED  BY <3>1, <3>2
  <2>. QED  BY <1>1, <2>3, <2>4 DEF ExitInv
<1>9. KillInv'
  BY <1>1, KillFrame DEF StateInv
<1>. QED  BY <1>2, <1>3, <1>4, <1>5, <1>6, <1>7, <1>8, <1>9

(* wait() takes wait_lock and scans the table.                             *)
LEMMA WaitStep ==
    ASSUME ProcInv, NEW p \in Procs, wait(p)
    PROVE  ProcInv'
<1>. USE ProcFacts DEF ProcInv
<1>1. /\ pc[p] = "wait" /\ state[p] = "RUNNING" /\ wait_lock = None
      /\ pc'[p] = "scan" /\ i'[p] = 1
      /\ \A r \in Procs : r # p => pc'[r] = pc[r] /\ i'[r] = i[r]
      /\ UNCHANGED <<state, parent, pid, killed, chan, locked, np, target, onstack, kpid>>
      /\ wait_lock' = p
  BY DEF TypeOK, wait, Runs, Goto, table, locals
<1>2. TypeOK'
  BY DEF TypeOK, wait, Runs, Goto, table, locals
<1>3. StateInv'
  BY <1>1 DEF StateInv
<1>4. StackInv'
  BY <1>1 DEF StackInv
<1>5. LockInv'
  BY <1>1 DEF LockInv, Waiting
<1>6. ForkInv'
  BY <1>1, ForkFrame DEF Forking
<1>7. TreeInv' /\ Acyclic'
  BY <1>1, TreeFrame DEF Live, Empty, Exiting
<1>8. ExitInv'
  <2>1. \A r \in Procs : r >= 1
    BY SMTT(20), ProcAssumption DEF ProcAssumption, Procs
  <2>. QED  BY SMTT(20), <1>1, <2>1, ParentFacts DEF ExitInv
<1>9. KillInv'
  BY <1>1, KillFrame DEF StateInv
<1>. QED  BY <1>2, <1>3, <1>4, <1>5, <1>6, <1>7, <1>8, <1>9

(* A turn of the scan of wait(), which frees a zombie child, a leaf.       *)
LEMMA WaitScanStep ==
    ASSUME ProcInv, NEW p \in Procs, wait_scan(p)
    PROVE  ProcInv'
<1>. USE ProcFacts DEF ProcInv
<1>. DEFINE q == i[p]
<1>1. q \in Procs /\ pc[p] = "scan" /\ state[p] = "RUNNING" /\ wait_lock = p
  BY DEF TypeOK, LockInv, Waiting, wait_scan, Runs
<1>2. /\ UNCHANGED <<locked, nextpid, np, target, onstack, panic>>
      /\ \A r \in Procs : r # p => i'[r] = i[r]
  BY DEF TypeOK, wait_scan
<1>3. TypeOK'
  <2>1. i' \in [Procs -> Procs]
    <3>1. q # NPROC => q + 1 \in Procs
      BY SMTT(20), <1>1, ProcAssumption DEF ProcAssumption, Procs
    <3>. QED  BY <1>1, <3>1 DEF TypeOK, wait_scan
  <2>2. havekids' \in [Procs -> BOOLEAN]
    BY DEF TypeOK, wait_scan
  <2>3. /\ wait_lock' \in Procs \cup {None}
        /\ pc' \in [Procs -> {"forkret", "user", "allocproc", "set_parent", "set_runnable",
                             "exit", "reparent", "wake_parent", "zombie", "dead", "wait",
                             "scan", "scanned", "sleep", "go_to_sleep", "kill"}]
    BY <1>1 DEF TypeOK, wait_scan, Goto
  <2>4. shell' \in 0 .. MAXPID
    <3>1. 0 \in 0 .. MAXPID /\ None = 0
      BY SMTT(20), ProcAssumption DEF ProcAssumption, None
    <3>. QED  BY <3>1 DEF TypeOK, wait_scan
  <2>5. CASE freeproc(q)
    <3>1. 0 \in 0 .. MAXPID /\ None = 0
      BY SMTT(20), ProcAssumption DEF ProcAssumption, None
    <3>2. /\ state' \in [Procs -> {"UNUSED", "USED", "RUNNABLE", "RUNNING", "SLEEPING",
                                   "ZOMBIE"}]
          /\ killed' \in [Procs -> BOOLEAN]
      BY <1>1, <2>5 DEF TypeOK, freeproc
    <3>3. pid' \in [Procs -> 0 .. MAXPID] /\ kpid' \in [Procs -> KillPids \cup 0 .. MAXPID]
      BY <1>1, <2>5, <3>1 DEF TypeOK, freeproc
    <3>4. /\ parent' \in [Procs -> Procs \cup {None}]
          /\ chan' \in [Procs -> Procs \cup {None}]
      BY <1>1, <2>5 DEF TypeOK, freeproc
    <3>. QED  BY <1>2, <2>1, <2>2, <2>3, <2>4, <3>2, <3>3, <3>4 DEF TypeOK
  <2>6. CASE UNCHANGED <<table, kpid>>
    BY <1>1, <1>2, <2>1, <2>2, <2>3, <2>6, <2>4 DEF TypeOK, table
  <2>. QED  BY <2>5, <2>6 DEF wait_scan
<1>4. \A r \in Procs : parent[r] # None => parent[r] \in Procs
  BY DEF TypeOK
<1>5. \A r \in Procs : pc[r] # "zombie"
  BY <1>1 DEF LockInv, Waiting
\* A zombie child is found; it is freed, unless copyout() fails.
<1>6. ASSUME parent[q] = p, state[q] = "ZOMBIE", ~locked[q],
             freeproc(q) \/ UNCHANGED <<table, kpid>>,
             wait_lock' = None, Goto(p, "user")
      PROVE  ProcInv'
  <2>1. /\ q # p /\ q # initproc /\ pc[q] = "dead" /\ ~locked[q] /\ state[q] = "ZOMBIE"
        /\ \A r \in Procs : parent[r] # q /\ np[r] # q
    BY SMTT(20), <1>1, <1>6 DEF StateInv, TreeInv, ForkInv, Live
  <2>2. \A r \in Procs : r # q => /\ state'[r] = state[r] /\ parent'[r] = parent[r]
                                  /\ pid'[r] = pid[r] /\ chan'[r] = chan[r]
    BY <1>1, <1>6 DEF TypeOK, table, freeproc
  <2>3. \/ state'[q] = "UNUSED" /\ parent'[q] = None /\ pid'[q] = 0
        \/ state'[q] = state[q] /\ parent'[q] = parent[q] /\ pid'[q] = pid[q]
    BY SMTT(20), <1>1, <1>6 DEF TypeOK, table, freeproc
  <2>4. \A r \in Procs : \/ r = q /\ ~killed'[r]
                         \/ killed'[r] = killed[r] /\ kpid'[r] = kpid[r]
                            /\ pid'[r] = pid[r] /\ state'[r] = state[r]
    BY SMTT(20), <1>1, <1>6 DEF TypeOK, table, freeproc
  <2>5. pc'[p] = "user" /\ \A r \in Procs : r # p => pc'[r] = pc[r]
    BY <1>6 DEF TypeOK, Goto
  <2>6. wait_lock' = None
    BY <1>6
  <2>7. StateInv'
    BY SMTT(20), <1>1, <2>1, <2>2, <2>3, <2>5 DEF StateInv
  <2>8. StackInv'
    BY SMTT(20), <1>1, <1>2, <2>1, <2>2, <2>3, <2>5 DEF StackInv
  <2>9. LockInv'
    BY <1>1, <2>5, <2>6 DEF LockInv, Waiting
  <2>10. ForkInv'
    <3>1. \A r \in Procs : np[r] # None => np[r] \in Procs
      BY DEF TypeOK
    <3>2. \A r \in Procs : np[r] # None => /\ state'[np[r]] = state[np[r]]
                                           /\ parent'[np[r]] = parent[np[r]]
      BY <2>1, <2>2, <3>1
    <3>3. \A r \in Procs : state'[r] = "USED" => state[r] = "USED"
      BY <2>1, <2>2, <2>3
    <3>4. \A r \in Procs : pc'[r] = pc[r] \/ (pc[r] = "scan" /\ pc'[r] = "user")
      BY <1>1, <2>5
    <3>. QED  BY SMTT(20), <1>2, <3>1, <3>2, <3>3, <3>4 DEF ForkInv, Forking
  <2>11. TreeInv'
    <3>1. state'[initproc] = state[initproc] /\ parent'[initproc] = parent[initproc]
      BY <2>1, <2>2
    <3>2. \A r \in Procs : pc'[r] = pc[r] \/ pc'[r] = "user"
      BY <2>5
    <3>3. \A r \in Started' : r \in Started /\ parent'[r] = parent[r]
      BY <1>1, <2>1, <2>2, <2>3 DEF Started
    <3>4. \A r \in Procs : parent'[r] # None =>
                             /\ parent'[r] = parent[r] /\ parent[r] \in Procs
                             /\ state'[parent[r]] = state[parent[r]]
      BY SMTT(20), <1>1, <1>4, <2>1, <2>2, <2>3
    <3>. QED  BY <3>1, <3>2, <3>3, <3>4 DEF TreeInv, Exiting
  <2>12. Acyclic'
    <3>1. Started' \subseteq Started
      BY <1>1, <2>1, <2>2, <2>3 DEF Started
    <3>2. \A r \in Started' : parent'[r] = parent[r]
      BY <1>1, <2>1, <2>2, <2>3 DEF Started
    <3>. QED  BY <3>1, <3>2 DEF Acyclic
  <2>13. ExitInv'
    BY SMTT(20), <1>1, <1>2, <1>4, <1>5, <2>1, <2>2, <2>3, <2>5 DEF ExitInv
  <2>14. KillInv'
    <3>1. \A r \in Procs : pc'[r] = "kill" => target'[r] \in KillPids
      BY <1>2, <2>5 DEF KillInv
    <3>2. \A r \in Procs : state'[r] = "UNUSED" => r = q \/ state[r] = "UNUSED"
      BY <2>2
    <3>3. state[q] # "UNUSED"
      BY <2>1
    <3>. QED  BY <1>1, <2>4, <3>1, <3>2, <3>3 DEF KillInv, KilledByItsPid
  <2>. QED  BY <1>3, <2>7, <2>8, <2>9, <2>10, <2>11, <2>12, <2>13, <2>14
\* The slot holds no zombie child.
<1>7. ASSUME ~(parent[q] = p /\ state[q] = "ZOMBIE"), UNCHANGED <<table, wait_lock, kpid>>,
             Goto(p, IF q = NPROC THEN "scanned" ELSE "scan"),
             q # NPROC => i'[p] = q + 1
      PROVE  ProcInv'
  <2>1. UNCHANGED <<state, parent, pid, killed, chan, kpid, wait_lock>>
    BY <1>7 DEF table
  <2>2. /\ \A r \in Procs : r # p => pc'[r] = pc[r]
        /\ q = NPROC => pc'[p] = "scanned"
        /\ q # NPROC => pc'[p] = "scan"
    BY <1>7 DEF TypeOK, Goto
  <2>3. StateInv'
    BY <1>1, <2>1, <2>2 DEF StateInv
  <2>4. StackInv'
    BY <1>1, <1>2, <2>1, <2>2 DEF StackInv
  <2>5. LockInv'
    BY <1>1, <2>1, <2>2 DEF LockInv, Waiting
  <2>6. ForkInv'
    BY <1>1, <1>2, <2>1, <2>2, ForkFrame DEF Forking
  <2>7. TreeInv' /\ Acyclic'
    BY <1>1, <2>1, <2>2, TreeFrame DEF Live, Empty, Exiting
  <2>8. ExitInv'
    <3>1. \A r \in Procs : state[r] = "ZOMBIE" /\ parent[r] = p => r >= q /\ r # q
      BY <1>1, <1>7 DEF ExitInv
    <3>2. \A r \in Procs : state[r] = "ZOMBIE" /\ parent[r] = p =>
                             q # NPROC /\ r >= q + 1
      BY SMTT(20), <1>1, <3>1, ProcAssumption DEF ProcAssumption, Procs
    <3>3. q # NPROC => i'[p] = q + 1
      BY <1>7
    <3>. QED  BY SMTT(20), <1>1, <1>2, <1>4, <1>5, <2>1, <2>2, <3>2, <3>3 DEF ExitInv
  <2>9. KillInv'
    BY <1>1, <1>2, <2>1, <2>2, KillFrame
  <2>. QED  BY <1>3, <2>3, <2>4, <2>5, <2>6, <2>7, <2>8, <2>9
<1>. QED
  <2>1. i' = [i EXCEPT ![p] = IF (parent[q] = p /\ state[q] = "ZOMBIE") \/ q = NPROC
                              THEN 1 ELSE q + 1]
    BY DEF wait_scan
  <2>2. CASE parent[q] = p /\ state[q] = "ZOMBIE"
    BY <1>6, <2>2 DEF wait_scan
  <2>3. CASE ~(parent[q] = p /\ state[q] = "ZOMBIE")
    <3>1. q # NPROC => i'[p] = q + 1
      BY <2>1, <2>3 DEF TypeOK
    <3>. QED  BY <1>7, <2>3, <3>1 DEF wait_scan
  <2>. QED  BY <2>2, <2>3

(* The end of a scan.                                                      *)
LEMMA WaitScannedStep ==
    ASSUME ProcInv, NEW p \in Procs, wait_scanned(p)
    PROVE  ProcInv'
<1>. USE ProcFacts DEF ProcInv
<1>1. /\ pc[p] = "scanned" /\ state[p] = "RUNNING" /\ wait_lock = p
      /\ UNCHANGED <<state, parent, pid, killed, chan, locked, np, target, i, onstack, kpid>>
      /\ \A r \in Procs : r # p => pc'[r] = pc[r]
      /\ \/ pc'[p] \in {"user", "exit"} /\ wait_lock' = None
         \/ pc'[p] = "sleep" /\ wait_lock' = wait_lock
  BY SMTT(20), FailedPc DEF TypeOK, LockInv, Waiting, wait_scanned, Runs, Goto, table
<1>2. TypeOK'
  BY SMTT(20), FailedPc DEF TypeOK, wait_scanned, Goto, table
<1>3. StateInv'
  BY <1>1 DEF StateInv
<1>4. StackInv'
  BY <1>1 DEF StackInv
<1>5. LockInv'
  BY <1>1 DEF LockInv, Waiting
<1>6. ForkInv'
  BY <1>1, ForkFrame DEF Forking
<1>7. TreeInv' /\ Acyclic'
  BY <1>1, TreeFrame DEF Live, Empty, Exiting
<1>8. ExitInv'
  BY <1>1, ExitFrame
<1>9. KillInv'
  BY <1>1, KillFrame
<1>. QED  BY <1>2, <1>3, <1>4, <1>5, <1>6, <1>7, <1>8, <1>9

(* sleep() takes p->lock and releases wait_lock.                           *)
LEMMA SleepStep ==
    ASSUME ProcInv, NEW p \in Procs, sleep(p)
    PROVE  ProcInv'
<1>. USE ProcFacts DEF ProcInv
<1>1. /\ pc[p] = "sleep" /\ state[p] = "RUNNING" /\ ~locked[p]
      /\ pc'[p] = "go_to_sleep" /\ locked'[p]
      /\ \A r \in Procs : r # p => pc'[r] = pc[r] /\ locked'[r] = locked[r]
      /\ UNCHANGED <<state, parent, pid, killed, chan, np, target, i, onstack, kpid>>
      /\ wait_lock' = None
  BY DEF TypeOK, sleep, Runs, Goto, table, locals
<1>2. TypeOK'
  BY DEF TypeOK, sleep, Runs, Goto, table, locals
<1>3. StateInv'
  BY <1>1 DEF StateInv
<1>4. StackInv'
  BY <1>1 DEF StackInv
<1>5. LockInv'
  BY <1>1 DEF LockInv, Waiting
<1>6. ForkInv'
  BY <1>1, ForkFrame DEF Forking
<1>7. TreeInv' /\ Acyclic'
  BY <1>1, TreeFrame DEF Live, Empty, Exiting
<1>8. ExitInv'
  <2>1. \A r \in Procs : pc'[r] # "zombie"
    BY <1>1 DEF LockInv, Waiting
  <2>2. \A r \in Procs : state[r] = "ZOMBIE" => parent[r] # p
    BY <1>1 DEF ExitInv
  <2>. QED  BY <1>1, <2>1, <2>2, ParentFacts DEF ExitInv
<1>9. KillInv'
  BY <1>1, KillFrame DEF StateInv
<1>. QED  BY <1>2, <1>3, <1>4, <1>5, <1>6, <1>7, <1>8, <1>9

(* sleep() sets the state.                                                 *)
LEMMA GoToSleepStep ==
    ASSUME ProcInv, NEW p \in Procs, go_to_sleep(p)
    PROVE  ProcInv'
<1>. USE ProcFacts DEF ProcInv
<1>1. /\ pc[p] = "go_to_sleep" /\ state[p] = "RUNNING"
      /\ pc'[p] = "wait" /\ state'[p] = "SLEEPING" /\ chan'[p] = p
      /\ \A r \in Procs : r # p => pc'[r] = pc[r] /\ state'[r] = state[r] /\ chan'[r] = chan[r]
      /\ UNCHANGED <<parent, pid, killed, locked, wait_lock, np, target, i, onstack, kpid>>
  BY DEF TypeOK, go_to_sleep, Runs, Goto, table, locals
<1>2. TypeOK'
  BY DEF TypeOK, go_to_sleep, Runs, Goto, table, locals
<1>3. StateInv'
  BY SMTT(20), <1>1 DEF StateInv
<1>4. StackInv'
  BY <1>1 DEF StackInv
<1>5. LockInv'
  BY <1>1 DEF LockInv, Waiting
<1>6. ForkInv'
  BY <1>1, ForkFrame DEF Forking
<1>7. TreeInv' /\ Acyclic'
  BY <1>1, TreeFrame DEF Live, Empty, Exiting
<1>8. ExitInv'
  <2>1. \A r \in Procs : (pc[r] = "zombie" \/ state[r] = "ZOMBIE") => parent[r] # p
    BY <1>1 DEF ExitInv
  <2>. QED  BY SMTT(20), <1>1, <2>1, ParentFacts DEF ExitInv
<1>9. KillInv'
  BY <1>1, KillFrame DEF StateInv
<1>. QED  BY <1>2, <1>3, <1>4, <1>5, <1>6, <1>7, <1>8, <1>9

(* A turn of the loop of kill().                                           *)
LEMMA KillStep ==
    ASSUME ProcInv, NEW p \in Procs, kill(p)
    PROVE  ProcInv'
<1>. USE ProcFacts DEF ProcInv
<1>. DEFINE q == i[p]
<1>1. q \in Procs /\ pc[p] = "kill" /\ state[p] = "RUNNING" /\ ~locked[q]
  BY DEF TypeOK, kill, Runs
<1>2. UNCHANGED <<parent, pid, chan, locked, wait_lock, nextpid, np, havekids, shell,
                  onstack, panic>>
  BY DEF kill
<1>3. \A r \in Procs : /\ r # p => i'[r] = i[r] /\ target'[r] = target[r]
                       /\ pc'[r] = pc[r] \/ (r = p /\ pc'[r] = "user")
  BY <1>1 DEF TypeOK, kill, Goto
<1>4. pc'[p] = "kill" => target'[p] = target[p]
  <2>1. CASE pid[q] = target[p] \/ q = NPROC
    BY <2>1 DEF TypeOK, kill, Goto
  <2>2. CASE ~(pid[q] = target[p] \/ q = NPROC)
    BY <2>2 DEF TypeOK, kill
  <2>. QED  BY <2>1, <2>2
<1>5. \A r \in Procs : \/ state'[r] = state[r]
                       \/ state[r] = "SLEEPING" /\ state'[r] = "RUNNABLE" /\ ~locked[r]
  BY <1>1 DEF TypeOK, kill
<1>6. \A r \in Procs : \/ killed'[r] = killed[r] /\ kpid'[r] = kpid[r]
                       \/ kpid'[r] = pid[r] /\ pid[r] = target[p]
  BY <1>1 DEF TypeOK, kill
<1>7. TypeOK'
  <2>1. i' \in [Procs -> Procs]
    <3>1. q # NPROC => q + 1 \in Procs
      BY SMTT(20), <1>1, ProcAssumption DEF ProcAssumption, Procs
    <3>. QED  BY <1>1, <3>1 DEF TypeOK, kill
  <2>2. /\ state' \in [Procs -> {"UNUSED", "USED", "RUNNABLE", "RUNNING", "SLEEPING",
                                 "ZOMBIE"}]
        /\ killed' \in [Procs -> BOOLEAN]
    <3>1. CASE pid[q] = target[p]
      <4>1. state[q] \in {"UNUSED", "USED", "RUNNABLE", "RUNNING", "SLEEPING", "ZOMBIE"}
        BY <1>1 DEF TypeOK
      <4>2. state' = [state EXCEPT ![q] = IF state[q] = "SLEEPING" THEN "RUNNABLE"
                                                                   ELSE state[q]]
        BY <1>1, <3>1 DEF kill
      <4>3. killed' = [killed EXCEPT ![q] = TRUE]
        BY <3>1 DEF kill
      <4>. QED  BY <1>1, <4>1, <4>2, <4>3 DEF TypeOK
    <3>2. CASE pid[q] # target[p]
      BY <3>2 DEF TypeOK, kill
    <3>. QED  BY <3>1, <3>2
  <2>3. kpid' \in [Procs -> KillPids \cup 0 .. MAXPID]
    <3>1. None \in 0 .. MAXPID
      BY SMTT(20), ProcAssumption DEF ProcAssumption, None
    <3>. QED  BY <1>1, <3>1 DEF TypeOK, kill
  <2>4. target' \in [Procs -> KillPids \cup {None}]
    BY <1>1 DEF TypeOK, kill
  <2>5. pc' \in [Procs -> {"forkret", "user", "allocproc", "set_parent", "set_runnable",
                          "exit", "reparent", "wake_parent", "zombie", "dead", "wait",
                          "scan", "scanned", "sleep", "go_to_sleep", "kill"}]
    BY <1>1 DEF TypeOK, kill, Goto
  <2>. QED  BY <1>2, <2>1, <2>2, <2>3, <2>4, <2>5 DEF TypeOK
<1>8. StateInv'
  <2>1. UNCHANGED <<parent, pid, chan>>
    BY <1>2
  <2>. QED  BY SMTT(20), <1>1, <1>3, <1>5, <2>1 DEF StateInv
<1>9. StackInv'
  BY SMTT(20), <1>1, <1>2, <1>3, <1>5 DEF StackInv
<1>10. LockInv'
  BY <1>1, <1>2, <1>3 DEF LockInv, Waiting
<1>11. ForkInv'
  BY <1>1, <1>2, <1>3, <1>5, ForkFrame DEF Forking
<1>12. TreeInv' /\ Acyclic'
  BY <1>1, <1>2, <1>3, <1>5, TreeFrame DEF Live, Empty, Exiting
<1>13. ExitInv'
  BY <1>1, <1>2, <1>3, <1>5, ExitFrame
<1>14. KillInv'
  <2>1. \A r \in Procs : pc'[r] = "kill" => target'[r] \in KillPids
    BY <1>3, <1>4 DEF KillInv
  <2>2. target[p] \in KillPids
    BY <1>1 DEF KillInv
  <2>3. ASSUME None \notin KillPids, NEW r \in Procs
        PROVE  /\ state'[r] = "UNUSED" => ~killed'[r]
               /\ killed'[r] => kpid'[r] = pid'[r]
    <3>1. state'[r] = "UNUSED" => state[r] = "UNUSED" /\ pid[r] # target[p]
      BY <1>5, <2>2, <2>3 DEF StateInv, None
    <3>. QED  BY <1>2, <1>6, <2>3, <3>1 DEF KillInv, KilledByItsPid
  <2>. QED  BY <2>1, <2>3 DEF KillInv, KilledByItsPid
<1>. QED  BY <1>7, <1>8, <1>9, <1>10, <1>11, <1>12, <1>13, <1>14
-----------------------------------------------------------------------------
(* The initial states, and every step.                                     *)

(* userinit(): init alone is in the table.                                 *)
LEMMA InitStep ==
    ASSUME Init
    PROVE  ProcInv
<1>. USE ProcFacts DEF Init
<1>1. TypeOK
  <2>1. 0 \in 0 .. MAXPID /\ 1 \in 0 .. MAXPID /\ 2 \in 2 .. MAXPID + 1 /\ None = 0
    BY SMTT(20), ProcAssumption DEF ProcAssumption, None
  <2>. QED  BY <2>1 DEF TypeOK
<1>2. Started = {initproc}
  BY DEF Started
<1>3. StateInv
  BY DEF StateInv
<1>4. StackInv /\ LockInv
  BY DEF StackInv, LockInv, Waiting
<1>5. ForkInv
  BY DEF ForkInv, Forking
<1>6. TreeInv /\ Acyclic
  BY <1>2 DEF TreeInv, Acyclic, Live, Exiting
<1>7. ExitInv /\ KillInv
  BY DEF ExitInv, KillInv, KilledByItsPid
<1>. QED  BY <1>1, <1>3, <1>4, <1>5, <1>6, <1>7 DEF ProcInv

(* A step of another part of the kernel.                                   *)
LEMMA StutterStep ==
    ASSUME ProcInv, UNCHANGED vars
    PROVE  ProcInv'
<1>1. TypeOK'
  BY DEF vars, table, locals, ProcInv, TypeOK
<1>2. StateInv' /\ StackInv'
  BY DEF vars, table, locals, ProcInv, StateInv, StackInv
<1>3. LockInv' /\ ForkInv'
  BY DEF vars, table, locals, ProcInv, LockInv, Waiting, ForkInv, Forking
<1>4. TreeInv' /\ Acyclic'
  BY DEF vars, table, locals, ProcInv, TreeInv, Acyclic, Started
<1>5. ExitInv' /\ KillInv'
  BY DEF vars, table, locals, ProcInv, ExitInv, KillInv, KilledByItsPid
<1>. QED  BY <1>1, <1>2, <1>3, <1>4, <1>5 DEF ProcInv

(* A step of any process keeps the invariant.                              *)
LEMMA NextStep ==
    ASSUME ProcInv, [Next]_vars
    PROVE  ProcInv'
<1>1. ASSUME NEW p \in Procs, Kernel(p)
      PROVE  ProcInv'
  <2>1. CASE dispatch(p) \/ swtch(p) \/ forkret(p) \/ die(p) \/ kill(p)
    BY <2>1, DispatchStep, SwtchStep, TrapStep, KillStep
  <2>2. CASE Fork(p)
    BY <2>2, AllocprocStep, SetParentStep, SetRunnableStep DEF Fork
  <2>3. CASE Exit(p)
    BY <2>3, ExitStep, ReparentStep, WakeParentStep, ZombieStep DEF Exit
  <2>4. CASE Wait(p)
    BY <2>4, WaitStep, WaitScanStep, WaitScannedStep, SleepStep, GoToSleepStep DEF Wait
  <2>. QED  BY <1>1, <2>1, <2>2, <2>3, <2>4 DEF Kernel
<1>2. ASSUME NEW p \in Procs \ {initproc}, Program(p)
      PROVE  ProcInv'
  BY <1>2, TrapStep, FaultStep DEF Program
<1>3. CASE init
  BY <1>3, TrapStep, ProcFacts DEF init
<1>4. CASE UNCHANGED vars \/ panicked
  BY <1>4, StutterStep DEF panicked
<1>. QED  BY <1>1, <1>2, <1>3, <1>4 DEF Next
-----------------------------------------------------------------------------
(* The theorems.                                                           *)

(* proc.c:267-454: for any size of the process table and any use of        *)
(* fork(), exit(), wait(), kill() and the scheduler, the invariant holds:  *)
(* wait_lock excludes, a slot that fork() is filling belongs to one call,  *)
(* and a CPU is on the stack of a thread that runs or whose p->lock is     *)
(* still held, and on no other.                                            *)
THEOREM ProcInvariant == Spec => []ProcInv
<1>. QED  BY InitStep, NextStep, PTL DEF Spec

(* proc.c:328-341, 368-384: when nobody holds wait_lock, the parents of    *)
(* the processes form a tree with init at its root, and every parent can   *)
(* still wait.                                                             *)
THEOREM ParentsFormTree == Spec => []ProcessTree
<1>1. ASSUME ProcInv
      PROVE  ProcessTree
  <2>1. \A q \in Procs : parent[q] # None => parent[q] \in Procs
    BY <1>1 DEF ProcInv, TypeOK
  <2>2. \A q \in Started \ {initproc} :
            /\ parent[q] \in Procs
            /\ state[parent[q]] \in Live
    BY <1>1, <2>1 DEF ProcInv, TreeInv, Started
  <2>3. \A q \in Started \ {initproc} :
            parent[q] \in Started /\ state[parent[q]] # "ZOMBIE"
    BY <2>2 DEF Started, Live
  <2>. QED  BY <1>1, <2>3 DEF ProcInv, Acyclic, ProcessTree
<1>. QED  BY <1>1, ProcInvariant, PTL

(* proc.c:404-405, 469: a slot is freed and used again only when no CPU is *)
(* on its kernel stack, since scheduler() holds p->lock until it has left  *)
(* the stack of a zombie.                                                  *)
THEOREM SlotFreedOffStack == Spec => []FreedOffStack
<1>1. ASSUME ProcInv
      PROVE  FreedOffStack
  BY <1>1 DEF ProcInv, TypeOK, StackInv, FreedOffStack
<1>. QED  BY <1>1, ProcInvariant, PTL

(* proc.c:371-372, 432-433: a process that sleeps in wait() has no zombie  *)
(* child, since exit() and wait() decide under wait_lock and sleep() takes *)
(* p->lock before it gives wait_lock up.                                   *)
THEOREM ExitIsNoticed == Spec => []NoMissedExit
<1>1. ASSUME ProcInv
      PROVE  NoMissedExit
  BY <1>1, ProcFacts DEF ProcInv, ExitInv, NoMissedExit
<1>. QED  BY <1>1, ProcInvariant, PTL

(* proc.c:575-595: where no process calls kill(0), p->killed comes from a  *)
(* kill() of the process that is in the slot.  With kill(0), which finds   *)
(* the pid of a free slot, it does not hold.                               *)
THEOREM KillHitsItsProcess ==
    ASSUME None \notin KillPids
    PROVE  Spec => []KilledByItsPid
<1>1. ASSUME ProcInv
      PROVE  KilledByItsPid
  BY <1>1 DEF ProcInv, KillInv
<1>. QED  BY <1>1, ProcInvariant, PTL
=============================================================================
