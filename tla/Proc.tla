-------------------------------- MODULE Proc --------------------------------
(***************************************************************************)
(* The life of processes: allocproc, freeproc, fork, exit, reparent, wait  *)
(* and kill of kernel/proc.c, the tests of p->killed in usertrap(), and    *)
(* user/init.c, which starts a shell and waits for ever.                   *)
(*                                                                         *)
(* Processes run in parallel; which CPU runs them, and preemption, are in  *)
(* Sched.  Here scheduler() takes a runnable process whose lock is free    *)
(* (dispatch) and releases its lock once it has left its stack (swtch).    *)
(* p->lock has a holder when it is held from one step to the next, that is *)
(* on the way to sched(); a section under p->lock that is complete is one  *)
(* step.  So is wakeup(), which waits for all the locks it goes through.   *)
(***************************************************************************)
EXTENDS Integers, FiniteSets

CONSTANTS NPROC,   \* slots of the process table
          MAXPID,  \* bound: the last pid handed out
          KillPids \* arguments of kill()

ASSUME ProcAssumption ==
    /\ NPROC \in Nat \ {0}
    /\ MAXPID \in Nat \ {0}
    /\ KillPids \subseteq Nat

Procs == 1 .. NPROC
None == 0                 \* a null pointer, no holder, no pid
initproc == 1             \* userinit() gets the first slot and pid 1

VARIABLES
    state,     \* p->state
    parent,    \* p->parent
    pid,       \* p->pid
    killed,    \* p->killed
    chan,      \* p->chan; wait() sleeps on the address of its own proc
    locked,    \* p->lock is held across steps
    wait_lock, \* the process that holds wait_lock
    nextpid,   \* the next pid
    pc,        \* where the kernel thread of p is
    i,         \* loop variable of allocproc(), wait() and kill()
    target,    \* argument of kill()
    np,        \* local variable of fork()
    havekids,  \* local variable of wait()
    shell,     \* local variable pid of init.c; None when init has no shell
    onstack,   \* a CPU is on the kernel stack of p
    kpid,      \* history: the argument of the kill() that set p->killed
    panic

table == <<state, parent, pid, killed, chan>>
locals == <<i, np, havekids, target, shell>>
vars == <<table, locked, wait_lock, nextpid, pc, locals, onstack, kpid, panic>>

Init ==
    /\ state = [p \in Procs |-> IF p = initproc THEN "RUNNABLE" ELSE "UNUSED"]
    /\ parent = [p \in Procs |-> None]
    /\ pid = [p \in Procs |-> IF p = initproc THEN 1 ELSE 0]
    /\ killed = [p \in Procs |-> FALSE]
    /\ chan = [p \in Procs |-> None]
    /\ locked = [p \in Procs |-> FALSE]
    /\ wait_lock = None
    /\ nextpid = 2
    /\ pc = [p \in Procs |-> IF p = initproc THEN "forkret" ELSE "dead"]
    /\ i = [p \in Procs |-> 1]
    /\ np = [p \in Procs |-> None]
    /\ havekids = [p \in Procs |-> FALSE]
    /\ target = [p \in Procs |-> None]
    /\ shell = None
    /\ onstack = [p \in Procs |-> FALSE]
    /\ kpid = [p \in Procs |-> None]
    /\ panic = "none"

Runs(p, l) == panic = "none" /\ onstack[p] /\ state[p] = "RUNNING" /\ pc[p] = l

Goto(p, l) == pc' = [pc EXCEPT ![p] = l]

\* Where a fork() or wait() that returns -1 leads: init.c calls exit(1).
Failed(p) == IF p = initproc THEN "exit" ELSE "user"

\* wakeup(x), called by p.
wakeup(p, x) ==
    /\ \A q \in Procs \ {p} : ~locked[q]
    /\ state' = [q \in Procs |-> IF q # p /\ state[q] = "SLEEPING" /\ chan[q] = x
                                 THEN "RUNNABLE" ELSE state[q]]

\* freeproc(q); the state goes to UNUSED.
freeproc(q) ==
    /\ state' = [state EXCEPT ![q] = "UNUSED"]
    /\ parent' = [parent EXCEPT ![q] = None]
    /\ pid' = [pid EXCEPT ![q] = 0]
    /\ killed' = [killed EXCEPT ![q] = FALSE]
    /\ kpid' = [kpid EXCEPT ![q] = None]
    /\ chan' = [chan EXCEPT ![q] = None]
-----------------------------------------------------------------------------
(* The scheduler, seen from the process table.                             *)

dispatch(p) ==
    /\ panic = "none"
    /\ state[p] = "RUNNABLE"
    /\ ~locked[p]
    /\ state' = [state EXCEPT ![p] = "RUNNING"]
    /\ onstack' = [onstack EXCEPT ![p] = TRUE]
    /\ chan' = [chan EXCEPT ![p] = None]
    /\ UNCHANGED <<parent, pid, killed, locked, wait_lock, nextpid, pc, locals, kpid,
                   panic>>

\* The thread has called sched() with its lock; scheduler() releases it.
swtch(p) ==
    /\ panic = "none"
    /\ onstack[p]
    /\ state[p] \in {"SLEEPING", "ZOMBIE"}
    /\ locked[p]
    /\ onstack' = [onstack EXCEPT ![p] = FALSE]
    /\ locked' = [locked EXCEPT ![p] = FALSE]
    /\ UNCHANGED <<table, wait_lock, nextpid, pc, locals, kpid, panic>>

\* A new process reaches user space.
forkret(p) ==
    /\ Runs(p, "forkret")
    /\ Goto(p, "user")
    /\ UNCHANGED <<table, locked, wait_lock, nextpid, locals, onstack, kpid, panic>>

\* usertrap(): a system call, unless the process has been killed.
Syscall(p, l) ==
    /\ Runs(p, "user")
    /\ ~locked[p]
    /\ ~killed[p]
    /\ Goto(p, l)
    /\ UNCHANGED <<table, locked, wait_lock, nextpid, i, np, havekids, shell,
                   onstack, kpid, panic>>

sys_fork(p) == Syscall(p, "allocproc") /\ UNCHANGED target
sys_wait(p) == Syscall(p, "wait") /\ UNCHANGED target
sys_exit(p) == Syscall(p, "exit") /\ UNCHANGED target
sys_kill(p, n) == Syscall(p, "kill") /\ target' = [target EXCEPT ![p] = n]

\* usertrap(), on an exception: setkilled(), then exit().
fault(p) ==
    /\ Runs(p, "user")
    /\ ~locked[p]
    /\ killed' = [killed EXCEPT ![p] = TRUE]
    /\ kpid' = [kpid EXCEPT ![p] = pid[p]]
    /\ Goto(p, "exit")
    /\ UNCHANGED <<state, parent, pid, chan, locked, wait_lock, nextpid, locals,
                   onstack, panic>>

\* usertrap(), on any trap of a killed process.
die(p) ==
    /\ Runs(p, "user")
    /\ ~locked[p]
    /\ killed[p]
    /\ Goto(p, "exit")
    /\ UNCHANGED <<table, locked, wait_lock, nextpid, locals, onstack, kpid, panic>>
-----------------------------------------------------------------------------
(* fork()                                                                  *)

\* One turn of the loop of allocproc(); in the slot found, all of fork() up
\* to the release of np->lock.  Memory may run out in allocproc or uvmcopy.
allocproc(p) ==
    LET q == i[p]
    IN  /\ Runs(p, "allocproc")
        /\ ~locked[q]
        /\ IF state[q] # "UNUSED"
           THEN /\ i' = [i EXCEPT ![p] = IF q = NPROC THEN 1 ELSE q + 1]
                /\ Goto(p, IF q = NPROC THEN Failed(p) ELSE "allocproc")
                /\ UNCHANGED <<table, nextpid, np, kpid>>
           ELSE /\ nextpid' = IF nextpid <= MAXPID THEN nextpid + 1 ELSE nextpid
                /\ i' = [i EXCEPT ![p] = 1]
                /\ \/ /\ nextpid <= MAXPID
                      /\ state' = [state EXCEPT ![q] = "USED"]
                      /\ pid' = [pid EXCEPT ![q] = nextpid]
                      /\ np' = [np EXCEPT ![p] = q]
                      /\ pc' = [pc EXCEPT ![p] = "set_parent", ![q] = "forkret"]
                      /\ UNCHANGED <<parent, killed, chan, kpid>>
                   \/ /\ freeproc(q)
                      /\ Goto(p, Failed(p))
                      /\ UNCHANGED np
        /\ UNCHANGED <<locked, wait_lock, havekids, target, shell, onstack, panic>>

\* np->parent = p, under wait_lock.
set_parent(p) ==
    /\ Runs(p, "set_parent")
    /\ wait_lock = None
    /\ parent' = [parent EXCEPT ![np[p]] = p]
    /\ Goto(p, "set_runnable")
    /\ UNCHANGED <<state, pid, killed, chan, locked, wait_lock, nextpid, locals,
                   onstack, kpid, panic>>

\* np->state = RUNNABLE, under np->lock, and fork() returns the pid.
set_runnable(p) ==
    /\ Runs(p, "set_runnable")
    /\ ~locked[np[p]]
    /\ state' = [state EXCEPT ![np[p]] = "RUNNABLE"]
    /\ np' = [np EXCEPT ![p] = None]
    /\ shell' = IF p = initproc THEN pid[np[p]] ELSE shell
    /\ Goto(p, "user")
    /\ UNCHANGED <<parent, pid, killed, chan, locked, wait_lock, nextpid, i, havekids,
                   target, onstack, kpid, panic>>
-----------------------------------------------------------------------------
(* exit()                                                                  *)

\* exit() up to acquire(&wait_lock); closing the files is not modelled.
exit(p) ==
    /\ Runs(p, "exit")
    /\ IF p = initproc
       THEN panic' = "init_exiting" /\ UNCHANGED <<wait_lock, pc>>
       ELSE /\ wait_lock = None
            /\ wait_lock' = p
            /\ Goto(p, "reparent")
            /\ UNCHANGED panic
    /\ UNCHANGED <<table, locked, nextpid, locals, onstack, kpid>>

\* Mutant: zombies stay with p.
reparent_live(p) ==
    LET kids == {q \in Procs : parent[q] = p /\ state[q] # "ZOMBIE"}
    IN  /\ Runs(p, "reparent")
        /\ parent' = [q \in Procs |-> IF q \in kids THEN initproc ELSE parent[q]]
        /\ IF kids # {} THEN wakeup(p, initproc) ELSE UNCHANGED state
        /\ Goto(p, "wake_parent")
        /\ UNCHANGED <<pid, killed, chan, locked, wait_lock, nextpid, locals, onstack,
                       kpid, panic>>

\* reparent(p), with a wakeup(initproc) for every child it finds.
reparent(p) ==
    LET kids == {q \in Procs : parent[q] = p}
    IN  /\ Runs(p, "reparent")
        /\ parent' = [q \in Procs |-> IF q \in kids THEN initproc ELSE parent[q]]
        /\ IF kids # {} THEN wakeup(p, initproc) ELSE UNCHANGED state
        /\ Goto(p, "wake_parent")
        /\ UNCHANGED <<pid, killed, chan, locked, wait_lock, nextpid, locals, onstack,
                       kpid, panic>>

\* Mutant: the parent is not woken.
wake_parent_not(p) ==
    /\ Runs(p, "wake_parent")
    /\ Goto(p, "zombie")
    /\ UNCHANGED <<table, locked, wait_lock, nextpid, locals, onstack, kpid, panic>>

\* wakeup(p->parent).
wake_parent(p) ==
    /\ Runs(p, "wake_parent")
    /\ wakeup(p, parent[p])
    /\ Goto(p, "zombie")
    /\ UNCHANGED <<parent, pid, killed, chan, locked, wait_lock, nextpid, locals,
                   onstack, kpid, panic>>

\* acquire(&p->lock), the state, and release(&wait_lock); sched() follows.
zombie(p) ==
    /\ Runs(p, "zombie")
    /\ ~locked[p]
    /\ locked' = [locked EXCEPT ![p] = TRUE]
    /\ state' = [state EXCEPT ![p] = "ZOMBIE"]
    /\ wait_lock' = None
    /\ Goto(p, "dead")
    /\ UNCHANGED <<parent, pid, killed, chan, nextpid, locals, onstack, kpid, panic>>
-----------------------------------------------------------------------------
(* wait()                                                                  *)

\* acquire(&wait_lock), and a new scan of the table.
wait(p) ==
    /\ Runs(p, "wait")
    /\ wait_lock = None
    /\ wait_lock' = p
    /\ i' = [i EXCEPT ![p] = 1]
    /\ havekids' = [havekids EXCEPT ![p] = FALSE]
    /\ Goto(p, "scan")
    /\ UNCHANGED <<table, locked, nextpid, np, target, shell, onstack, kpid, panic>>

\* Mutant: the scan does not take pp->lock.
wait_scan_unlocked(p) ==
    LET q == i[p]
        mine == parent[q] = p
        end == q = NPROC
    IN  /\ Runs(p, "scan")
        /\ IF mine /\ state[q] = "ZOMBIE"
           THEN /\ freeproc(q)
                /\ wait_lock' = None
                /\ i' = [i EXCEPT ![p] = 1]
                /\ shell' = IF p = initproc /\ pid[q] = shell THEN None ELSE shell
                /\ Goto(p, "user")
           ELSE /\ i' = [i EXCEPT ![p] = IF end THEN 1 ELSE q + 1]
                /\ Goto(p, IF end THEN "scanned" ELSE "scan")
                /\ UNCHANGED <<table, wait_lock, kpid, shell>>
        /\ havekids' = [havekids EXCEPT ![p] = @ \/ mine]
        /\ UNCHANGED <<locked, nextpid, np, target, onstack, panic>>

\* One turn of the scan.  A zombie is freed, unless copyout() of its status
\* fails, which it does not for init.c's wait(0); both end wait().
wait_scan(p) ==
    LET q == i[p]
        mine == parent[q] = p
        reaps == mine /\ state[q] = "ZOMBIE"
        end == q = NPROC
    IN  /\ Runs(p, "scan")
        /\ mine => ~locked[q]
        /\ IF reaps
           THEN /\ freeproc(q) \/ (p # initproc /\ UNCHANGED <<table, kpid>>)
                /\ wait_lock' = None
                /\ shell' = IF p = initproc /\ pid[q] = shell THEN None ELSE shell
                /\ Goto(p, "user")
           ELSE /\ Goto(p, IF end THEN "scanned" ELSE "scan")
                /\ UNCHANGED <<table, wait_lock, kpid, shell>>
        /\ i' = [i EXCEPT ![p] = IF reaps \/ end THEN 1 ELSE q + 1]
        /\ havekids' = [havekids EXCEPT ![p] = ~reaps /\ (@ \/ mine)]
        /\ UNCHANGED <<locked, nextpid, np, target, onstack, panic>>

\* Mutant: p->killed is not tested.
wait_scanned_deaf(p) ==
    /\ Runs(p, "scanned")
    /\ ~locked[p]
    /\ wait_lock' = IF havekids[p] THEN wait_lock ELSE None
    /\ Goto(p, IF havekids[p] THEN "sleep" ELSE Failed(p))
    /\ havekids' = [havekids EXCEPT ![p] = FALSE]
    /\ UNCHANGED <<table, locked, nextpid, i, np, target, shell, onstack, kpid,
                   panic>>

\* No children, or killed: return; else sleep(p, &wait_lock).
wait_scanned(p) ==
    /\ Runs(p, "scanned")
    /\ ~locked[p]
    /\ IF ~havekids[p] \/ killed[p]
       THEN wait_lock' = None /\ Goto(p, Failed(p))
       ELSE Goto(p, "sleep") /\ UNCHANGED wait_lock
    /\ havekids' = [havekids EXCEPT ![p] = FALSE]
    /\ UNCHANGED <<table, locked, nextpid, i, np, target, shell, onstack, kpid,
                   panic>>

\* Mutant: sleep() releases lk without taking p->lock first.
sleep_unlocked(p) ==
    /\ Runs(p, "sleep")
    /\ wait_lock' = None
    /\ Goto(p, "go_to_sleep")
    /\ UNCHANGED <<table, locked, nextpid, locals, onstack, kpid, panic>>

\* sleep(): acquire(&p->lock), then release(lk).
sleep(p) ==
    /\ Runs(p, "sleep")
    /\ ~locked[p]
    /\ locked' = [locked EXCEPT ![p] = TRUE]
    /\ wait_lock' = None
    /\ Goto(p, "go_to_sleep")
    /\ UNCHANGED <<table, nextpid, locals, onstack, kpid, panic>>

\* chan and state; sched() follows.  sleep() ends with acquire(lk).
go_to_sleep(p) ==
    /\ Runs(p, "go_to_sleep")
    /\ chan' = [chan EXCEPT ![p] = p]
    /\ state' = [state EXCEPT ![p] = "SLEEPING"]
    /\ Goto(p, "wait")
    /\ UNCHANGED <<parent, pid, killed, locked, wait_lock, nextpid, locals, onstack,
                   kpid, panic>>
-----------------------------------------------------------------------------
\* One turn of the loop of kill(), which ends at the slot with that pid.
kill(p) ==
    LET q == i[p]
        found == pid[q] = target[p]
        end == found \/ q = NPROC
    IN  /\ Runs(p, "kill")
        /\ ~locked[q]
        /\ IF found
           THEN /\ killed' = [killed EXCEPT ![q] = TRUE]
                /\ kpid' = [kpid EXCEPT ![q] = target[p]]
                /\ state' = [state EXCEPT ![q] = IF @ = "SLEEPING" THEN "RUNNABLE"
                                                                   ELSE @]
           ELSE UNCHANGED <<killed, kpid, state>>
        /\ i' = [i EXCEPT ![p] = IF end THEN 1 ELSE q + 1]
        /\ target' = [target EXCEPT ![p] = IF end THEN None ELSE @]
        /\ Goto(p, IF end THEN "user" ELSE "kill")
        /\ UNCHANGED <<parent, pid, chan, locked, wait_lock, nextpid, np, havekids,
                       shell, onstack, panic>>
-----------------------------------------------------------------------------
Exit(p) == exit(p) \/ reparent(p) \/ wake_parent(p) \/ zombie(p)

Wait(p) == wait(p) \/ wait_scan(p) \/ wait_scanned(p) \/ sleep(p) \/ go_to_sleep(p)

Fork(p) == allocproc(p) \/ set_parent(p) \/ set_runnable(p)

Kernel(p) == \/ dispatch(p) \/ swtch(p) \/ forkret(p) \/ die(p)
             \/ Fork(p) \/ Exit(p) \/ Wait(p) \/ kill(p)

\* What a user program other than init may do.
Program(p) == \/ sys_fork(p) \/ sys_wait(p) \/ sys_exit(p) \/ fault(p)
              \/ \E n \in KillPids : sys_kill(p, n)

\* main() of init.c: start a shell, and wait until it is the shell that ended.
init == \/ shell = None /\ sys_fork(initproc)
        \/ shell # None /\ sys_wait(initproc)

\* panic() ends in for(;;), and freezes the other CPUs.
panicked == panic # "none" /\ UNCHANGED vars

Next == \/ \E p \in Procs : Kernel(p)
        \/ \E p \in Procs \ {initproc} : Program(p)
        \/ init
        \/ panicked

Spec == Init /\ [][Next]_vars

(* The scheduler runs every process, a spin lock that is free again and    *)
(* again is obtained, and init.c is a loop that calls fork() and wait().   *)
Fairness ==
    /\ \A p \in Procs : SF_vars(Kernel(p))
    /\ WF_vars(init)

FairSpec == Spec /\ Fairness
-----------------------------------------------------------------------------
(* Properties.                                                             *)

TypeOK ==
    /\ state \in [Procs -> {"UNUSED", "USED", "RUNNABLE", "RUNNING", "SLEEPING",
                            "ZOMBIE"}]
    /\ parent \in [Procs -> Procs \cup {None}]
    /\ pid \in [Procs -> 0 .. MAXPID]
    /\ killed \in [Procs -> BOOLEAN]
    /\ chan \in [Procs -> Procs \cup {None}]
    /\ locked \in [Procs -> BOOLEAN]
    /\ wait_lock \in Procs \cup {None}
    /\ nextpid \in 2 .. MAXPID + 1
    /\ pc \in [Procs -> {"forkret", "user", "allocproc", "set_parent", "set_runnable",
                         "exit", "reparent", "wake_parent", "zombie", "dead", "wait",
                         "scan", "scanned", "sleep", "go_to_sleep", "kill"}]
    /\ i \in [Procs -> Procs]
    /\ np \in [Procs -> Procs \cup {None}]
    /\ havekids \in [Procs -> BOOLEAN]
    /\ target \in [Procs -> KillPids \cup {None}]
    /\ shell \in 0 .. MAXPID
    /\ onstack \in [Procs -> BOOLEAN]
    /\ kpid \in [Procs -> KillPids \cup 0 .. MAXPID]
    /\ panic \in {"none", "init_exiting"}

Started == {p \in Procs : state[p] \notin {"UNUSED", "USED"}}

(* proc.c:328-341, 368-384: when nobody holds wait_lock, the parent of     *)
(* every process is one that can still wait for it, whatever forks and     *)
(* exits are under way; and the parents form a tree with init at its root, *)
(* also where a slot has been used again.                                  *)
ProcessTree ==
    wait_lock = None =>
        /\ \A q \in Started \ {initproc} :
              parent[q] \in Started /\ state[parent[q]] # "ZOMBIE"
        /\ \A S \in SUBSET (Started \ {initproc}) :
              S # {} => \E q \in S : parent[q] \notin S

(* proc.c:404-405, 469: a process is freed, and its slot used again, only  *)
(* when no CPU is on its kernel stack.                                     *)
FreedOffStack == \A p \in Procs : state[p] \in {"UNUSED", "USED"} => ~onstack[p]

(* proc.c:371-372, 432-433: no exit goes unnoticed.  A process asleep in   *)
(* wait() has no zombie child when nobody holds wait_lock, be it its own   *)
(* or one that another process's exit left to init.                        *)
NoMissedExit ==
    wait_lock = None => \A p, q \in Procs :
        state[p] = "SLEEPING" /\ parent[q] = p => state[q] # "ZOMBIE"

(* proc.c:582: p->killed comes from a kill() with the pid of the process   *)
(* that is in the slot now, not of an earlier one.                         *)
KilledByItsPid == \A p \in Procs : killed[p] => kpid[p] = pid[p]

(* proc.c:328-341 and user/init.c:28-52: a zombie whose parent is init is  *)
(* freed, whatever init is doing when it becomes one, unless init itself   *)
(* exits: when the fork() of a new shell fails, exit() panics and nothing  *)
(* happens any more.                                                       *)
OrphanReaped ==
    \A q \in Procs : state[q] = "ZOMBIE" /\ parent[q] = initproc
                     ~> state[q] = "UNUSED" \/ panic = "init_exiting"

(* proc.c:582-599: a process that kill() takes out of wait() exits, unless *)
(* init does so first and the kernel panics.                               *)
KilledSleeperExits ==
    \A p \in Procs : killed[p] /\ state[p] = "RUNNABLE" /\ chan[p] = p
                     ~> pc[p] = "dead" \/ panic = "init_exiting"
=============================================================================
