------------------------------- MODULE Sched -------------------------------
(***************************************************************************)
(* Context switching and sleep/wakeup: scheduler, sched, yield, sleep,     *)
(* wakeup and kill of kernel/proc.c, push_off/pop_off of kernel/spinlock.c *)
(* and the timer path of kernel/trap.c.  The sleepers are those of         *)
(* sys_sleep, woken by clockintr under tickslock.                          *)
(*                                                                         *)
(* A lock held across a swtch or across other steps has a holder, which is *)
(* a CPU as in spinlock.c.  A short section under one p->lock (killed(),   *)
(* kill(), a turn of the loop of wakeup()) is one step that needs the lock *)
(* to be free.                                                             *)
(***************************************************************************)
EXTENDS Integers, FiniteSets

CONSTANTS NPROC,  \* slots of the process table
          Cpus,   \* harts
          Cpu0,   \* the hart that counts ticks
          NoCpu,  \* holder of a free lock
          N       \* argument of sys_sleep, in ticks

ASSUME SchedAssumption ==
    /\ NPROC \in Nat \ {0}
    /\ Cpu0 \in Cpus
    /\ NoCpu \notin Cpus
    /\ N \in Nat

Procs == 1 .. NPROC
NoProc == 0

VARIABLES
    state,     \* p->state
    chan,      \* p->chan = &ticks
    killed,    \* p->killed
    lock,      \* p->lock: the CPU that holds it
    tickslock, \* tickslock: the CPU that holds it
    age,       \* ticks - ticks0 of sys_sleep, up to N; N outside of it
    pc,        \* where the kernel thread of p is, or will resume
    ret,       \* where the thread goes after yield(), "user" when not in it
    saved,     \* local variable intena of sched(), FALSE when not in it
    cpu,       \* struct cpu: proc, noff, intena; and the CPU's interrupt enable
    thr,       \* whose stack the CPU is on: a process, NoProc for scheduler()
    scan,      \* loop variable of scheduler()
    ipc,       \* progress of an interrupt handler on the CPU
    wk,        \* loop variable of wakeup() in the handler
    panic      \* argument of panic(), "none" while the kernel runs

procvars == <<state, chan, killed>>
threadvars == <<pc, ret, saved, age>>
vars == <<procvars, lock, tickslock, threadvars, cpu, thr, scan, ipc, wk, panic>>

\* push_off() and pop_off() on a struct cpu.
push_off(k) == [k EXCEPT !.sie = FALSE,
                         !.intena = IF k.noff = 0 THEN k.sie ELSE @,
                         !.noff = @ + 1]

pop_off(k) == [k EXCEPT !.noff = @ - 1,
                        !.sie = @ \/ (k.noff = 1 /\ k.intena)]

\* The panics of release(lk) on c: the lock is not ours, or pop_off objects.
ReleasePanic(c, holder) ==
    IF holder # c THEN "release"
    ELSE IF cpu[c].sie THEN "pop_off_interruptible"
    ELSE IF cpu[c].noff < 1 THEN "pop_off"
    ELSE "none"

\* The kernel thread of p runs on c, not interrupted.
Runs(p, c) == panic = "none" /\ thr[c] = p /\ ipc[c] = "none"

Goto(p, l) == pc' = [pc EXCEPT ![p] = l]

Init ==
    /\ state = [p \in Procs |-> "RUNNABLE"]
    /\ chan = [p \in Procs |-> FALSE]
    /\ killed = [p \in Procs |-> FALSE]
    /\ lock = [p \in Procs |-> NoCpu]
    /\ tickslock = NoCpu
    /\ age = [p \in Procs |-> N]
    /\ pc = [p \in Procs |-> "forkret"]
    /\ ret = [p \in Procs |-> "user"]
    /\ saved = [p \in Procs |-> FALSE]
    /\ cpu = [c \in Cpus |-> [proc |-> NoProc, noff |-> 0, intena |-> FALSE,
                              sie |-> TRUE]]
    /\ thr = [c \in Cpus |-> NoProc]
    /\ scan = [c \in Cpus |-> 1]
    /\ ipc = [c \in Cpus |-> "none"]
    /\ wk = [c \in Cpus |-> 1]
    /\ panic = "none"
-----------------------------------------------------------------------------
(* scheduler()                                                             *)

\* The next turn of scheduler()'s inner loop; a new round enables interrupts.
NextScan(c, k) ==
    /\ scan' = [scan EXCEPT ![c] = IF @ = NPROC THEN 1 ELSE @ + 1]
    /\ cpu' = [cpu EXCEPT ![c] = [k EXCEPT !.sie = @ \/ scan[c] = NPROC]]

\* A turn up to swtch(), if there is one: the stack changes with p->lock held.
scheduler(c) ==
    LET p == scan[c]
    IN  /\ panic = "none"
        /\ thr[c] = NoProc /\ ipc[c] = "none"
        /\ cpu[c].proc = NoProc
        /\ lock[p] = NoCpu
        /\ IF state[p] = "RUNNABLE"
           THEN /\ state' = [state EXCEPT ![p] = "RUNNING"]
                /\ lock' = [lock EXCEPT ![p] = c]
                /\ cpu' = [cpu EXCEPT ![c] = [push_off(@) EXCEPT !.proc = p]]
                /\ thr' = [thr EXCEPT ![c] = p]
                /\ UNCHANGED scan
           ELSE NextScan(c, cpu[c]) /\ UNCHANGED <<state, lock, thr>>
        /\ UNCHANGED <<chan, killed, tickslock, threadvars, ipc, wk, panic>>

\* Mutant: the search starts again at the first slot after every switch.
scheduler_back_restart(c) ==
    LET p == scan[c]
    IN  /\ panic = "none"
        /\ thr[c] = NoProc /\ ipc[c] = "none"
        /\ cpu[c].proc # NoProc
        /\ panic' = ReleasePanic(c, lock[p])
        /\ lock' = [lock EXCEPT ![p] = NoCpu]
        /\ scan' = [scan EXCEPT ![c] = 1]
        /\ cpu' = [cpu EXCEPT ![c] = [pop_off(@) EXCEPT !.proc = NoProc, !.sie = TRUE]]
        /\ UNCHANGED <<procvars, tickslock, threadvars, thr, ipc, wk>>

\* swtch() came back: c->proc = 0 and the release of p->lock.
scheduler_back(c) ==
    LET p == scan[c]
    IN  /\ panic = "none"
        /\ thr[c] = NoProc /\ ipc[c] = "none"
        /\ cpu[c].proc # NoProc
        /\ panic' = ReleasePanic(c, lock[p])
        /\ lock' = [lock EXCEPT ![p] = NoCpu]
        /\ NextScan(c, pop_off([cpu[c] EXCEPT !.proc = NoProc]))
        /\ UNCHANGED <<procvars, tickslock, threadvars, thr, ipc, wk>>
-----------------------------------------------------------------------------
(* Kernel threads.                                                         *)

\* The checks of sched() when the new state is s.
SchedPanic(p, c, s, holder, k) ==
    IF holder # c THEN "sched_lock"
    ELSE IF k.noff # 1 THEN "sched_locks"
    ELSE IF s = "RUNNING" THEN "sched_running"
    ELSE IF k.sie THEN "sched_interruptible"
    ELSE "none"

\* Give the state s to p and call sched(), to go on at l; k is the struct
\* cpu at that point.
sched(p, c, s, holder, k, l) ==
    /\ panic' = SchedPanic(p, c, s, holder, k)
    /\ state' = [state EXCEPT ![p] = s]
    /\ lock' = [lock EXCEPT ![p] = holder]
    /\ saved' = [saved EXCEPT ![p] = k.intena]
    /\ cpu' = [cpu EXCEPT ![c] = k]
    /\ thr' = [thr EXCEPT ![c] = NoProc]
    /\ Goto(p, l)

\* Back in the thread of p, which releases the p->lock that scheduler() took;
\* k is the struct cpu after that.
Resumed(p, c, k) ==
    /\ Runs(p, c)
    /\ panic' = ReleasePanic(c, lock[p])
    /\ lock' = [lock EXCEPT ![p] = NoCpu]
    /\ cpu' = [cpu EXCEPT ![c] = k]
    /\ saved' = [saved EXCEPT ![p] = FALSE]
    /\ ret' = [ret EXCEPT ![p] = "user"]

\* Mutant: intena stays with the CPU.
sched_back_cpu(p, c) == cpu[c]

\* The end of sched(): intena belongs to the thread, not to the CPU.
sched_back(p, c) == [cpu[c] EXCEPT !.intena = saved[p]]

\* The first run of a process: forkret(), then usertrapret().
forkret(p, c) ==
    /\ pc[p] = "forkret"
    /\ Resumed(p, c, [pop_off(cpu[c]) EXCEPT !.sie = TRUE])
    /\ Goto(p, "user")
    /\ UNCHANGED <<procvars, tickslock, age, thr, scan, ipc, wk>>

\* yield() from a timer interrupt, up to swtch().
yield(p, c) ==
    /\ Runs(p, c)
    /\ pc[p] = "yield"
    /\ lock[p] = NoCpu
    /\ sched(p, c, "RUNNABLE", c, push_off(cpu[c]), "yielded")
    /\ UNCHANGED <<chan, killed, tickslock, ret, age, scan, ipc, wk>>

\* The rest of yield(), and the return from the trap, to user space or to
\* the interrupted kernel code; both have interrupts on.
yield_back(p, c) ==
    /\ pc[p] = "yielded"
    /\ Resumed(p, c, [pop_off(sched_back(p, c)) EXCEPT !.sie = TRUE])
    /\ Goto(p, ret[p])
    /\ UNCHANGED <<procvars, tickslock, age, thr, scan, ipc, wk>>

\* usertrap() for a system call: a killed process exits, else interrupts go
\* on and syscall() runs.
Syscall(p, c, l) ==
    /\ Runs(p, c)
    /\ pc[p] = "user"
    /\ lock[p] = NoCpu
    /\ Goto(p, IF killed[p] THEN "exit" ELSE l)
    /\ cpu' = [cpu EXCEPT ![c].sie = ~killed[p]]
    /\ UNCHANGED <<state, chan, lock, tickslock, ret, saved, age, thr, scan, ipc,
                   wk, panic>>

sys_sleep(p, c) == Syscall(p, c, "sys_sleep") /\ UNCHANGED killed

\* Mutant: the victim becomes runnable whatever its state.
kill_any(p, q, c) ==
    /\ Runs(p, c)
    /\ pc[p] = "kill"
    /\ lock[q] = NoCpu
    /\ killed' = [killed EXCEPT ![q] = TRUE]
    /\ state' = [state EXCEPT ![q] = "RUNNABLE"]
    /\ Goto(p, "sysret")
    /\ UNCHANGED <<chan, lock, tickslock, ret, saved, age, cpu, thr, scan, ipc, wk,
                   panic>>

\* kill(q), one step under q->lock; a sleeper is made runnable.
kill(p, q, c) ==
    /\ Runs(p, c)
    /\ pc[p] = "kill"
    /\ lock[q] = NoCpu
    /\ killed' = [killed EXCEPT ![q] = TRUE]
    /\ state' = [state EXCEPT ![q] = IF @ = "SLEEPING" THEN "RUNNABLE" ELSE @]
    /\ Goto(p, "sysret")
    /\ UNCHANGED <<chan, lock, tickslock, ret, saved, age, cpu, thr, scan, ipc, wk,
                   panic>>

sys_kill(p, c) == Syscall(p, c, "kill") /\ UNCHANGED killed

\* The end of usertrap() after a system call.
sysret(p, c) ==
    /\ Runs(p, c)
    /\ pc[p] = "sysret"
    /\ lock[p] = NoCpu
    /\ Goto(p, IF killed[p] THEN "exit" ELSE "user")
    /\ UNCHANGED <<procvars, lock, tickslock, ret, saved, age, cpu, thr, scan, ipc,
                   wk, panic>>

\* The end of exit(): the state, and sched() for the last time.
exit(p, c) ==
    /\ Runs(p, c)
    /\ pc[p] = "exit"
    /\ lock[p] = NoCpu
    /\ sched(p, c, "ZOMBIE", c, push_off(cpu[c]), "dead")
    /\ UNCHANGED <<chan, killed, tickslock, ret, age, scan, ipc, wk>>
-----------------------------------------------------------------------------
(* sys_sleep() and sleep(&ticks, &tickslock)                               *)

\* acquire(&tickslock) at the start of sys_sleep, and at the end of sleep().
acquire_tickslock(p, c) ==
    /\ Runs(p, c)
    /\ pc[p] \in {"sys_sleep", "reacquire"}
    /\ tickslock = NoCpu
    /\ tickslock' = c
    /\ cpu' = [cpu EXCEPT ![c] = push_off(@)]
    /\ age' = [age EXCEPT ![p] = IF pc[p] = "sys_sleep" THEN 0 ELSE @]
    /\ Goto(p, "check")
    /\ UNCHANGED <<procvars, lock, ret, saved, thr, scan, ipc, wk, panic>>

\* The loop condition and killed(): return, or go on to sleep().
check(p, c) ==
    /\ Runs(p, c)
    /\ pc[p] = "check"
    /\ age[p] < N => lock[p] = NoCpu
    /\ IF age[p] < N /\ ~killed[p]
       THEN Goto(p, "sleep") /\ UNCHANGED <<tickslock, cpu, age, panic>>
       ELSE /\ panic' = ReleasePanic(c, tickslock)
            /\ tickslock' = NoCpu
            /\ cpu' = [cpu EXCEPT ![c] = pop_off(@)]
            /\ age' = [age EXCEPT ![p] = N]
            /\ Goto(p, "sysret")
    /\ UNCHANGED <<procvars, lock, ret, saved, thr, scan, ipc, wk>>

\* sleep(): acquire(&p->lock).
sleep(p, c) ==
    /\ Runs(p, c)
    /\ pc[p] = "sleep"
    /\ lock[p] = NoCpu
    /\ lock' = [lock EXCEPT ![p] = c]
    /\ cpu' = [cpu EXCEPT ![c] = push_off(@)]
    /\ Goto(p, "sleep_locked")
    /\ UNCHANGED <<procvars, tickslock, ret, saved, age, thr, scan, ipc, wk, panic>>

\* Mutant: sleep() keeps lk.
sleep_release_not(p, c) ==
    /\ Runs(p, c)
    /\ pc[p] = "sleep_locked"
    /\ Goto(p, "go_to_sleep")
    /\ UNCHANGED <<procvars, lock, tickslock, cpu, ret, saved, age, thr, scan, ipc, wk,
                   panic>>

\* release(lk).
sleep_release(p, c) ==
    /\ Runs(p, c)
    /\ pc[p] = "sleep_locked"
    /\ panic' = ReleasePanic(c, tickslock)
    /\ tickslock' = NoCpu
    /\ cpu' = [cpu EXCEPT ![c] = pop_off(@)]
    /\ Goto(p, "go_to_sleep")
    /\ UNCHANGED <<procvars, lock, ret, saved, age, thr, scan, ipc, wk>>

\* chan, state, and sched().
go_to_sleep(p, c) ==
    /\ Runs(p, c)
    /\ pc[p] = "go_to_sleep"
    /\ chan' = [chan EXCEPT ![p] = TRUE]
    /\ sched(p, c, "SLEEPING", lock[p], cpu[c], "slept")
    /\ UNCHANGED <<killed, tickslock, ret, age, scan, ipc, wk>>

\* Tidy up, release p->lock.
sleep_back(p, c) ==
    /\ pc[p] = "slept"
    /\ chan' = [chan EXCEPT ![p] = FALSE]
    /\ Resumed(p, c, pop_off(sched_back(p, c)))
    /\ Goto(p, "reacquire")
    /\ UNCHANGED <<state, killed, tickslock, age, thr, scan, ipc, wk>>
-----------------------------------------------------------------------------
(* Timer interrupts.                                                       *)

\* devintr() on a timer interrupt; only Cpu0 calls clockintr().
timer(c) ==
    /\ panic = "none"
    /\ ipc[c] = "none"
    /\ cpu[c].sie
    /\ cpu' = [cpu EXCEPT ![c].sie = FALSE]
    /\ ipc' = [ipc EXCEPT ![c] = IF c = Cpu0 THEN "clockintr" ELSE "trap"]
    /\ UNCHANGED <<procvars, lock, tickslock, threadvars, thr, scan, wk, panic>>

\* clockintr() up to wakeup(&ticks): every sleeper's interval grows by one.
clockintr(c) ==
    /\ panic = "none"
    /\ ipc[c] = "clockintr"
    /\ tickslock = NoCpu
    /\ tickslock' = c
    /\ cpu' = [cpu EXCEPT ![c] = push_off(@)]
    /\ age' = [p \in Procs |-> IF age[p] < N THEN age[p] + 1 ELSE age[p]]
    /\ ipc' = [ipc EXCEPT ![c] = "wakeup"]
    /\ wk' = [wk EXCEPT ![c] = 1]
    /\ UNCHANGED <<procvars, lock, pc, ret, saved, thr, scan, panic>>

\* Mutant: wakeup() looks at p->state without p->lock.
wakeup_unlocked(c) ==
    LET p == wk[c]
    IN  /\ panic = "none"
        /\ ipc[c] = "wakeup"
        /\ state' = [state EXCEPT ![p] = IF @ = "SLEEPING" /\ chan[p] THEN "RUNNABLE"
                                                                     ELSE @]
        /\ wk' = [wk EXCEPT ![c] = IF p = NPROC THEN 1 ELSE p + 1]
        /\ ipc' = [ipc EXCEPT ![c] = IF p = NPROC THEN "release" ELSE @]
        /\ UNCHANGED <<chan, killed, lock, tickslock, threadvars, cpu, thr, scan, panic>>

\* Mutant: wakeup() stops one slot early.
wakeup_early(c) ==
    LET p == wk[c]
    IN  /\ panic = "none"
        /\ ipc[c] = "wakeup"
        /\ lock[p] = NoCpu
        /\ state' = [state EXCEPT ![p] = IF @ = "SLEEPING" /\ chan[p] THEN "RUNNABLE"
                                                                     ELSE @]
        /\ wk' = [wk EXCEPT ![c] = IF p + 1 >= NPROC THEN 1 ELSE p + 1]
        /\ ipc' = [ipc EXCEPT ![c] = IF p + 1 >= NPROC THEN "release" ELSE @]
        /\ UNCHANGED <<chan, killed, lock, tickslock, threadvars, cpu, thr, scan, panic>>

\* One turn of the loop of wakeup(&ticks).
wakeup(c) ==
    LET p == wk[c]
    IN  /\ panic = "none"
        /\ ipc[c] = "wakeup"
        /\ IF p # cpu[c].proc
           THEN /\ lock[p] = NoCpu
                /\ state' = [state EXCEPT ![p] = IF @ = "SLEEPING" /\ chan[p]
                                                 THEN "RUNNABLE" ELSE @]
           ELSE UNCHANGED state
        /\ wk' = [wk EXCEPT ![c] = IF p = NPROC THEN 1 ELSE p + 1]
        /\ ipc' = [ipc EXCEPT ![c] = IF p = NPROC THEN "release" ELSE @]
        /\ UNCHANGED <<chan, killed, lock, tickslock, threadvars, cpu, thr, scan,
                       panic>>

\* The end of clockintr().
clock_release(c) ==
    /\ panic = "none"
    /\ ipc[c] = "release"
    /\ panic' = ReleasePanic(c, tickslock)
    /\ tickslock' = NoCpu
    /\ cpu' = [cpu EXCEPT ![c] = pop_off(@)]
    /\ ipc' = [ipc EXCEPT ![c] = "trap"]
    /\ UNCHANGED <<procvars, lock, threadvars, thr, scan, wk>>

\* The end of usertrap() or kerneltrap(): exit if killed and from user space,
\* yield if a process is running, else return to scheduler().
trap(c) ==
    LET p == cpu[c].proc
    IN  /\ panic = "none"
        /\ ipc[c] = "trap"
        /\ ipc' = [ipc EXCEPT ![c] = "none"]
        /\ IF p # NoProc /\ state[p] = "RUNNING"
           THEN /\ lock[p] = NoCpu
                /\ Goto(p, IF pc[p] = "user" /\ killed[p] THEN "exit" ELSE "yield")
                /\ ret' = [ret EXCEPT ![p] = pc[p]]
                /\ UNCHANGED cpu
           ELSE /\ cpu' = [cpu EXCEPT ![c].sie = TRUE]
                /\ UNCHANGED <<pc, ret>>
        /\ UNCHANGED <<procvars, lock, tickslock, saved, age, thr, scan, wk, panic>>
-----------------------------------------------------------------------------
Scheduler(c) == scheduler(c) \/ scheduler_back(c)

Handler(c) == clockintr(c) \/ wakeup(c) \/ clock_release(c) \/ trap(c)

\* The kernel code of p, on whatever CPU it runs: switching, and the rest.
Switch(p) == \E c \in Cpus : forkret(p, c) \/ yield(p, c) \/ yield_back(p, c)

Kernel(p) == \E c \in Cpus :
    \/ \E q \in Procs : kill(p, q, c)
    \/ sysret(p, c) \/ exit(p, c)
    \/ acquire_tickslock(p, c) \/ check(p, c)
    \/ sleep(p, c) \/ sleep_release(p, c) \/ go_to_sleep(p, c) \/ sleep_back(p, c)

\* A user program makes a system call, if it likes.
User(p) == \E c \in Cpus : sys_sleep(p, c) \/ sys_kill(p, c)

Next ==
    \/ \E c \in Cpus : Scheduler(c) \/ timer(c) \/ Handler(c)
    \/ \E p \in Procs : Switch(p) \/ Kernel(p) \/ User(p)

Spec == Init /\ [][Next]_vars

(* Every CPU goes on executing; a spin lock that is free again and again   *)
(* is obtained; a pending timer interrupt is taken when interrupts go on,  *)
(* but the kernel executes code between two of them.                       *)
Fairness ==
    /\ \A c \in Cpus : SF_vars(Scheduler(c)) /\ SF_vars(Handler(c)) /\ SF_vars(timer(c))
    /\ \A p \in Procs : SF_vars(Switch(p)) /\ SF_vars(Kernel(p))

FairSpec == Spec /\ Fairness
-----------------------------------------------------------------------------
(* Properties.                                                             *)

TypeOK ==
    /\ state \in [Procs -> {"RUNNABLE", "RUNNING", "SLEEPING", "ZOMBIE"}]
    /\ chan \in [Procs -> BOOLEAN]
    /\ killed \in [Procs -> BOOLEAN]
    /\ lock \in [Procs -> Cpus \cup {NoCpu}]
    /\ tickslock \in Cpus \cup {NoCpu}
    /\ age \in [Procs -> 0 .. N]
    /\ pc \in [Procs -> {"forkret", "user", "yield", "yielded", "kill", "sysret",
                         "exit", "dead", "sys_sleep", "reacquire", "check", "sleep",
                         "sleep_locked", "go_to_sleep", "slept"}]
    /\ ret \in [Procs -> {"user", "kill", "sysret", "exit", "sys_sleep", "reacquire"}]
    /\ saved \in [Procs -> BOOLEAN]
    /\ cpu \in [Cpus -> [proc : Procs \cup {NoProc}, noff : 0 .. 2,
                         intena : BOOLEAN, sie : BOOLEAN]]
    /\ thr \in [Cpus -> Procs \cup {NoProc}]
    /\ scan \in [Cpus -> Procs]
    /\ ipc \in [Cpus -> {"none", "clockintr", "wakeup", "release", "trap"}]
    /\ wk \in [Cpus -> Procs]

(* proc.c:481-499, spinlock.c:46-110: no sched(), release() or pop_off()   *)
(* panics, on whatever CPU a thread left its locks.                        *)
NoPanic == panic = "none"

(* proc.c:455-469: a process's kernel stack is used by one CPU at a time,  *)
(* and a process another CPU may choose (runnable, lock free) has left its *)
(* stack.  A zombie that has left it never returns to it.                  *)
OneStack ==
    /\ \A c, d \in Cpus : thr[c] # NoProc /\ thr[c] = thr[d] => c = d
    /\ \A p \in Procs : state[p] \in {"RUNNABLE", "SLEEPING", "ZOMBIE"}
                        /\ lock[p] = NoCpu => \A c \in Cpus : thr[c] # p
    /\ \A p \in Procs : pc[p] = "dead" => \A c \in Cpus : thr[c] # p

(* proc.c:540-553: sleep() misses no wakeup.  Between ticks nobody whose   *)
(* interval is over is still asleep.                                       *)
NoLostWakeup ==
    tickslock = NoCpu => \A p \in Procs :
        state[p] = "SLEEPING" /\ chan[p] => age[p] < N

(* proc.c:474-480: the interrupt enable follows the thread through sched(),*)
(* from CPU to CPU: kernel code that had interrupts on has them on again   *)
(* when it holds no lock.                                                  *)
InterruptsFollowThread ==
    \A c \in Cpus, p \in Procs :
        Runs(p, c) /\ pc[p] \in {"sys_sleep", "reacquire", "kill", "sysret"}
        => cpu[c].sie /\ cpu[c].noff = 0

(* proc.c:444-472: every runnable process is chosen.                       *)
EveryoneRuns == \A p \in Procs : state[p] = "RUNNABLE" ~> state[p] # "RUNNABLE"

(* sysproc.c:51-69: sys_sleep returns once its ticks are over, or the      *)
(* process is killed.                                                      *)
SleepEnds == \A p \in Procs : pc[p] = "sys_sleep" ~> pc[p] \in {"user", "dead"}
=============================================================================
