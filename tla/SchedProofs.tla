---------------------------- MODULE SchedProofs ----------------------------
(***************************************************************************)
(* Proofs about Sched, for any number of CPUs and processes: the kernel    *)
(* does not panic, two CPUs are never on one kernel stack, no wakeup is    *)
(* lost, and the interrupt enable follows a thread from CPU to CPU.        *)
(***************************************************************************)
EXTENDS Sched, TLAPS

\* Backends and time limits for the proofs of this module.
USE ZenonT(20), SMTT(20)

-----------------------------------------------------------------------------
(* The inductive invariant.                                                *)

\* Where the thread has interrupts on, where it holds its p->lock, where it
\* holds tickslock, and where a handler holds tickslock.
Interruptible == {"user", "kill", "sysret", "exit", "sys_sleep", "reacquire"}
OwnLocked == {"forkret", "yielded", "slept", "sleep_locked", "go_to_sleep"}
TicksLocked == {"check", "sleep", "sleep_locked"}
Handling == {"wakeup", "release"}

\* The type of a struct cpu.
CpuRecord == [proc : Procs \cup {NoProc}, noff : 0 .. 2, intena : BOOLEAN, sie : BOOLEAN]

\* No lock is held below an interrupt: scheduler() looks for a process, or
\* the thread is where interrupts are on.
Quiet(c) == \/ cpu[c].proc = NoProc
            \/ thr[c] # NoProc /\ pc[thr[c]] \in Interruptible

\* What the state of a process says about its thread.
ThreadInv ==
    \A p \in Procs :
        /\ state[p] = "RUNNABLE" => pc[p] \in {"forkret", "yielded", "slept"}
        /\ state[p] = "SLEEPING" => pc[p] = "slept" /\ chan[p]
        /\ state[p] = "ZOMBIE" => pc[p] = "dead"
        /\ state[p] = "RUNNING" => pc[p] # "dead" /\ \E c \in Cpus : thr[c] = p
        /\ pc[p] = "slept" => saved[p]

\* c->proc and the stack the CPU is on.
CpuInv ==
    /\ \A c \in Cpus :
          /\ cpu[c].proc # NoProc => scan[c] = cpu[c].proc
          /\ thr[c] # NoProc => thr[c] = cpu[c].proc /\ state[thr[c]] = "RUNNING"
          /\ cpu[c].proc # NoProc /\ state[cpu[c].proc] = "RUNNING" => thr[c] # NoProc
    /\ \A c, d \in Cpus : cpu[c].proc # NoProc /\ cpu[c].proc = cpu[d].proc => c = d

\* Who holds p->lock: the CPU that has switched to p or from it, until the
\* other side releases it, or that of a thread on its way to sleep.
LockInv ==
    \A p \in Procs, c \in Cpus :
        lock[p] = c <=> cpu[c].proc = p /\ (thr[c] = NoProc \/ pc[p] \in OwnLocked)

\* Who holds tickslock.
TicksInv ==
    \A c \in Cpus :
        tickslock = c <=> \/ ipc[c] \in Handling
                          \/ thr[c] # NoProc /\ pc[thr[c]] \in TicksLocked

\* The depth of push_off() and the interrupt enable of c agree with the locks
\* it holds; sched() will find the enable of a thread that goes to sleep.
Depth(c) ==
    /\ cpu[c].sie => ipc[c] = "none"
    /\ cpu[c].sie \/ ipc[c] # "none" => Quiet(c)
    /\ ipc[c] \in Handling => cpu[c].noff = 1 /\ ~cpu[c].intena
    /\ Quiet(c) /\ ipc[c] \notin Handling => cpu[c].noff = 0
    /\ cpu[c].proc # NoProc /\ thr[c] = NoProc => cpu[c].noff = 1
    /\ thr[c] # NoProc =>
          /\ pc[thr[c]] = "yield" => cpu[c].noff = 0
          /\ pc[thr[c]] \in (OwnLocked \cup TicksLocked) \ {"sleep_locked"} =>
                cpu[c].noff = 1
          /\ pc[thr[c]] = "sleep_locked" => cpu[c].noff = 2
          /\ pc[thr[c]] \in TicksLocked \cup {"go_to_sleep"} => cpu[c].intena
          /\ pc[thr[c]] \in {"sys_sleep", "reacquire", "kill", "sysret"}
             /\ ipc[c] = "none" => cpu[c].sie

DepthInv == \A c \in Cpus : Depth(c)

\* A process on its way to sleep has time left, or wakeup() has yet to reach
\* it.
WakeInv ==
    \A p \in Procs :
        /\ pc[p] \in {"sleep", "sleep_locked"} => age[p] < N
        /\ pc[p] = "go_to_sleep" \/ state[p] = "SLEEPING" =>
              age[p] < N \/ \E c \in Cpus : ipc[c] = "wakeup" /\ wk[c] <= p

SchedInv ==
    /\ TypeOK
    /\ NoPanic
    /\ ThreadInv
    /\ CpuInv
    /\ LockInv
    /\ TicksInv
    /\ DepthInv
    /\ WakeInv
-----------------------------------------------------------------------------
(* Facts the proofs keep using.                                            *)

(* NoProc is no process, and NoCpu no CPU.                                 *)
LEMMA SchedFacts == NoProc \notin Procs /\ NoCpu \notin Cpus
  BY SMTT(20), SchedAssumption DEF Procs, NoProc

(* The slots of the process table are numbered from 1 to NPROC.            *)
LEMMA SlotFacts ==
    /\ N \in Nat /\ 1 \in Procs /\ NPROC \in Procs
    /\ \A p \in Procs : p \in Nat /\ 1 <= p /\ p <= NPROC /\ (p # NPROC => p + 1 \in Procs)
  BY SMTT(20), SchedAssumption DEF Procs

(* What TypeOK says about a CPU.                                           *)
LEMMA CpuTypes ==
    ASSUME TypeOK, NEW c \in Cpus
    PROVE  /\ cpu[c] \in CpuRecord
           /\ cpu[c].proc \in Procs \cup {NoProc} /\ thr[c] \in Procs \cup {NoProc}
           /\ cpu[c].noff \in 0 .. 2
           /\ cpu[c].intena \in BOOLEAN /\ cpu[c].sie \in BOOLEAN
  BY DEF TypeOK, CpuRecord

(* push_off() counts, saves the interrupt enable at depth 0 and clears it. *)
LEMMA PushFacts ==
    ASSUME NEW k \in CpuRecord, k.noff \in {0, 1}
    PROVE  /\ push_off(k) \in CpuRecord /\ push_off(k).proc = k.proc /\ ~push_off(k).sie
           /\ k.noff = 0 => push_off(k).noff = 1 /\ (push_off(k).intena <=> k.sie)
           /\ k.noff = 1 => push_off(k).noff = 2 /\ (push_off(k).intena <=> k.intena)
<1>1. k.sie \in BOOLEAN /\ k.intena \in BOOLEAN
  BY DEF CpuRecord
<1>2. k.noff + 1 \in 0 .. 2
  BY SMTT(20) DEF CpuRecord
<1>3. (IF k.noff = 0 THEN k.sie ELSE k.intena) \in BOOLEAN
  BY <1>1
<1>4. push_off(k) \in CpuRecord
  BY <1>2, <1>3, Zenon DEF push_off, CpuRecord
<1>. QED  BY SMTT(20), <1>4 DEF push_off, CpuRecord

(* pop_off() undoes one push_off().                                        *)
LEMMA PopFacts ==
    ASSUME NEW k \in CpuRecord, k.noff \in {1, 2}
    PROVE  /\ pop_off(k) \in CpuRecord /\ pop_off(k).proc = k.proc
           /\ k.noff = 1 => pop_off(k).noff = 0
           /\ k.noff = 2 => pop_off(k).noff = 1
           /\ pop_off(k).intena <=> k.intena
           /\ pop_off(k).sie <=> k.sie \/ (k.noff = 1 /\ k.intena)
<1>1. k.sie \in BOOLEAN /\ k.intena \in BOOLEAN
  BY DEF CpuRecord
<1>2. k.noff - 1 \in 0 .. 2
  BY SMTT(20) DEF CpuRecord
<1>3. (k.sie \/ (k.noff = 1 /\ k.intena)) \in BOOLEAN
  OBVIOUS
<1>4. pop_off(k) \in CpuRecord
  BY <1>2, <1>3, Zenon DEF pop_off, CpuRecord
<1>5. pop_off(k).sie = (k.sie \/ (k.noff = 1 /\ k.intena))
  BY DEF pop_off, CpuRecord
<1>. QED  BY SMTT(20), <1>1, <1>4, <1>5 DEF pop_off, CpuRecord

(* A thread that runs is that of its CPU's process, and of no other CPU's. *)
LEMMA RunsFacts ==
    ASSUME SchedInv, NEW p \in Procs, NEW c \in Cpus, Runs(p, c)
    PROVE  /\ thr[c] = p /\ cpu[c].proc = p /\ scan[c] = p /\ p # NoProc
           /\ state[p] = "RUNNING" /\ ipc[c] = "none" /\ panic = "none"
           /\ \A d \in Cpus : d # c => thr[d] # p /\ cpu[d].proc # p
  BY SchedFacts DEF SchedInv, CpuInv, Runs

(* A CPU that a step leaves alone keeps its depth.                         *)
LEMMA DepthFrame ==
    ASSUME NEW d, Depth(d), cpu'[d] = cpu[d], ipc'[d] = ipc[d], thr'[d] = thr[d],
           thr[d] # NoProc => pc'[thr[d]] = pc[thr[d]]
    PROVE  Depth(d)'
  BY DEF Depth, Quiet

(* A step of a thread that stays on its CPU: it keeps the invariant if the *)
(* thread's own locks, depth and interval agree with the place it goes to. *)
(* At most it makes another process runnable.                              *)
LEMMA StayStep ==
    ASSUME SchedInv, NEW p \in Procs, NEW c \in Cpus, Runs(p, c),
           UNCHANGED <<thr, scan, ipc, wk>>,
           \A r \in Procs : \/ state'[r] = state[r]
                           \/ (state[r] = "SLEEPING" /\ state'[r] = "RUNNABLE"),
           \A r \in Procs : r # p => /\ pc'[r] = pc[r] /\ lock'[r] = lock[r]
                                     /\ age'[r] = age[r] /\ saved'[r] = saved[r]
                                     /\ chan'[r] = chan[r],
           \A d \in Cpus : d # c => /\ cpu'[d] = cpu[d] /\ lock'[p] # d
                                    /\ (tickslock' = d <=> tickslock = d),
           cpu'[c].proc = p, pc'[p] \notin {"dead", "slept"},
           lock'[p] = c <=> pc'[p] \in OwnLocked,
           tickslock' = c <=> pc'[p] \in TicksLocked,
           Depth(c)',
           pc'[p] \in {"sleep", "sleep_locked", "go_to_sleep"} => age'[p] < N
    PROVE  ThreadInv' /\ CpuInv' /\ LockInv' /\ TicksInv' /\ DepthInv' /\ WakeInv'
<1>. USE SchedFacts DEF SchedInv
<1>1. /\ thr[c] = p /\ cpu[c].proc = p /\ p # NoProc
      /\ state[p] = "RUNNING" /\ ipc[c] = "none"
      /\ \A d \in Cpus : d # c => thr[d] # p /\ cpu[d].proc # p
  BY SMTT(20), RunsFacts
<1>2. /\ state'[p] = "RUNNING"
      /\ \A r \in Procs : state'[r] = "RUNNING" <=> state[r] = "RUNNING"
  BY <1>1
<1>3. \A d \in Cpus : /\ cpu'[d].proc = cpu[d].proc
                      /\ cpu[d].proc \in Procs \cup {NoProc}
                      /\ thr[d] \in Procs \cup {NoProc}
  BY <1>1, CpuTypes
<1>4. ThreadInv'
  BY SMTT(20), <1>1, <1>2 DEF ThreadInv
<1>5. CpuInv'
  BY SMTT(20), <1>1, <1>2, <1>3 DEF CpuInv
<1>6. LockInv'
  BY SMTT(20), <1>1, <1>3 DEF LockInv
<1>7. TicksInv'
  BY SMTT(20), <1>1, <1>3 DEF TicksInv, Handling
<1>8. DepthInv'
  BY <1>1, <1>3, DepthFrame DEF DepthInv
<1>9. WakeInv'
  BY SMTT(20), <1>1, <1>2 DEF WakeInv
<1>. QED  BY <1>4, <1>5, <1>6, <1>7, <1>8, <1>9
(* release() does not panic on the CPU that holds the lock.                *)
LEMMA ReleaseFacts ==
    ASSUME NEW c, NEW holder, holder = c, ~cpu[c].sie, cpu[c].noff >= 1,
           cpu[c].noff \in 0 .. 2
    PROVE  ReleasePanic(c, holder) = "none"
  BY SMTT(20) DEF ReleasePanic

-----------------------------------------------------------------------------
(* The steps of a thread that stays on its CPU.                            *)

(* A system call enables interrupts, or the process is killed and exits.   *)
LEMMA SyscallStep ==
    ASSUME SchedInv, NEW p \in Procs, NEW c \in Cpus, NEW l \in {"sys_sleep", "kill"},
           Syscall(p, c, l), UNCHANGED killed
    PROVE  SchedInv'
<1>. USE SchedFacts DEF SchedInv
<1>1. Runs(p, c) /\ pc[p] = "user" /\ thr[c] = p /\ cpu[c].proc = p /\ ipc[c] = "none"
      /\ p # NoProc
  BY SMTT(20), RunsFacts DEF Syscall
<1>2. cpu[c].noff = 0 /\ tickslock # c
  BY SMTT(20), <1>1 DEF DepthInv, Depth, Quiet, Interruptible, Handling, TicksInv, TicksLocked
<1>. DEFINE k == [cpu[c] EXCEPT !.sie = ~killed[p]]
<1>3. k \in CpuRecord /\ k.proc = p /\ k.noff = 0 /\ (k.sie <=> ~killed[p])
  <2>1. cpu[c] \in CpuRecord /\ (~killed[p]) \in BOOLEAN
    BY CpuTypes
  <2>2. k \in CpuRecord
    BY <2>1, Zenon DEF CpuRecord
  <2>. QED  BY <1>1, <1>2, <2>1, <2>2 DEF CpuRecord
<1>4. /\ cpu' = [cpu EXCEPT ![c] = k]
      /\ \E m \in {"sys_sleep", "kill", "exit"} :
            (m = "exit" <=> killed[p]) /\ pc' = [pc EXCEPT ![p] = m]
      /\ lock[p] = NoCpu
      /\ UNCHANGED <<state, chan, killed, lock, tickslock, ret, saved, age, thr, scan, ipc,
                     wk, panic>>
  BY DEF Syscall, Goto
<1>. HIDE DEF k
<1>5. /\ pc'[p] \in {"sys_sleep", "kill", "exit"} /\ (pc'[p] # "exit" => k.sie)
      /\ cpu'[c] = k
      /\ \A d \in Cpus : d # c => cpu'[d] = cpu[d]
      /\ \A r \in Procs : r # p => pc'[r] = pc[r]
  BY SMTT(20), <1>3, <1>4 DEF TypeOK
<1>6. TypeOK' /\ NoPanic'
  BY SMTT(20), <1>3, <1>4 DEF TypeOK, NoPanic, CpuRecord
<1>7. Depth(c)'
  BY <1>1, <1>3, <1>4, <1>5 DEF Depth, Quiet, Interruptible, OwnLocked, TicksLocked, Handling
<1>. QED
  BY <1>1, <1>2, <1>3, <1>4, <1>5, <1>6, <1>7, StayStep DEF OwnLocked, TicksLocked

(* kill() makes its victim runnable if it sleeps.                          *)
LEMMA KillStep ==
    ASSUME SchedInv, NEW p \in Procs, NEW q \in Procs, NEW c \in Cpus, kill(p, q, c)
    PROVE  SchedInv'
<1>. USE SchedFacts DEF SchedInv
<1>1. Runs(p, c) /\ pc[p] = "kill" /\ thr[c] = p /\ cpu[c].proc = p /\ ipc[c] = "none"
      /\ p # NoProc
  BY SMTT(20), RunsFacts DEF kill
<1>2. cpu[c].noff = 0 /\ cpu[c].sie /\ tickslock # c /\ \A d \in Cpus : lock[p] # d
  BY SMTT(20), <1>1, RunsFacts DEF DepthInv, Depth, Quiet, Interruptible, Handling, TicksInv,
     TicksLocked, LockInv, OwnLocked
<1>3. /\ pc'[p] = "sysret"
      /\ \A r \in Procs : \/ state'[r] = state[r]
                          \/ (state[r] = "SLEEPING" /\ state'[r] = "RUNNABLE")
      /\ \A r \in Procs : r # p => pc'[r] = pc[r]
      /\ UNCHANGED <<chan, lock, tickslock, ret, saved, age, cpu, thr, scan, ipc, wk, panic>>
  BY DEF kill, Goto, TypeOK
<1>4. TypeOK' /\ NoPanic'
  BY SMTT(20), <1>3 DEF TypeOK, NoPanic, kill, Goto
<1>5. Depth(c)'
  BY <1>1, <1>2, <1>3 DEF Depth, Quiet, Interruptible, OwnLocked, TicksLocked, Handling
<1>. QED
  BY <1>1, <1>2, <1>3, <1>4, <1>5, StayStep DEF OwnLocked, TicksLocked

(* The return from a system call, to user space or to exit().              *)
LEMMA SysretStep ==
    ASSUME SchedInv, NEW p \in Procs, NEW c \in Cpus, sysret(p, c)
    PROVE  SchedInv'
<1>. USE SchedFacts DEF SchedInv
<1>1. Runs(p, c) /\ pc[p] = "sysret" /\ thr[c] = p /\ cpu[c].proc = p /\ ipc[c] = "none"
      /\ p # NoProc
  BY SMTT(20), RunsFacts DEF sysret
<1>2. cpu[c].noff = 0 /\ tickslock # c
  BY SMTT(20), <1>1 DEF DepthInv, Depth, Quiet, Interruptible, Handling, TicksInv, TicksLocked
<1>3. /\ pc'[p] \in {"user", "exit"} /\ lock[p] = NoCpu
      /\ \A r \in Procs : r # p => pc'[r] = pc[r]
      /\ UNCHANGED <<state, chan, killed, lock, tickslock, ret, saved, age, cpu, thr, scan,
                     ipc, wk, panic>>
  BY DEF sysret, Goto, TypeOK, procvars
<1>4. TypeOK' /\ NoPanic'
  BY SMTT(20), <1>3 DEF TypeOK, NoPanic, sysret, Goto
<1>5. Depth(c)'
  BY <1>1, <1>2, <1>3 DEF Depth, Quiet, Interruptible, OwnLocked, TicksLocked, Handling
<1>. QED
  BY <1>1, <1>2, <1>3, <1>4, <1>5, StayStep DEF OwnLocked, TicksLocked

(* sys_sleep() and sleep() take tickslock.                                 *)
LEMMA AcquireStep ==
    ASSUME SchedInv, NEW p \in Procs, NEW c \in Cpus, acquire_tickslock(p, c)
    PROVE  SchedInv'
<1>. USE SchedFacts DEF SchedInv
<1>1. Runs(p, c) /\ pc[p] \in {"sys_sleep", "reacquire"} /\ thr[c] = p /\ cpu[c].proc = p
      /\ ipc[c] = "none" /\ p # NoProc
  BY SMTT(20), RunsFacts DEF acquire_tickslock
<1>2. cpu[c].noff = 0 /\ cpu[c].sie /\ \A d \in Cpus : lock[p] # d
  BY SMTT(20), <1>1, RunsFacts DEF DepthInv, Depth, Quiet, Interruptible, Handling,
                                   LockInv, OwnLocked
<1>3. /\ push_off(cpu[c]) \in CpuRecord /\ push_off(cpu[c]).proc = p
      /\ push_off(cpu[c]).noff = 1 /\ push_off(cpu[c]).intena /\ ~push_off(cpu[c]).sie
  BY <1>1, <1>2, CpuTypes, PushFacts
<1>4. /\ pc'[p] = "check"
      /\ tickslock = NoCpu /\ tickslock' = c
      /\ cpu'[c] = push_off(cpu[c])
      /\ \A d \in Cpus : d # c => cpu'[d] = cpu[d]
      /\ \A r \in Procs : r # p => pc'[r] = pc[r] /\ age'[r] = age[r]
      /\ UNCHANGED <<state, chan, killed, lock, ret, saved, thr, scan, ipc, wk, panic>>
  BY DEF acquire_tickslock, Goto, TypeOK, procvars
<1>5. TypeOK' /\ NoPanic'
  BY SMTT(20), <1>3, <1>4, SlotFacts DEF TypeOK, NoPanic, CpuRecord, acquire_tickslock, Goto
<1>6. Depth(c)'
  BY <1>1, <1>3, <1>4 DEF Depth, Quiet, Interruptible, OwnLocked, TicksLocked, Handling
<1>. QED
  BY SMTT(20), <1>1, <1>2, <1>3, <1>4, <1>5, <1>6, StayStep DEF OwnLocked, TicksLocked

(* The loop of sys_sleep() goes on to sleep(), or ends.                    *)
LEMMA CheckStep ==
    ASSUME SchedInv, NEW p \in Procs, NEW c \in Cpus, check(p, c)
    PROVE  SchedInv'
<1>. USE SchedFacts DEF SchedInv
<1>1. Runs(p, c) /\ pc[p] = "check" /\ thr[c] = p /\ cpu[c].proc = p /\ ipc[c] = "none"
      /\ p # NoProc /\ panic = "none"
  BY SMTT(20), RunsFacts DEF check
<1>2. /\ cpu[c].noff = 1 /\ cpu[c].intena /\ ~cpu[c].sie /\ tickslock = c
      /\ \A d \in Cpus : lock[p] # d
  BY SMTT(20), <1>1, RunsFacts DEF DepthInv, Depth, Quiet, Interruptible, Handling, TicksInv,
     TicksLocked, LockInv, OwnLocked
<1>3. CASE age[p] < N /\ ~killed[p]
  <2>1. /\ pc'[p] = "sleep"
        /\ \A r \in Procs : r # p => pc'[r] = pc[r]
        /\ UNCHANGED <<state, chan, killed, lock, tickslock, ret, saved, age, cpu, thr, scan,
                       ipc, wk, panic>>
    BY <1>3 DEF check, Goto, TypeOK, procvars
  <2>2. TypeOK' /\ NoPanic'
    <3>1. pc' = [pc EXCEPT ![p] = "sleep"]
      BY <1>3 DEF check, Goto
    <3>. QED  BY <2>1, <3>1 DEF TypeOK, NoPanic
  <2>3. Depth(c)'
    BY <1>1, <1>2, <2>1 DEF Depth, Quiet, Interruptible, OwnLocked, TicksLocked, Handling
  <2>. QED
    BY <1>1, <1>2, <1>3, <2>1, <2>2, <2>3, StayStep DEF OwnLocked, TicksLocked
<1>4. CASE ~(age[p] < N /\ ~killed[p])
  <2>1. /\ pop_off(cpu[c]) \in CpuRecord /\ pop_off(cpu[c]).proc = p
        /\ pop_off(cpu[c]).noff = 0 /\ pop_off(cpu[c]).sie
    BY <1>1, <1>2, CpuTypes, PopFacts
  <2>2. /\ pc'[p] = "sysret"
        /\ tickslock' = NoCpu
        /\ cpu'[c] = pop_off(cpu[c])
        /\ \A d \in Cpus : d # c => cpu'[d] = cpu[d]
        /\ \A r \in Procs : r # p => pc'[r] = pc[r] /\ age'[r] = age[r]
        /\ UNCHANGED <<state, chan, killed, lock, ret, saved, thr, scan, ipc, wk>>
    BY SMTT(20), <1>4 DEF check, Goto, TypeOK, procvars
  <2>3. panic' = "none"
    BY SMTT(20), <1>2, <1>4, CpuTypes, ReleaseFacts DEF check
  <2>4. TypeOK' /\ NoPanic'
    <3>1. /\ age' \in [Procs -> 0 .. N]
          /\ pc' = [pc EXCEPT ![p] = "sysret"]
          /\ cpu' = [cpu EXCEPT ![c] = pop_off(cpu[c])]
      BY SMTT(20), <1>4, SlotFacts DEF check, Goto, TypeOK
    <3>. QED  BY <2>1, <2>2, <2>3, <3>1 DEF TypeOK, NoPanic, CpuRecord
  <2>5. Depth(c)'
    BY <1>1, <2>1, <2>2 DEF Depth, Quiet, Interruptible, OwnLocked, TicksLocked, Handling
  <2>. QED
    BY SMTT(20), <1>1, <1>2, <2>1, <2>2, <2>4, <2>5, StayStep DEF OwnLocked, TicksLocked
<1>. QED  BY <1>3, <1>4

(* sleep() takes p->lock.                                                  *)
LEMMA SleepStep ==
    ASSUME SchedInv, NEW p \in Procs, NEW c \in Cpus, sleep(p, c)
    PROVE  SchedInv'
<1>. USE SchedFacts DEF SchedInv
<1>1. Runs(p, c) /\ pc[p] = "sleep" /\ thr[c] = p /\ cpu[c].proc = p /\ ipc[c] = "none"
      /\ p # NoProc
  BY SMTT(20), RunsFacts DEF sleep
<1>2. cpu[c].noff = 1 /\ cpu[c].intena /\ tickslock = c /\ age[p] < N
  BY SMTT(20), <1>1 DEF DepthInv, Depth, Handling, TicksInv, TicksLocked, OwnLocked, WakeInv
<1>3. /\ push_off(cpu[c]) \in CpuRecord /\ push_off(cpu[c]).proc = p
      /\ push_off(cpu[c]).noff = 2 /\ push_off(cpu[c]).intena /\ ~push_off(cpu[c]).sie
  BY <1>1, <1>2, CpuTypes, PushFacts
<1>4. /\ pc'[p] = "sleep_locked" /\ lock'[p] = c
      /\ cpu'[c] = push_off(cpu[c])
      /\ \A d \in Cpus : d # c => cpu'[d] = cpu[d]
      /\ \A r \in Procs : r # p => pc'[r] = pc[r] /\ lock'[r] = lock[r]
      /\ UNCHANGED <<state, chan, killed, tickslock, ret, saved, age, thr, scan, ipc, wk,
                     panic>>
  BY DEF sleep, Goto, TypeOK, procvars
<1>5. TypeOK' /\ NoPanic'
  BY SMTT(20), <1>3, <1>4 DEF TypeOK, NoPanic, CpuRecord, sleep, Goto
<1>6. Depth(c)'
  BY <1>1, <1>3, <1>4 DEF Depth, Quiet, Interruptible, OwnLocked, TicksLocked, Handling
<1>. QED
  BY SMTT(20), <1>1, <1>2, <1>3, <1>4, <1>5, <1>6, StayStep DEF OwnLocked, TicksLocked

(* sleep() releases tickslock, still with p->lock.                         *)
LEMMA SleepReleaseStep ==
    ASSUME SchedInv, NEW p \in Procs, NEW c \in Cpus, sleep_release(p, c)
    PROVE  SchedInv'
<1>. USE SchedFacts DEF SchedInv
<1>1. Runs(p, c) /\ pc[p] = "sleep_locked" /\ thr[c] = p /\ cpu[c].proc = p
      /\ ipc[c] = "none" /\ p # NoProc
  BY SMTT(20), RunsFacts DEF sleep_release
<1>2. /\ cpu[c].noff = 2 /\ cpu[c].intena /\ ~cpu[c].sie /\ tickslock = c /\ age[p] < N
      /\ lock[p] = c
  BY SMTT(20), <1>1 DEF DepthInv, Depth, Quiet, Interruptible, Handling, TicksInv, TicksLocked,
     OwnLocked, WakeInv, LockInv
<1>3. /\ pop_off(cpu[c]) \in CpuRecord /\ pop_off(cpu[c]).proc = p
      /\ pop_off(cpu[c]).noff = 1 /\ pop_off(cpu[c]).intena /\ ~pop_off(cpu[c]).sie
  BY SMTT(20), <1>1, <1>2, CpuTypes, PopFacts
<1>4. /\ pc'[p] = "go_to_sleep" /\ tickslock' = NoCpu
      /\ cpu'[c] = pop_off(cpu[c])
      /\ \A d \in Cpus : d # c => cpu'[d] = cpu[d]
      /\ \A r \in Procs : r # p => pc'[r] = pc[r]
      /\ UNCHANGED <<state, chan, killed, lock, ret, saved, age, thr, scan, ipc, wk>>
  BY DEF sleep_release, Goto, TypeOK, procvars
<1>5. panic' = "none"
  BY SMTT(20), <1>2, CpuTypes, ReleaseFacts DEF sleep_release
<1>6. TypeOK' /\ NoPanic'
  <2>1. /\ pc' = [pc EXCEPT ![p] = "go_to_sleep"]
        /\ cpu' = [cpu EXCEPT ![c] = pop_off(cpu[c])]
    BY DEF sleep_release, Goto
  <2>. QED  BY <1>3, <1>4, <1>5, <2>1 DEF TypeOK, NoPanic, CpuRecord
<1>7. Depth(c)'
  BY <1>1, <1>3, <1>4 DEF Depth, Quiet, Interruptible, OwnLocked, TicksLocked, Handling
<1>. QED
  BY SMTT(20), <1>1, <1>2, <1>3, <1>4, <1>6, <1>7, StayStep DEF OwnLocked, TicksLocked

(* A thread that scheduler() has switched to releases its p->lock and goes *)
(* on at l, where it has interrupts on.                                    *)
LEMMA ResumedStep ==
    ASSUME SchedInv, NEW p \in Procs, NEW c \in Cpus, NEW k \in CpuRecord,
           NEW l \in Interruptible,
           pc[p] \in {"forkret", "yielded", "slept"}, Resumed(p, c, k), Goto(p, l),
           k.proc = p, k.noff = 0, k.sie,
           chan' \in [Procs -> BOOLEAN],
           \A r \in Procs : r # p => chan'[r] = chan[r],
           UNCHANGED <<state, killed, tickslock, age, thr, scan, ipc, wk>>
    PROVE  SchedInv'
<1>. USE SchedFacts DEF SchedInv
<1>1. Runs(p, c) /\ thr[c] = p /\ cpu[c].proc = p /\ ipc[c] = "none" /\ p # NoProc
  BY SMTT(20), RunsFacts DEF Resumed
<1>2. cpu[c].noff = 1 /\ ~cpu[c].sie /\ tickslock # c /\ lock[p] = c
  BY SMTT(20), <1>1 DEF DepthInv, Depth, Quiet, Interruptible, Handling, TicksInv, TicksLocked,
     OwnLocked, LockInv
<1>3. /\ pc'[p] = l /\ lock'[p] = NoCpu /\ cpu'[c] = k
      /\ \A d \in Cpus : d # c => cpu'[d] = cpu[d]
      /\ \A r \in Procs : r # p => /\ pc'[r] = pc[r] /\ lock'[r] = lock[r]
                                   /\ saved'[r] = saved[r]
  BY DEF Resumed, Goto, TypeOK
<1>4. panic' = "none"
  BY SMTT(20), <1>2, CpuTypes, ReleaseFacts DEF Resumed
<1>5. TypeOK' /\ NoPanic'
  <2>1. /\ pc' = [pc EXCEPT ![p] = l] /\ cpu' = [cpu EXCEPT ![c] = k]
        /\ lock' = [lock EXCEPT ![p] = NoCpu] /\ saved' = [saved EXCEPT ![p] = FALSE]
        /\ ret' = [ret EXCEPT ![p] = "user"]
    BY DEF Resumed, Goto
  <2>. QED  BY <1>4, <2>1 DEF TypeOK, NoPanic, CpuRecord, Interruptible
<1>6. Depth(c)'
  BY <1>1, <1>3 DEF Depth, Quiet, Interruptible, OwnLocked, TicksLocked, Handling
<1>. QED
  BY SMTT(20), <1>1, <1>2, <1>3, <1>5, <1>6, StayStep DEF OwnLocked, TicksLocked, Interruptible

(* The first run of a process, the end of yield() and the end of sleep():  *)
(* forkret() and yield() end in user space or in interrupted kernel code,  *)
(* sleep() with the interrupt enable that sched() has kept for it.         *)
LEMMA SwitchedToStep ==
    ASSUME SchedInv, NEW p \in Procs, NEW c \in Cpus,
           forkret(p, c) \/ yield_back(p, c) \/ sleep_back(p, c)
    PROVE  SchedInv'
<1>. USE SchedFacts DEF SchedInv
<1>1. /\ Runs(p, c) /\ pc[p] \in {"forkret", "yielded", "slept"}
      /\ cpu[c].proc = p
  BY RunsFacts DEF forkret, yield_back, sleep_back, Resumed
<1>2. /\ cpu[c] \in CpuRecord /\ cpu[c].noff = 1 /\ saved[p] \in BOOLEAN
      /\ pop_off(cpu[c]) \in CpuRecord
      /\ pop_off(cpu[c]).proc = p /\ pop_off(cpu[c]).noff = 0
  <2>1. cpu[c] \in CpuRecord /\ saved[p] \in BOOLEAN
    BY CpuTypes DEF TypeOK
  <2>2. cpu[c].noff = 1
    BY SMTT(20), <1>1, RunsFacts DEF DepthInv, Depth, OwnLocked
  <2>. QED  BY <1>1, <2>1, <2>2, PopFacts
<1>3. /\ sched_back(p, c) \in CpuRecord
      /\ sched_back(p, c).proc = p /\ sched_back(p, c).noff = 1
      /\ sched_back(p, c).intena = saved[p]
  <2>1. sched_back(p, c) \in CpuRecord
    BY <1>2, Zenon DEF sched_back, CpuRecord
  <2>. QED  BY <1>1, <1>2, <2>1 DEF sched_back, CpuRecord
<1>4. /\ pop_off(sched_back(p, c)) \in CpuRecord
      /\ pop_off(sched_back(p, c)).proc = p /\ pop_off(sched_back(p, c)).noff = 0
      /\ saved[p] => pop_off(sched_back(p, c)).sie
  BY <1>3, PopFacts
<1>5. CASE forkret(p, c)
  <2>. DEFINE k == [pop_off(cpu[c]) EXCEPT !.sie = TRUE]
  <2>1. k \in CpuRecord /\ k.proc = p /\ k.noff = 0 /\ k.sie
    <3>1. k \in CpuRecord
      BY <1>2, Zenon DEF CpuRecord
    <3>. QED  BY <1>2, <3>1 DEF CpuRecord
  <2>2. /\ Resumed(p, c, k) /\ Goto(p, "user")
        /\ UNCHANGED <<state, chan, killed, tickslock, age, thr, scan, ipc, wk>>
    BY <1>5 DEF forkret, procvars
  <2>. HIDE DEF k
  <2>. QED  BY <1>1, <2>1, <2>2, ResumedStep DEF Interruptible, TypeOK
<1>6. CASE yield_back(p, c)
  <2>. DEFINE k == [pop_off(sched_back(p, c)) EXCEPT !.sie = TRUE]
  <2>1. k \in CpuRecord /\ k.proc = p /\ k.noff = 0 /\ k.sie
    <3>1. k \in CpuRecord
      BY <1>4, Zenon DEF CpuRecord
    <3>. QED  BY <1>4, <3>1 DEF CpuRecord
  <2>2. /\ Resumed(p, c, k) /\ Goto(p, ret[p])
        /\ UNCHANGED <<state, chan, killed, tickslock, age, thr, scan, ipc, wk>>
    BY <1>6 DEF yield_back, procvars
  <2>3. ret[p] \in Interruptible /\ chan \in [Procs -> BOOLEAN]
    BY DEF TypeOK, Interruptible
  <2>. HIDE DEF k
  <2>. QED  BY <1>1, <2>1, <2>2, <2>3, ResumedStep
<1>7. CASE sleep_back(p, c)
  <2>1. pc[p] = "slept" /\ saved[p]
    BY <1>7 DEF sleep_back, ThreadInv
  <2>2. /\ Resumed(p, c, pop_off(sched_back(p, c))) /\ Goto(p, "reacquire")
        /\ chan' \in [Procs -> BOOLEAN]
        /\ \A r \in Procs : r # p => chan'[r] = chan[r]
        /\ UNCHANGED <<state, killed, tickslock, age, thr, scan, ipc, wk>>
    BY <1>7 DEF sleep_back, TypeOK
  <2>. QED  BY <1>1, <1>4, <2>1, <2>2, ResumedStep DEF Interruptible
<1>. QED  BY <1>5, <1>6, <1>7

-----------------------------------------------------------------------------
(* The steps that leave a kernel stack, and those of scheduler().          *)

(* sched() with p->lock held, depth 1 and interrupts off does not panic,   *)
(* and leaves p->lock to scheduler().                                      *)
LEMMA LeaveStep ==
    ASSUME SchedInv, NEW p \in Procs, NEW c \in Cpus, NEW k \in CpuRecord, NEW s, NEW l,
           Runs(p, c), pc[p] \notin TicksLocked, lock[p] \in {NoCpu, c},
           sched(p, c, s, c, k, l),
           k.proc = p, k.noff = 1, ~k.sie,
           \/ s = "RUNNABLE" /\ l = "yielded"
           \/ s = "ZOMBIE" /\ l = "dead"
           \/ s = "SLEEPING" /\ l = "slept" /\ chan'[p] /\ k.intena /\ pc[p] = "go_to_sleep",
           chan' \in [Procs -> BOOLEAN],
           \A r \in Procs : r # p => chan'[r] = chan[r],
           UNCHANGED <<killed, tickslock, ret, age, scan, ipc, wk>>
    PROVE  SchedInv'
<1>. USE SchedFacts DEF SchedInv
<1>1. /\ thr[c] = p /\ cpu[c].proc = p /\ scan[c] = p /\ p # NoProc
      /\ state[p] = "RUNNING" /\ ipc[c] = "none"
      /\ \A d \in Cpus : d # c => thr[d] # p /\ cpu[d].proc # p
  BY SMTT(20), RunsFacts
<1>2. /\ pc'[p] = l /\ lock'[p] = c /\ cpu'[c] = k /\ thr'[c] = NoProc
      /\ state'[p] = s /\ saved'[p] = k.intena
      /\ \A d \in Cpus : d # c => cpu'[d] = cpu[d] /\ thr'[d] = thr[d]
      /\ \A r \in Procs : r # p => /\ pc'[r] = pc[r] /\ lock'[r] = lock[r]
                                   /\ saved'[r] = saved[r] /\ state'[r] = state[r]
  BY DEF sched, Goto, TypeOK
<1>3. tickslock # c
  BY <1>1 DEF TicksInv, Handling
<1>4. TypeOK' /\ NoPanic'
  <2>1. /\ pc' = [pc EXCEPT ![p] = l] /\ cpu' = [cpu EXCEPT ![c] = k]
        /\ lock' = [lock EXCEPT ![p] = c] /\ saved' = [saved EXCEPT ![p] = k.intena]
        /\ state' = [state EXCEPT ![p] = s] /\ thr' = [thr EXCEPT ![c] = NoProc]
    BY DEF sched, Goto
  <2>2. panic' = "none"
    BY DEF sched, SchedPanic
  <2>3. k.intena \in BOOLEAN
    BY DEF CpuRecord
  <2>. QED  BY <2>1, <2>2, <2>3 DEF TypeOK, NoPanic, CpuRecord
<1>5. \A d \in Cpus : /\ cpu'[d].proc = cpu[d].proc
                      /\ cpu[d].proc \in Procs \cup {NoProc}
                      /\ thr[d] \in Procs \cup {NoProc}
  BY SMTT(20), <1>1, <1>2, CpuTypes
<1>6. ThreadInv'
  BY SMTT(20), <1>1, <1>2 DEF ThreadInv
<1>7. CpuInv'
  BY SMTT(20), <1>1, <1>2, <1>5 DEF CpuInv
<1>8. LockInv'
  BY SMTT(20), <1>1, <1>2, <1>5 DEF LockInv
<1>9. TicksInv'
  BY SMTT(20), <1>1, <1>2, <1>3, <1>5 DEF TicksInv, Handling
<1>10. DepthInv'
  <2>1. Depth(c)'
    BY <1>1, <1>2 DEF Depth, Quiet, Handling
  <2>2. \A d \in Cpus : d # c => Depth(d)'
    BY <1>1, <1>2, <1>5, DepthFrame DEF DepthInv
  <2>. QED  BY <2>1, <2>2 DEF DepthInv
<1>11. WakeInv'
  BY SMTT(20), <1>1, <1>2 DEF WakeInv
<1>. QED  BY <1>4, <1>6, <1>7, <1>8, <1>9, <1>10, <1>11

(* yield(), exit() and sleep() call sched().                               *)
LEMMA SwitchedFromStep ==
    ASSUME SchedInv, NEW p \in Procs, NEW c \in Cpus,
           yield(p, c) \/ exit(p, c) \/ go_to_sleep(p, c)
    PROVE  SchedInv'
<1>. USE SchedFacts DEF SchedInv
<1>1. /\ Runs(p, c) /\ pc[p] \in {"yield", "exit", "go_to_sleep"}
      /\ thr[c] = p /\ cpu[c].proc = p /\ ipc[c] = "none" /\ p # NoProc
      /\ cpu[c] \in CpuRecord /\ chan \in [Procs -> BOOLEAN]
  BY SMTT(20), RunsFacts, CpuTypes DEF yield, exit, go_to_sleep, TypeOK
<1>2. CASE pc[p] # "go_to_sleep"
  <2>1. cpu[c].noff = 0
    BY <1>1, <1>2 DEF DepthInv, Depth, Quiet, Interruptible, Handling
  <2>2. /\ push_off(cpu[c]) \in CpuRecord /\ push_off(cpu[c]).proc = p
        /\ push_off(cpu[c]).noff = 1 /\ ~push_off(cpu[c]).sie
    BY <1>1, <2>1, PushFacts
  <2>3. /\ lock[p] = NoCpu
        /\ \/ sched(p, c, "RUNNABLE", c, push_off(cpu[c]), "yielded")
           \/ sched(p, c, "ZOMBIE", c, push_off(cpu[c]), "dead")
        /\ UNCHANGED <<chan, killed, tickslock, ret, age, scan, ipc, wk>>
    BY <1>2 DEF yield, exit, go_to_sleep
  <2>. QED  BY <1>1, <1>2, <2>2, <2>3, LeaveStep DEF TicksLocked
<1>3. CASE pc[p] = "go_to_sleep"
  <2>1. cpu[c].noff = 1 /\ ~cpu[c].sie /\ cpu[c].intena /\ lock[p] = c
    BY SMTT(20), <1>1, <1>3 DEF DepthInv, Depth, Quiet, Interruptible, OwnLocked, Handling, LockInv
  <2>2. /\ sched(p, c, "SLEEPING", c, cpu[c], "slept")
        /\ chan'[p] /\ chan' \in [Procs -> BOOLEAN]
        /\ \A r \in Procs : r # p => chan'[r] = chan[r]
        /\ UNCHANGED <<killed, tickslock, ret, age, scan, ipc, wk>>
    BY <1>1, <1>3, <2>1 DEF yield, exit, go_to_sleep
  <2>. QED  BY <1>1, <1>3, <2>1, <2>2, LeaveStep DEF TicksLocked
<1>. QED  BY <1>2, <1>3

(* scheduler() goes to the next slot, and enables interrupts on a new      *)
(* round; k is the struct cpu of a CPU that has no process.                *)
LEMMA NextScanStep ==
    ASSUME SchedInv, NEW c \in Cpus, NEW k \in CpuRecord, k.proc = NoProc, k.noff = 0,
           thr[c] = NoProc, ipc[c] = "none", panic' = "none", NextScan(c, k),
           \A r \in Procs : lock'[r] = IF cpu[c].proc = r THEN NoCpu ELSE lock[r],
           lock' \in [Procs -> Cpus \cup {NoCpu}],
           UNCHANGED <<state, chan, killed, tickslock, pc, ret, saved, age, thr, ipc, wk>>
    PROVE  SchedInv'
<1>. USE SchedFacts DEF SchedInv
<1>. DEFINE h == [k EXCEPT !.sie = @ \/ scan[c] = NPROC]
<1>1. h \in CpuRecord /\ h.proc = NoProc /\ h.noff = 0
  <2>1. (k.sie \/ scan[c] = NPROC) \in BOOLEAN
    OBVIOUS
  <2>2. h \in CpuRecord
    BY <2>1, Zenon DEF CpuRecord
  <2>. QED  BY <2>2 DEF CpuRecord
<1>2. scan' \in [Cpus -> Procs] /\ cpu' = [cpu EXCEPT ![c] = h]
      /\ \A d \in Cpus : d # c => scan'[d] = scan[d]
  BY SlotFacts DEF NextScan, TypeOK
<1>. HIDE DEF h
<1>3. cpu'[c] = h /\ \A d \in Cpus : d # c => cpu'[d] = cpu[d]
  BY <1>2 DEF TypeOK
<1>4. \A d \in Cpus : /\ cpu[d].proc \in Procs \cup {NoProc}
                      /\ thr[d] \in Procs \cup {NoProc}
  BY CpuTypes
<1>5. TypeOK' /\ NoPanic'
  BY <1>1, <1>2 DEF TypeOK, NoPanic, CpuRecord
<1>6. ThreadInv'
  BY DEF ThreadInv
<1>7. CpuInv'
  BY SMTT(20), <1>1, <1>2, <1>3, <1>4 DEF CpuInv
<1>8. LockInv'
  BY SMTT(20), <1>1, <1>3, <1>4 DEF LockInv, CpuInv
<1>9. TicksInv'
  BY DEF TicksInv
<1>10. DepthInv'
  <2>1. Depth(c)'
    BY <1>1, <1>3 DEF Depth, Quiet, Handling
  <2>2. \A d \in Cpus : d # c => Depth(d)'
    BY <1>3, DepthFrame DEF DepthInv
  <2>. QED  BY <2>1, <2>2 DEF DepthInv
<1>11. WakeInv'
  BY DEF WakeInv
<1>. QED  BY <1>5, <1>6, <1>7, <1>8, <1>9, <1>10, <1>11

(* scheduler() switches to a runnable process, or goes to the next slot.   *)
LEMMA SchedulerStep ==
    ASSUME SchedInv, NEW c \in Cpus, scheduler(c)
    PROVE  SchedInv'
<1>. USE SchedFacts DEF SchedInv
<1>. DEFINE p == scan[c]
<1>1. /\ p \in Procs /\ p # NoProc /\ cpu[c] \in CpuRecord
      /\ thr[c] = NoProc /\ ipc[c] = "none" /\ cpu[c].proc = NoProc /\ lock[p] = NoCpu
      /\ panic = "none"
      /\ UNCHANGED <<chan, killed, tickslock, pc, ret, saved, age, ipc, wk, panic>>
  BY SMTT(20), CpuTypes DEF scheduler, TypeOK, threadvars
<1>2. cpu[c].noff = 0
  BY <1>1 DEF DepthInv, Depth, Quiet, Handling
<1>3. \A d \in Cpus : /\ cpu[d].proc \in Procs \cup {NoProc}
                      /\ thr[d] \in Procs \cup {NoProc}
  BY CpuTypes
<1>4. CASE state[p] = "RUNNABLE"
  <2>. DEFINE k == [push_off(cpu[c]) EXCEPT !.proc = p]
  <2>1. k \in CpuRecord /\ k.proc = p /\ k.noff = 1 /\ ~k.sie
    <3>1. push_off(cpu[c]) \in CpuRecord /\ push_off(cpu[c]).noff = 1 /\ ~push_off(cpu[c]).sie
      BY <1>1, <1>2, PushFacts
    <3>2. k \in CpuRecord
      BY <1>1, <3>1, Zenon DEF CpuRecord
    <3>. QED  BY <3>1, <3>2 DEF CpuRecord
  <2>2. /\ state' = [state EXCEPT ![p] = "RUNNING"] /\ lock' = [lock EXCEPT ![p] = c]
        /\ cpu' = [cpu EXCEPT ![c] = k] /\ thr' = [thr EXCEPT ![c] = p]
        /\ UNCHANGED scan
    BY <1>4 DEF scheduler
  <2>. HIDE DEF k
  <2>3. /\ state'[p] = "RUNNING" /\ lock'[p] = c /\ cpu'[c] = k /\ thr'[c] = p
        /\ \A d \in Cpus : d # c => cpu'[d] = cpu[d] /\ thr'[d] = thr[d]
        /\ \A r \in Procs : r # p => state'[r] = state[r] /\ lock'[r] = lock[r]
    BY <1>1, <2>2 DEF TypeOK
  <2>4. /\ pc[p] \in {"forkret", "yielded", "slept"}
        /\ \A d \in Cpus : thr[d] # p /\ cpu[d].proc # p
    BY SMTT(20), <1>1, <1>3, <1>4 DEF ThreadInv, CpuInv, LockInv
  <2>5. TypeOK' /\ NoPanic'
    BY <1>1, <2>1, <2>2 DEF TypeOK, NoPanic, CpuRecord
  <2>6. ThreadInv'
    BY SMTT(20), <1>1, <2>3, <2>4 DEF ThreadInv
  <2>7. CpuInv'
    BY SMTT(20), <1>1, <1>3, <2>1, <2>2, <2>3, <2>4 DEF CpuInv
  <2>8. LockInv'
    <3>1. ASSUME NEW d \in Cpus
          PROVE  lock'[p] = d <=> cpu'[d].proc = p /\ (thr'[d] = NoProc \/ pc'[p] \in OwnLocked)
      BY <1>1, <2>1, <2>3, <2>4 DEF OwnLocked
    <3>2. ASSUME NEW r \in Procs, NEW d \in Cpus, r # p
          PROVE  lock'[r] = d <=> cpu'[d].proc = r /\ (thr'[d] = NoProc \/ pc'[r] \in OwnLocked)
      <4>1. CASE d = c
        <5>1. cpu[c].proc # r
          BY <1>1
        <5>2. lock'[r] # c
          BY SMTT(20), <2>3, <3>2, <5>1 DEF LockInv
        <5>3. cpu'[c].proc # r
          BY <2>1, <2>3, <3>2
        <5>. QED  BY <4>1, <5>2, <5>3
      <4>2. CASE d # c
        BY SMTT(20), <1>1, <2>3, <3>2, <4>2 DEF LockInv
      <4>. QED  BY <4>1, <4>2
    <3>. QED  BY <3>1, <3>2 DEF LockInv
  <2>9. TicksInv'
    BY SMTT(20), <1>1, <2>3, <2>4 DEF TicksInv, TicksLocked
  <2>10. DepthInv'
    <3>1. Depth(c)'
      BY <1>1, <2>1, <2>3, <2>4 DEF Depth, Quiet, Interruptible, OwnLocked, TicksLocked,
         Handling
    <3>2. \A d \in Cpus : d # c => Depth(d)'
      BY <1>1, <2>3, DepthFrame DEF DepthInv
    <3>. QED  BY <3>1, <3>2 DEF DepthInv
  <2>11. WakeInv'
    BY <1>1, <2>3, <2>4 DEF WakeInv
  <2>. QED  BY <2>5, <2>6, <2>7, <2>8, <2>9, <2>10, <2>11
<1>5. CASE state[p] # "RUNNABLE"
  <2>1. /\ NextScan(c, cpu[c]) /\ UNCHANGED <<state, lock, thr>>
    BY <1>5 DEF scheduler
  <2>2. lock \in [Procs -> Cpus \cup {NoCpu}]
    BY DEF TypeOK
  <2>. QED  BY <1>1, <1>2, <2>1, <2>2, NextScanStep
<1>. QED  BY <1>4, <1>5

(* Back from a process, scheduler() releases its p->lock.                  *)
LEMMA SchedulerBackStep ==
    ASSUME SchedInv, NEW c \in Cpus, scheduler_back(c)
    PROVE  SchedInv'
<1>. USE SchedFacts DEF SchedInv
<1>. DEFINE p == cpu[c].proc
            k == [cpu[c] EXCEPT !.proc = NoProc]
<1>1. /\ p \in Procs /\ scan[c] = p /\ cpu[c] \in CpuRecord
      /\ thr[c] = NoProc /\ ipc[c] = "none"
      /\ UNCHANGED <<state, chan, killed, tickslock, pc, ret, saved, age, thr, ipc, wk>>
  BY CpuTypes DEF scheduler_back, procvars, threadvars, CpuInv
<1>2. cpu[c].noff = 1 /\ ~cpu[c].sie /\ lock[p] = c
  BY SMTT(20), <1>1 DEF DepthInv, Depth, Quiet, LockInv
<1>3. k \in CpuRecord /\ k.proc = NoProc /\ k.noff = 1
  <2>1. k \in CpuRecord
    BY <1>1, Zenon DEF CpuRecord
  <2>. QED  BY <1>1, <1>2, <2>1 DEF CpuRecord
<1>4. NextScan(c, pop_off(k))
  BY DEF scheduler_back
<1>. HIDE DEF k
<1>5. pop_off(k) \in CpuRecord /\ pop_off(k).proc = NoProc /\ pop_off(k).noff = 0
  BY <1>3, PopFacts
<1>6. panic' = "none"
  BY SMTT(20), <1>1, <1>2, CpuTypes, ReleaseFacts DEF scheduler_back
<1>7. /\ lock' \in [Procs -> Cpus \cup {NoCpu}]
      /\ \A r \in Procs : lock'[r] = IF cpu[c].proc = r THEN NoCpu ELSE lock[r]
  BY <1>1 DEF scheduler_back, TypeOK
<1>. QED  BY <1>1, <1>4, <1>5, <1>6, <1>7, NextScanStep

-----------------------------------------------------------------------------
(* Timer interrupts.                                                       *)

(* Where an interrupt can come, its CPU has no thread or one that holds no *)
(* lock.                                                                   *)
LEMMA QuietFacts ==
    ASSUME SchedInv, NEW c \in Cpus, Quiet(c)
    PROVE  \/ thr[c] = NoProc /\ cpu[c].proc = NoProc
           \/ /\ thr[c] \in Procs /\ thr[c] # NoProc /\ thr[c] = cpu[c].proc
              /\ pc[thr[c]] \in Interruptible
  BY SchedFacts, CpuTypes DEF SchedInv, Quiet, CpuInv

(* A step of an interrupt handler: it finds no lock on its CPU, except the *)
(* tickslock it takes itself, and at most makes sleepers runnable.         *)
LEMMA HandlerStep ==
    ASSUME SchedInv, NEW c \in Cpus, Quiet(c),
           \A r \in Procs : \/ state'[r] = state[r]
                           \/ (state[r] = "SLEEPING" /\ state'[r] = "RUNNABLE"),
           UNCHANGED <<chan, lock, pc, saved, thr, scan>>,
           \A d \in Cpus : d # c => /\ cpu'[d] = cpu[d] /\ ipc'[d] = ipc[d]
                                    /\ (tickslock' = d <=> tickslock = d),
           cpu'[c].proc = cpu[c].proc,
           ipc'[c] # "none" /\ ~cpu'[c].sie,
           tickslock' = c <=> ipc'[c] \in Handling,
           ipc'[c] \in Handling => cpu'[c].noff = 1 /\ ~cpu'[c].intena,
           ipc'[c] \notin Handling => cpu'[c].noff = 0
    PROVE  ThreadInv' /\ CpuInv' /\ LockInv' /\ TicksInv' /\ DepthInv'
<1>. USE SchedFacts DEF SchedInv
<1>1. \A r \in Procs : state'[r] = "RUNNING" <=> state[r] = "RUNNING"
  OBVIOUS
<1>2. \A d \in Cpus : /\ cpu'[d].proc = cpu[d].proc
                      /\ cpu[d].proc \in Procs \cup {NoProc}
                      /\ thr[d] \in Procs \cup {NoProc}
  BY CpuTypes
<1>3. ThreadInv'
  BY SMTT(20), <1>1 DEF ThreadInv
<1>4. CpuInv'
  BY SMTT(20), <1>1, <1>2 DEF CpuInv
<1>5. LockInv'
  BY SMTT(20), <1>2 DEF LockInv
<1>6. TicksInv'
  BY SMTT(20), QuietFacts DEF TicksInv, Interruptible, TicksLocked
<1>7. DepthInv'
  <2>1. Depth(c)'
    BY QuietFacts DEF Depth, Quiet, Interruptible, OwnLocked, TicksLocked
  <2>2. \A d \in Cpus : d # c => Depth(d)'
    BY DepthFrame DEF DepthInv
  <2>. QED  BY <2>1, <2>2 DEF DepthInv
<1>. QED  BY <1>3, <1>4, <1>5, <1>6, <1>7

(* A timer interrupt is taken.                                             *)
LEMMA TimerStep ==
    ASSUME SchedInv, NEW c \in Cpus, timer(c)
    PROVE  SchedInv'
<1>. USE SchedFacts DEF SchedInv
<1>. DEFINE k == [cpu[c] EXCEPT !.sie = FALSE]
<1>1. cpu[c] \in CpuRecord /\ cpu[c].sie /\ ipc[c] = "none" /\ Quiet(c) /\ cpu[c].noff = 0
  BY CpuTypes DEF timer, DepthInv, Depth, Handling
<1>2. k \in CpuRecord /\ k.proc = cpu[c].proc /\ k.noff = 0 /\ ~k.sie
  <2>1. k \in CpuRecord
    BY <1>1, Zenon DEF CpuRecord
  <2>. QED  BY <1>1, <2>1 DEF CpuRecord
<1>3. /\ cpu' = [cpu EXCEPT ![c] = k]
      /\ UNCHANGED <<state, chan, killed, lock, tickslock, pc, ret, saved, age, thr, scan, wk,
                     panic>>
  BY DEF timer, procvars, threadvars
<1>. HIDE DEF k
<1>4. /\ cpu'[c] = k /\ ipc'[c] \in {"clockintr", "trap"}
      /\ ipc' \in [Cpus -> {"none", "clockintr", "wakeup", "release", "trap"}]
      /\ \A d \in Cpus : d # c => cpu'[d] = cpu[d] /\ ipc'[d] = ipc[d]
  BY <1>3 DEF timer, TypeOK
<1>5. TypeOK' /\ NoPanic'
  BY <1>2, <1>3, <1>4 DEF TypeOK, NoPanic, CpuRecord
<1>6. tickslock # c
  BY <1>1, QuietFacts DEF TicksInv, Interruptible, TicksLocked, Handling
<1>7. ThreadInv' /\ CpuInv' /\ LockInv' /\ TicksInv' /\ DepthInv'
  BY <1>1, <1>2, <1>3, <1>4, <1>6, HandlerStep DEF Handling
<1>8. WakeInv'
  BY <1>1, <1>3, <1>4 DEF WakeInv
<1>. QED  BY <1>5, <1>7, <1>8

(* clockintr() takes tickslock, counts the tick and calls wakeup(): from   *)
(* here every sleeper whose interval is over is ahead of it.               *)
LEMMA ClockintrStep ==
    ASSUME SchedInv, NEW c \in Cpus, clockintr(c)
    PROVE  SchedInv'
<1>. USE SchedFacts DEF SchedInv
<1>1. /\ cpu[c] \in CpuRecord /\ ~cpu[c].sie /\ Quiet(c) /\ cpu[c].noff = 0
      /\ tickslock = NoCpu
  BY CpuTypes DEF clockintr, DepthInv, Depth, Handling
<1>2. /\ push_off(cpu[c]) \in CpuRecord /\ push_off(cpu[c]).proc = cpu[c].proc
      /\ push_off(cpu[c]).noff = 1 /\ ~push_off(cpu[c]).sie /\ ~push_off(cpu[c]).intena
  BY <1>1, PushFacts
<1>3. /\ cpu' = [cpu EXCEPT ![c] = push_off(cpu[c])]
      /\ ipc' = [ipc EXCEPT ![c] = "wakeup"] /\ wk' = [wk EXCEPT ![c] = 1]
      /\ tickslock' = c /\ age' \in [Procs -> 0 .. N]
      /\ UNCHANGED <<state, chan, killed, lock, pc, ret, saved, thr, scan, panic>>
  BY SMTT(20), SlotFacts DEF clockintr, procvars, TypeOK
<1>4. /\ cpu'[c] = push_off(cpu[c]) /\ ipc'[c] = "wakeup" /\ wk'[c] = 1
      /\ \A d \in Cpus : d # c => cpu'[d] = cpu[d] /\ ipc'[d] = ipc[d]
  BY <1>3 DEF TypeOK
<1>5. TypeOK' /\ NoPanic'
  BY <1>2, <1>3, SlotFacts DEF TypeOK, NoPanic, CpuRecord
<1>6. ThreadInv' /\ CpuInv' /\ LockInv' /\ TicksInv' /\ DepthInv'
  BY <1>1, <1>2, <1>3, <1>4, HandlerStep DEF Handling
<1>7. WakeInv'
  <2>1. \A p \in Procs : pc[p] \notin {"sleep", "sleep_locked"}
    <3>1. \A p \in Procs : pc[p] \in {"sleep", "sleep_locked"} => state[p] = "RUNNING"
      BY SMTT(20) DEF ThreadInv, TypeOK
    <3>. QED  BY SMTT(20), <1>1, <3>1 DEF ThreadInv, TicksInv, TicksLocked
  <2>. QED  BY <1>3, <1>4, <2>1, SlotFacts DEF WakeInv
<1>. QED  BY <1>5, <1>6, <1>7

(* One turn of wakeup(): the process it looks at does not sleep any more,  *)
(* and is not about to, since it would hold its p->lock.                   *)
LEMMA WakeupStep ==
    ASSUME SchedInv, NEW c \in Cpus, wakeup(c)
    PROVE  SchedInv'
<1>. USE SchedFacts DEF SchedInv
<1>. DEFINE p == wk[c]
<1>1. /\ p \in Procs /\ ipc[c] = "wakeup" /\ Quiet(c) /\ ~cpu[c].sie
      /\ cpu[c].noff = 1 /\ ~cpu[c].intena /\ tickslock = c
      /\ cpu[c].proc \in Procs \cup {NoProc}
  BY CpuTypes DEF wakeup, TypeOK, DepthInv, Depth, Handling, TicksInv
<1>2. /\ UNCHANGED <<chan, killed, lock, tickslock, pc, ret, saved, age, cpu, thr, scan, panic>>
      /\ ipc'[c] = IF p = NPROC THEN "release" ELSE "wakeup"
      /\ p # NPROC => wk'[c] = p + 1
      /\ \A d \in Cpus : d # c => ipc'[d] = ipc[d] /\ wk'[d] = wk[d]
      /\ wk' \in [Cpus -> Procs]
      /\ ipc' \in [Cpus -> {"none", "clockintr", "wakeup", "release", "trap"}]
  BY <1>1, SlotFacts DEF wakeup, threadvars, TypeOK
<1>3. /\ state' \in [Procs -> {"RUNNABLE", "RUNNING", "SLEEPING", "ZOMBIE"}]
      /\ \A r \in Procs : \/ state'[r] = state[r]
                          \/ (state[r] = "SLEEPING" /\ state'[r] = "RUNNABLE")
  BY SMTT(20), <1>1 DEF wakeup, TypeOK
<1>4. state'[p] # "SLEEPING" /\ pc[p] # "go_to_sleep"
  <2>1. CASE p = cpu[c].proc
    <3>1. pc[p] \in Interruptible
      BY <1>1, <2>1, QuietFacts
    <3>. QED  BY SMTT(20), <1>1, <1>3, <3>1 DEF ThreadInv, Interruptible
  <2>2. CASE p # cpu[c].proc
    <3>1. lock[p] = NoCpu /\ (state[p] = "SLEEPING" /\ chan[p] => state'[p] = "RUNNABLE")
      BY <1>1, <2>2 DEF wakeup, TypeOK
    <3>2. state'[p] # "SLEEPING"
      BY SMTT(20), <1>1, <1>3, <3>1 DEF ThreadInv
    <3>3. pc[p] = "go_to_sleep" => state[p] = "RUNNING"
      BY SMTT(20), <1>1 DEF ThreadInv, TypeOK
    <3>4. pc[p] # "go_to_sleep"
      BY SMTT(20), <1>1, <3>1, <3>3 DEF ThreadInv, CpuInv, LockInv, OwnLocked
    <3>. QED  BY <3>2, <3>4
  <2>. QED  BY <2>1, <2>2
<1>5. TypeOK' /\ NoPanic'
  BY <1>2, <1>3 DEF TypeOK, NoPanic
<1>6. ThreadInv' /\ CpuInv' /\ LockInv' /\ TicksInv' /\ DepthInv'
  BY <1>1, <1>2, <1>3, HandlerStep DEF Handling
<1>7. WakeInv'
  <2>1. \A d \in Cpus : d # c => ipc[d] # "wakeup"
    BY <1>1 DEF TicksInv, Handling
  <2>2. ASSUME NEW r \in Procs, pc[r] = "go_to_sleep" \/ state'[r] = "SLEEPING", ~(age[r] < N)
        PROVE  \E d \in Cpus : ipc'[d] = "wakeup" /\ wk'[d] <= r
    <3>1. p <= r
      BY <1>3, <2>1, <2>2 DEF WakeInv
    <3>2. p # r
      BY <1>4, <2>2
    <3>3. p # NPROC /\ p + 1 <= r
      <4>1. p \in Nat /\ r \in Nat /\ r <= NPROC /\ NPROC \in Nat
        BY <1>1, SlotFacts
      <4>. HIDE DEF p
      <4>. QED  BY SMTT(20), <3>1, <3>2, <4>1
    <3>. QED  BY <1>2, <3>3
  <2>. QED  BY <1>2, <2>2 DEF WakeInv
<1>. QED  BY <1>5, <1>6, <1>7

(* clockintr() releases tickslock: wakeup() has been through the table.    *)
LEMMA ClockReleaseStep ==
    ASSUME SchedInv, NEW c \in Cpus, clock_release(c)
    PROVE  SchedInv'
<1>. USE SchedFacts DEF SchedInv
<1>1. /\ cpu[c] \in CpuRecord /\ ipc[c] = "release" /\ ~cpu[c].sie /\ Quiet(c)
      /\ cpu[c].noff = 1 /\ ~cpu[c].intena /\ tickslock = c
  BY CpuTypes DEF clock_release, DepthInv, Depth, Handling, TicksInv
<1>2. /\ pop_off(cpu[c]) \in CpuRecord /\ pop_off(cpu[c]).proc = cpu[c].proc
      /\ pop_off(cpu[c]).noff = 0 /\ ~pop_off(cpu[c]).sie
  BY <1>1, PopFacts
<1>3. /\ cpu' = [cpu EXCEPT ![c] = pop_off(cpu[c])]
      /\ ipc' = [ipc EXCEPT ![c] = "trap"] /\ tickslock' = NoCpu
      /\ UNCHANGED <<state, chan, killed, lock, pc, ret, saved, age, thr, scan, wk>>
  BY DEF clock_release, procvars, threadvars
<1>4. /\ cpu'[c] = pop_off(cpu[c]) /\ ipc'[c] = "trap"
      /\ \A d \in Cpus : d # c => cpu'[d] = cpu[d] /\ ipc'[d] = ipc[d]
  BY <1>3 DEF TypeOK
<1>5. panic' = "none"
  BY SMTT(20), <1>1, CpuTypes, ReleaseFacts DEF clock_release
<1>6. TypeOK' /\ NoPanic'
  BY <1>2, <1>3, <1>5 DEF TypeOK, NoPanic, CpuRecord
<1>7. ThreadInv' /\ CpuInv' /\ LockInv' /\ TicksInv' /\ DepthInv'
  BY <1>1, <1>2, <1>3, <1>4, HandlerStep DEF Handling
<1>8. WakeInv'
  BY <1>1, <1>3, <1>4 DEF WakeInv
<1>. QED  BY <1>6, <1>7, <1>8

(* The handler returns to scheduler(), or its thread goes on to yield() or *)
(* to exit().                                                              *)
LEMMA TrapStep ==
    ASSUME SchedInv, NEW c \in Cpus, trap(c)
    PROVE  SchedInv'
<1>. USE SchedFacts DEF SchedInv
<1>. DEFINE p == cpu[c].proc
<1>1. /\ cpu[c] \in CpuRecord /\ ipc[c] = "trap" /\ ~cpu[c].sie /\ Quiet(c)
      /\ cpu[c].noff = 0 /\ tickslock # c
      /\ \/ thr[c] = NoProc /\ p = NoProc
         \/ /\ p \in Procs /\ p # NoProc /\ thr[c] = p /\ state[p] = "RUNNING"
            /\ pc[p] \in Interruptible
  BY SMTT(20), CpuTypes, QuietFacts DEF trap, DepthInv, Depth, Handling, TicksInv, CpuInv,
     Interruptible, TicksLocked
<1>2. /\ ipc' = [ipc EXCEPT ![c] = "none"]
      /\ UNCHANGED <<state, chan, killed, lock, tickslock, saved, age, thr, scan, wk, panic>>
  BY DEF trap, procvars
<1>3. ipc'[c] = "none" /\ \A d \in Cpus : d # c => ipc'[d] = ipc[d]
  BY <1>2 DEF TypeOK
<1>4. \A d \in Cpus : /\ cpu[d].proc \in Procs \cup {NoProc}
                      /\ thr[d] \in Procs \cup {NoProc}
  BY CpuTypes
<1>5. CASE p = NoProc
  <2>. DEFINE k == [cpu[c] EXCEPT !.sie = TRUE]
  <2>1. k \in CpuRecord /\ k.proc = NoProc /\ k.noff = 0 /\ k.sie
    <3>1. k \in CpuRecord
      BY <1>1, Zenon DEF CpuRecord
    <3>. QED  BY <1>1, <1>5, <3>1 DEF CpuRecord
  <2>2. cpu' = [cpu EXCEPT ![c] = k] /\ UNCHANGED <<pc, ret>>
    BY <1>5 DEF trap
  <2>. HIDE DEF k
  <2>3. cpu'[c] = k /\ \A d \in Cpus : d # c => cpu'[d] = cpu[d]
    BY <2>2 DEF TypeOK
  <2>4. TypeOK' /\ NoPanic'
    BY <1>2, <2>1, <2>2 DEF TypeOK, NoPanic, CpuRecord
  <2>5. ThreadInv'
    BY <1>2, <2>2 DEF ThreadInv
  <2>6. CpuInv'
    BY SMTT(20), <1>2, <1>5, <2>1, <2>3 DEF CpuInv
  <2>7. LockInv'
    BY SMTT(20), <1>2, <1>5, <2>1, <2>2, <2>3 DEF LockInv
  <2>8. TicksInv'
    BY <1>1, <1>2, <1>3, <2>2 DEF TicksInv, Handling
  <2>9. DepthInv'
    <3>1. Depth(c)'
      BY <1>1, <1>2, <1>3, <1>5, <2>1, <2>3 DEF Depth, Quiet, Handling
    <3>2. \A d \in Cpus : d # c => Depth(d)'
      BY <1>2, <1>3, <2>2, <2>3, DepthFrame DEF DepthInv
    <3>. QED  BY <3>1, <3>2 DEF DepthInv
  <2>10. WakeInv'
    BY <1>1, <1>2, <1>3, <2>2 DEF WakeInv
  <2>. QED  BY <2>4, <2>5, <2>6, <2>7, <2>8, <2>9, <2>10
<1>6. CASE p # NoProc
  <2>1. /\ p \in Procs /\ thr[c] = p /\ state[p] = "RUNNING" /\ pc[p] \in Interruptible
        /\ \A d \in Cpus : d # c => thr[d] # p /\ cpu[d].proc # p
    BY <1>1, <1>4, <1>6 DEF CpuInv
  <2>2. /\ lock[p] = NoCpu /\ UNCHANGED cpu
        /\ \E l \in {"exit", "yield"} : pc' = [pc EXCEPT ![p] = l]
        /\ ret' = [ret EXCEPT ![p] = pc[p]]
    BY <1>6, <2>1 DEF trap, Goto
  <2>3. pc'[p] \in {"exit", "yield"} /\ \A r \in Procs : r # p => pc'[r] = pc[r]
    BY <2>1, <2>2 DEF TypeOK
  <2>4. TypeOK' /\ NoPanic'
    BY SMTT(20), <1>2, <2>1, <2>2 DEF TypeOK, NoPanic, Interruptible
  <2>5. ThreadInv'
    BY SMTT(20), <1>2, <2>1, <2>3 DEF ThreadInv
  <2>6. CpuInv'
    BY <1>2, <2>2 DEF CpuInv
  <2>7. LockInv'
    BY SMTT(20), <1>2, <2>1, <2>2, <2>3 DEF LockInv, OwnLocked, Interruptible
  <2>8. TicksInv'
    BY <1>1, <1>2, <1>3, <1>4, <2>1, <2>3 DEF TicksInv, Handling, TicksLocked
  <2>9. DepthInv'
    <3>1. Depth(c)'
      BY <1>1, <1>2, <1>3, <1>6, <2>1, <2>2, <2>3 DEF Depth, Quiet, Interruptible, Handling,
         OwnLocked, TicksLocked
    <3>2. \A d \in Cpus : d # c => Depth(d)'
      BY <1>2, <1>3, <1>4, <2>1, <2>2, <2>3, DepthFrame DEF DepthInv
    <3>. QED  BY <3>1, <3>2 DEF DepthInv
  <2>10. WakeInv'
    BY <1>1, <1>2, <1>3, <2>1, <2>3 DEF WakeInv
  <2>. QED  BY <2>4, <2>5, <2>6, <2>7, <2>8, <2>9, <2>10
<1>. QED  BY <1>5, <1>6

-----------------------------------------------------------------------------
(* The theorems.                                                           *)

(* The kernel starts with every process runnable and every CPU idle.       *)
LEMMA InitStep == Init => SchedInv
<1>. SUFFICES ASSUME Init PROVE SchedInv
  OBVIOUS
<1>. USE SchedFacts DEF Init
<1>1. TypeOK /\ NoPanic
  <2>1. [proc |-> NoProc, noff |-> 0, intena |-> FALSE, sie |-> TRUE] \in CpuRecord
    BY SMTT(20) DEF CpuRecord
  <2>. QED  BY SMTT(20), <2>1, SlotFacts DEF TypeOK, NoPanic, CpuRecord
<1>2. \A c \in Cpus : /\ cpu[c].proc = NoProc /\ cpu[c].noff = 0 /\ thr[c] = NoProc
                      /\ ipc[c] = "none"
  OBVIOUS
<1>3. ThreadInv
  BY DEF ThreadInv
<1>4. CpuInv /\ LockInv /\ TicksInv
  BY <1>2 DEF CpuInv, LockInv, TicksInv, Handling
<1>5. DepthInv
  BY <1>2 DEF DepthInv, Depth, Quiet, Handling
<1>6. WakeInv
  BY DEF WakeInv
<1>. QED  BY <1>1, <1>3, <1>4, <1>5, <1>6 DEF SchedInv

(* A stuttering step keeps the invariant.                                  *)
LEMMA StutterStep == SchedInv /\ UNCHANGED vars => SchedInv'
<1>. SUFFICES ASSUME SchedInv, UNCHANGED vars PROVE SchedInv'
  OBVIOUS
<1>. USE ZenonT(30) DEF vars, procvars, threadvars, SchedInv
<1>1. TypeOK' /\ NoPanic'
  BY DEF TypeOK, NoPanic
<1>2. ThreadInv'
  BY DEF ThreadInv
<1>3. CpuInv' /\ LockInv'
  BY DEF CpuInv, LockInv
<1>4. TicksInv' /\ WakeInv'
  BY DEF TicksInv, WakeInv
<1>5. DepthInv'
  BY DEF DepthInv, Depth, Quiet
<1>. QED  BY <1>1, <1>2, <1>3, <1>4, <1>5

(* Every step of the kernel keeps the invariant.                           *)
LEMMA NextStep == SchedInv /\ Next => SchedInv'
<1>. SUFFICES ASSUME SchedInv, Next PROVE SchedInv'
  OBVIOUS
<1>1. ASSUME NEW c \in Cpus, Scheduler(c) \/ timer(c) \/ Handler(c)
      PROVE  SchedInv'
  BY <1>1, SchedulerStep, SchedulerBackStep, TimerStep, ClockintrStep, WakeupStep,
     ClockReleaseStep, TrapStep DEF Scheduler, Handler
<1>2. ASSUME NEW p \in Procs, Switch(p)
      PROVE  SchedInv'
  BY <1>2, SwitchedToStep, SwitchedFromStep DEF Switch
<1>3. ASSUME NEW p \in Procs, Kernel(p)
      PROVE  SchedInv'
  BY <1>3, KillStep, SysretStep, SwitchedFromStep, AcquireStep, CheckStep, SleepStep,
     SleepReleaseStep, SwitchedToStep DEF Kernel
<1>4. ASSUME NEW p \in Procs, User(p)
      PROVE  SchedInv'
  BY <1>4, SyscallStep DEF User, sys_sleep, sys_kill
<1>. QED  BY <1>1, <1>2, <1>3, <1>4 DEF Next

(* The locks, the depth of push_off(), the interrupt enables and the       *)
(* states of the processes agree with the place of every thread, whatever  *)
(* CPU it is on; the panics of sched(), release() and pop_off() are never  *)
(* reached.                                                                *)
THEOREM SchedInvariant == Spec => []SchedInv
  BY InitStep, NextStep, StutterStep, PTL DEF Spec

(* sched(), release() and pop_off() never panic.                           *)
THEOREM NeverPanics == Spec => []NoPanic
<1>1. SchedInv => NoPanic
  BY DEF SchedInv
<1>. QED  BY <1>1, SchedInvariant, PTL

(* A kernel stack is used by one CPU at a time; a process that another CPU *)
(* can choose has left its stack, and so has a zombie.                     *)
THEOREM StackIsExclusive == Spec => []OneStack
<1>1. SchedInv => OneStack
  <2>. SUFFICES ASSUME SchedInv PROVE OneStack
    OBVIOUS
  <2>1. \A c, d \in Cpus : thr[c] # NoProc /\ thr[c] = thr[d] => c = d
    BY DEF SchedInv, CpuInv
  <2>2. ASSUME NEW p \in Procs, NEW c \in Cpus, thr[c] = p
        PROVE  state[p] = "RUNNING"
    BY <2>2, SchedFacts DEF SchedInv, CpuInv
  <2>3. \A p \in Procs : state[p] = "RUNNING" => pc[p] # "dead"
    BY DEF SchedInv, ThreadInv
  <2>. QED  BY <2>1, <2>2, <2>3 DEF OneStack
<1>. QED  BY <1>1, SchedInvariant, PTL

(* sleep() loses no wakeup: between ticks nobody sleeps whose interval is  *)
(* over.                                                                   *)
THEOREM WakeupsAreNotLost == Spec => []NoLostWakeup
<1>1. SchedInv => NoLostWakeup
  <2>. SUFFICES ASSUME SchedInv, tickslock = NoCpu PROVE NoLostWakeup
    BY DEF NoLostWakeup
  <2>1. \A c \in Cpus : ipc[c] # "wakeup"
    BY SchedFacts DEF SchedInv, TicksInv, Handling
  <2>. QED  BY <2>1 DEF SchedInv, NoLostWakeup, WakeInv
<1>. QED  BY <1>1, SchedInvariant, PTL

(* The interrupt enable follows a thread through sched() to whichever CPU  *)
(* it resumes on.                                                          *)
THEOREM EnableFollowsThread == Spec => []InterruptsFollowThread
<1>1. SchedInv => InterruptsFollowThread
  <2>. SUFFICES ASSUME SchedInv, NEW c \in Cpus, NEW p \in Procs, Runs(p, c),
                       pc[p] \in {"sys_sleep", "reacquire", "kill", "sysret"}
                PROVE  cpu[c].sie /\ cpu[c].noff = 0
    BY DEF InterruptsFollowThread
  <2>1. thr[c] = p /\ p # NoProc /\ ipc[c] = "none"
    BY SMTT(20), RunsFacts
  <2>2. Depth(c)
    BY DEF SchedInv, DepthInv
  <2>. QED  BY <2>1, <2>2 DEF Depth, Quiet, Interruptible, Handling
<1>. QED  BY <1>1, SchedInvariant, PTL
=============================================================================
