# A TLA+ model of xv6-riscv

This directory holds TLA+ modules that model the xv6 kernel (`src/kernel`), its shell,
its `malloc` (`src/user`) and the image builder's files (`src/mkfs`), TLC
configurations that check them on small instances, and theorems about them that
TLAPS proves for every value of the constants. `PROJECT.json` is the index: it
maps each definition to the lines it models and lists runs, mutants, findings,
hazards and theorems.

Run a check with `tlc -config LogCrash.cfg MCLog`, a proof with `tlapm LogProofs.tla`.

## 1. The system

xv6 is a small multi-processor Unix kernel. Its parts, from the bottom up:

| part | code | state | operations | talks to |
|---|---|---|---|---|
| spin locks | spinlock.c | holder, per-CPU `noff`, `intena` | acquire, release, push_off, pop_off | everyone |
| scheduler, sleep/wakeup | proc.c, swtch.S | `p->state`, `p->chan`, contexts | scheduler, sched, yield, sleep, wakeup | traps, locks |
| process life cycle | proc.c, sysproc.c | parent, pid, killed, xstate | fork, exit, wait, kill, reparent | scheduler, memory, files |
| traps | trap.c, kernelvec.S, trampoline.S | ticks | usertrap, kerneltrap, clockintr, devintr | scheduler, drivers |
| page allocator, virtual memory | kalloc.c, vm.c | free list, page tables | kalloc, kfree, walk, mappages, uvm*, copyin/copyout | processes, exec |
| exec | exec.c | the new image | exec, loadseg | memory, inodes |
| disk driver | virtio_disk.c | descriptors, two rings, `b->disk` | virtio_disk_rw, virtio_disk_intr | device, buffer cache |
| buffer cache, sleep locks | bio.c, sleeplock.c | blockno, valid, refcnt, LRU list | bread, bwrite, brelse, bpin, bunpin | disk, log, inodes |
| log | log.c | in-memory and on-disk header, outstanding, committing | begin_op, log_write, end_op, commit, recovery | buffer cache |
| inodes, directories, paths | fs.c | inode table, bitmap, dinodes | ialloc, iget, iput, readi, writei, dirlink, namex | log, buffer cache |
| files | file.c, sysfile.c | file table, per-process descriptors | open, dup, close, read, write, link, unlink | inodes, pipes, console |
| pipes | pipe.c | ring of bytes, two counters, two open flags | pipewrite, piperead, pipeclose | files, sleep/wakeup |
| console, UART | console.c, uart.c | input line buffer, output ring | consoleread, consolewrite, consoleintr, uartstart | interrupts |
| mkfs | mkfs.c | the image | iappend, balloc | inodes, log |
| shell | sh.c, init.c | command tree, descriptors, children | parsecmd, runcmd, main | system calls |
| heap of a program | umalloc.c | ring of free blocks | malloc, free, morecore | sbrk |
| other user programs | user/ | none shared | | system calls |

What makes it hard is not any one function but their interleaving. Every CPU may
run any of this code at once. Interrupts arrive between any two instructions of a
CPU with interrupts on. A process loses its CPU inside `sleep` and finds the world
changed. `kill` wakes sleepers that nobody meant to wake. The disk completes
requests late and out of order, and power may fail between two disk writes.
`hazards` in `PROJECT.json` lists the places where this bites, each with the
properties that would notice.

## 2. The modules

Conventions. Each process, CPU or handler has a program counter `pc`. A short
section under one spin lock is a single step that needs the lock free. A lock that
is held across steps has an explicit holder. A panic sets the variable `panic`
(and nothing happens afterwards), so `NoPanic` says no panic is reachable.
Local variables that are dead are reset, to keep the states few. Definitions whose
name has a suffix and whose comment begins with "Mutant" are wrong on purpose:
each is a plausible bug, and substituting it for the definition it is named after
must make TLC report the property it is paired with.

**Log** (log.c, with the parts of bio.c it relies on). A process calls `begin_op`,
`modify`, `log_write` and `end_op`; the last one out commits in the steps
`write_log`, `write_head`, `install_trans`, `erase`, `end_commit`, one per disk
write. `recycle` evicts any unpinned, unlocked block. `Crash` keeps only what is
on the disk, and a log or home block whose write it cuts short may hold anything
(`Torn`); the header fits one sector, so its write is atomic. Recovery (`read_head`,
`recover_install`, `recover_erase`) can itself crash.

One change of a block is not followed by `log_write`. When `either_copyin` fails,
`writei` releases the buffer with the bytes it has already copied (fs.c:522-525).
This is `copy_failed`, and it happens only to `DataBlocks`, the blocks with the
contents of files. Unless the header has the block anyway, the block is then in
`failed`: readers see the change until the buffer is recycled, and it never reaches
the disk by itself. A block becomes metadata only by way of `balloc`, which zeroes
it through the log, so metadata is not concerned.

**AtomicStore** is the promise: the durable image changes only by swallowing the
whole current image when no operation is in progress, except that a block in which
a copy failed (`Fail`) is left out, and may go back to its durable contents at any
time (`Revert`). The proofs are in **LogProofs**.

**Sched** (proc.c, spinlock.c, trap.c). Each CPU runs its scheduler loop slot by
slot, switches to a process and back; `p->lock` is handed over across `swtch`;
`noff` and `intena` are modelled per CPU. The one condition slept on is
`ticks`, by `sys_sleep` under `tickslock`, with the timer interrupt on CPU 0 as
the waker, and `kill`. The proofs are in **SchedProofs**.

**Proc** (proc.c, sysproc.c). The process table: `fork` in its three critical
sections, `exit` with reparenting, `wait` slot by slot under `wait_lock`, `kill`
slot by slot, `freeproc` and re-use of slots. A process that has just become
RUNNABLE, SLEEPING or ZOMBIE stays on its kernel stack until `swtch`. init's
program is `init`, the loop of user/init.c: it forks a shell, waits until it is the
shell that has ended, and forks again. When that `fork` or `wait` fails it calls
`exit(1)`, and `exit` panics with "init exiting". Any other process makes any
sequence of calls (`Program`). The proofs are in **ProcProofs**.

**Pipe** (pipe.c, the closing in file.c). Writers and readers byte by byte, with
counters modulo `WRAP`, failing copies, and `kill` at any moment. **Fifo** is the
promise: a bounded queue with two ends that close. The proofs are in **PipeProofs**.

**VirtioDisk** (virtio_disk.c) and **Bcache** (bio.c, sleeplock.c). Bcache extends
VirtioDisk, and its `bread` and `bwrite` run through the driver's steps. The
device is external: it takes chains from the avail ring in order, and completes
them in any order, at any time, also while the interrupt handler is in its loop.
Pinned buffers are the business of Log and do not occur here. The proofs are in
**BcacheLemmas** (the invariant, the arithmetic of the rings, reference counts),
**BcacheSteps** and **BcacheProofs** (the actions; one module, split because of its
length).

**Fs** (fs.c, sysfile.c). The inode table and the directories under the calls
creat, open, mkdir, mknod, link, unlink, chdir and close of several processes. An
in-memory inode is named by its number; a directory is a map from names to
numbers, with the number of blocks it has for them, `DIRENTS` entries each. A call is a sequence of steps, cut where it waits for a sleep lock or
where `itable.lock` is given up: `namex` goes one element at a time, and `iput`
is three steps, because another process can find the inode between them. `ialloc` may fail for
want of an inode. `dirlink` may fail for want of a block, and only where it needs
one: for the first entry of a new directory, or when the parent is full. The log is the
atomic store of **AtomicStore**: a crash finds the disk of a moment at which no
call was in progress, so `LinksCounted` is stated for those moments. **FileData** has
the inside of one file: `balloc`, `bfree`, `bmap`, `itrunc`, `readi`, `writei` are
operators on a record, composed by the loops of `fileread` and `filewrite` and
started from what `mkfs` has written. How many blocks `balloc` still finds is
open, so every allocation can be the one that fails.

**FileTable** (file.c, the descriptors in sysfile.c and proc.c, `pipealloc`). Files
with their reference counts, under open, pipe, dup, close, fork and exit. A section
under `ftable.lock` is a step; `fileclose` finishes with a copy of the entry after it
has given the lock up, while the entry may already be in use again. `exit` closes
one descriptor after the other. The proofs are in **FileTableProofs**.

**Memory** (kalloc.c, vm.c, exec.c, and the parts of fork, wait and sbrk in proc.c
that touch memory). Page tables of `LEVELS` levels with their own pages, the user
pages, trapframe and trampoline. `walk`, `mappages` and the `uvm` functions are
operators on a record, `fork`, `exec`, `sbrk` and `wait` are actions. The number of
pages the call may still get is open, so each allocation can fail and each error
path runs. Addresses wrap at `WRAP`, as 64-bit ones do, so that `exec`'s test for a
segment that wraps matters; `walk` panics above MAXVA.

**Console** (console.c, uart.c): readers, writers, the interrupt handler and the
device, with `cons.lock` and `uart_tx_lock`. **LineEditor** is its promise.

**Heap** (umalloc.c): headers at addresses, the ring, the search from `freep`,
coalescing in `free`, an `sbrk` that fails or that the program also calls itself.

**ShellParser** and **Shell** (sh.c, under init.c). The parser is a set of
recursive operators, one per function of the code, on the characters of a line.
Shell runs the tree it makes: `fork1`, `pipe`, `dup`, `close`, `open`, `exec`, `wait`
as atomic system calls on a table of processes, descriptors and pipes. init forks
the shell, reaps the orphans, forks the shell again when it has exited, and exits
(the kernel panics) when there is no slot for it.

The **MC…** modules make instances for TLC. **MCSleep** and **MCServices** hold several
parts that share no state. A variable `unit`, fixed by Init, says which part a
behaviour is about, and the variables of the others stay 0. Their properties
therefore say `unit = "…" => …`.

## 3. What is checked

| run | instance | shows |
|---|---|---|
| LogCrash | 2 processes, a block of metadata and one of file contents, 2 values | `ImplementsAtomicStore`, the inductive invariant `LogInv`, `NoPanic`, with crashes and failing copies anywhere |
| LogLive | 3 processes, room for one operation | `SleeperHasWaker`, `SleeperWakes`, `CommitEnds` |
| LogCapacity | log of LOGSIZE blocks as mkfs makes it | *violation*: finding (a) |
| Sleep | 2 processes on 2 CPUs; 3 processes and descriptors for one disk request | `OneStack`, `InterruptsFollowThread`, `NoPanic` of Sched; `NobodySleepsForEver` of both halves |
| SchedLive | 2 processes, 1 CPU | `EveryoneRuns`, `SleepEnds` |
| Proc | 3 slots, 4 pids, kill of pids 2 and 3 | `ProcessTree`, `FreedOffStack`, `NoMissedExit`, `OrphanReaped`, `KilledSleeperExits` |
| ProcKillZero | as Proc, kill of pid 0 | *violation*: finding (b) |
| Pipe | 2 writers, 2 killable readers | `ImplementsFifo`, `ReaderSleepsOnEmpty`, `WriterSleepsOnFull`, `ZeroIsEndOfFile`, `FreedIsUnused` |
| PipeKilled | a killable writer | *violation*: finding (c) |
| Bcache | 2 processes, 3 blocks, 2 buffers, 2 requests in flight | `CacheCoherent`, `SleeperHasInterrupt`, and no panic: nothing can happen after one, so it would be a deadlock |
| Services | see below | the file system above the log, memory, console, heap, shell |
| FsOrphan | 2 processes that make and remove a file and make a directory | *violation*: finding (d) |

Services, part by part:

| part | instance | properties |
|---|---|---|
| Fs (twice) | 2 processes, 3 inodes, 2 names; calls with link, calls with chdir | `InodeTable` (reference counts are exact, an unlocked inode is as on disk), `IputNeverBlocks`, `LinksCounted`, `NoPanic`, and no deadlock among the sleep locks |
| FileData | 5 blocks of 2 cells, 2 direct blocks, an indirect one | `Conserved` (no block lost or used twice), `WritesExactly`, `ChunkFitsLog`, `NoPanic` |
| FileTable | 2 processes, 3 files, 2 descriptors each, 2 pages for pipes | `FilesCounted` (counts are exact, what a file stands for is closed once), `NoPanic` |
| Memory | 2 slots, 17 pages, 3-level tables, six programs | `Conserved` (no page lost or used twice), `ImageMapped`, `FailureChangesNothing`, `NoPanic` |
| Console | 2 readers; 2 writers | `ConsoleSleepers`, `ImplementsLineEditor` |
| Heap | 9 units, requests of up to 4 | `Conserved` (blocks and free ring tile the heap) |
| Shell | 5 process slots, 2 pipes, lists, pipelines, subshell, background, a syntax error | `Wired`, `PromptAfterCommand`, `SomebodyRuns` |
| ShellParser | every tree of up to 3 operators | `ReadBack`: the text of a tree is read as that tree |

The modules with processes also state a type invariant `TypeOK`. For Log, Sched,
Proc, Pipe, Bcache and FileTable it is a part of the inductive invariant and is proved.

Bounds. `LogCrash`: two processes are enough for group commit and for a process
that is kept waiting; two blocks for a crash with one of them installed; the log
has room for both operations. `Sleep`: two CPUs are enough for one to wake or
kill what the other is putting to sleep; `N` is the number of ticks a sleep
waits; the disk half has one value, because it asks nothing about contents.
`Proc`: `NPROC` slots and `MAXPID` pids in all, so that a slot is used
again; with three slots a zombie is left to init by a child of init only. `Pipe`:
`PIPESIZE` 2 and `WRAP` 4 make the counters wrap after two fills; `MAXN` is the
longest request. `Bcache`: fewer buffers than blocks, so buffers are recycled;
6 descriptors hold two requests, and `WRAP` equals `NUM`, so indices wrap all the
time. `Fs`: with three inodes and the root always in use, an inode number is
freed and allocated again while another process still looks at it, and inodes
run out; `DIRENTS` 3 leaves the root one vacant entry, so that both a vacant entry and
a full directory occur; `MaxNlink` bounds the link counts `link` is tried on. `FileData`: a write
of 7 cells takes both direct blocks and the indirect one, and a second goes
beyond the largest file; `BPB` 1 gives each block a bitmap block of its own, the worst case
for `ChunkFitsLog`. `FileTable`: three files and two descriptors let
open and pipe fail at each of their allocations. `Memory`: 17 pages are too few for two images of any size,
3 entries per table page make every level of a table matter; `WRAP` 64 lies beyond
MAXVA; `MaxGrow` and `MaxArgs` bound the arguments of sbrk and exec. `Console`: rings of 2 and 1 fill at
once, and `WRAP` 4 makes the counters wrap. `Heap`: `LIMIT` leaves room for more than one call of
`morecore`. `Shell`: five slots are
too few for the longest pipeline typed when the commands before it still run, so
fork fails in the shell and in init; two pipes are what the pipeline needs; each
line of a session is typed once.

Symmetry (of processes and of blocks) is used only in runs without liveness
properties.

Fairness. `Log`: a committing process, recovery, and an operation in progress go
on (weak fairness: the scheduler runs every runnable process), and `end_op` gets
`log.lock` though others take it too (strong fairness). Nobody has to call
`begin_op`. `Sched`: every CPU, and every process on one, goes on, and
strong fairness stands for a spin lock that is not unfair for ever. The timer
ticks for ever. `Proc`: the kernel code of a process goes on and gets the locks it
asks for (strong fairness). User code need not make another call, except init's,
which makes the next call of its loop (weak fairness of `init`, user/init.c:28-52).
init may exit, so `OrphanReaped` and `KilledSleeperExits` allow the panic
"init exiting" as the other outcome. "Every pipe write
ends" is not claimed: with two writers the code allows starvation. In Services
"nobody is forgotten" is stated as an invariant (who sleeps has somebody who will
wake it) and as absence of deadlock, so it needs no fairness.

## 4. Findings

(a) `kernel/param.h:10` calls LOGSIZE "max data blocks in on-disk log", and
`begin_op` admits operations up to LOGSIZE blocks. mkfs makes the log LOGSIZE
blocks with the header, and `log_write` panics at LOGSIZE - 1 (log.c:220).

(b) `kill(0)` matches a free slot, since a free slot has pid 0. The flag survives
`allocproc`, and the next process in the slot exits though nobody killed it
(proc.c:592).

(c) `pipewrite` tests `killed` before every byte and returns from inside the loop
without `wakeup(&pi->nread)`. A reader stays asleep on a pipe that holds data
(pipe.c:84).

(d) `iput` tests once whether it holds the last reference. A process that frees
an inode has given up its lock and not yet its reference when a second one
allocates the same inode for a directory, finds no block for its entries and puts
it again: it sees two references and leaves it. The first then drops the last
reference of an inode without links and does not free it (fs.c:360), which
fs.c:332 says it does.

Noticed while modelling, outside the instances that are checked:

* `..` of a removed directory still names its parent. When that has been removed
  too and its inode is free, `open("..")` reaches the panic "ilock: no type".
  The calls `DeepCalls` of MCFs show it (`NoPanic` is violated); the calls of the
  run Services leave it out.
* `create` and `link` succeed in a directory that has been removed while they
  waited for its lock; the new entry is unreachable and its inode stays.
* mkfs rounds the size of the root directory up to a whole block, and by one
  block too many when the entries fill their blocks exactly (mkfs.c:166). Reading
  such a directory allocates the missing block, outside a transaction, and
  `log_write` panics. The images in `Made` do not have such a directory.
* `malloc` passes `nu * sizeof(Header)` to an `int` parameter of `sbrk`.
* `consoleread` and `piperead` lose the byte whose `copyout` fails.
* In `a > x > y` the redirections are opened from the last to the first, and the
  first one is in effect.

## 5. What is proved

TLC answers for one small instance. The theorems below hold for every value of the
constants that meets the assumption of the module (`LogAssumption`,
`SchedAssumption`, `ProcAssumption`, `PipeAssumption`, `DiskAssumption` and
`CacheAssumption`; `Sizes` for FileTable): any number of processes, CPUs, buffers, blocks and descriptors,
any size of log, pipe and ring. The assumptions say that sizes are positive, that
the model value for "none" is none of the others, and that a counter wraps at a
multiple of the ring it indexes, as 2^16 and 2^32 are multiples of 8 and 512.

Each safety property is proved in the same way. It is not inductive as it stands,
so there is an invariant that says of each place in the code what is true there;
one lemma per action shows that the action keeps it, and the property follows. Each
of these invariants was first checked by TLC on the instances named here.

**Log** (`LogInv`, checked in run LogCrash).

* `LogInvariant`, `LogTypes`: for each position of the committing process, how the
  in-memory header, the on-disk header, the log blocks, the home blocks, the cached
  blocks and the pins agree. It is needed because whether a crash exposes half a
  transaction depends on what the log blocks held when the header was written. A
  conjunct of its own (`FailedInv`) says that a block with a failed copy is cached,
  unlocked and not in the header, so no commit copies it by accident.
* `NoOrphanSleeper`: who sleeps in `begin_op` has an operation or a commit in
  progress that will wake it.
* `LogRefinesAtomicStore`: `Spec => Store!Spec`. The durable image is what recovery
  would make of the disk; `write_head` is the step that commits. Every other step
  stutters or maps to one abstract step.
* `ReservationCovers` (`RoomInv`): at every moment the header has room for what the
  operations in progress may still write of the MAXOPBLOCKS each of them reserved.
  Needed: the entries of the header are counted against what each operation has
  written, and absorption only makes them fewer.
* `PanicMeansFullLog` (`PanicsWhenFull`): the one panic within reach is that of a full
  log, and only when the on-disk log has no block for another entry, or the header
  is full and the block is one it already names. Finding (a) is the first case.

**Sched** (`SchedInv`; 2 processes on 2 CPUs with `N` 2, 179,024 states; 3 on 1 CPU
and 3 on 2 CPUs with `N` 1, 128,244 and 6,443,980 states).

* `SchedInvariant`: who holds `p->lock` across `swtch`, who holds `tickslock`, how
  deep `push_off` is nested on each CPU, and where the thread of a process in each
  state has stopped.
* `NeverPanics`: none of the panics of `sched`, `release` and `pop_off` is reached.
  This is why the depth of `push_off` is part of the invariant.
* `StackIsExclusive` (`OneStack`): no two CPUs are on one kernel stack, and nobody
  is on the stack of a process that a CPU may choose.
* `WakeupsAreNotLost`: between ticks nobody sleeps whose interval is over. Needed: a
  process on its way to sleep has time left, or `wakeup` has not passed its slot.
* `EnableFollowsThread`: `intena` goes with the thread, not with the CPU.

**Proc** (`ProcInv`; 3 and 4 slots).

* `ProcInvariant`, `ParentsFormTree` (`ProcessTree`). That the parents form a tree is
  stated in the invariant without paths: every set of processes other than init has
  a member whose parent is outside it.
* `SlotFreedOffStack`, `ExitIsNoticed`: `wait` frees no stack in use, and a process
  asleep in `wait` has no zombie child. Needed: a zombie lies ahead of the scan of
  its parent, and a child about to be a zombie has woken its parent.
* `KillHitsItsProcess`: `killed` comes from a `kill` of the pid in the slot, if
  nobody calls `kill(0)`. Finding (b) shows that the hypothesis is needed.

**Pipe** (`PipeInv`; the instance of run Pipe).

* `PipeInvariant`, `WritersSleepOnFull`, `ZeroOnlyAtEndOfFile`, `FreedWhenUnused`.
* `ReadersSleepOnEmpty`, if no writer is killed. Finding (c) shows that the
  hypothesis is needed.
* `PipeImplementsFifo`: `Spec => Queue!Spec`, with the contents of the ring between
  `nread` and `nwrite` as the queue, also when the counters wrap.

**Bcache** with VirtioDisk (`CacheInv`; 2 processes, 3 blocks, 2 buffers, 6
descriptors, 766,734 states; 3 processes, 3 buffers, 4 descriptors and `WRAP` 8,
505,373 states; 1 buffer, so that `bget` panics, 6,457 states).

* `CacheInvariant`: reference counts are the numbers of users, a sleep lock has the
  holder it should, descriptor chains are disjoint and cover what is not free, each
  request is in exactly one of the avail ring, the device, the used ring or done,
  and valid buffers and the disk agree but for writes under way.
* `LockedBlockIsCurrent` (`CacheCoherent`): who has a block locked has its last
  contents, and nobody else has it.
* `NoCompletionIsLost` (`SleeperHasInterrupt`): a process asleep on its request, or
  for descriptors, has something still to come that wakes it.
* `CachePanicsOnlyWhenFull` (`PanicMeansAllBusy`, checked with 3 processes and 2 buffers,
  23,347 states): `bget` panics only when every buffer is in the hands of a process,
  so no reference leaks; `bwrite`, `brelse` and the driver never panic.

**FileTable** (`Inv`; the instance of run Services, 163,851 states; proved for finitely
many processes and any NFILE and NOFILE).

* `FilesAlwaysCounted`: `f->ref` is the number of pointers to `f`, in descriptors and in
  the local variables of calls in progress, and what a file stands for (an end of a
  pipe, a reference to an inode) belongs to one file, or to the copy that one
  `fileclose` works on. Needed: which places can hold a pointer at each point of each
  call. Each action then moves, adds or removes one pointer.
* `FilesNeverPanic`: `filedup` and `fileclose` are never called on a free file.

Only model-checked:

* Liveness (`SleeperWakes`, `CommitEnds`, `EveryoneRuns`, `SleepEnds`, `OrphanReaped`,
  `KilledSleeperExits`): TLAPS does not reason about fairness or ENABLED.
* What the recursive definitions of ShellParser, FileData and Memory compute: that
  needs induction over data, whose theorems the provers cannot instantiate.
* The parts of run Services: Fs, FileData, Memory, Console, Heap, Shell.

## 6. What is not modelled

* Boot, register saving, page-table switching and CSR set-up, the PLIC registers:
  machine code or straight-line initialisation without a state the properties
  tell apart.
* String routines, argument fetching (`syscall.c`), the formatting of `printf`:
  pure, sequential, no shared state.
* The kernel page table, built once at boot, and the permission bits of user pages.
* `fstat`, which only reads.
* A full inode table (`iget: no inodes`, NINODE 50): the instances have fewer inodes
  than table entries.
* A disk that reports an error (the driver panics), and `ramdisk.c`, which is not
  part of the build.
* The other user programs (`usertests.c`, `grind.c`, `ls.c`, …): they are sequences of
  system calls, and the models allow every sequence of the calls they have.
