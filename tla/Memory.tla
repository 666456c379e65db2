------------------------------- MODULE Memory -------------------------------
(***************************************************************************)
(* Physical pages (kernel/kalloc.c), user page tables (kernel/vm.c) and    *)
(* the system calls that build, copy, resize and free the image of a       *)
(* process: fork, exec, sbrk, exit (kernel/proc.c, exec.c, sysfile.c).     *)
(*                                                                         *)
(* A call is one step: the page tables of two processes have nothing in    *)
(* common, and all that a call sees of the others is how many pages they   *)
(* leave it.  So a call may find any number of the free pages (Avail); an  *)
(* allocation that fails may be any of those it makes.                     *)
(*                                                                         *)
(* A page is known by what it is used for, and the free ones are counted.  *)
(* A page table has nodes, the pages of the table at every level, and an   *)
(* entry for each virtual page.  Of the bytes of a user page the model     *)
(* keeps whether they are junk, zero or written.  The functions of vm.c    *)
(* are operators on a record s: the pages the call can still get, the page *)
(* table it works on and what the last function returned.                  *)
(***************************************************************************)
EXTENDS Integers, FiniteSets, FiniteSetsExt, Sequences, SequencesExt

CONSTANTS Slots,   \* the process table
          NPAGES,  \* pages between end and PHYSTOP
          PGSIZE,  \* bytes in a page
          LEVELS,  \* levels of a page table (3 in Sv39)
          NPTE,    \* entries in a page of a page table (512)
          WRAP,    \* addresses are modulo this (2^64)
          Images,  \* the programs that can be executed: sequences of segments
          MaxArgs, \* bound: arguments of exec()
          MaxGrow  \* bound: the argument of sbrk()

Null == 0
MAXVA == PGSIZE * NPTE ^ LEVELS
TRAMPOLINE == MAXVA - PGSIZE
TRAPFRAME == TRAMPOLINE - PGSIZE
\* Mutant: rounds down.
PGROUNDUP_down(a) == (a \div PGSIZE) * PGSIZE

PGROUNDUP(a) == ((a + PGSIZE - 1) \div PGSIZE) * PGSIZE
VPN(va) == va \div PGSIZE

\* The entry of a virtual page: invalid, or with PTE_U or not.
Leaf(data, user) == [valid |-> TRUE, user |-> user, data |-> data]
NoPTE == [valid |-> FALSE, user |-> FALSE, data |-> "none"]
\* The page of the table at level that an address goes through.
Node(level, va) == <<level, VPN(va) \div (NPTE ^ (level + 1))>>
NoTable == [nodes |-> {}, pte |-> [v \in 0 .. VPN(TRAMPOLINE) |-> NoPTE]]
Unused == [used |-> FALSE, pagetable |-> NoTable, sz |-> 0]

VARIABLES
    nfree, \* pages on kmem.freelist
    proc,  \* each process: its page table and sz; in use, it has a trapframe
    ret,   \* what the last system call returned
    panic

vars == <<nfree, proc, ret, panic>>

-----------------------------------------------------------------------------
Ret(s, v) == [s EXCEPT !.ret = v]
Stop(s, why) == [s EXCEPT !.panic = why]
Failed(s) == s.ret = Null \/ s.panic # "none"

kalloc(s) == IF s.avail = 0 THEN Ret(s, Null) ELSE [s EXCEPT !.avail = @ - 1, !.ret = 1]
kfree(s, n) == [s EXCEPT !.avail = @ + n]

\* walk(): down the levels, with pages for missing tables when alloc is set;
\* above MAXVA there are none.
AddNode(k, node) == IF k.ret = Null THEN k ELSE [k EXCEPT !.pt.nodes = @ \cup {node}]
walk(s, va, alloc) ==
    LET down(t, level) ==
            IF t.ret = Null \/ Node(level, va) \in t.pt.nodes THEN t
            ELSE IF alloc THEN AddNode(kalloc(t), Node(level, va))
            ELSE Ret(t, Null)
    IN  IF va >= MAXVA THEN Stop(s, "walk")
        ELSE FoldLeft(down, Ret(s, 1), [l \in 1 .. LEVELS - 1 |-> LEVELS - 1 - l])

walkaddr(pt, va) == va < MAXVA /\ pt.pte[VPN(va)].valid /\ pt.pte[VPN(va)].user

\* mappages() of one page, as all its callers but kvmmap() use it.
SetPTE(s, va, leaf) ==
    IF Failed(s) THEN s
    ELSE IF s.pt.pte[VPN(va)].valid THEN Stop(s, "mappages: remap")
    ELSE [s EXCEPT !.pt.pte[VPN(va)] = leaf]
mappages(s, va, leaf) == SetPTE(walk(s, va, TRUE), va, leaf)

\* Page addresses from a, which is one, up to b.
Steps(a, b) == [i \in 1 .. (PGROUNDUP(b) - a) \div PGSIZE |-> a + (i - 1) * PGSIZE]

uvmunmap(s, va, end, do_free) ==
    LET unmap(t, a) ==
            IF t.panic # "none" THEN t
            ELSE IF a >= MAXVA THEN Stop(t, "walk")
            ELSE IF ~t.pt.pte[VPN(a)].valid THEN Stop(t, "uvmunmap: not mapped")
            ELSE [kfree(t, IF do_free THEN 1 ELSE 0) EXCEPT !.pt.pte[VPN(a)] = NoPTE]
    IN  FoldLeft(unmap, s, Steps(va, end))

uvmdealloc(s, oldsz, newsz) ==
    IF newsz >= oldsz THEN Ret(s, oldsz)
    ELSE Ret(uvmunmap(s, PGROUNDUP(newsz), oldsz, TRUE), newsz)

\* Mutant: the page that could not be mapped is not freed.
FreeUnmapped_not(s) == s

\* uvmalloc() and uvmcopy(): a new page for address a.  When there is none, or
\* none for the page table, the pages from address first on are given back.
FreeUnmapped(s) == IF s.ret = Null THEN kfree(s, 1) ELSE s
MapNew(k, a, leaf) == IF k.ret = Null THEN k ELSE FreeUnmapped(mappages(k, a, leaf))
\* Mutant: the pages mapped so far stay.
Undo_not(s, first, a) == s

Undo(s, first, a) == IF s.ret = Null THEN Ret(uvmunmap(s, first, a, TRUE), Null) ELSE s
AddPage(s, first, a, leaf) ==
    IF Failed(s) THEN s ELSE Undo(MapNew(kalloc(s), a, leaf), first, a)
Returned(s, v) == IF s.ret = Null THEN s ELSE Ret(s, v)

uvmalloc(s, oldsz, newsz) ==
    LET grow(t, a) == AddPage(t, PGROUNDUP(oldsz), a, Leaf("zero", TRUE))
    IN  IF newsz < oldsz THEN Ret(s, oldsz)
        ELSE Returned(FoldLeft(grow, Ret(s, 1), Steps(PGROUNDUP(oldsz), newsz)), newsz)

uvmcopy(s, old, sz) ==
    LET copy(t, a) == IF ~old.pte[VPN(a)].valid THEN Stop(t, "uvmcopy: page not present")
                      ELSE AddPage(t, 0, a, old.pte[VPN(a)])
    IN  FoldLeft(copy, s, Steps(0, sz))

\* uvmclear(): the page stays mapped, but not for the user.
uvmclear(s, va) == [s EXCEPT !.pt.pte[VPN(va)].user = FALSE]

freewalk(s) ==
    IF s.panic # "none" THEN s
    ELSE IF \E v \in DOMAIN s.pt.pte : s.pt.pte[v].valid THEN Stop(s, "freewalk: leaf")
    ELSE [kfree(s, Cardinality(s.pt.nodes)) EXCEPT !.pt = NoTable]

uvmfree(s, sz) == freewalk(uvmunmap(s, 0, sz, TRUE))

\* copyout(), copyin() and copyinstr() go page by page and fail at the first
\* that is not the user's.
VPNs(va, len) == VPN(va) .. VPN(va + len - 1)
copies(pt, va, len) == \A v \in VPNs(va, len) : walkaddr(pt, v * PGSIZE)
copyout(s, va, len) ==
    IF ~copies(s.pt, va, len) THEN Ret(s, Null)
    ELSE [Ret(s, 1) EXCEPT !.pt.pte = [v \in DOMAIN s.pt.pte |->
            IF v \in VPNs(va, len) THEN Leaf("written", TRUE) ELSE s.pt.pte[v]]]

-----------------------------------------------------------------------------
\* proc_pagetable(): the root, the trampoline, the trapframe.
uvmcreate(s) == IF s.ret = Null THEN s
                ELSE [s EXCEPT !.pt = [NoTable EXCEPT !.nodes = {Node(LEVELS - 1, 0)}]]
MapTrampoline(s) == IF s.ret = Null THEN s
                    ELSE mappages(s, TRAMPOLINE, Leaf("trampoline", FALSE))
MapTrapframe(s) == IF s.ret = Null THEN s
                   ELSE mappages(s, TRAPFRAME, Leaf("trapframe", FALSE))
UnmapTrampoline(s) == IF s.pt.pte[VPN(TRAMPOLINE)].valid
                      THEN uvmunmap(s, TRAMPOLINE, MAXVA, FALSE) ELSE s
CheckTable(s) == IF s.ret = Null THEN Ret(uvmfree(UnmapTrampoline(s), 0), Null) ELSE s
proc_pagetable(s) ==
    IF Failed(s) THEN s ELSE CheckTable(MapTrapframe(MapTrampoline(uvmcreate(kalloc(s)))))

proc_freepagetable(s, pt, sz) ==
    uvmfree(uvmunmap(uvmunmap([s EXCEPT !.pt = pt], TRAMPOLINE, MAXVA, FALSE),
                     TRAPFRAME, TRAMPOLINE, FALSE), sz)

\* freeproc(): the trapframe, when there is one, and the page table.
FreeTable(s, pt, sz) == IF pt = NoTable THEN s ELSE proc_freepagetable(s, pt, sz)
freeproc(s, trapframe, pt, sz) == FreeTable(kfree(s, IF trapframe THEN 1 ELSE 0), pt, sz)

\* allocproc(): s.trapframe says that the trapframe has been allocated.
TakeTrapframe(k) == [k EXCEPT !.trapframe = k.ret # Null]
CheckProc(s) == IF s.ret = Null THEN Ret(freeproc(s, s.trapframe, s.pt, 0), Null) ELSE s
allocproc(s) == proc_pagetable(TakeTrapframe(kalloc(s)))

\* What a system call starts with when it finds k of the free pages, and what
\* it leaves.
Call(k) == [avail |-> k, pt |-> NoTable, ret |-> 1, panic |-> "none", sz |-> 0,
            args |-> 0, trapframe |-> FALSE]
Avail == 0 .. nfree
Commit(k, s) == /\ nfree' = nfree - k + s.avail
                /\ panic' = s.panic
                /\ ret' = IF s.ret = Null THEN "failed" ELSE "ok"
\* Process p has the page table and size that s has, if s did not fail.
Become(p, s, sz) ==
    proc' = IF s.ret = Null THEN proc
            ELSE [proc EXCEPT ![p] = [used |-> TRUE, pagetable |-> s.pt, sz |-> sz]]

\* fork(); freeproc() after a failed allocproc() or uvmcopy().
forked(s, k, q, sz) == Commit(k, s) /\ Become(q, s, sz)
fork(p) ==
    \E q \in Slots, k \in Avail :
        /\ ~proc[q].used
        /\ forked(CheckProc(uvmcopy(allocproc(Call(k)), proc[p].pagetable, proc[p].sz)),
                  k, q, proc[p].sz)

\* wait() frees a zombie; the first process never exits.
wait(p) ==
    /\ p # Min(Slots)
    /\ Commit(0, freeproc(Call(0), TRUE, proc[p].pagetable, proc[p].sz))
    /\ proc' = [proc EXCEPT ![p] = Unused]

\* sbrk(n).  Below zero sz + n wraps to a size that is larger than sz.
resize(s, sz, n) ==
    CASE n > 0 -> uvmalloc(s, sz, sz + n)
      [] n < 0 /\ sz + n >= 0 -> uvmdealloc(s, sz, sz + n)
      [] OTHER -> Ret(s, sz)
grown(s, n, k, p) ==
    LET ok == n <= 0 \/ s.ret # Null
    IN  /\ Commit(k, Ret(s, IF ok THEN 1 ELSE Null))
        /\ proc' = [proc EXCEPT ![p].pagetable = s.pt, ![p].sz = IF ok THEN s.ret ELSE @]
growproc(p) ==
    \E n \in -MaxGrow .. MaxGrow, k \in Avail :
        grown(resize([Call(k) EXCEPT !.pt = proc[p].pagetable], proc[p].sz, n), n, k, p)

\* sys_exec(): a page for each argument string, all of them freed again.
CountArg(k) == IF k.ret = Null THEN k ELSE [k EXCEPT !.args = @ + 1]
Arguments(s, n) ==
    FoldLeft(LAMBDA t, i : IF t.ret = Null THEN t ELSE CountArg(kalloc(t)), s, [i \in 1 .. n |-> i])

\* loadseg(): what is read from the file goes to pages that are there.
loadseg(s, ph) ==
    LET load(t, a) == IF ~walkaddr(t.pt, a) THEN Stop(t, "loadseg: address should exist")
                      ELSE [t EXCEPT !.pt.pte[VPN(a)].data = "written"]
    IN  IF Failed(s) THEN s
        ELSE Ret(FoldLeft(load, [s EXCEPT !.sz = s.ret],
                          Steps(ph.vaddr, ph.vaddr + ph.filesz)), IF ph.reads THEN 1 ELSE Null)

\* exec(): a segment of the program; s.sz is the size so far.
segment(s, ph) ==
    LET end == (ph.vaddr + ph.memsz) % WRAP
    IN  IF Failed(s) THEN s
        ELSE IF ph.memsz < ph.filesz \/ end < ph.vaddr \/ ph.vaddr % PGSIZE # 0
        THEN Ret(s, Null)
        ELSE loadseg(uvmalloc(s, s.sz, end), ph)

\* exec(): two pages above the program, the lower one out of the user's reach,
\* and the arguments on the upper one when they fit.
Stack(s) == IF Failed(s) THEN s
            ELSE uvmalloc([s EXCEPT !.sz = PGROUNDUP(@)], PGROUNDUP(s.sz),
                          PGROUNDUP(s.sz) + 2 * PGSIZE)
Push(s, fits) ==
    IF Failed(s) THEN s
    ELSE IF fits THEN copyout([uvmclear(s, s.sz) EXCEPT !.sz = s.ret], s.sz + PGSIZE, PGSIZE)
    ELSE Ret([uvmclear(s, s.sz) EXCEPT !.sz = s.ret], Null)

\* exec(): the new image is built beside the old one; a failure frees the new
\* one, if it has come to that, and success the old one.
FreeImage(s, old) == IF s.ret = Null THEN FreeTable(s, s.pt, s.sz)
                     ELSE proc_freepagetable(s, old.pagetable, old.sz)
executed(s, k, p) == /\ Commit(k, FreeImage(kfree(s, s.args), proc[p]))
                     /\ Become(p, s, s.sz)
exec(p) ==
    \E image \in Images, n \in 0 .. MaxArgs, fits \in BOOLEAN, k \in Avail :
        executed(Push(Stack(FoldLeft(segment, proc_pagetable(Arguments(Call(k), n)), image)), fits),
                 k, p)

\* userinit(): the first process, with initcode in its one page.
Booted(s) ==
    /\ nfree = s.avail /\ panic = s.panic /\ ret = "ok"
    /\ proc = [p \in Slots |-> IF p # Min(Slots) THEN Unused
                   ELSE [used |-> TRUE, pagetable |-> s.pt, sz |-> PGSIZE]]
uvmfirst(s) == AddPage(s, 0, 0, Leaf("written", TRUE))
Init == Booted(uvmfirst(allocproc(Call(NPAGES))))

Next ==
    /\ panic = "none"
    /\ \E p \in Slots : proc[p].used /\ (fork(p) \/ wait(p) \/ growproc(p) \/ exec(p))

Spec == Init /\ [][Next]_vars

-----------------------------------------------------------------------------
Memory(pt) == {v \in DOMAIN pt.pte : pt.pte[v].valid /\ v < VPN(TRAPFRAME)}
PagesOf(p) == IF ~p.used THEN 0
              ELSE 1 + Cardinality(p.pagetable.nodes) + Cardinality(Memory(p.pagetable))

\* Every page is either free or in use in one place, as a trapframe, a page of
\* a page table or a page of user memory: no failure on the way through fork,
\* exec or sbrk loses a page or frees one twice (kalloc.c, vm.c, exec.c).
PagesConserved ==
    nfree + MapThenSumSet(LAMBDA p : PagesOf(proc[p]), Slots) = NPAGES

\* A process maps the pages below sz, the trampoline and its trapframe, and
\* nothing else, and none of them holds junk; so the tests of copyin(),
\* copyout() and copyinstr() let through nothing but its own memory, and all of
\* it except the guard page (vm.c: walkaddr; exec.c).
ImageMapped == \A p \in Slots : proc[p].used =>
    LET pt == proc[p].pagetable
    IN  /\ Memory(pt) = {v \in DOMAIN pt.pte : v * PGSIZE < proc[p].sz}
        /\ pt.pte[VPN(TRAMPOLINE)] = Leaf("trampoline", FALSE)
        /\ pt.pte[VPN(TRAPFRAME)] = Leaf("trapframe", FALSE)
        /\ \A v \in Memory(pt) : pt.pte[v].data \in {"zero", "written"}
        /\ Cardinality({v \in Memory(pt) : ~pt.pte[v].user}) <= 1

\* A system call that fails changes no image: sbrk() gives back what it had
\* taken, and exec() returns to the program that called it.
FailureStep ==
    ret' = "failed" => \A p \in Slots :
        /\ proc'[p].used = proc[p].used /\ proc'[p].sz = proc[p].sz
        /\ proc'[p].pagetable.pte = proc[p].pagetable.pte

\* None of the panics of vm.c is reached.
NoPanic == panic = "none"
=============================================================================
