-------------------------------- MODULE Heap --------------------------------
(***************************************************************************)
(* malloc() and free() (user/umalloc.c): a ring of free blocks in address  *)
(* order that starts at the static header base.  Addresses count headers   *)
(* (units); base is at 0, below every block of the heap.  ptr and size are *)
(* the fields of the headers.  The program asks for blocks of 1..MaxUnits  *)
(* units, header included, frees what it holds, and may call sbrk() itself *)
(* between two calls, so the heap can have gaps.                           *)
(***************************************************************************)
EXTENDS Integers, FiniteSets, FiniteSetsExt

CONSTANTS
    LIMIT,       \* the address sbrk() cannot go beyond
    CORE,        \* the units morecore() asks for at least (4096 in the code)
    MaxUnits

VARIABLES
    brk,         \* the end of the process's memory
    ptr, size,   \* the headers, at the addresses that hold one
    freep,       \* where the next search begins
    ready,       \* whether freep is set: it is null before the first call
    held,        \* the headers of the blocks the program holds
    gaps         \* units the program took with sbrk() itself

vars == <<brk, ptr, size, freep, ready, held, gaps>>

base == 0
Addr == 0..LIMIT
Null == -1

Heap == [brk |-> brk, ptr |-> ptr, size |-> size, freep |-> freep, ret |-> Null]

-----------------------------------------------------------------------------

RECURSIVE place(_, _, _)
\* free()'s loop: the free block after which bp belongs.
place(h, p, bp) ==
    IF \/ p < bp /\ bp < h.ptr[p]
       \/ p >= h.ptr[p] /\ (p < bp \/ bp < h.ptr[p])
    THEN p ELSE place(h, h.ptr[p], bp)

JoinUpper(h, p, bp) ==
    IF bp + h.size[bp] = h.ptr[p]
    THEN [h EXCEPT !.size[bp] = @ + h.size[h.ptr[p]], !.ptr[bp] = h.ptr[h.ptr[p]]]
    ELSE [h EXCEPT !.ptr[bp] = h.ptr[p]]

JoinLower(h, p, bp) ==
    IF p + h.size[p] = bp
    THEN [h EXCEPT !.size[p] = @ + h.size[bp], !.ptr[p] = h.ptr[bp], !.freep = p]
    ELSE [h EXCEPT !.ptr[p] = bp, !.freep = p]

Insert(h, p, bp) == JoinLower(JoinUpper(h, p, bp), p, bp)

free(h, bp) == Insert(h, place(h, h.freep, bp), bp)

Core(h, nu) ==
    IF h.brk + nu > LIMIT THEN [h EXCEPT !.ret = Null]
    ELSE [free([h EXCEPT !.brk = @ + nu, !.size[h.brk] = nu], h.brk) EXCEPT !.ret = 1]

morecore(h, nu) == Core(h, Max({nu, CORE}))

Carve(h, prevp, p, nunits) ==
    IF h.size[p] = nunits
    THEN [h EXCEPT !.ptr[prevp] = h.ptr[p], !.freep = prevp, !.ret = p]
    ELSE [h EXCEPT !.size[p] = @ - nunits, !.size[p + h.size[p] - nunits] = nunits,
                   !.freep = prevp, !.ret = p + h.size[p] - nunits]

RECURSIVE search(_, _, _, _)
RECURSIVE grown(_, _)
\* malloc()'s loop.
search(h, prevp, p, nunits) ==
    CASE h.size[p] >= nunits -> Carve(h, prevp, p, nunits)
      [] h.size[p] < nunits /\ p # h.freep -> search(h, p, h.ptr[p], nunits)
      [] h.size[p] < nunits /\ p = h.freep -> grown(morecore(h, nunits), nunits)

grown(h, nunits) ==
    IF h.ret = Null THEN h ELSE search(h, h.freep, h.ptr[h.freep], nunits)

FirstUse(h) == IF ready THEN h ELSE [h EXCEPT !.ptr[base] = base, !.size[base] = 0, !.freep = base]

Search(h, nunits) == search(h, h.freep, h.ptr[h.freep], nunits)

-----------------------------------------------------------------------------

Init ==
    /\ brk = 1 /\ freep = base /\ ready = FALSE
    /\ ptr = [a \in Addr |-> 0] /\ size = [a \in Addr |-> 0]
    /\ held = {} /\ gaps = {}

RECURSIVE reach(_, _, _)
reach(h, a, seen) == IF a \in seen THEN seen ELSE reach(h, h.ptr[a], seen \union {a})

\* The free blocks.
ring(h) == reach(h, base, {})

\* Fields nobody reads any more are cleared: those of memory that is no
\* header, and the ptr of a block the program holds.
Keep(h, list, mine) ==
    /\ brk' = h.brk /\ freep' = h.freep
    /\ ptr' = [a \in Addr |-> IF a \in list THEN h.ptr[a] ELSE 0]
    /\ size' = [a \in Addr |-> IF a \in list \union mine THEN h.size[a] ELSE 0]

Result(h) == Keep(h, ring(h), held')

Allocated(h) ==
    /\ held' = IF h.ret = Null THEN held ELSE held \union {h.ret}
    /\ Result(h) /\ ready' = TRUE
    /\ UNCHANGED gaps

malloc(nunits) == Allocated(Search(FirstUse(Heap), nunits))

release(bp) ==
    /\ bp \in held /\ held' = held \ {bp}
    /\ Result(free(Heap, bp))
    /\ UNCHANGED <<ready, gaps>>

sbrk ==
    /\ brk < LIMIT /\ brk' = brk + 1 /\ gaps' = gaps \union {brk}
    /\ UNCHANGED <<ptr, size, freep, ready, held>>

Next ==
    \/ \E n \in 1..MaxUnits : malloc(n)
    \/ \E bp \in held : release(bp)
    \/ sbrk

Spec == Init /\ [][Next]_vars

-----------------------------------------------------------------------------

Units(a) == a .. a + size[a] - 1

\* Every unit below the break is in exactly one place: base, a free block, a
\* block the program holds or memory it took with sbrk() itself.  So malloc()
\* never hands out memory twice and free() loses none, in whichever order
\* blocks are freed and however often morecore() extends the heap or fails.
\* The free blocks are in address order, and no two of them touch.
HeapTiled ==
    LET list == ring(Heap) \ {base}
    IN  ready =>
          /\ \A u \in 1..brk-1 :
               Cardinality({a \in list \union held : u \in Units(a)})
                 = (IF u \in gaps THEN 0 ELSE 1)
          /\ \A a \in list \union held : size[a] > 0 /\ a + size[a] <= brk
          /\ list \intersect held = {}
          /\ \A a \in list : a + size[a] \notin list /\ (ptr[a] > a \/ ptr[a] = base)
          /\ freep \in list \union {base}
=============================================================================
