------------------------------ MODULE FileData ------------------------------
(***************************************************************************)
(* The contents of a file (kernel/fs.c: balloc, bfree, bmap, itrunc, readi *)
(* and writei) under the loops of fileread() and filewrite()               *)
(* (kernel/file.c).  The file starts as mkfs/mkfs.c wrote it into the      *)
(* image, with block allocation code of its own (iappend).                 *)
(*                                                                         *)
(* One file is followed.  Its blocks are numbered from 1, 0 being "no      *)
(* block".  A block has BSIZE cells; a cell holds a byte of data or, in    *)
(* the indirect block, a block number, so NINDIRECT is BSIZE.  The rest of *)
(* the disk belongs to other files: how many blocks balloc() still finds   *)
(* is chosen anew for every transaction.  A free block holds Junk: it was  *)
(* another file's.  The functions take and return a record of what they    *)
(* read and change, with ret their result and log the set of blocks passed *)
(* to log_write().                                                         *)
(***************************************************************************)
EXTENDS Integers, FiniteSets, Sequences, FiniteSetsExt, SequencesExt

CONSTANTS
    NB,          \* blocks 1..NB
    BSIZE,       \* cells of a block
    BPB,         \* blocks described by one bitmap block
    NDIRECT,     \* direct blocks of an inode
    MAXOPBLOCKS, \* blocks one transaction may log
    Images,      \* what mkfs may have made: [n |-> bytes, dir |-> BOOLEAN]
    Lengths,     \* the lengths write() is called with
    Bytes        \* the values written

VARIABLES
    disk,        \* [used, data]: the bitmap and the blocks
    addrs,       \* ip->addrs
    size,        \* ip->size
    off,         \* f->off
    todo,        \* filewrite()'s loop: [left, byte], left = n - i
    logged,      \* blocks logged, if the last step was one of filewrite()
    panic

vars == <<disk, addrs, size, off, todo, logged, panic>>

Blocks == 1..NB
Junk == NB + 1
NINDIRECT == BSIZE
MAXFILE == NDIRECT + NINDIRECT
Zeroed == [c \in 0..BSIZE-1 |-> 0]
NoTodo == [left |-> 0, byte |-> 0]

\* What a function starts from: k blocks can still be allocated.
Now(k) == [used |-> disk.used, data |-> disk.data, addrs |-> addrs, size |-> size,
           avail |-> k, ret |-> 0, tot |-> 0, out |-> <<>>, stop |-> FALSE,
           log |-> {}, panic |-> FALSE]

Ret(t, x) == [t EXCEPT !.ret = x]

BBLOCK(b) == <<"bitmap", b \div BPB>>

bzero(t, b) == [t EXCEPT !.data[b] = Zeroed, !.log = @ \union {<<"block", b>>}]

\* The block found is marked, zeroed and returned.
Mark(t, b) == bzero([t EXCEPT !.used = @ \union {b}, !.avail = @ - 1, !.ret = b,
                              !.log = @ \union {BBLOCK(b)}], b)

balloc(t) == IF t.avail = 0 THEN Ret(t, 0) ELSE Mark(t, Min(Blocks \ t.used))

bfree(t, b) ==
    IF b \notin t.used THEN [t EXCEPT !.panic = TRUE]
    ELSE [t EXCEPT !.used = @ \ {b}, !.data[b] = [c \in 0..BSIZE-1 |-> Junk],
                   !.log = @ \union {BBLOCK(b)}]

StoreAddr(t, i) == IF t.ret = 0 THEN t ELSE [t EXCEPT !.addrs[i] = t.ret]

\* ip->addrs[i]; if it is null, new is the outcome of allocating a block.
Direct(t, i, new) == IF t.addrs[i] # 0 THEN Ret(t, t.addrs[i]) ELSE StoreAddr(new, i)

StoreEntry(t, a, j) ==
    IF t.ret = 0 THEN t
    ELSE [t EXCEPT !.data[a][j] = t.ret, !.log = @ \union {<<"block", a>>}]

\* Entry j of the indirect block a, likewise.
Entry(t, a, j, new) ==
    CASE a = 0 -> t
      [] a # 0 /\ t.data[a][j] # 0 -> Ret(t, t.data[a][j])
      [] a # 0 /\ t.data[a][j] = 0 -> StoreEntry(new, a, j)

Indirect(t, j) == Entry(t, t.ret, j, balloc(t))

bmap(t, bn) ==
    CASE bn < NDIRECT -> Direct(t, bn, balloc(t))
      [] bn \in NDIRECT..MAXFILE-1 -> Indirect(Direct(t, NDIRECT, balloc(t)), bn - NDIRECT)
      [] bn >= MAXFILE -> [Ret(t, 0) EXCEPT !.panic = TRUE]

Allocated(s) == SelectSeq(s, LAMBDA b : b # 0)

Cells(f) == [i \in 1..BSIZE |-> f[i - 1]]

\* The blocks itrunc() frees, in its order.
ToFree(a, data) ==
    Allocated([i \in 1..NDIRECT |-> a[i - 1]])
    \o IF a[NDIRECT] = 0 THEN <<>>
       ELSE Allocated(Cells(data[a[NDIRECT]])) \o <<a[NDIRECT]>>

itrunc(t) ==
    [FoldLeft(bfree, t, ToFree(t.addrs, t.data)) EXCEPT
        !.addrs = [i \in 0..NDIRECT |-> 0], !.size = 0, !.log = @ \union {<<"inode">>}]

\* Mutant: the length of the last part is not cut to what is left.
Part_whole(bn, o, n) == {p \in o..(o + n - 1) : p \div BSIZE = bn}
                        \union IF n > 0 /\ bn = (o + n - 1) \div BSIZE
                               THEN o + n - 1 .. (bn + 1) * BSIZE - 1 ELSE {}

\* The bytes of block bn in a transfer of n bytes at o.
Part(bn, o, n) == {p \in o..(o + n - 1) : p \div BSIZE = bn}

\* The blocks of the transfer, in order.
Span(o, n) == IF n = 0 THEN <<>> ELSE [i \in 1..((o + n - 1) \div BSIZE - o \div BSIZE + 1)
                                          |-> o \div BSIZE + i - 1]

CopyOut(t, ps) ==
    IF t.ret = 0 THEN [t EXCEPT !.stop = TRUE]
    ELSE [t EXCEPT !.tot = @ + Cardinality(ps),
                   !.out = @ \o [i \in 1..Cardinality(ps) |->
                                    t.data[t.ret][(Min(ps) + i - 1) % BSIZE]]]

\* readi() whose copies to the user succeed; one that fails changes nothing.
readi(t0, o, n0) ==
    LET n == Min({n0, t0.size - o})
        ReadBlock(t, bn) == IF t.stop THEN t ELSE CopyOut(bmap(t, bn), Part(bn, o, n))
    IN  IF o > t0.size THEN t0 ELSE FoldLeft(ReadBlock, t0, Span(o, n))

Filled(t, ps, byte) ==
    [t EXCEPT !.data[t.ret] = [c \in 0..BSIZE-1 |->
        IF \E p \in ps : p % BSIZE = c THEN byte ELSE @[c]]]

\* either_copyin() into block t.ret; when it fails it has copied all bytes but
\* the last.
CopyIn(t, ps, byte, fails) ==
    LET filled == Filled(t, IF fails THEN ps \ {Max(ps)} ELSE ps, byte)
    IN  CASE t.ret = 0 -> [t EXCEPT !.stop = TRUE]
          [] t.ret # 0 /\ fails -> [filled EXCEPT !.stop = TRUE]
          [] t.ret # 0 /\ ~fails -> [filled EXCEPT !.tot = @ + Cardinality(ps),
                                                   !.log = @ \union {<<"block", t.ret>>}]

Sized(t, o) == [t EXCEPT !.size = Max({@, o + t.tot}), !.ret = t.tot,
                         !.log = @ \union {<<"inode">>}]

writei(t0, o, n, byte, bad) ==
    LET WriteBlock(t, bn) ==
            IF t.stop THEN t ELSE CopyIn(bmap(t, bn), Part(bn, o, n), byte, bn = bad)
    IN  IF o > t0.size \/ o + n > MAXFILE * BSIZE THEN Ret(t0, -1)
        ELSE Sized(FoldLeft(WriteBlock, t0, Span(o, n)), o)

-----------------------------------------------------------------------------
(* mkfs: freeblock counts up, and balloc() marks what is below it.         *)

freeblock(t) ==
    LET b == Cardinality(t.used) + 1 IN [t EXCEPT !.used = @ \union {b}, !.ret = b]

IndirectNew(t, j) == Entry(t, t.ret, j, freeblock(t))

FileBlock(t, bn) ==
    IF bn < NDIRECT THEN Direct(t, bn, freeblock(t))
    ELSE IndirectNew(Direct(t, NDIRECT, freeblock(t)), bn - NDIRECT)

iappend(t0, n, byte) ==
    LET append(t, bn) == Filled(FileBlock(t, bn), Part(bn, t0.size, n), byte)
    IN  [FoldLeft(append, t0, Span(t0.size, n)) EXCEPT !.size = @ + n]

\* main(): the file is appended in pieces of a block; the size of the root
\* directory is rounded up.
Image(im) ==
    LET blank == [used |-> {}, data |-> [b \in Blocks |-> Zeroed], size |-> 0, ret |-> 0,
                  addrs |-> [i \in 0..NDIRECT |-> 0], log |-> {}]
        piece(t, n) == iappend(t, n, Min(Bytes))
        pieces == [i \in 1..(im.n + BSIZE - 1) \div BSIZE |-> Min({BSIZE, im.n - (i - 1) * BSIZE})]
        made == FoldLeft(piece, blank, pieces)
    IN  IF im.dir THEN [made EXCEPT !.size = (@ \div BSIZE + 1) * BSIZE] ELSE made

Boot(t) ==
    /\ disk = [used |-> t.used, data |-> t.data]
    /\ addrs = t.addrs
    /\ size = t.size

Init ==
    /\ \E im \in Images : Boot(Image(im))
    /\ off = 0 /\ todo = NoTodo /\ logged = 0 /\ panic = FALSE

Result(t) ==
    /\ disk' = [used |-> t.used, data |-> t.data]
    /\ addrs' = t.addrs
    /\ size' = t.size
    /\ panic' = (panic \/ t.panic)

\* Mutant: the bitmap blocks are forgotten.
max_bitmap == (MAXOPBLOCKS - 1 - 1 - 2) * BSIZE

\* The most filewrite() writes in one transaction.
max == ((MAXOPBLOCKS - 1 - 1 - 2) \div 2) * BSIZE

write(n, byte) ==
    /\ todo = NoTodo /\ todo' = [left |-> n, byte |-> byte]
    /\ logged' = 0 /\ UNCHANGED <<disk, addrs, size, off, panic>>

Written(t, n1) ==
    /\ Result(t)
    /\ off' = IF t.ret > 0 THEN off + t.ret ELSE off
    /\ todo' = IF t.ret # n1 \/ todo.left = n1 THEN NoTodo ELSE [todo EXCEPT !.left = @ - n1]
    /\ logged' = Cardinality(t.log)

\* A turn of filewrite()'s loop: balloc() finds at most k blocks and the
\* copy from the user fails in block bad, if that is one of the transfer.
filewrite(k, bad) ==
    LET n1 == Min({todo.left, max})
    IN  /\ todo.left > 0
        /\ Written(writei(Now(k), off, n1, todo.byte, bad), n1)

\* readi() is not in a transaction, so a log_write() in it panics.
Read(t) ==
    /\ off' = off + Len(t.out)
    /\ Result([t EXCEPT !.panic = @ \/ t.log # {}])
    /\ logged' = 0 /\ UNCHANGED todo

fileread(n, k) == Read(readi(Now(k), off, n))

\* open() of the file: a new struct file takes the old one's place, or
\* another process truncates the file under it (O_TRUNC).
reopen ==
    /\ todo = NoTodo /\ off # 0 /\ off' = 0
    /\ logged' = 0 /\ UNCHANGED <<disk, addrs, size, todo, panic>>

truncate ==
    /\ Result(itrunc(Now(0)))
    /\ logged' = 0 /\ UNCHANGED <<off, todo>>

Room == Cardinality(Blocks \ disk.used)

Next ==
    \/ \E n \in Lengths, byte \in Bytes : write(n, byte)
    \/ \E k \in 0..Room, bad \in 0..MAXFILE : filewrite(k, bad)
    \/ \E n \in Lengths, k \in {0, Room} : fileread(n, k)
    \/ reopen
    \/ truncate

Spec == Init /\ [][Next]_vars

-----------------------------------------------------------------------------

Pointers == ToFree(addrs, disk.data)

\* Every block marked in the bitmap for this file is in exactly one place of
\* its block map, and every block of the map is marked: also after writei()
\* gave up between the allocation of the indirect block and of the block it
\* was to point to, and after itrunc().
BlocksConserved ==
    /\ IsInjective(Pointers)
    /\ Range(Pointers) = disk.used

\* The byte at position i of the file.
BlockAt(bn) == IF bn < NDIRECT THEN addrs[bn]
               ELSE disk.data[addrs[NDIRECT]][bn - NDIRECT]
ByteAt(i) == disk.data[BlockAt(i \div BSIZE)][i % BSIZE]

\* A turn of filewrite()'s loop writes the bytes it reports, at f->off and no
\* more than it was asked for, and changes no other byte of the file, those of
\* a block whose copy failed excepted: not when it stops in the middle, runs
\* across the border of the direct blocks, or meets a file truncated below
\* f->off.
WriteStep ==
    todo # NoTodo /\ todo' # todo =>
        /\ off' - off <= Min({todo.left, max})
        /\ size' = IF off' = off THEN size ELSE Max({size, off'})
        /\ \A i \in 0..size'-1 :
             \/ i \in off..off'-1 /\ ByteAt(i)' = todo.byte
             \/ i \notin off..off'-1 /\ i < size /\ ByteAt(i)' = ByteAt(i)
             \/ /\ off' - off < Min({todo.left, max})
                /\ i >= off' /\ i \div BSIZE = off' \div BSIZE

\* A turn of filewrite()'s loop logs no more blocks than begin_op() reserved
\* for it, whatever the alignment of f->off and however many blocks, the
\* indirect one included, it has to allocate: the size it cuts the write to
\* was computed for that.
ChunkFitsLog == logged <= MAXOPBLOCKS

\* bfree() never finds its block free, bmap() is never asked for a block
\* beyond the largest file, and readi(), which runs outside a transaction,
\* never allocates a block.
NoPanic == ~panic
=============================================================================
