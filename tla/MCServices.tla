----------------------------- MODULE MCServices -----------------------------
(***************************************************************************)
(* The parts that share no state, for TLC: the inodes and directories, the *)
(* contents of a file, the table of open files, the memory of processes,   *)
(* the console, the heap of a program, the shell and its parser.  A        *)
(* behaviour is one of one part; unit says which, and the variables of the *)
(* others stay 0.  Inodes are taken twice, with calls that link and with   *)
(* calls that change the working directory.  Readers and writers of the    *)
(* console meet only in the handler and its echo, so it is taken with two  *)
(* readers and with two writers.                                           *)
(***************************************************************************)
EXTENDS Integers, Sequences, FiniteSets, TLC

CONSTANT Users

VARIABLES
    unit,
    dinode, ents, blocks, inode, ref, valid, lock, cwd, ofile, th, lost,
    fs_panic,                                                               \* Fs
    disk, addrs, size, off, todo, logged, data_panic,                       \* FileData
    table, fds, pipes, iref, caller, table_panic,                           \* FileTable
    nfree, mem, ret, mem_panic,                                             \* Memory
    buf, r, w, e, cons_lock, uart_tx_lock, tx, busy, rhr, irq, pc, got, killed,  \* Console
    brk, ptr, units, freep, ready, held, gaps,                              \* Heap
    proc, pipe, typed, shell, stopped,                                      \* Shell
    tree                                                                    \* ShellParser

\* The calls of Fs: one directory below the root, and what two processes can
\* do to it at once.
Abs(op, path) == [op |-> op, abs |-> TRUE, path |-> path, new |-> <<>>]
Rel(op, path) == [Abs(op, path) EXCEPT !.abs = FALSE]
BothCalls == {
    Abs("creat", <<"a", "x">>), Rel("openw", <<"..">>), Abs("mkdir", <<"a">>),
    Abs("unlink", <<"a">>), Rel("unlink", <<"x">>)}
LinkCalls == BothCalls \cup {
    Abs("mknod", <<"a">>), Abs("unlink", <<"x">>), Abs("unlink", <<>>),
    [Abs("link", <<"x">>) EXCEPT !.new = <<"a", "x">>],
    [Abs("link", <<"a">>) EXCEPT !.new = <<"x">>]}
DirCalls == BothCalls \cup {Abs("chdir", <<"a">>), Rel("chdir", <<"x">>)}

\* The programs exec() loads: segments that fit, that overlap, that lie about
\* their size, are not aligned or wrap around, and a read that fails.
Seg(va, m, f, ok) == [vaddr |-> va, memsz |-> m, filesz |-> f, reads |-> ok]
Progs == {<<Seg(0, 3, 2, TRUE)>>, <<Seg(0, 2, 1, TRUE), Seg(4, 1, 1, TRUE)>>,
          <<Seg(0, 3, 1, TRUE), Seg(2, 1, 1, FALSE)>>, <<Seg(2, 1, 2, TRUE)>>,
          <<Seg(1, 1, 1, TRUE)>>, <<Seg(0, 3, 2, TRUE), Seg(62, 3, 1, TRUE)>>}

\* The files mkfs makes: an empty one, one that needs the indirect block, and
\* a directory whose last block is not full.
Made == {[n |-> 0, dir |-> FALSE], [n |-> 7, dir |-> FALSE], [n |-> 5, dir |-> TRUE]}

\* (a;a>a)|a|a and a syntax error; (a;a>a)& and (a|a)&.
Typed == {{<<"(", "a", ";", "a", ">", "a", ")", "|", "a", "|", "a">>, <<"a", "(">>},
          {<<"(", "a", ";", "a", ">", "a", ")", "&">>, <<"(", "a", "|", "a", ")", "&">>}}

Files == INSTANCE Fs WITH Procs <- Users, NINODES <- 3, Names <- {"a", "x"},
             DIRENTS <- 3, MaxNlink <- 2, Calls <- LinkCalls, panic <- fs_panic
Dirs == INSTANCE Fs WITH Procs <- Users, NINODES <- 3, Names <- {"a", "x"},
             DIRENTS <- 3, MaxNlink <- 2, Calls <- DirCalls, panic <- fs_panic
Data == INSTANCE FileData WITH NB <- 5, BSIZE <- 2, BPB <- 1, NDIRECT <- 2,
             MAXOPBLOCKS <- 10, Lengths <- {1, 7}, Bytes <- {1, 2}, Images <- Made,
             panic <- data_panic
Open == INSTANCE FileTable WITH Procs <- {1, 2}, First <- 1, NFILE <- 3, NOFILE <- 2,
             Pages <- {1, 2}, file <- table, ofile <- fds, pipe <- pipes, th <- caller,
             panic <- table_panic
Mem == INSTANCE Memory WITH Slots <- {1, 2}, NPAGES <- 17, PGSIZE <- 2, LEVELS <- 3,
             NPTE <- 3, WRAP <- 64, MaxArgs <- 1, MaxGrow <- 3, Images <- Progs, proc <- mem,
             panic <- mem_panic
Input == INSTANCE Console WITH Readers <- Users, Writers <- {}, INPUT_BUF_SIZE <- 2,
             UART_TX_BUF_SIZE <- 1, WRAP <- 4, Ordinary <- {"c"}
Output == INSTANCE Console WITH Readers <- {}, Writers <- Users, INPUT_BUF_SIZE <- 2,
             UART_TX_BUF_SIZE <- 1, WRAP <- 4, Ordinary <- {"c"}
Malloc == INSTANCE Heap WITH LIMIT <- 9, CORE <- 3, MaxUnits <- 4, size <- units
Sh == INSTANCE Shell WITH MAXARGS <- 3, Procs <- 1..5, Init_ <- 0, Pipes <- {1, 2},
             NOFILE <- 5, PIPESIZE <- 1, Sessions <- Typed

-----------------------------------------------------------------------------
\* Command trees grow from a leaf to one with MaxOps operators.
MaxOps == 3
RECURSIVE Ops(_)
Ops(c) == CASE c.type = "EXEC" -> 0
            [] c.type \in {"REDIR", "BACK"} -> 1 + Ops(c.cmd)
            [] c.type \in {"PIPE", "LIST"} -> 1 + Ops(c.left) + Ops(c.right)
Leaves == {Sh!execcmd(a) : a \in {<<>>, <<<<"a">>, <<"a", "a">>>>}}
Redirections == {Sh!Redirection(t, <<"a">>) : t \in {"<", ">", "+"}}
Grown(c) ==
    {Sh!backcmd(c)} \cup {Sh!redircmd(c, x) : x \in Redirections}
    \cup UNION {{Sh!pipecmd(c, l), Sh!pipecmd(l, c), Sh!listcmd(c, l), Sh!listcmd(l, c)} :
                l \in Leaves}

-----------------------------------------------------------------------------
FsVars == <<dinode, ents, blocks, inode, ref, valid, lock, cwd, ofile, th, lost, fs_panic>>
DataVars == <<disk, addrs, size, off, todo, logged, data_panic>>
TableVars == <<table, fds, pipes, iref, caller, table_panic>>
MemVars == <<nfree, mem, ret, mem_panic>>
ConsVars == <<buf, r, w, e, cons_lock, uart_tx_lock, tx, busy, rhr, irq, pc, got, killed>>
HeapVars == <<brk, ptr, units, freep, ready, held, gaps>>
ShVars == <<proc, pipe, typed, shell, stopped>>
vars == <<unit, FsVars, DataVars, TableVars, MemVars, ConsVars, HeapVars, ShVars, tree>>

NoFs == dinode = 0 /\ ents = 0 /\ blocks = 0 /\ inode = 0 /\ ref = 0 /\ valid = 0 /\ lock = 0
        /\ cwd = 0 /\ ofile = 0 /\ th = 0 /\ lost = 0 /\ fs_panic = 0
NoData == disk = 0 /\ addrs = 0 /\ size = 0 /\ off = 0 /\ todo = 0 /\ logged = 0
          /\ data_panic = 0
NoTable == table = 0 /\ fds = 0 /\ pipes = 0 /\ iref = 0 /\ caller = 0 /\ table_panic = 0
NoMem == nfree = 0 /\ mem = 0 /\ ret = 0 /\ mem_panic = 0
NoCons == buf = 0 /\ r = 0 /\ w = 0 /\ e = 0 /\ cons_lock = 0 /\ uart_tx_lock = 0 /\ tx = 0
          /\ busy = 0 /\ rhr = 0 /\ irq = 0 /\ pc = 0 /\ got = 0 /\ killed = 0
NoHeap == brk = 0 /\ ptr = 0 /\ units = 0 /\ freep = 0 /\ ready = 0 /\ held = 0 /\ gaps = 0
NoSh == proc = 0 /\ pipe = 0 /\ typed = 0 /\ shell = 0 /\ stopped = 0

Init ==
    /\ unit \in {"files", "dirs", "data", "table", "memory", "input", "output", "heap", "shell",
               "parser"}
    /\ CASE unit = "files" -> Files!Init [] unit = "dirs" -> Dirs!Init [] OTHER -> NoFs
    /\ IF unit = "data" THEN Data!Init ELSE NoData
    /\ IF unit = "table" THEN Open!Init ELSE NoTable
    /\ IF unit = "memory" THEN Mem!Init ELSE NoMem
    /\ CASE unit = "input" -> Input!Init [] unit = "output" -> Output!Init [] OTHER -> NoCons
    /\ IF unit = "heap" THEN Malloc!Init ELSE NoHeap
    /\ IF unit = "shell" THEN Sh!Init ELSE NoSh
    /\ IF unit = "parser" THEN tree \in Leaves ELSE tree = 0

Next ==
    /\ UNCHANGED unit
    /\ \/ /\ unit = "files" /\ Files!Next
          /\ UNCHANGED <<DataVars, TableVars, MemVars, ConsVars, HeapVars, ShVars, tree>>
       \/ /\ unit = "dirs" /\ Dirs!Next
          /\ UNCHANGED <<DataVars, TableVars, MemVars, ConsVars, HeapVars, ShVars, tree>>
       \/ /\ unit = "data" /\ Data!Next
          /\ UNCHANGED <<FsVars, TableVars, MemVars, ConsVars, HeapVars, ShVars, tree>>
       \/ /\ unit = "table" /\ Open!Next
          /\ UNCHANGED <<FsVars, DataVars, MemVars, ConsVars, HeapVars, ShVars, tree>>
       \/ /\ unit = "memory" /\ Mem!Next
          /\ UNCHANGED <<FsVars, DataVars, TableVars, ConsVars, HeapVars, ShVars, tree>>
       \/ /\ unit = "input" /\ Input!Next
          /\ UNCHANGED <<FsVars, DataVars, TableVars, MemVars, HeapVars, ShVars, tree>>
       \/ /\ unit = "output" /\ Output!Next
          /\ UNCHANGED <<FsVars, DataVars, TableVars, MemVars, HeapVars, ShVars, tree>>
       \/ /\ unit = "heap" /\ Malloc!Next
          /\ UNCHANGED <<FsVars, DataVars, TableVars, MemVars, ConsVars, ShVars, tree>>
       \/ /\ unit = "shell" /\ Sh!Next
          /\ UNCHANGED <<FsVars, DataVars, TableVars, MemVars, ConsVars, HeapVars, tree>>
       \/ /\ unit = "parser"
          /\ tree' \in IF Ops(tree) = MaxOps THEN Leaves ELSE Grown(tree)
          /\ UNCHANGED <<FsVars, DataVars, TableVars, MemVars, ConsVars, HeapVars, ShVars>>

Spec == Init /\ [][Next]_vars

Symmetry == Permutations(Users)

-----------------------------------------------------------------------------
Fs_ == unit \in {"files", "dirs"}

\* fs.c: the reference count of an inode is the number of pointers to it, on
\* every path of every call, and an inode nobody has locked is on the disk as
\* it is in memory.
InodeTable == Fs_ => Files!RefsExact /\ Files!CleanUnlocked

\* fs.c: iput() never waits for the lock of the inode it is about to free.
IputNeverBlocks == Fs_ => Files!IputNeverBlocks

\* sysfile.c: between transactions a name leads to an allocated inode, which
\* has no more names than its link count.
LinksCounted == Fs_ => Files!LinksCounted

\* fs.c, file.c, vm.c: no panic is reached in the calls on inodes and
\* directories, on the contents of a file, on open files and on memory.  Two
\* ways to a panic are known and left out: ".." of a removed directory whose
\* parent has been removed too (LinkCalls and DirCalls have one directory; see
\* DeepCalls in MCFs), and a root directory that mkfs has filled to the end of
\* a block (Made has none).
NoPanic ==
    CASE Fs_ -> Files!NoPanic
      [] unit = "data" -> Data!NoPanic
      [] unit = "table" -> Open!NoPanic
      [] unit = "memory" -> Mem!NoPanic
      [] OTHER -> TRUE

\* file.c: the reference count of an open file is the number of pointers to it,
\* and its inode or its end of a pipe is given up once, by the last close.
FilesCounted == unit = "table" => Open!FilesCounted

\* What is handed out comes back once: every block of the file's disk is in
\* its map or free (fs.c: balloc, bfree), every page is in one place (kalloc.c)
\* and every unit of the heap is in one free block or with the program
\* (umalloc.c), also where a call fails half-way.
Conserved ==
    CASE unit = "data" -> Data!BlocksConserved
      [] unit = "memory" -> Mem!PagesConserved
      [] unit = "heap" -> Malloc!HeapTiled
      [] OTHER -> TRUE

\* file.c, fs.c: a turn of filewrite()'s loop writes the bytes it reports, at
\* f->off, and changes no other, those of a block whose copy failed excepted.
WritesExactly == [][unit = "data" => Data!WriteStep]_vars

\* file.c: a turn of filewrite()'s loop logs no more blocks than begin_op()
\* reserved for it, whatever the offset and however many it allocates.
ChunkFitsLog == unit = "data" => Data!ChunkFitsLog

\* vm.c, exec.c: a process maps the pages below sz, its trapframe and the
\* trampoline, nothing else, and none of them holds junk.
ImageMapped == unit = "memory" => Mem!ImageMapped

\* proc.c, exec.c: a fork, exec or sbrk that fails changes no image.
FailureChangesNothing == [][unit = "memory" => Mem!FailureStep]_vars

\* console.c, uart.c: a reader of the console sleeps only while no line is
\* complete and it has not been killed; output that waits, and a writer that
\* sleeps, have an interrupt to come or somebody who has yet to look.
ConsoleSleepers ==
    CASE unit = "input" -> Input!ReaderHasNothing /\ Input!OutputHasInterrupt
      [] unit = "output" -> Output!OutputHasInterrupt
      [] OTHER -> TRUE

\* console.c: the ring of three indices is a line editor: what is complete is
\* neither erased, overwritten nor read twice.
ImplementsLineEditor == Input!ImplementsLineEditor

\* sh.c: a program starts with the standard input and output its place in the
\* command gives it, and with no other descriptor.
Wired == unit = "shell" => Sh!Wired

\* sh.c: the prompt comes back only when every process of the command has
\* exited, those started with & excepted.
PromptAfterCommand == unit = "shell" => Sh!PromptAfterCommand

\* sh.c: a command never hangs because one of the shell's processes kept an
\* end of a pipe.
SomebodyRuns == unit = "shell" => Sh!SomebodyRuns

\* sh.c: parsecmd() reads the text of a command as that command.
ReadBack == unit = "parser" => Sh!ReadBack(tree)
=============================================================================
