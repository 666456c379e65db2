------------------------------ MODULE FileTable ------------------------------
(***************************************************************************)
(* The table of open files (kernel/file.c) and the descriptors that refer  *)
(* to it, under open, pipe, dup, close (kernel/sysfile.c, pipe.c), fork    *)
(* and exit (kernel/proc.c).                                               *)
(*                                                                         *)
(* A section under ftable.lock is a step, with what the process does to    *)
(* its own descriptors before or after.  fileclose() gives the lock up     *)
(* before it closes the pipe or puts the inode, so that is a step of its   *)
(* own.  Of an inode the model keeps how many references open files have   *)
(* to it, of a pipe its two open flags; the rest is in Fs and Pipe.  A     *)
(* call that fails before it has taken anything changes nothing.           *)
(***************************************************************************)
EXTENDS Integers, FiniteSets

CONSTANTS Procs,    \* the process table
          First,    \* init, whose exit() is a panic
          NFILE,    \* open files in the system
          NOFILE,   \* descriptors of a process
          Pages     \* the pages kalloc() may give to pipes

VARIABLES file,     \* ftable.file
          ofile,    \* p->ofile
          pipe,     \* the open flags of the pipe in each page
          iref,     \* references to inodes that open files hold
          th,       \* where each process is, with its local variables
          panic

vars == <<file, ofile, pipe, iref, th, panic>>

Files == 1 .. NFILE
Null == 0
Fds == 0 .. NOFILE - 1
File(ref, type, g, w) == [ref |-> ref, type |-> type, pipe |-> g, writable |-> w]
NoFile == File(0, "none", Null, FALSE)
NoPipe == [readopen |-> FALSE, writeopen |-> FALSE]

\* f0, f1: the files a call has allocated or has to close; ff: the copy that
\* fileclose() has made; np: the child of fork(); ret: where the process goes on.
At(pc) == [pc |-> pc, f0 |-> Null, f1 |-> Null, ff |-> NoFile, np |-> Null, ret |-> pc]

Init ==
    /\ file = [f \in Files |-> NoFile]
    /\ ofile = [p \in Procs |-> [fd \in Fds |-> Null]]
    /\ pipe = [g \in Pages |-> NoPipe]
    /\ iref = 0
    /\ th = [p \in Procs |-> At(IF p = First THEN "user" ELSE "unused")]
    /\ panic = "none"

Least(S) == CHOOSE x \in S : \A y \in S : x <= y

\* What filealloc() looks for, and the one it finds.
Unused == {f \in Files : file[f].ref = 0}
filealloc == Least(Unused)

\* The descriptors of p in use and the others, of which fdalloc() gives the
\* lowest.
Open(p) == {fd \in Fds : ofile[p][fd] # Null}
Free(p) == Fds \ Open(p)

User(p) == th[p].pc = "user"
Goto(p, t) == th' = [th EXCEPT ![p] = t]

\* Go on with the files that are left to close.
Closing(p, t) ==
    Goto(p, IF t.f0 = Null /\ t.f1 = Null /\ t.ff = NoFile THEN At(t.ret) ELSE t)
Close(p, f0, f1, ret) == Goto(p, [At("close") EXCEPT !.f0 = f0, !.f1 = f1, !.ret = ret])

-----------------------------------------------------------------------------
\* sys_open(), once it has the inode: without a file, or a descriptor for it,
\* the inode is put again.
sys_open(p) ==
    LET f == filealloc
    IN  /\ User(p) /\ Unused # {}
        /\ IF Free(p) = {}
           THEN /\ file' = [file EXCEPT ![f].ref = 1]
                /\ Close(p, f, Null, "user")
                /\ UNCHANGED <<ofile, iref>>
           ELSE /\ file' = [file EXCEPT ![f] = File(1, "inode", Null, FALSE)]
                /\ ofile' = [ofile EXCEPT ![p][Least(Free(p))] = f]
                /\ iref' = iref + 1
                /\ UNCHANGED th
        /\ UNCHANGED <<pipe, panic>>

\* sys_pipe(): the first filealloc() of pipealloc().
sys_pipe(p) ==
    /\ User(p) /\ Unused # {}
    /\ file' = [file EXCEPT ![filealloc].ref = 1]
    /\ Goto(p, [At("pipealloc") EXCEPT !.f0 = filealloc])
    /\ UNCHANGED <<ofile, pipe, iref, panic>>

\* The rest of pipealloc() when it fails: no second file, or no page.
pipealloc_bad(p) ==
    /\ th[p].pc = "pipealloc"
    /\ \/ /\ Unused = {}
          /\ Close(p, th[p].f0, Null, "user")
          /\ UNCHANGED file
       \/ /\ Unused # {}
          /\ file' = [file EXCEPT ![filealloc].ref = 1]
          /\ Close(p, th[p].f0, filealloc, "user")
    /\ UNCHANGED <<ofile, pipe, iref, panic>>

\* The rest of sys_pipe(): two descriptors, and a copyout() of them that may
\* fail.
Describe(p, rf, wf) ==
    LET fd0 == Least(Free(p))
        fd1 == Least(Free(p) \ {fd0})
    IN  \/ /\ Free(p) # {} /\ Free(p) \ {fd0} # {}
           /\ ofile' = [ofile EXCEPT ![p][fd0] = rf, ![p][fd1] = wf]
           /\ Goto(p, At("user"))
        \/ /\ Close(p, rf, wf, "user")
           /\ UNCHANGED ofile

\* The rest of pipealloc() when there is a page g for the pipe.
pipealloc(p, g) ==
    LET rf == th[p].f0
        wf == filealloc
    IN  /\ th[p].pc = "pipealloc" /\ Unused # {} /\ pipe[g] = NoPipe
        /\ pipe' = [pipe EXCEPT ![g] = [readopen |-> TRUE, writeopen |-> TRUE]]
        /\ file' = [file EXCEPT ![rf] = File(1, "pipe", g, FALSE), ![wf] = File(1, "pipe", g, TRUE)]
        /\ Describe(p, rf, wf)
        /\ UNCHANGED <<iref, panic>>

\* filedup(f)
filedup(f) ==
    IF file[f].ref < 1
    THEN panic' = "filedup" /\ UNCHANGED file
    ELSE file' = [file EXCEPT ![f].ref = @ + 1] /\ UNCHANGED panic

sys_dup(p) ==
    \E fd \in Fds :
        /\ User(p) /\ ofile[p][fd] # Null /\ Free(p) # {}
        /\ ofile' = [ofile EXCEPT ![p][Least(Free(p))] = ofile[p][fd]]
        /\ filedup(ofile[p][fd])
        /\ UNCHANGED <<pipe, iref, th>>

sys_close(p) ==
    \E fd \in Fds :
        /\ User(p) /\ ofile[p][fd] # Null
        /\ ofile' = [ofile EXCEPT ![p][fd] = Null]
        /\ Close(p, ofile[p][fd], Null, "user")
        /\ UNCHANGED <<file, pipe, iref, panic>>

\* fork() has a slot and memory for the child np.
fork(p, np) ==
    /\ User(p) /\ th[np].pc = "unused"
    /\ th' = [th EXCEPT ![p] = [At("fork") EXCEPT !.np = np], ![np] = At("forked")]
    /\ UNCHANGED <<file, ofile, pipe, iref, panic>>

\* A turn of its loop over the descriptors; after the last the child runs.
fork_dup(p) ==
    LET np == th[p].np
        rest == {fd \in Fds : ofile[p][fd] # ofile[np][fd]}
    IN  /\ th[p].pc = "fork"
        /\ IF rest = {}
           THEN /\ th' = [th EXCEPT ![p] = At("user"), ![np] = At("user")]
                /\ UNCHANGED <<file, ofile, panic>>
           ELSE /\ ofile' = [ofile EXCEPT ![np][Least(rest)] = ofile[p][Least(rest)]]
                /\ filedup(ofile[p][Least(rest)])
                /\ UNCHANGED th
        /\ UNCHANGED <<pipe, iref>>

\* exit(): a turn of the loop that closes every file.  Nobody else reads its
\* descriptors.
exit(p) ==
    LET fd == Least(Open(p))
    IN  /\ (User(p) /\ p # First) \/ th[p].pc = "exit"
        /\ IF Open(p) = {}
           THEN Goto(p, At("unused")) /\ UNCHANGED ofile
           ELSE /\ ofile' = [ofile EXCEPT ![p][fd] = Null]
                /\ Close(p, ofile[p][fd], Null, "exit")
        /\ UNCHANGED <<file, pipe, iref, panic>>

-----------------------------------------------------------------------------
\* What the entry of a file stands for: nothing, an inode, an end of a pipe.
Kind(r) == File(0, r.type, r.pipe, r.writable)

\* Mutant: fileclose() leaves f->type as it is.
Reset_not(f) == Kind(file[f])

\* What fileclose() leaves in the table: the type is FD_NONE, and then nobody
\* reads the other fields.
Reset(f) == NoFile

\* fileclose(), under ftable.lock.
fileclose(p) ==
    LET first == th[p].f0 # Null
        f == IF first THEN th[p].f0 ELSE th[p].f1
        last == file[f].ref = 1
        ff == IF last THEN Kind(file[f]) ELSE NoFile
    IN  /\ th[p].pc = "close" /\ f # Null /\ th[p].ff = NoFile
        /\ IF file[f].ref < 1
           THEN panic' = "fileclose" /\ UNCHANGED <<file, th>>
           ELSE /\ file' = IF last THEN [file EXCEPT ![f] = Reset(f)]
                           ELSE [file EXCEPT ![f].ref = @ - 1]
                /\ Closing(p, [th[p] EXCEPT !.f0 = Null, !.f1 = IF first THEN @ ELSE Null,
                                            !.ff = ff])
                /\ UNCHANGED panic
        /\ UNCHANGED <<ofile, pipe, iref>>

\* Its end, without the lock: pipeclose() or iput() of the copy.
close_ff(p) ==
    LET ff == th[p].ff
    IN  /\ th[p].pc = "close" /\ ff # NoFile
        /\ pipe' = IF ff.type # "pipe" THEN pipe
                   ELSE IF ff.writable THEN [pipe EXCEPT ![ff.pipe].writeopen = FALSE]
                   ELSE [pipe EXCEPT ![ff.pipe].readopen = FALSE]
        /\ iref' = IF ff.type = "inode" THEN iref - 1 ELSE iref
        /\ Closing(p, [th[p] EXCEPT !.ff = NoFile])
        /\ UNCHANGED <<file, ofile, panic>>

Next ==
    /\ panic = "none"
    /\ \E p \in Procs :
       \/ sys_open(p) \/ sys_pipe(p) \/ pipealloc_bad(p) \/ \E g \in Pages : pipealloc(p, g)
       \/ sys_dup(p) \/ sys_close(p) \/ exit(p)
       \/ \E np \in Procs : fork(p, np)
       \/ fork_dup(p) \/ fileclose(p) \/ close_ff(p)

Spec == Init /\ [][Next]_vars

-----------------------------------------------------------------------------
\* The places of a process where there can be a pointer to a file, and the
\* pointers there.
Places == Fds \cup {-1, -2}
Pointers ==
    [x \in Procs \X Places |->
        CASE x[2] = -1 -> th[x[1]].f0
          [] x[2] = -2 -> th[x[1]].f1
          [] OTHER -> ofile[x[1]][x[2]]]

\* What the entries of files, and the copies that fileclose() has made, stand
\* for.
Entries == ({0} \X Files) \cup ({1} \X Procs)
Stands == [e \in Entries |-> IF e[1] = 0 THEN Kind(file[e[2]]) ELSE th[e[2]].ff]
Inode == File(0, "inode", Null, FALSE)
PipeEnd(g, w) == File(0, "pipe", g, w)

Count(h, v) == Cardinality({x \in DOMAIN h : h[x] = v})
One(b) == IF b THEN 1 ELSE 0

\* f->ref is the number of pointers to f, and what f opened is closed by the
\* last fileclose() and by no other: an end of a pipe is open as long as one
\* file, or the copy fileclose() works on, stands for it, and inodes have a
\* reference for each such file (file.c: filealloc, filedup, fileclose).
FilesCounted ==
    /\ \A f \in Files : file[f].ref = Count(Pointers, f)
    /\ \A g \in Pages :
        /\ Count(Stands, PipeEnd(g, TRUE)) = One(pipe[g].writeopen)
        /\ Count(Stands, PipeEnd(g, FALSE)) = One(pipe[g].readopen)
    /\ Count(Stands, Inode) = iref

NoPanic == panic = "none"
=============================================================================
