--------------------------------- MODULE Fs ---------------------------------
(***************************************************************************)
(* Inodes, directories and path names (kernel/fs.c) and the system calls   *)
(* that use them (kernel/sysfile.c), run by several processes at once.     *)
(*                                                                         *)
(* An in-memory inode is named by its number: iget() keeps at most one     *)
(* entry of the table per number.  A directory is a map from names to      *)
(* inode numbers and a number of blocks, each of which has DIRENTS places; *)
(* the contents of files are in FileData.  A section under one sleep lock that takes no   *)
(* other lock is one step; a lock held from step to step has a holder.     *)
(* The log makes what the running calls write durable when none of them is *)
(* left (AtomicStore), so a crash finds the disk as it was at such a time. *)
(***************************************************************************)
EXTENDS Integers, FiniteSets, Sequences, TLC

CONSTANTS Procs,    \* processes
          NINODES,  \* inodes on the disk
          Names,    \* names of directory entries, "." and ".." not among them
          DIRENTS,  \* directory entries in a block
          MaxNlink, \* bound on the link counts that sys_link() is tried on
          Calls     \* the system calls the processes make, with their arguments

Inums == 1 .. NINODES
ROOTINO == 1
Null == 0          \* no inode; an empty directory entry
Nobody == "nobody" \* no holder of a lock
Dots == {".", ".."}
AllNames == Names \cup Dots
NoEnts == [n \in AllNames |-> Null]
Free == [type |-> "free", nlink |-> 0]

VARIABLES
    dinode, \* the inodes on the disk: type and link count
    ents,   \* the entries of directories
    blocks, \* the blocks of directories
    inode,  \* the inode table: the copy of type and nlink
    ref,    \* ip->ref; zero: not in the table
    valid,  \* ip->valid
    lock,   \* the holder of ip->lock
    cwd,    \* p->cwd
    ofile,  \* the inode of the one open file of p
    th,     \* where each process is, and its local variables
    lost,   \* history: inodes a crash has left without a link
    panic

vars == <<dinode, ents, blocks, inode, ref, valid, lock, cwd, ofile, th, lost, panic>>

\* The local pointers ip, dp, old (the ip of sys_link) and put (the argument of
\* iput) each stand for one reference.  ret is where iput() returns to, cont and
\* bad where namex() does, with an inode and without.
NoCall == [op |-> "none", path |-> <<>>, abs |-> TRUE, new |-> <<>>]
Idle == [pc |-> "user", call |-> NoCall, path |-> <<>>, parent |-> FALSE,
         name |-> ".", ip |-> Null, dp |-> Null, old |-> Null, put |-> Null,
         ret |-> "user", cont |-> "user", bad |-> "user"]

Init ==
    /\ dinode = [i \in Inums |-> IF i = ROOTINO THEN [type |-> "dir", nlink |-> 1]
                                                ELSE Free]
    /\ ents = [i \in Inums |-> IF i = ROOTINO THEN [n \in AllNames |->
                   IF n \in Dots THEN ROOTINO ELSE Null] ELSE NoEnts]
    /\ blocks = [i \in Inums |-> IF i = ROOTINO THEN 1 ELSE 0]
    /\ inode = [i \in Inums |-> Free]
    /\ ref = [i \in Inums |-> IF i = ROOTINO THEN Cardinality(Procs) ELSE 0]
    /\ valid = [i \in Inums |-> FALSE]
    /\ lock = [i \in Inums |-> Nobody]
    /\ cwd = [p \in Procs |-> ROOTINO]
    /\ ofile = [p \in Procs |-> Null]
    /\ th = [p \in Procs |-> Idle]
    /\ lost = {}
    /\ panic = "none"

At(p, l) == th[p].pc = l
\* Go to l with the local variables r changed; a call that is over has none.
Go(p, l, r) == th' = [th EXCEPT ![p] = IF l = "user" THEN Idle
                                       ELSE r @@ [@ EXCEPT !.pc = l]]
\* Mutant: dirlink() does not put the inode that has the name already.
Put_link(p, i, l, r) == IF l = "link_exists" THEN Go(p, l, r)
                        ELSE th' = [th EXCEPT ![p] = [pc |-> "iput", put |-> i, ret |-> l] @@
                                                     IF l = "user" THEN Idle ELSE r @@ @]

\* iput(i), then go on at l; r clears the pointer given up.
Put(p, i, l, r) == th' = [th EXCEPT ![p] = [pc |-> "iput", put |-> i, ret |-> l] @@
                                           IF l = "user" THEN Idle ELSE r @@ @]

\* What ilock(i) makes of the entry: the copy that is there, or the disk's.
Copy(i) == IF valid[i] THEN inode[i] ELSE dinode[i]
ilock(i) == lock[i] = Nobody
Load(i) == /\ valid' = [valid EXCEPT ![i] = TRUE]
           /\ inode' = [inode EXCEPT ![i] = Copy(i)]
iget(i) == ref' = [ref EXCEPT ![i] = @ + 1]
IsDir(i) == Copy(i).type = "dir"
dirlookup(d, n) == ents[d][n]
dirlink(f, d, n, i) == [f EXCEPT ![d][n] = i]
\* No entry of d is empty and none fits into its last block: dirlink() needs
\* another block, and fails when the disk has none.
Full(d) == Cardinality({n \in AllNames : ents[d][n] # Null}) = DIRENTS * blocks[d]
Extend(d) == [blocks EXCEPT ![d] = IF Full(d) THEN @ + 1 ELSE @]

\* The inode the next step of p locks with ilock().
Locks(p) == CASE At(p, "namex") /\ th[p].path # <<>> -> th[p].ip
              [] th[p].pc \in {"create", "unlink", "link_dp"} -> th[p].dp
              [] th[p].pc \in {"create_old", "create_new", "unlink_ip", "open",
                               "chdir", "link"} -> th[p].ip
              [] At(p, "link_bad") -> th[p].old
              [] OTHER -> Null
Panics(p) == LET i == Locks(p) IN
    /\ i # Null /\ lock[i] = Nobody
    /\ \/ ref[i] < 1 \/ Copy(i).type = "free"
       \/ At(p, "unlink_ip") /\ Copy(i).nlink < 1
       \/ th[p].pc \in {"create", "unlink", "link_dp"} /\ ~IsDir(i)

-----------------------------------------------------------------------------
\* namex() begins at the root or at the working directory.
NamexFrom(p, path, abs, parent, cont, bad, r) ==
    LET i == IF abs THEN ROOTINO ELSE cwd[p]
    IN  /\ iget(i)
        /\ Go(p, "namex", [ip |-> i, path |-> path, parent |-> parent,
                           cont |-> cont, bad |-> bad] @@ r)

Cont(op) == CASE op \in {"creat", "mkdir", "mknod"} -> "create"
              [] op = "openw" -> "open"
              [] OTHER -> op
syscall(p) ==
    /\ At(p, "user")
    /\ \E c \in Calls :
        /\ c.op = "link" => \A i \in Inums :
               dinode[i].type = "dir" \/ dinode[i].nlink < MaxNlink
        /\ NamexFrom(p, c.path, c.abs, c.op \in {"creat", "mkdir", "mknod", "unlink"},
                     Cont(c.op), "user",
                     [call |-> IF c.op = "link" THEN [c EXCEPT !.path = <<>>]
                               ELSE [NoCall EXCEPT !.op = c.op]])
    /\ UNCHANGED <<dinode, ents, blocks, inode, valid, lock, cwd, ofile, lost, panic>>

\* sys_close() on the one descriptor: fileclose() drops the last reference to
\* the struct file and puts its inode in a transaction of its own.
sys_close(p) ==
    /\ At(p, "user") /\ ofile[p] # Null
    /\ Put(p, ofile[p], "user", <<>>)
    /\ ofile' = [ofile EXCEPT ![p] = Null]
    /\ UNCHANGED <<dinode, ents, blocks, inode, ref, valid, lock, cwd, lost, panic>>

Done == [path |-> <<>>, parent |-> FALSE, cont |-> "user", bad |-> "user"]
\* One turn of the loop of namex().
namex(p) ==
    LET ip == th[p].ip
        path == th[p].path
        next == dirlookup(ip, Head(path))
        stop == th[p].parent /\ Len(path) = 1
    IN  /\ At(p, "namex")
        /\ \/ /\ path = <<>>
              /\ IF th[p].parent THEN Put(p, ip, th[p].bad, [ip |-> Null] @@ Done)
                                 ELSE Go(p, th[p].cont, Done)
              /\ UNCHANGED <<ref, valid, inode>>
           \/ /\ path # <<>> /\ ilock(ip) /\ Load(ip)
              /\ CASE IsDir(ip) /\ stop ->
                        /\ Go(p, th[p].cont, [dp |-> ip, ip |-> Null,
                                              name |-> Head(path)] @@ Done)
                        /\ UNCHANGED ref
                   [] IsDir(ip) /\ ~stop /\ next # Null ->
                        /\ iget(next)
                        /\ Put(p, ip, "namex", [ip |-> next, path |-> Tail(path)])
                   [] OTHER ->
                        /\ Put(p, ip, th[p].bad, [ip |-> Null] @@ Done)
                        /\ UNCHANGED ref
        /\ UNCHANGED <<dinode, ents, blocks, lock, cwd, ofile, lost, panic>>

-----------------------------------------------------------------------------
\* Mutant: the reference count is not looked at.
LastPut_any(i) == valid[i] /\ inode[i].nlink = 0

\* iput(): the test under itable.lock.
LastPut(i) == ref[i] = 1 /\ valid[i] /\ inode[i].nlink = 0
\* An entry without references is as good as empty: iget() resets valid.
Drop(i) == /\ ref' = [ref EXCEPT ![i] = @ - 1]
           /\ valid' = [valid EXCEPT ![i] = @ /\ ref[i] > 1]
           /\ inode' = [inode EXCEPT ![i] = IF ref[i] > 1 THEN @ ELSE Free]

iput(p) ==
    LET i == th[p].put
    IN  /\ At(p, "iput")
        /\ IF LastPut(i)
           THEN /\ lock[i] = Nobody
                /\ lock' = [lock EXCEPT ![i] = p]
                /\ Go(p, "ifree", <<>>)
                /\ UNCHANGED <<ref, valid, inode>>
           ELSE /\ Drop(i)
                /\ Go(p, th[p].ret, [put |-> Null, ret |-> "user"])
                /\ UNCHANGED lock
        /\ UNCHANGED <<dinode, ents, blocks, cwd, ofile, lost, panic>>

\* iput(): itrunc(), type = 0, iupdate(), valid = 0, releasesleep().
iput_free(p) ==
    LET i == th[p].put
    IN  /\ At(p, "ifree")
        /\ dinode' = [dinode EXCEPT ![i] = Free]
        /\ ents' = [ents EXCEPT ![i] = NoEnts]
        /\ blocks' = [blocks EXCEPT ![i] = 0]
        /\ inode' = [inode EXCEPT ![i] = Free]
        /\ valid' = [valid EXCEPT ![i] = FALSE]
        /\ lock' = [lock EXCEPT ![i] = Nobody]
        /\ Go(p, "idec", <<>>)
        /\ UNCHANGED <<ref, cwd, ofile, lost, panic>>

\* iput(): itable.lock again, and ref--.
iput_dec(p) ==
    LET i == th[p].put
    IN  /\ At(p, "idec")
        /\ Drop(i)
        /\ Go(p, th[p].ret, [put |-> Null, ret |-> "user"])
        /\ UNCHANGED <<dinode, ents, blocks, lock, cwd, ofile, lost, panic>>

-----------------------------------------------------------------------------
TypeOf(op) == CASE op = "mkdir" -> "dir" [] op = "mknod" -> "device" [] OTHER -> "file"
FreeInums == {i \in Inums : dinode[i].type = "free"}
\* Both copies of inode i become d: the assignment and iupdate().
Both(f, i, d) == [f EXCEPT ![i] = d]
\* Mutant: a link more is not counted.
More_less(i, n) == IF n > 0 THEN Copy(i) ELSE [Copy(i) EXCEPT !.nlink = @ + n]

More(i, n) == [Copy(i) EXCEPT !.nlink = @ + n]

\* create(): ilock(dp), then dirlookup() or ialloc().  Which free inode the
\* scan of ialloc() finds makes no difference: it is the first.
create(p) ==
    LET dp == th[p].dp
        found == dirlookup(dp, th[p].name)
        new == CHOOSE i \in FreeInums : \A j \in FreeInums : i <= j
    IN  /\ At(p, "create") /\ ilock(dp) /\ Load(dp)
        /\ CASE found # Null ->
                  /\ iget(found)
                  /\ Put(p, dp, "create_old", [dp |-> Null, ip |-> found, name |-> "."])
                  /\ UNCHANGED <<dinode, lock>>
             [] found = Null /\ FreeInums = {} ->
                  /\ Put(p, dp, "user", [dp |-> Null])
                  /\ UNCHANGED <<dinode, lock, ref>>
             [] OTHER ->
                  /\ dinode' = [dinode EXCEPT ![new] =
                                   [type |-> TypeOf(th[p].call.op), nlink |-> 0]]
                  /\ iget(new)
                  /\ lock' = [lock EXCEPT ![dp] = p]
                  /\ Go(p, "create_new", [ip |-> new])
        /\ UNCHANGED <<ents, blocks, cwd, ofile, lost, panic>>

\* create(): from ilock(ip) on, both inodes locked.  It fails when there is no
\* block for "." and ".." of a new directory, or none for the entry in dp.
create_new(p) ==
    LET dp == th[p].dp
        ip == th[p].ip
        dir == th[p].call.op = "mkdir"
        New == [Copy(ip) EXCEPT !.nlink = 1]
        Parent == More(dp, IF dir THEN 1 ELSE 0)
        Dotted == IF dir THEN dirlink(dirlink(ents, ip, ".", ip), ip, "..", dp) ELSE ents
    IN  /\ At(p, "create_new") /\ ilock(ip)
        /\ valid' = [valid EXCEPT ![ip] = TRUE]
        /\ \/ /\ dinode' = Both(Both(dinode, ip, New), dp, Parent)
              /\ inode' = Both(Both(inode, ip, New), dp, Parent)
              /\ ents' = dirlink(Dotted, dp, th[p].name, ip)
              /\ blocks' = [Extend(dp) EXCEPT ![ip] = IF dir THEN 1 ELSE 0]
              /\ lock' = [lock EXCEPT ![ip] = p, ![dp] = Nobody]
              /\ Put(p, dp, "created", [dp |-> Null, name |-> "."])
           \/ /\ \/ dir /\ UNCHANGED <<ents, blocks>>
                 \/ /\ Full(dp)
                    /\ ents' = Dotted
                    /\ blocks' = [blocks EXCEPT ![ip] = IF dir THEN 1 ELSE 0]
              /\ dinode' = Both(dinode, ip, [New EXCEPT !.nlink = 0])
              /\ inode' = Both(inode, ip, [New EXCEPT !.nlink = 0])
              /\ Put(p, ip, "put_dp", [ip |-> Null, name |-> "."])
              /\ UNCHANGED lock
        /\ UNCHANGED <<ref, cwd, ofile, lost, panic>>

\* create(): the name was there; ilock(ip).
create_old(p) ==
    LET ip == th[p].ip
    IN  /\ At(p, "create_old") /\ ilock(ip) /\ Load(ip)
        /\ IF th[p].call.op = "creat" /\ ~IsDir(ip)
           THEN /\ lock' = [lock EXCEPT ![ip] = p]
                /\ Go(p, "created", <<>>)
           ELSE /\ Put(p, ip, "user", [ip |-> Null])
                /\ UNCHANGED lock
        /\ UNCHANGED <<dinode, ents, blocks, ref, cwd, ofile, lost, panic>>

\* The rest of sys_open(), ip locked: filealloc() and fdalloc() find a place,
\* or the inode is put.  sys_mkdir() and sys_mknod() always put it.
OpenTail(p, ip, ok) ==
    IF ok /\ ofile[p] = Null
    THEN /\ ofile' = [ofile EXCEPT ![p] = ip]
         /\ Go(p, "user", <<>>)
    ELSE /\ Put(p, ip, "user", [ip |-> Null])
         /\ UNCHANGED ofile

created(p) ==
    /\ At(p, "created")
    /\ OpenTail(p, th[p].ip, th[p].call.op = "creat")
    /\ lock' = [lock EXCEPT ![th[p].ip] = Nobody]
    /\ UNCHANGED <<dinode, ents, blocks, inode, ref, valid, cwd, lost, panic>>

\* sys_open() without O_CREATE; "openw" asks for more than O_RDONLY.
open(p) ==
    LET ip == th[p].ip
    IN  /\ At(p, "open") /\ ilock(ip) /\ Load(ip)
        /\ OpenTail(p, ip, ~(IsDir(ip) /\ th[p].call.op = "openw"))
        /\ UNCHANGED <<dinode, ents, blocks, ref, lock, cwd, lost, panic>>

\* iunlockput(dp) at the end of a failed create(), unlink() or link().
put_dp(p) ==
    /\ th[p].pc \in {"put_dp", "link_exists"}
    /\ lock' = [lock EXCEPT ![th[p].dp] = Nobody]
    /\ Put(p, th[p].dp, IF At(p, "put_dp") THEN "user" ELSE "link_bad", [dp |-> Null])
    /\ UNCHANGED <<dinode, ents, blocks, inode, ref, valid, cwd, ofile, lost, panic>>

-----------------------------------------------------------------------------
\* sys_unlink(): ilock(dp) and dirlookup().
unlink(p) ==
    LET dp == th[p].dp
        found == dirlookup(dp, th[p].name)
    IN  /\ At(p, "unlink") /\ ilock(dp) /\ Load(dp)
        /\ IF th[p].name \in Dots \/ found = Null
           THEN /\ Put(p, dp, "user", [dp |-> Null])
                /\ UNCHANGED <<ref, lock>>
           ELSE /\ iget(found)
                /\ lock' = [lock EXCEPT ![dp] = p]
                /\ Go(p, "unlink_ip", [ip |-> found])
        /\ UNCHANGED <<dinode, ents, blocks, cwd, ofile, lost, panic>>

isdirempty(i) == \A n \in Names : ents[i][n] = Null

\* sys_unlink(): ilock(ip); the entry goes, and with a directory its "..".
unlink_ip(p) ==
    LET dp == th[p].dp
        ip == th[p].ip
        Parent == More(dp, IF IsDir(ip) THEN -1 ELSE 0)
    IN  /\ At(p, "unlink_ip") /\ ilock(ip)
        /\ valid' = [valid EXCEPT ![ip] = TRUE]
        /\ IF IsDir(ip) /\ ~isdirempty(ip)
           THEN /\ inode' = Both(inode, ip, Copy(ip))
                /\ Put(p, ip, "put_dp", [ip |-> Null, name |-> "."])
                /\ UNCHANGED <<dinode, ents, lock>>
           ELSE /\ inode' = Both(Both(inode, ip, Copy(ip)), dp, Parent)
                /\ dinode' = Both(dinode, dp, Parent)
                /\ ents' = [ents EXCEPT ![dp][th[p].name] = Null]
                /\ lock' = [lock EXCEPT ![dp] = Nobody, ![ip] = p]
                /\ Put(p, dp, "unlink_end", [dp |-> Null, name |-> "."])
        /\ UNCHANGED <<blocks, ref, cwd, ofile, lost, panic>>

\* sys_unlink(): ip->nlink--, iupdate(ip), iunlockput(ip).
unlink_end(p) ==
    LET ip == th[p].ip
    IN  /\ At(p, "unlink_end")
        /\ inode' = Both(inode, ip, More(ip, -1))
        /\ dinode' = Both(dinode, ip, More(ip, -1))
        /\ lock' = [lock EXCEPT ![ip] = Nobody]
        /\ Put(p, ip, "user", [ip |-> Null])
        /\ UNCHANGED <<ents, blocks, ref, valid, cwd, ofile, lost, panic>>

-----------------------------------------------------------------------------
\* sys_link(): the count goes up first, in a section of its own, then
\* nameiparent(new).
link(p) ==
    LET ip == th[p].ip
        c == th[p].call
    IN  /\ At(p, "link") /\ ilock(ip)
        /\ valid' = [valid EXCEPT ![ip] = TRUE]
        /\ IF IsDir(ip)
           THEN /\ inode' = Both(inode, ip, Copy(ip))
                /\ Put(p, ip, "user", [ip |-> Null])
                /\ UNCHANGED <<dinode, ref>>
           ELSE /\ inode' = Both(inode, ip, More(ip, 1))
                /\ dinode' = Both(dinode, ip, More(ip, 1))
                /\ NamexFrom(p, c.new, c.abs, TRUE, "link_dp", "link_bad", [old |-> ip])
        /\ UNCHANGED <<ents, blocks, lock, cwd, ofile, lost, panic>>

\* sys_link(): ilock(dp) and dirlink(), which fails when the name is there
\* (after putting the inode it names) or there is no block it needs.
link_dp(p) ==
    LET dp == th[p].dp
        found == dirlookup(dp, th[p].name)
    IN  /\ At(p, "link_dp") /\ ilock(dp) /\ Load(dp)
        /\ \/ /\ found # Null
              /\ iget(found)
              /\ lock' = [lock EXCEPT ![dp] = p]
              /\ Put(p, found, "link_exists", [call |-> NoCall, name |-> "."])
              /\ UNCHANGED <<ents, blocks>>
           \/ /\ found = Null
              /\ blocks' = Extend(dp)
              /\ ents' = dirlink(ents, dp, th[p].name, th[p].old)
              /\ Put(p, dp, "link_done", [dp |-> Null, call |-> NoCall, name |-> "."])
              /\ UNCHANGED <<ref, lock>>
           \/ /\ found = Null /\ Full(dp)
              /\ Put(p, dp, "link_bad", [dp |-> Null, call |-> NoCall, name |-> "."])
              /\ UNCHANGED <<ents, blocks, ref, lock>>
        /\ UNCHANGED <<dinode, cwd, ofile, lost, panic>>

link_done(p) ==
    /\ At(p, "link_done")
    /\ Put(p, th[p].old, "user", [old |-> Null])
    /\ UNCHANGED <<dinode, ents, blocks, inode, ref, valid, lock, cwd, ofile, lost, panic>>

\* sys_link(): the label bad takes the count back.
link_bad(p) ==
    LET ip == th[p].old
    IN  /\ At(p, "link_bad") /\ ilock(ip)
        /\ valid' = [valid EXCEPT ![ip] = TRUE]
        /\ inode' = Both(inode, ip, More(ip, -1))
        /\ dinode' = Both(dinode, ip, More(ip, -1))
        /\ Put(p, ip, "user", [old |-> Null])
        /\ UNCHANGED <<ents, blocks, ref, lock, cwd, ofile, lost, panic>>

\* sys_chdir(): the new directory is checked, the old one put.
chdir(p) ==
    LET ip == th[p].ip
    IN  /\ At(p, "chdir") /\ ilock(ip) /\ Load(ip)
        /\ IF IsDir(ip)
           THEN /\ Put(p, cwd[p], "chdir_end", <<>>)
                /\ cwd' = [cwd EXCEPT ![p] = Null]
           ELSE /\ Put(p, ip, "user", [ip |-> Null])
                /\ UNCHANGED cwd
        /\ UNCHANGED <<dinode, ents, blocks, ref, lock, ofile, lost, panic>>

chdir_end(p) ==
    /\ At(p, "chdir_end")
    /\ cwd' = [cwd EXCEPT ![p] = th[p].ip]
    /\ Go(p, "user", <<>>)
    /\ UNCHANGED <<dinode, ents, blocks, inode, ref, valid, lock, ofile, lost, panic>>

-----------------------------------------------------------------------------
Quiescent == \A p \in Procs : At(p, "user")
Orphans == {i \in Inums : dinode[i].type # "free" /\ dinode[i].nlink = 0}

\* The machine stops between transactions: the disk stays, the rest is as at
\* boot.  Nothing looks for inodes that had no link but were still open.
Crash ==
    /\ Quiescent
    /\ \E p \in Procs : cwd[p] # ROOTINO \/ ofile[p] # Null
    /\ inode' = [i \in Inums |-> Free]
    /\ ref' = [i \in Inums |-> IF i = ROOTINO THEN Cardinality(Procs) ELSE 0]
    /\ valid' = [i \in Inums |-> FALSE]
    /\ cwd' = [p \in Procs |-> ROOTINO]
    /\ ofile' = [p \in Procs |-> Null]
    /\ lost' = Orphans
    /\ UNCHANGED <<dinode, ents, blocks, lock, th, panic>>

step(p) ==
    \/ syscall(p) \/ sys_close(p) \/ namex(p)
    \/ iput(p) \/ iput_free(p) \/ iput_dec(p)
    \/ create(p) \/ create_new(p) \/ create_old(p) \/ created(p) \/ open(p)
    \/ put_dp(p) \/ unlink(p) \/ unlink_ip(p) \/ unlink_end(p)
    \/ link(p) \/ link_dp(p) \/ link_done(p) \/ link_bad(p)
    \/ chdir(p) \/ chdir_end(p)

Next ==
    /\ panic = "none"
    /\ \/ \E p \in Procs :
            IF Panics(p)
            THEN panic' = "ilock" /\ UNCHANGED <<dinode, ents, blocks, inode, ref, valid,
                                                 lock, cwd, ofile, th, lost>>
            ELSE step(p)
       \/ Crash

Spec == Init /\ [][Next]_vars

-----------------------------------------------------------------------------
TypeOK ==
    LET Inode == [type : {"free", "dir", "file", "device"}, nlink : 0 .. MaxNlink + Cardinality(Procs)]
    IN  /\ dinode \in [Inums -> Inode] /\ inode \in [Inums -> Inode]
        /\ ents \in [Inums -> [AllNames -> Inums \cup {Null}]]
        /\ blocks \in [Inums -> Nat]
        /\ ref \in [Inums -> Nat] /\ valid \in [Inums -> BOOLEAN]
        /\ lock \in [Inums -> Procs \cup {Nobody}]
        /\ cwd \in [Procs -> Inums \cup {Null}] /\ ofile \in [Procs -> Inums \cup {Null}]
        /\ lost \subseteq Inums /\ panic \in {"none", "ilock"}

Holders(i) == {h \in Procs \X {"ip", "dp", "old", "put"} : th[h[1]][h[2]] = i}
\* The reference count of every in-memory inode is exactly the number of
\* pointers to it: working directories, open files and the local variables of
\* running system calls, on every path through them (fs.c: iget, idup, iput).
RefsExact == \A i \in Inums :
    ref[i] = Cardinality({p \in Procs : cwd[p] = i}) + Cardinality(Holders(i))
             + Cardinality({p \in Procs : ofile[p] = i})

\* An inode nobody has locked is on the disk as it is in memory: every change
\* was followed by iupdate() before the lock was given up (fs.c: iupdate), and
\* an inode in the table with a copy is not free.
CleanUnlocked == \A i \in Inums :
    valid[i] /\ lock[i] = Nobody => inode[i] = dinode[i] /\ dinode[i].type # "free"

\* iput() never waits for the lock of the inode it is about to free, as its
\* comment says: it would wait with itable.lock held.
IputNeverBlocks == \A p \in Procs :
    At(p, "iput") /\ LastPut(th[p].put) => lock[th[p].put] = Nobody

Live(d) == dinode[d].type = "dir" /\ dinode[d].nlink > 0
Links(i) == Cardinality({<<d, n>> \in Inums \X Names : Live(d) /\ ents[d][n] = i})
            + Cardinality({d \in Inums : Live(d) /\ ents[d][".."] = i})
\* Between transactions (and so after any crash) a name leads to an inode that
\* is allocated, and no inode has more names than its link count: no order of
\* the calls frees an inode that has a name (sysfile.c: sys_link, sys_unlink).
LinksCounted == Quiescent => \A i \in Inums :
    Links(i) > 0 => Links(i) <= dinode[i].nlink /\ dinode[i].type # "free"

\* What fs.c:332 says of iput(): "If that was the last reference and the inode
\* has no links to it, free the inode".  So an inode without link or reference
\* is one that a crash has left.
LastPutFrees == Quiescent => \A i \in Orphans : ref[i] > 0 \/ i \in lost

\* No system call meets an inode it must not: ilock() finds a type, dirlookup()
\* a directory, sys_unlink() a link.
NoPanic == panic = "none"
=============================================================================
