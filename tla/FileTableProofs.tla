-------------------------- MODULE FileTableProofs ---------------------------
(***************************************************************************)
(* Proofs about FileTable, for any number of processes, files, descriptors *)
(* and pages: reference counts are exact, what an open file stands for is  *)
(* closed once, by the last close, and filedup() and fileclose() do not    *)
(* panic.                                                                  *)
(***************************************************************************)
EXTENDS FileTable, FiniteSetTheorems, WellFoundedInduction, TLAPS

\* Backends and time limits for the proofs of this module.
USE ZenonT(20), SMTT(20)

\* The sizes of the tables.
Sizes == IsFiniteSet(Procs) /\ NFILE \in Nat /\ NOFILE \in Nat
-----------------------------------------------------------------------------
(* Counting.                                                               *)

\* How many values of h are v, for a function h on D; whether x is one of them.
CountOn(D, h, v) == Cardinality({x \in D : h[x] = v})
Is(x, v) == IF x = v THEN 1 ELSE 0

\* How the count goes from h to k when they differ at a; a and b; a, b and c.
Moved(D, h, k, a, v) == CountOn(D, k, v) = CountOn(D, h, v) + Is(k[a], v) - Is(h[a], v)
Moved2(D, h, k, a, b, v) ==
    CountOn(D, k, v) = CountOn(D, h, v) + Is(k[a], v) + Is(k[b], v) - Is(h[a], v) - Is(h[b], v)
Moved3(D, h, k, a, b, c, v) ==
    CountOn(D, k, v) = CountOn(D, h, v) + Is(k[a], v) + Is(k[b], v) + Is(k[c], v)
                                        - Is(h[a], v) - Is(h[b], v) - Is(h[c], v)

(* A count is a number.                                                    *)
LEMMA CountType ==
    ASSUME NEW D, IsFiniteSet(D), NEW h, NEW v
    PROVE  CountOn(D, h, v) \in Nat
<1>. DEFINE S == {x \in D : h[x] = v}
<1>1. S \subseteq D
  OBVIOUS
<1>2. Cardinality(S) \in Nat
  <2>. HIDE DEF S
  <2>. QED  BY <1>1, FS_Subset, FS_CardinalityType
<1>. QED  BY <1>2 DEF CountOn

LEMMA IsType ==
    ASSUME NEW x, NEW v
    PROVE  /\ Is(x, v) \in {0, 1}
           /\ x = v => Is(x, v) = 1
           /\ x # v => Is(x, v) = 0
BY DEF Is

(* What is somewhere is counted.                                           *)
LEMMA CountPositive ==
    ASSUME NEW D, IsFiniteSet(D), NEW h, NEW a \in D
    PROVE  CountOn(D, h, h[a]) # 0
<1>. DEFINE S == {x \in D : h[x] = h[a]}
<1>1. S \subseteq D /\ a \in S
  OBVIOUS
<1>2. Cardinality(S) # 0
  <2>. HIDE DEF S
  <2>1. IsFiniteSet(S)
    BY <1>1, FS_Subset
  <2>. QED  BY <1>1, <2>1, FS_EmptySet
<1>. QED  BY <1>2 DEF CountOn

(* One value changes.                                                      *)
LEMMA CountChange ==
    ASSUME NEW D, IsFiniteSet(D), NEW h, NEW k, NEW a \in D,
           \A x \in D : x # a => k[x] = h[x],
           NEW v
    PROVE  Moved(D, h, k, a, v)
<1>. DEFINE S == {x \in D : h[x] = v}
            T == {x \in D : k[x] = v}
<1>1. /\ S \subseteq D /\ T \subseteq D
      /\ T \ {a} = S \ {a}
      /\ (a \in S <=> h[a] = v) /\ (a \in T <=> k[a] = v)
  OBVIOUS
<1>2. Cardinality(T) = Cardinality(S) + Is(k[a], v) - Is(h[a], v)
  <2>. HIDE DEF S, T
  <2>1. IsFiniteSet(S) /\ IsFiniteSet(T)
    BY <1>1, FS_Subset
  <2>2. /\ Cardinality(S \ {a}) = IF a \in S THEN Cardinality(S) - 1 ELSE Cardinality(S)
        /\ Cardinality(T \ {a}) = IF a \in T THEN Cardinality(T) - 1 ELSE Cardinality(T)
    BY <2>1, FS_RemoveElement
  <2>3. Cardinality(S) \in Nat /\ Cardinality(T) \in Nat
    BY <2>1, FS_CardinalityType
  <2>4. Is(h[a], v) = (IF a \in S THEN 1 ELSE 0) /\ Is(k[a], v) = (IF a \in T THEN 1 ELSE 0)
    BY <1>1 DEF Is
  <2>5. Cardinality(T \ {a}) = Cardinality(S \ {a})
    BY <1>1
  <2>. QED  BY SMTT(20), <2>2, <2>3, <2>4, <2>5
<1>. QED  BY <1>2 DEF CountOn, Moved

(* Two values change.                                                      *)
LEMMA CountChanges ==
    ASSUME NEW D, IsFiniteSet(D), NEW h, NEW k, NEW a \in D, NEW b \in D, a # b,
           \A x \in D : x # a /\ x # b => k[x] = h[x],
           NEW v
    PROVE  Moved2(D, h, k, a, b, v)
<1>. DEFINE m == [x \in D |-> IF x = a THEN k[a] ELSE h[x]]
<1>1. m[a] = k[a] /\ m[b] = h[b]
  OBVIOUS
<1>7. \A x \in D : x # a => m[x] = h[x]
  OBVIOUS
<1>8. \A x \in D : x # b => k[x] = m[x]
  OBVIOUS
<1>. HIDE DEF m
<1>2. Moved(D, h, m, a, v)
  BY Zenon, <1>7, CountChange
<1>3. Moved(D, m, k, b, v)
  BY Zenon, <1>8, CountChange
<1>4. CountOn(D, h, v) \in Nat /\ CountOn(D, m, v) \in Nat /\ CountOn(D, k, v) \in Nat
  BY CountType
<1>5. Is(h[a], v) \in {0, 1} /\ Is(h[b], v) \in {0, 1} /\ Is(k[a], v) \in {0, 1}
      /\ Is(k[b], v) \in {0, 1}
  BY IsType
<1>6. CountOn(D, m, v) = CountOn(D, h, v) + Is(k[a], v) - Is(h[a], v)
      /\ CountOn(D, k, v) = CountOn(D, m, v) + Is(k[b], v) - Is(h[b], v)
  BY <1>1, <1>2, <1>3 DEF Moved
<1>. QED  BY SMTT(20), <1>4, <1>5, <1>6 DEF Moved2

(* Three values change.                                                    *)
LEMMA CountChanges3 ==
    ASSUME NEW D, IsFiniteSet(D), NEW h, NEW k, NEW a \in D, NEW b \in D, NEW c \in D,
           a # b, a # c, b # c,
           \A x \in D : x # a /\ x # b /\ x # c => k[x] = h[x],
           NEW v
    PROVE  Moved3(D, h, k, a, b, c, v)
<1>. DEFINE m == [x \in D |-> IF x = a THEN k[a] ELSE h[x]]
<1>1. m[a] = k[a] /\ m[b] = h[b] /\ m[c] = h[c]
  OBVIOUS
<1>2. \A x \in D : x # a => m[x] = h[x]
  OBVIOUS
<1>3. \A x \in D : x # b /\ x # c => k[x] = m[x]
  OBVIOUS
<1>. HIDE DEF m
<1>4. Moved(D, h, m, a, v)
  BY Zenon, <1>2, CountChange
<1>5. Moved2(D, m, k, b, c, v)
  BY Zenon, <1>3, CountChanges
<1>6. CountOn(D, h, v) \in Nat /\ CountOn(D, m, v) \in Nat /\ CountOn(D, k, v) \in Nat
  BY CountType
<1>7. Is(h[a], v) \in {0, 1} /\ Is(h[b], v) \in {0, 1} /\ Is(h[c], v) \in {0, 1}
      /\ Is(k[a], v) \in {0, 1} /\ Is(k[b], v) \in {0, 1} /\ Is(k[c], v) \in {0, 1}
  BY IsType
<1>8. CountOn(D, m, v) = CountOn(D, h, v) + Is(k[a], v) - Is(h[a], v)
  BY <1>1, <1>4 DEF Moved
<1>9. CountOn(D, k, v) = CountOn(D, m, v) + Is(k[b], v) + Is(k[c], v) - Is(h[b], v) - Is(h[c], v)
  BY <1>1, <1>5 DEF Moved2
<1>. QED  BY SMTT(20), <1>6, <1>7, <1>8, <1>9 DEF Moved3
-----------------------------------------------------------------------------
(* The invariant.                                                          *)

\* What a file can stand for.
Kinds == {NoFile, Inode} \cup {PipeEnd(g, w) : g \in Pages, w \in BOOLEAN}

FileRec == [ref : Nat, type : {"none", "inode", "pipe"}, pipe : Pages \cup {Null},
            writable : BOOLEAN]
Flags == [readopen : BOOLEAN, writeopen : BOOLEAN]
Pcs == {"user", "unused", "pipealloc", "fork", "forked", "exit", "close"}
Thread == [pc : Pcs, f0 : Files \cup {Null}, f1 : Files \cup {Null}, ff : Kinds,
           np : Procs \cup {Null}, ret : Pcs]

TypeOK ==
    /\ file \in [Files -> FileRec]
    /\ ofile \in [Procs -> [Fds -> Files \cup {Null}]]
    /\ pipe \in [Pages -> Flags]
    /\ th \in [Procs -> Thread]

\* What filealloc() makes of an entry.
New == File(1, "none", Null, FALSE)

\* An entry of the table is consistent, and a free one is empty.
EntryAt(r) == Kind(r) \in Kinds /\ (r.ref = 0 => r = NoFile)
EntryOK == \A f \in Files : EntryAt(file[f])

\* The pointers a process has besides its descriptors are those of the call
\* it is in; a process that is not there has no descriptors.
PlaceAt(t, o) ==
    /\ t.pc # "close" => t.ff = NoFile /\ t.f1 = Null
    /\ t.pc \notin {"close", "pipealloc"} => t.f0 = Null
    /\ t.pc = "close" => t.ret \in {"user", "exit"}
    /\ t.pc = "unused" => \A fd \in Fds : o[fd] = Null
PlaceOK == \A p \in Procs : PlaceAt(th[p], ofile[p])

\* A child belongs to one fork(), and has some of its parent's files.
ForkOK ==
    \A p \in Procs : th[p].pc = "fork" =>
        /\ th[p].np \in Procs /\ th[th[p].np].pc = "forked"
        /\ \A fd \in Fds : ofile[th[p].np][fd] \in {Null, ofile[p][fd]}
        /\ \A q \in Procs : th[q].pc = "fork" /\ th[q].np = th[p].np => q = p

\* The file pipealloc() has got first stands for nothing yet, and no other
\* pointer leads to it.
PtrDom == Procs \X Places
AllocOK ==
    \A p \in Procs : th[p].pc = "pipealloc" =>
        /\ th[p].f0 \in Files /\ file[th[p].f0] = New
        /\ \A x \in PtrDom : Pointers[x] = th[p].f0 => x = <<p, -1>>

\* FilesCounted, with one formula for all that files stand for: how many of
\* them there should be, from the flags of the pipes and the references.
Held(pp, i, v) == IF v = Inode THEN i
                  ELSE IF v.writable THEN One(pp[v.pipe].writeopen)
                  ELSE One(pp[v.pipe].readopen)
RefOK == \A f \in Files : file[f].ref = CountOn(PtrDom, Pointers, f)
HeldOK == \A v \in Kinds \ {NoFile} : CountOn(Entries, Stands, v) = Held(pipe, iref, v)

Inv == TypeOK /\ EntryOK /\ PlaceOK /\ ForkOK /\ AllocOK /\ RefOK /\ HeldOK /\ NoPanic

(* The two ways to count agree.                                            *)
LEMMA CountIs ==
    ASSUME NEW D, NEW h, DOMAIN h = D, NEW v
    PROVE  Count(h, v) = CountOn(D, h, v)
BY DEF Count, CountOn

(* Records of files, field by field.                                       *)
LEMMA FileFields ==
    ASSUME NEW n, NEW t, NEW g, NEW w
    PROVE  /\ File(n, t, g, w).ref = n /\ File(n, t, g, w).type = t
           /\ File(n, t, g, w).pipe = g /\ File(n, t, g, w).writable = w
           /\ Kind(File(n, t, g, w)) = File(0, t, g, w)
BY DEF File, Kind

LEMMA FileType ==
    ASSUME NEW n \in Nat, NEW t \in {"none", "inode", "pipe"}, NEW g \in Pages \cup {Null},
           NEW w \in BOOLEAN
    PROVE  File(n, t, g, w) \in FileRec
BY DEF FileRec, File

LEMMA KindsDiffer ==
    /\ Inode # NoFile
    /\ \A g, w : PipeEnd(g, w) # NoFile /\ PipeEnd(g, w) # Inode
    /\ \A g, w : PipeEnd(g, w).pipe = g /\ PipeEnd(g, w).writable = w /\ PipeEnd(g, w).type = "pipe"
    /\ NoFile.type = "none" /\ Inode.type = "inode"
BY DEF Inode, NoFile, PipeEnd, File

LEMMA KindsAre ==
    /\ NoFile \in Kinds /\ Inode \in Kinds
    /\ \A g \in Pages : PipeEnd(g, TRUE) \in Kinds /\ PipeEnd(g, FALSE) \in Kinds
    /\ \A v \in Kinds \ {NoFile} :
        v = Inode \/ \E g \in Pages : v = PipeEnd(g, TRUE) \/ v = PipeEnd(g, FALSE)
<1>1. NoFile \in Kinds /\ Inode \in Kinds
  BY SMTT(20) DEF Kinds
<1>2. ASSUME NEW g \in Pages, NEW w \in BOOLEAN
      PROVE  PipeEnd(g, w) \in Kinds
  <2>1. PipeEnd(g, w) \in {PipeEnd(h, u) : h \in Pages, u \in BOOLEAN}
    BY SMTT(20)
  <2>. QED  BY SMTT(20), <2>1 DEF Kinds
<1>3. ASSUME NEW v \in Kinds \ {NoFile}
      PROVE  v = Inode \/ \E g \in Pages : v = PipeEnd(g, TRUE) \/ v = PipeEnd(g, FALSE)
  <2>1. v = Inode \/ \E g \in Pages, w \in BOOLEAN : v = PipeEnd(g, w)
    BY SMTT(20) DEF Kinds
  <2>. QED  BY <2>1
<1>4. \A g \in Pages : PipeEnd(g, TRUE) \in Kinds /\ PipeEnd(g, FALSE) \in Kinds
  BY <1>2
<1>. QED  BY Zenon, <1>1, <1>3, <1>4

LEMMA CountedFromInv ==
    ASSUME RefOK, HeldOK
    PROVE  FilesCounted
<1>1. DOMAIN Pointers = PtrDom /\ DOMAIN Stands = Entries
  BY DEF Pointers, Stands, PtrDom
<1>2. \A v : Count(Pointers, v) = CountOn(PtrDom, Pointers, v)
  BY Zenon, <1>1, CountIs
<1>3. \A v : Count(Stands, v) = CountOn(Entries, Stands, v)
  BY Zenon, <1>1, CountIs
<1>4. \A f \in Files : file[f].ref = Count(Pointers, f)
  BY Zenon, <1>2 DEF RefOK
<1>5. Count(Stands, Inode) = iref
  <2>1. Inode \in Kinds \ {NoFile}
    BY SMTT(20), KindsDiffer DEF Kinds
  <2>2. Held(pipe, iref, Inode) = iref
    BY DEF Held
  <2>. QED  BY Zenon, <1>3, <2>1, <2>2 DEF HeldOK
<1>6. ASSUME NEW g \in Pages
      PROVE  /\ Count(Stands, PipeEnd(g, TRUE)) = One(pipe[g].writeopen)
             /\ Count(Stands, PipeEnd(g, FALSE)) = One(pipe[g].readopen)
  <2>1. PipeEnd(g, TRUE) \in Kinds \ {NoFile} /\ PipeEnd(g, FALSE) \in Kinds \ {NoFile}
    BY Zenon, KindsDiffer, KindsAre
  <2>2. /\ Held(pipe, iref, PipeEnd(g, TRUE)) = One(pipe[g].writeopen)
        /\ Held(pipe, iref, PipeEnd(g, FALSE)) = One(pipe[g].readopen)
    <3>1. PipeEnd(g, TRUE).writable = TRUE /\ PipeEnd(g, FALSE).writable = FALSE
      BY Zenon, KindsDiffer
    <3>2. /\ PipeEnd(g, TRUE) # Inode /\ PipeEnd(g, FALSE) # Inode
          /\ PipeEnd(g, TRUE).pipe = g /\ PipeEnd(g, FALSE).pipe = g
      BY Zenon, KindsDiffer
    <3>. QED  BY Zenon, <3>1, <3>2 DEF Held
  <2>. QED  BY Zenon, <1>3, <2>1, <2>2 DEF HeldOK
<1>. QED  BY Zenon, <1>4, <1>5, <1>6 DEF FilesCounted

(* There are finitely many pointers and entries.                           *)
LEMMA Finite ==
    ASSUME Sizes
    PROVE  IsFiniteSet(PtrDom) /\ IsFiniteSet(Entries)
<1>1. IsFiniteSet(Fds) /\ IsFiniteSet(Files)
  BY SMTT(20), FS_Interval DEF Sizes, Fds, Files
<1>2. IsFiniteSet((Fds \cup {-1}) \cup {-2})
  BY <1>1, FS_AddElement
<1>7. Places = (Fds \cup {-1}) \cup {-2}
  BY DEF Places
<1>3. IsFiniteSet(Places)
  BY <1>2, <1>7
<1>4. IsFiniteSet(Procs)
  BY DEF Sizes
<1>5. IsFiniteSet({0}) /\ IsFiniteSet({1})
  BY FS_Singleton
<1>6. IsFiniteSet({0} \X Files) /\ IsFiniteSet({1} \X Procs)
  BY <1>1, <1>4, <1>5, FS_Product
<1>. QED  BY <1>3, <1>4, <1>6, FS_Product, FS_Union DEF PtrDom, Entries
-----------------------------------------------------------------------------
(* Pointers and entries, one at a time.                                    *)

\* The pointer at place c of a process in state t with descriptors o.
Cell(t, o, c) == IF c = -1 THEN t.f0 ELSE IF c = -2 THEN t.f1 ELSE o[c]

\* The old and the new pointer at place c of p.
Was(p, c) == Cell(th[p], ofile[p], c)
Now(p, c) == Cell(th'[p], ofile'[p], c)

LEMMA PointerCell ==
    ASSUME NEW q \in Procs, NEW c \in Places
    PROVE  /\ <<q, c>> \in PtrDom
           /\ Pointers[<<q, c>>] = Cell(th[q], ofile[q], c)
           /\ Pointers'[<<q, c>>] = Cell(th'[q], ofile'[q], c)
<1>1. <<q, c>> \in PtrDom
  BY DEF PtrDom
<1>2. Pointers[<<q, c>>] = Cell(th[q], ofile[q], c)
  BY <1>1, SMTT(20) DEF Pointers, Cell, PtrDom
<1>3. Pointers'[<<q, c>>] = Cell(th'[q], ofile'[q], c)
  BY <1>1, SMTT(20) DEF Pointers, Cell, PtrDom
<1>. QED  BY <1>1, <1>2, <1>3

LEMMA CellAt ==
    ASSUME Sizes, NEW t, NEW o
    PROVE  /\ -1 \in Places /\ -2 \in Places /\ Fds \subseteq Places
           /\ -1 \notin Fds /\ -2 \notin Fds /\ -1 # -2
           /\ Cell(t, o, -1) = t.f0 /\ Cell(t, o, -2) = t.f1
           /\ \A fd \in Fds : Cell(t, o, fd) = o[fd]
BY SMTT(20) DEF Cell, Places, Fds, Sizes

LEMMA FdCell ==
    ASSUME Sizes, NEW p \in Procs, NEW fd \in Fds
    PROVE  Was(p, fd) = ofile[p][fd] /\ Now(p, fd) = ofile'[p][fd]
BY Zenon, CellAt DEF Was, Now

LEMMA StandAt ==
    /\ \A f \in Files : /\ <<0, f>> \in Entries
                        /\ Stands[<<0, f>>] = Kind(file[f])
                        /\ Stands'[<<0, f>>] = Kind(file'[f])
    /\ \A q \in Procs : /\ <<1, q>> \in Entries
                        /\ Stands[<<1, q>>] = th[q].ff
                        /\ Stands'[<<1, q>>] = th'[q].ff
<1>1. ASSUME NEW f \in Files
      PROVE  /\ <<0, f>> \in Entries
             /\ Stands[<<0, f>>] = Kind(file[f])
             /\ Stands'[<<0, f>>] = Kind(file'[f])
  <2>1. <<0, f>> \in Entries
    BY DEF Entries
  <2>. QED  BY <2>1 DEF Stands, Kind
<1>2. ASSUME NEW q \in Procs
      PROVE  /\ <<1, q>> \in Entries
             /\ Stands[<<1, q>>] = th[q].ff
             /\ Stands'[<<1, q>>] = th'[q].ff
  <2>1. <<1, q>> \in Entries
    BY DEF Entries
  <2>. QED  BY SMTT(20), <2>1 DEF Stands
<1>. QED  BY Zenon, <1>1, <1>2

\* A process p makes a step: nothing of another process changes.
OnlyOf(p) == \A q \in Procs : q # p => th'[q] = th[q] /\ ofile'[q] = ofile[q]
\* Of its pointers, only those at the places C do.
OnlyAt(p, C) == \A c \in Places :
                    c \notin C => Cell(th'[p], ofile'[p], c) = Cell(th[p], ofile[p], c)
Elsewhere(x, p, C) == \A c \in C : x # <<p, c>>

(* All other pointers stay.                                                *)
LEMMA PointersStay ==
    ASSUME NEW p \in Procs, NEW C, OnlyOf(p), OnlyAt(p, C), NEW x \in PtrDom,
           Elsewhere(x, p, C)
    PROVE  Pointers'[x] = Pointers[x]
<1>1. PICK q \in Procs, c \in Places : x = <<q, c>>
  BY SMTT(20) DEF PtrDom
<1>2. Pointers[x] = Cell(th[q], ofile[q], c) /\ Pointers'[x] = Cell(th'[q], ofile'[q], c)
  BY <1>1, PointerCell
<1>3. CASE q # p
  BY Zenon, <1>2, <1>3 DEF OnlyOf
<1>4. CASE q = p
  <2>1. c \notin C
    BY Zenon, <1>1, <1>4 DEF Elsewhere
  <2>. QED  BY Zenon, <1>2, <1>4, <2>1 DEF OnlyAt
<1>. QED  BY Zenon, <1>3, <1>4

(* References stay exact when one pointer changes and the counters follow. *)
LEMMA RefOne ==
    ASSUME Sizes, RefOK, NEW p \in Procs, NEW c \in Places, OnlyOf(p), OnlyAt(p, {c}),
           \A f \in Files : file'[f].ref = file[f].ref + Is(Now(p, c), f) - Is(Was(p, c), f)
    PROVE  RefOK'
<1>. SUFFICES ASSUME NEW f \in Files
             PROVE  file'[f].ref = CountOn(PtrDom, Pointers', f)
  BY Zenon DEF RefOK
<1>1. <<p, c>> \in PtrDom /\ Pointers[<<p, c>>] = Was(p, c) /\ Pointers'[<<p, c>>] = Now(p, c)
  BY Zenon, PointerCell DEF Was, Now
<1>2. ASSUME NEW x \in PtrDom, x # <<p, c>>
      PROVE  Pointers'[x] = Pointers[x]
  <2>1. Elsewhere(x, p, {c})
    BY Zenon, <1>2 DEF Elsewhere
  <2>. QED  BY Zenon, <2>1, PointersStay
<1>3. Moved(PtrDom, Pointers, Pointers', <<p, c>>, f)
  BY Zenon, <1>1, <1>2, CountChange, Finite
<1>. QED  BY Zenon, <1>1, <1>3 DEF Moved, RefOK

LEMMA RefTwo ==
    ASSUME Sizes, RefOK, NEW p \in Procs, NEW c \in Places, NEW d \in Places, c # d,
           OnlyOf(p), OnlyAt(p, {c, d}),
           \A f \in Files : file'[f].ref = file[f].ref + Is(Now(p, c), f) + Is(Now(p, d), f)
                                                       - Is(Was(p, c), f) - Is(Was(p, d), f)
    PROVE  RefOK'
<1>. SUFFICES ASSUME NEW f \in Files
             PROVE  file'[f].ref = CountOn(PtrDom, Pointers', f)
  BY Zenon DEF RefOK
<1>1. /\ <<p, c>> \in PtrDom /\ Pointers[<<p, c>>] = Was(p, c) /\ Pointers'[<<p, c>>] = Now(p, c)
      /\ <<p, d>> \in PtrDom /\ Pointers[<<p, d>>] = Was(p, d) /\ Pointers'[<<p, d>>] = Now(p, d)
      /\ <<p, c>> # <<p, d>>
  BY Zenon, PointerCell DEF Was, Now
<1>2. ASSUME NEW x \in PtrDom, x # <<p, c>>, x # <<p, d>>
      PROVE  Pointers'[x] = Pointers[x]
  <2>1. Elsewhere(x, p, {c, d})
    BY Zenon, <1>2 DEF Elsewhere
  <2>. QED  BY Zenon, <2>1, PointersStay
<1>3. Moved2(PtrDom, Pointers, Pointers', <<p, c>>, <<p, d>>, f)
  BY Zenon, <1>1, <1>2, CountChanges, Finite
<1>. QED  BY Zenon, <1>1, <1>3 DEF Moved2, RefOK

LEMMA RefThree ==
    ASSUME Sizes, RefOK, NEW p \in Procs, NEW c \in Places, NEW d \in Places, NEW e \in Places,
           c # d, c # e, d # e, OnlyOf(p), OnlyAt(p, {c, d, e}),
           \A f \in Files :
             file'[f].ref = file[f].ref + Is(Now(p, c), f) + Is(Now(p, d), f) + Is(Now(p, e), f)
                                        - Is(Was(p, c), f) - Is(Was(p, d), f) - Is(Was(p, e), f)
    PROVE  RefOK'
<1>. SUFFICES ASSUME NEW f \in Files
             PROVE  file'[f].ref = CountOn(PtrDom, Pointers', f)
  BY Zenon DEF RefOK
<1>1. /\ <<p, c>> \in PtrDom /\ Pointers[<<p, c>>] = Was(p, c) /\ Pointers'[<<p, c>>] = Now(p, c)
      /\ <<p, d>> \in PtrDom /\ Pointers[<<p, d>>] = Was(p, d) /\ Pointers'[<<p, d>>] = Now(p, d)
      /\ <<p, e>> \in PtrDom /\ Pointers[<<p, e>>] = Was(p, e) /\ Pointers'[<<p, e>>] = Now(p, e)
      /\ <<p, c>> # <<p, d>> /\ <<p, c>> # <<p, e>> /\ <<p, d>> # <<p, e>>
  BY Zenon, PointerCell DEF Was, Now
<1>2. ASSUME NEW x \in PtrDom, x # <<p, c>>, x # <<p, d>>, x # <<p, e>>
      PROVE  Pointers'[x] = Pointers[x]
  <2>1. Elsewhere(x, p, {c, d, e})
    BY Zenon, <1>2 DEF Elsewhere
  <2>. QED  BY Zenon, <2>1, PointersStay
<1>3. Moved3(PtrDom, Pointers, Pointers', <<p, c>>, <<p, d>>, <<p, e>>, f)
  BY Zenon, <1>1, <1>2, CountChanges3, Finite
<1>. QED  BY Zenon, <1>1, <1>3 DEF Moved3, RefOK

(* What files stand for stays counted when one entry, or two, change.      *)
LEMMA HeldOne ==
    ASSUME Sizes, HeldOK, NEW a \in Entries,
           \A e \in Entries : e # a => Stands'[e] = Stands[e],
           \A v \in Kinds \ {NoFile} :
             Held(pipe', iref', v) = Held(pipe, iref, v) + Is(Stands'[a], v) - Is(Stands[a], v)
    PROVE  HeldOK'
<1>. SUFFICES ASSUME NEW v \in Kinds \ {NoFile}
             PROVE  CountOn(Entries, Stands', v) = Held(pipe', iref', v)
  BY Zenon DEF HeldOK
<1>1. Moved(Entries, Stands, Stands', a, v)
  BY Zenon, CountChange, Finite
<1>. QED  BY Zenon, <1>1 DEF Moved, HeldOK

LEMMA HeldTwo ==
    ASSUME Sizes, HeldOK, NEW a \in Entries, NEW b \in Entries, a # b,
           \A e \in Entries : e # a /\ e # b => Stands'[e] = Stands[e],
           \A v \in Kinds \ {NoFile} :
             Held(pipe', iref', v) = Held(pipe, iref, v) + Is(Stands'[a], v) + Is(Stands'[b], v)
                                                         - Is(Stands[a], v) - Is(Stands[b], v)
    PROVE  HeldOK'
<1>. SUFFICES ASSUME NEW v \in Kinds \ {NoFile}
             PROVE  CountOn(Entries, Stands', v) = Held(pipe', iref', v)
  BY Zenon DEF HeldOK
<1>1. Moved2(Entries, Stands, Stands', a, b, v)
  BY Zenon, CountChanges, Finite
<1>. QED  BY Zenon, <1>1 DEF Moved2, HeldOK
-----------------------------------------------------------------------------
(* What the actions choose.                                                *)

(* The least of a set of numbers is one of them.                           *)
LEMMA LeastIsIn ==
    ASSUME NEW S, S \subseteq Nat, S # {}
    PROVE  Least(S) \in S
<1>1. PICK x \in S : \A y \in S : ~(<<y, x>> \in OpToRel(<, Nat))
  BY NatLessThanWellFounded, WFMin
<1>2. \A y \in S : ~(y < x)
  BY <1>1 DEF OpToRel
<1>3. \A y \in S : x <= y
  BY <1>2, SMTT(20)
<1>. QED  BY <1>3, Zenon DEF Least

(* filealloc() finds a file that is free and empty, to which no pointer    *)
(* leads.                                                                  *)
LEMMA Fresh ==
    ASSUME Sizes, EntryOK, RefOK, Unused # {}
    PROVE  /\ filealloc \in Files /\ file[filealloc] = NoFile
           /\ \A x \in PtrDom : Pointers[x] # filealloc
<1>1. Unused \subseteq Nat
  BY SMTT(20) DEF Unused, Files, Sizes
<1>2. filealloc \in Unused
  BY <1>1, LeastIsIn DEF filealloc
<1>3. filealloc \in Files /\ file[filealloc].ref = 0
  BY Zenon, <1>2 DEF Unused
<1>4. file[filealloc] = NoFile
  BY Zenon, <1>3 DEF EntryOK, EntryAt
<1>5. ASSUME NEW x \in PtrDom
      PROVE  Pointers[x] # filealloc
  <2>1. CountOn(PtrDom, Pointers, Pointers[x]) # 0
    BY Zenon, CountPositive, Finite
  <2>. QED  BY Zenon, <1>3, <2>1 DEF RefOK
<1>. QED  BY Zenon, <1>3, <1>4, <1>5

(* fdalloc() finds a descriptor that is free.                              *)
LEMMA FreeFd ==
    ASSUME Sizes, NEW p, NEW S, S \subseteq Free(p), S # {}
    PROVE  Least(S) \in S /\ Least(S) \in Fds /\ ofile[p][Least(S)] = Null
<1>1. S \subseteq Fds /\ \A fd \in S : ofile[p][fd] = Null
  BY Zenon DEF Free, Open
<1>2. Fds \subseteq Nat
  BY SMTT(20) DEF Fds, Sizes
<1>3. Least(S) \in S
  BY <1>1, <1>2, LeastIsIn
<1>. QED  BY <1>1, <1>3

(* A file that a pointer leads to is in use.                               *)
LEMMA Pointed ==
    ASSUME Sizes, TypeOK, RefOK, NEW q \in Procs, NEW c \in Places, Was(q, c) \in Files
    PROVE  file[Was(q, c)].ref \in Nat \ {0}
<1>1. <<q, c>> \in PtrDom /\ Pointers[<<q, c>>] = Was(q, c)
  BY Zenon, PointerCell DEF Was
<1>2. CountOn(PtrDom, Pointers, Was(q, c)) # 0
  BY Zenon, <1>1, CountPositive, Finite
<1>3. file[Was(q, c)].ref # 0
  BY Zenon, <1>2 DEF RefOK
<1>4. file[Was(q, c)].ref \in Nat
  BY DEF TypeOK, FileRec
<1>. QED  BY <1>3, <1>4

(* What an entry stands for is held.                                       *)
LEMMA Standing ==
    ASSUME Sizes, HeldOK, NEW a \in Entries, Stands[a] \in Kinds \ {NoFile}
    PROVE  Held(pipe, iref, Stands[a]) # 0
<1>1. CountOn(Entries, Stands, Stands[a]) # 0
  BY Zenon, CountPositive, Finite
<1>. QED  BY Zenon, <1>1 DEF HeldOK

(* What is held is a number.                                               *)
LEMMA HeldType ==
    ASSUME Sizes, HeldOK, NEW v \in Kinds \ {NoFile}
    PROVE  Held(pipe, iref, v) \in Nat
<1>1. CountOn(Entries, Stands, v) \in Nat
  BY Zenon, CountType, Finite
<1>. QED  BY Zenon, <1>1 DEF HeldOK
-----------------------------------------------------------------------------
(* What a step of one process leaves as it is.                             *)

LEMMA PlaceFrame ==
    ASSUME PlaceOK, NEW p \in Procs, OnlyOf(p), PlaceAt(th'[p], ofile'[p])
    PROVE  PlaceOK'
<1>1. ASSUME NEW q \in Procs
      PROVE  PlaceAt(th'[q], ofile'[q])
  BY Zenon DEF PlaceOK, OnlyOf
<1>. QED  BY Zenon, <1>1 DEF PlaceOK

LEMMA ForkFrame ==
    ASSUME ForkOK, NEW p \in Procs, OnlyOf(p), th[p].pc # "fork", th[p].pc # "forked",
           th'[p].pc # "fork"
    PROVE  ForkOK'
<1>. SUFFICES ASSUME NEW q \in Procs, th'[q].pc = "fork"
             PROVE  /\ th'[q].np \in Procs /\ th'[th'[q].np].pc = "forked"
                    /\ \A fd \in Fds : ofile'[th'[q].np][fd] \in {Null, ofile'[q][fd]}
                    /\ \A r \in Procs : th'[r].pc = "fork" /\ th'[r].np = th'[q].np => r = q
  BY Zenon DEF ForkOK
<1>1. q # p /\ th'[q] = th[q] /\ ofile'[q] = ofile[q]
  BY Zenon DEF OnlyOf
<1>2. /\ th[q].np \in Procs /\ th[th[q].np].pc = "forked"
      /\ \A fd \in Fds : ofile[th[q].np][fd] \in {Null, ofile[q][fd]}
      /\ \A r \in Procs : th[r].pc = "fork" /\ th[r].np = th[q].np => r = q
  BY Zenon, <1>1 DEF ForkOK
<1>3. th'[th[q].np] = th[th[q].np] /\ ofile'[th[q].np] = ofile[th[q].np]
  BY Zenon, <1>2 DEF OnlyOf
<1>4. ASSUME NEW r \in Procs, th'[r].pc = "fork", th'[r].np = th'[q].np
      PROVE  r = q
  <2>1. th'[r] = th[r]
    BY Zenon, <1>4 DEF OnlyOf
  <2>. QED  BY Zenon, <1>1, <1>2, <1>4, <2>1
<1>. QED  BY Zenon, <1>1, <1>2, <1>3, <1>4

\* The file another process has in pipealloc() is not f.
Other(p, f) == \A q \in Procs : q # p /\ th[q].pc = "pipealloc" => th[q].f0 # f

\* The part of AllocOK about p.
AllocAt(p) ==
    th[p].pc = "pipealloc" =>
        /\ th[p].f0 \in Files /\ file[th[p].f0] = New
        /\ \A x \in PtrDom : Pointers[x] = th[p].f0 => x = <<p, -1>>

LEMMA NotOther ==
    ASSUME Sizes, AllocOK, NEW p \in Procs
    PROVE  /\ Other(p, Null)
           /\ \A f \in Files : file[f] = NoFile => Other(p, f)
           /\ \A c \in Places : Other(p, Was(p, c))
           /\ \A r \in Procs, fd \in Fds : Other(p, Was(r, fd))
<1>1. Other(p, Null)
  <2>1. Null \notin Files
    BY SMTT(20) DEF Null, Files
  <2>. QED  BY Zenon, <2>1 DEF Other, AllocOK
<1>2. \A f \in Files : file[f] = NoFile => Other(p, f)
  <2>1. New # NoFile
    BY SMTT(20) DEF New, NoFile, File
  <2>. QED  BY Zenon, <2>1 DEF Other, AllocOK
<1>3. ASSUME NEW c \in Places
      PROVE  Other(p, Was(p, c))
  <2>1. <<p, c>> \in PtrDom /\ Pointers[<<p, c>>] = Was(p, c)
    BY Zenon, PointerCell DEF Was
  <2>2. \A q : q # p => <<p, c>> # <<q, -1>>
    OBVIOUS
  <2>. QED  BY Zenon, <2>1, <2>2 DEF Other, AllocOK
<1>4. ASSUME NEW r \in Procs, NEW fd \in Fds
      PROVE  Other(p, Was(r, fd))
  <2>1. fd \in Places /\ fd # -1
    BY CellAt
  <2>2. <<r, fd>> \in PtrDom /\ Pointers[<<r, fd>>] = Was(r, fd)
    BY Zenon, <2>1, PointerCell DEF Was
  <2>3. \A q : <<r, fd>> # <<q, -1>>
    BY <2>1
  <2>. QED  BY Zenon, <2>2, <2>3 DEF Other, AllocOK
<1>. QED  BY Zenon, <1>1, <1>2, <1>3, <1>4

LEMMA AllocFrame ==
    ASSUME AllocOK, NEW p \in Procs, NEW C \in SUBSET Places, OnlyOf(p), OnlyAt(p, C),
           \A c \in C : Other(p, Now(p, c)),
           \A f \in Files : file'[f] = file[f] \/ Other(p, f),
           AllocAt(p)'
    PROVE  AllocOK'
<1>1. ASSUME NEW q \in Procs, q # p, th'[q].pc = "pipealloc"
      PROVE  /\ th'[q].f0 \in Files /\ file'[th'[q].f0] = New
             /\ \A x \in PtrDom : Pointers'[x] = th'[q].f0 => x = <<q, -1>>
  <2>1. th'[q] = th[q] /\ th[q].pc = "pipealloc"
    BY Zenon, <1>1 DEF OnlyOf
  <2>2. /\ th[q].f0 \in Files /\ file[th[q].f0] = New
        /\ \A x \in PtrDom : Pointers[x] = th[q].f0 => x = <<q, -1>>
    BY Zenon, <2>1 DEF AllocOK
  <2>3. file'[th[q].f0] = file[th[q].f0]
    BY Zenon, <1>1, <2>1, <2>2 DEF Other
  <2>4. ASSUME NEW x \in PtrDom, Pointers'[x] = th[q].f0
        PROVE  x = <<q, -1>>
    <3>1. CASE Elsewhere(x, p, C)
      BY Zenon, <2>2, <2>4, <3>1, PointersStay
    <3>2. CASE ~Elsewhere(x, p, C)
      <4>1. PICK c \in C : x = <<p, c>>
        BY Zenon, <3>2 DEF Elsewhere
      <4>2. Pointers'[x] = Now(p, c)
        BY Zenon, <4>1, PointerCell DEF Now
      <4>. QED  BY Zenon, <1>1, <2>1, <2>4, <4>1, <4>2 DEF Other
    <3>. QED  BY Zenon, <3>1, <3>2
  <2>. QED  BY Zenon, <2>1, <2>2, <2>3, <2>4
<1>. QED  BY Zenon, <1>1 DEF AllocOK, AllocAt

(* Changes to references: a pointer more, a pointer less, a pointer moved, *)
(* none.                                                                   *)
LEMMA RefGain ==
    ASSUME Sizes, TypeOK, RefOK, NEW p \in Procs, NEW c \in Places, OnlyOf(p), OnlyAt(p, {c}),
           NEW f \in Files, Was(p, c) = Null, Now(p, c) = f,
           file'[f].ref = file[f].ref + 1,
           \A g \in Files : g # f => file'[g].ref = file[g].ref
    PROVE  RefOK'
<1>1. ASSUME NEW g \in Files
      PROVE  file'[g].ref = file[g].ref + Is(Now(p, c), g) - Is(Was(p, c), g)
  <2>1. g # Null /\ file[g].ref \in Nat
    BY SMTT(20) DEF Null, Files, TypeOK, FileRec
  <2>2. Is(Was(p, c), g) = 0 /\ Is(Now(p, c), g) = IF g = f THEN 1 ELSE 0
    BY Zenon, <2>1 DEF Is
  <2>. QED  BY SMTT(20), <2>1, <2>2
<1>. QED  BY Zenon, <1>1, RefOne

LEMMA RefDrop ==
    ASSUME Sizes, TypeOK, RefOK, NEW p \in Procs, NEW c \in Places, OnlyOf(p), OnlyAt(p, {c}),
           NEW f \in Files, Was(p, c) = f, Now(p, c) = Null,
           file'[f].ref = file[f].ref - 1,
           \A g \in Files : g # f => file'[g].ref = file[g].ref
    PROVE  RefOK'
<1>1. ASSUME NEW g \in Files
      PROVE  file'[g].ref = file[g].ref + Is(Now(p, c), g) - Is(Was(p, c), g)
  <2>1. g # Null /\ file[g].ref \in Nat
    BY SMTT(20) DEF Null, Files, TypeOK, FileRec
  <2>2. Is(Now(p, c), g) = 0 /\ Is(Was(p, c), g) = IF g = f THEN 1 ELSE 0
    BY Zenon, <2>1 DEF Is
  <2>. QED  BY SMTT(20), <2>1, <2>2
<1>. QED  BY Zenon, <1>1, RefOne

LEMMA RefMove ==
    ASSUME Sizes, TypeOK, RefOK, NEW p \in Procs, NEW c \in Places, NEW d \in Places, c # d,
           OnlyOf(p), OnlyAt(p, {c, d}),
           Now(p, c) = Was(p, d), Now(p, d) = Was(p, c), file' = file
    PROVE  RefOK'
<1>1. ASSUME NEW g \in Files
      PROVE  file'[g].ref = file[g].ref + Is(Now(p, c), g) + Is(Now(p, d), g)
                                        - Is(Was(p, c), g) - Is(Was(p, d), g)
  <2>1. file[g].ref \in Nat
    BY SMTT(20) DEF TypeOK, FileRec
  <2>2. Is(Was(p, c), g) \in {0, 1} /\ Is(Was(p, d), g) \in {0, 1}
    BY Zenon, IsType
  <2>. QED  BY SMTT(20), <2>1, <2>2
<1>. QED  BY Zenon, <1>1, RefTwo

LEMMA RefSame ==
    ASSUME Sizes, RefOK, NEW p \in Procs,
           \A x \in PtrDom : Pointers'[x] = Pointers[x],
           \A f \in Files : file'[f].ref = file[f].ref
    PROVE  RefOK'
<1>. SUFFICES ASSUME NEW f \in Files
             PROVE  file'[f].ref = CountOn(PtrDom, Pointers', f)
  BY Zenon DEF RefOK
<1>1. <<p, -1>> \in PtrDom
  BY Zenon, PointerCell, CellAt
<1>2. Moved(PtrDom, Pointers, Pointers', <<p, -1>>, f)
  BY Zenon, <1>1, CountChange, Finite
<1>3. CountOn(PtrDom, Pointers, f) \in Nat /\ Is(Pointers[<<p, -1>>], f) \in {0, 1}
  BY Zenon, CountType, Finite, IsType
<1>4. CountOn(PtrDom, Pointers', f)
        = CountOn(PtrDom, Pointers, f) + Is(Pointers[<<p, -1>>], f) - Is(Pointers[<<p, -1>>], f)
  BY Zenon, <1>1, <1>2 DEF Moved
<1>5. CountOn(PtrDom, Pointers', f) = CountOn(PtrDom, Pointers, f)
  BY SMTT(20), <1>3, <1>4
<1>. QED  BY Zenon, <1>5 DEF RefOK

(* No file comes to stand for something else.                              *)
LEMMA HeldSame ==
    ASSUME Sizes, HeldOK, NEW p \in Procs, pipe' = pipe, iref' = iref,
           \A f \in Files : Kind(file'[f]) = Kind(file[f]),
           \A q \in Procs : th'[q].ff = th[q].ff
    PROVE  HeldOK'
<1>1. \A e \in Entries : Stands'[e] = Stands[e]
  <2>. SUFFICES ASSUME NEW e \in Entries  PROVE Stands'[e] = Stands[e]
    OBVIOUS
  <2>1. (\E f \in Files : e = <<0, f>>) \/ (\E q \in Procs : e = <<1, q>>)
    BY SMTT(20) DEF Entries
  <2>. QED  BY Zenon, <2>1, StandAt
<1>2. <<1, p>> \in Entries
  BY Zenon, StandAt
<1>3. ASSUME NEW v \in Kinds \ {NoFile}
      PROVE  Held(pipe', iref', v) = Held(pipe, iref, v) + Is(Stands'[<<1, p>>], v)
                                                         - Is(Stands[<<1, p>>], v)
  <2>1. Held(pipe, iref, v) \in Nat /\ Is(Stands[<<1, p>>], v) \in {0, 1}
    BY Zenon, HeldType, IsType
  <2>2. Held(pipe', iref', v) = Held(pipe, iref, v) /\ Stands'[<<1, p>>] = Stands[<<1, p>>]
    BY Zenon, <1>1, <1>2
  <2>. QED  BY SMTT(20), <2>1, <2>2
<1>. QED  BY Zenon, <1>1, <1>2, <1>3, HeldOne
-----------------------------------------------------------------------------
(* Updates of one process, one descriptor, one file.                       *)

LEMMA AtRec ==
    ASSUME NEW a \in Pcs
    PROVE  /\ At(a) \in Thread
           /\ At(a).pc = a /\ At(a).f0 = Null /\ At(a).f1 = Null /\ At(a).ff = NoFile
BY KindsAre DEF At, Thread

CloseRec(f0, f1, ret) == [At("close") EXCEPT !.f0 = f0, !.f1 = f1, !.ret = ret]
IsClose(t, f0, f1) ==
    /\ t \in Thread /\ t.pc = "close" /\ t.f0 = f0 /\ t.f1 = f1 /\ t.ff = NoFile
    /\ \A o : PlaceAt(t, o)
LEMMA CloseFields ==
    ASSUME NEW f0 \in Files \cup {Null}, NEW f1 \in Files \cup {Null}, NEW ret \in {"user", "exit"}
    PROVE  IsClose(CloseRec(f0, f1, ret), f0, f1)
<1>1. /\ CloseRec(f0, f1, ret) \in Thread
      /\ CloseRec(f0, f1, ret).pc = "close"
      /\ CloseRec(f0, f1, ret).f0 = f0 /\ CloseRec(f0, f1, ret).f1 = f1
      /\ CloseRec(f0, f1, ret).ff = NoFile /\ CloseRec(f0, f1, ret).ret = ret
  BY KindsAre DEF CloseRec, At, Thread, Pcs
<1>. QED  BY <1>1 DEF PlaceAt, IsClose

LEMMA NewRec ==
    /\ New \in FileRec /\ EntryAt(New) /\ Kind(New) = NoFile /\ New.ref = 1
    /\ NoFile \in FileRec /\ EntryAt(NoFile) /\ Kind(NoFile) = NoFile /\ NoFile.ref = 0
<1>1. New.ref = 1 /\ NoFile.ref = 0 /\ Kind(New) = NoFile /\ Kind(NoFile) = NoFile
  <2>1. /\ New.ref = 1 /\ New.type = "none" /\ New.pipe = Null /\ New.writable = FALSE
        /\ NoFile.ref = 0 /\ NoFile.type = "none" /\ NoFile.pipe = Null /\ NoFile.writable = FALSE
    BY DEF New, NoFile, File
  <2>. QED  BY Zenon, <2>1 DEF Kind, NoFile
<1>2. New \in FileRec /\ NoFile \in FileRec
  BY FileType DEF New, NoFile
<1>. QED  BY SMTT(20), <1>1, <1>2, KindsAre DEF EntryAt

\* The reference count of f changes to n, and nothing else.
LEMMA RefStep ==
    ASSUME TypeOK, EntryOK, NEW f \in Files, NEW n \in Nat \ {0},
           file' = [file EXCEPT ![f].ref = n]
    PROVE  /\ file' \in [Files -> FileRec] /\ file'[f].ref = n
           /\ file'[f] = File(n, file[f].type, file[f].pipe, file[f].writable)
           /\ \A g \in Files : g # f => file'[g] = file[g]
           /\ \A g \in Files : Kind(file'[g]) = Kind(file[g])
           /\ EntryOK'
<1>1. /\ file' \in [Files -> FileRec] /\ file'[f].ref = n
      /\ \A g \in Files : g # f => file'[g] = file[g]
  BY DEF TypeOK, FileRec
<1>2. /\ file'[f].type = file[f].type /\ file'[f].pipe = file[f].pipe
      /\ file'[f].writable = file[f].writable
  BY DEF TypeOK, FileRec
<1>3. file'[f] \in FileRec
  BY <1>1
<1>4. file'[f] = File(n, file[f].type, file[f].pipe, file[f].writable)
  BY <1>1, <1>2, <1>3 DEF FileRec, File
<1>5. \A g \in Files : Kind(file'[g]) = Kind(file[g])
  BY Zenon, <1>1, <1>2 DEF Kind
<1>6. \A g \in Files : EntryAt(file'[g])
  <2>1. EntryAt(file'[f])
    BY <1>1, <1>5 DEF EntryOK, EntryAt
  <2>. QED  BY Zenon, <1>1, <2>1 DEF EntryOK
<1>. QED  BY Zenon, <1>1, <1>4, <1>5, <1>6 DEF EntryOK

LEMMA ThStep ==
    ASSUME TypeOK, NEW p \in Procs, NEW t \in Thread, th' = [th EXCEPT ![p] = t]
    PROVE  /\ th' \in [Procs -> Thread] /\ th'[p] = t
           /\ \A q \in Procs : q # p => th'[q] = th[q]
BY DEF TypeOK

LEMMA FdStep ==
    ASSUME TypeOK, NEW p \in Procs, NEW fd \in Fds, NEW f \in Files \cup {Null},
           ofile' = [ofile EXCEPT ![p][fd] = f]
    PROVE  /\ ofile' \in [Procs -> [Fds -> Files \cup {Null}]] /\ ofile'[p][fd] = f
           /\ \A d \in Fds : d # fd => ofile'[p][d] = ofile[p][d]
           /\ \A q \in Procs : q # p => ofile'[q] = ofile[q]
BY DEF TypeOK

LEMMA FileStep ==
    ASSUME TypeOK, EntryOK, NEW f \in Files, NEW r \in FileRec, EntryAt(r),
           file' = [file EXCEPT ![f] = r]
    PROVE  /\ file' \in [Files -> FileRec] /\ file'[f] = r
           /\ \A g \in Files : g # f => file'[g] = file[g]
           /\ EntryOK'
<1>1. /\ file' \in [Files -> FileRec] /\ file'[f] = r
      /\ \A g \in Files : g # f => file'[g] = file[g]
  BY DEF TypeOK
<1>2. \A g \in Files : EntryAt(file'[g])
  BY Zenon, <1>1 DEF EntryOK
<1>. QED  BY Zenon, <1>1, <1>2 DEF EntryOK

(* Where a process is that is in user space, or in no call that has files. *)
LEMMA IdlePlace ==
    ASSUME PlaceOK, NEW p \in Procs, th[p].pc \notin {"close", "pipealloc"}
    PROVE  th[p].f0 = Null /\ th[p].f1 = Null /\ th[p].ff = NoFile
BY Zenon DEF PlaceOK, PlaceAt

(* Changes of the pointers of p, place by place.                           *)
LEMMA CellsStay ==
    ASSUME Sizes, NEW p \in Procs, NEW C,
           -1 \notin C => th'[p].f0 = th[p].f0,
           -2 \notin C => th'[p].f1 = th[p].f1,
           \A fd \in Fds : fd \notin C => ofile'[p][fd] = ofile[p][fd]
    PROVE  OnlyAt(p, C)
<1>. SUFFICES ASSUME NEW c \in Places, c \notin C
             PROVE  Cell(th'[p], ofile'[p], c) = Cell(th[p], ofile[p], c)
  BY Zenon DEF OnlyAt
<1>1. c = -1 \/ c = -2 \/ c \in Fds
  BY DEF Places
<1>2. CASE c = -1
  <2>1. Cell(th[p], ofile[p], -1) = th[p].f0
    BY Zenon, CellAt
  <2>2. Cell(th'[p], ofile'[p], -1) = th'[p].f0
    BY Zenon, CellAt
  <2>. QED  BY Zenon, <1>2, <2>1, <2>2
<1>3. CASE c = -2
  <2>1. Cell(th[p], ofile[p], -2) = th[p].f1
    BY Zenon, CellAt
  <2>2. Cell(th'[p], ofile'[p], -2) = th'[p].f1
    BY Zenon, CellAt
  <2>. QED  BY Zenon, <1>3, <2>1, <2>2
<1>4. CASE c \in Fds
  <2>1. Cell(th[p], ofile[p], c) = ofile[p][c]
    BY Zenon, <1>4, CellAt
  <2>2. Cell(th'[p], ofile'[p], c) = ofile'[p][c]
    BY Zenon, <1>4, CellAt
  <2>. QED  BY Zenon, <1>4, <2>1, <2>2
<1>. QED  BY Zenon, <1>1, <1>2, <1>3, <1>4
-----------------------------------------------------------------------------
(* Each action keeps the invariant.                                        *)

\* The thread of p changes to t, no descriptor does.
LEMMA ThOnly ==
    ASSUME Sizes, TypeOK, NEW p \in Procs, NEW t \in Thread, th' = [th EXCEPT ![p] = t],
           ofile' = ofile
    PROVE  /\ OnlyOf(p) /\ th'[p] = t /\ th' \in [Procs -> Thread]
           /\ Was(p, -1) = th[p].f0 /\ Was(p, -2) = th[p].f1
           /\ Now(p, -1) = t.f0 /\ Now(p, -2) = t.f1
           /\ t.f1 = th[p].f1 => OnlyAt(p, {-1})
           /\ t.f0 = th[p].f0 => OnlyAt(p, {-2})
           /\ t.f0 = th[p].f0 /\ t.f1 = th[p].f1 => OnlyAt(p, {})
<1>1. th'[p] = t /\ th' \in [Procs -> Thread] /\ \A q \in Procs : q # p => th'[q] = th[q]
  BY Zenon, ThStep
<1>2. OnlyOf(p)
  BY Zenon, <1>1 DEF OnlyOf
<1>3. /\ Was(p, -1) = th[p].f0 /\ Was(p, -2) = th[p].f1
      /\ Now(p, -1) = t.f0 /\ Now(p, -2) = t.f1
  BY Zenon, <1>1, CellAt DEF Was, Now
<1>4. ASSUME t.f1 = th[p].f1  PROVE OnlyAt(p, {-1})
  <2>1. -2 \notin {-1} => th'[p].f1 = th[p].f1
    BY Zenon, <1>1, <1>4
  <2>2. -1 \notin {-1} => th'[p].f0 = th[p].f0
    BY Zenon
  <2>. QED  BY Zenon, <2>1, <2>2, CellsStay
<1>5. ASSUME t.f0 = th[p].f0  PROVE OnlyAt(p, {-2})
  <2>1. -1 \notin {-2} => th'[p].f0 = th[p].f0
    BY Zenon, <1>1, <1>5
  <2>2. -2 \notin {-2} => th'[p].f1 = th[p].f1
    BY Zenon
  <2>. QED  BY Zenon, <2>1, <2>2, CellsStay
<1>6. ASSUME t.f0 = th[p].f0, t.f1 = th[p].f1  PROVE OnlyAt(p, {})
  <2>1. -1 \notin {} => th'[p].f0 = th[p].f0
    BY Zenon, <1>1, <1>6
  <2>2. -2 \notin {} => th'[p].f1 = th[p].f1
    BY Zenon, <1>1, <1>6
  <2>. QED  BY Zenon, <2>1, <2>2, CellsStay
<1>. QED  BY Zenon, <1>1, <1>2, <1>3, <1>4, <1>5, <1>6

\* The descriptor fd of p changes to f, no thread does.
LEMMA FdOnly ==
    ASSUME Sizes, TypeOK, NEW p \in Procs, NEW fd \in Fds, NEW f \in Files \cup {Null},
           ofile' = [ofile EXCEPT ![p][fd] = f], th' = th
    PROVE  /\ OnlyOf(p) /\ OnlyAt(p, {fd})
           /\ ofile' \in [Procs -> [Fds -> Files \cup {Null}]]
           /\ Was(p, fd) = ofile[p][fd] /\ Now(p, fd) = f
<1>1. /\ ofile' \in [Procs -> [Fds -> Files \cup {Null}]] /\ ofile'[p][fd] = f
      /\ \A d \in Fds : d # fd => ofile'[p][d] = ofile[p][d]
      /\ \A q \in Procs : q # p => ofile'[q] = ofile[q]
  BY Zenon, FdStep
<1>2. OnlyOf(p)
  BY Zenon, <1>1 DEF OnlyOf
<1>3. \A d \in Fds : d \notin {fd} => ofile'[p][d] = ofile[p][d]
  BY Zenon, <1>1
<1>4. OnlyAt(p, {fd})
  BY Zenon, <1>3, CellsStay
<1>5. Was(p, fd) = ofile[p][fd] /\ Now(p, fd) = f
  BY Zenon, <1>1, FdCell
<1>. QED  BY Zenon, <1>1, <1>2, <1>4, <1>5

\* A step of p that is not fork()'s, from what it does to each part.
LEMMA StepInv ==
    ASSUME Sizes, Inv, NEW p \in Procs, NEW C \in SUBSET Places, OnlyOf(p), OnlyAt(p, C),
           th[p].pc # "fork", th[p].pc # "forked", th'[p].pc # "fork",
           PlaceAt(th'[p], ofile'[p]), TypeOK', EntryOK',
           \A c \in C : Other(p, Now(p, c)),
           \A f \in Files : file'[f] = file[f] \/ Other(p, f),
           AllocAt(p)', RefOK', HeldOK', panic' = panic
    PROVE  Inv'
<1>1. PlaceOK'
  BY Zenon, PlaceFrame DEF Inv
<1>2. ForkOK'
  BY Zenon, ForkFrame DEF Inv
<1>3. AllocOK'
  BY Zenon, AllocFrame DEF Inv
<1>4. NoPanic'
  BY Zenon DEF Inv, NoPanic
<1>. QED  BY Zenon, <1>1, <1>2, <1>3, <1>4 DEF Inv

LEMMA OpenFails ==
    ASSUME Sizes, Inv, NEW p \in Procs, sys_open(p), Free(p) = {}
    PROVE  Inv'
<1>. DEFINE f == filealloc
            t == CloseRec(f, Null, "user")
<1>1. /\ th[p].pc = "user" /\ file' = [file EXCEPT ![f].ref = 1] /\ th' = [th EXCEPT ![p] = t]
      /\ ofile' = ofile /\ iref' = iref /\ pipe' = pipe /\ panic' = panic /\ Unused # {}
  BY Zenon DEF sys_open, User, Close, Goto, CloseRec
<1>2. TypeOK /\ EntryOK /\ PlaceOK /\ AllocOK /\ RefOK /\ HeldOK
  BY Zenon DEF Inv
<1>3. th[p].f0 = Null /\ th[p].f1 = Null /\ th[p].ff = NoFile
  BY Zenon, <1>1, <1>2, IdlePlace
<1>4. f \in Files /\ file[f] = NoFile
  BY Zenon, <1>1, <1>2, Fresh
<1>. HIDE DEF f
<1>5. /\ t \in Thread /\ t.pc = "close" /\ t.f0 = f /\ t.f1 = Null /\ t.ff = NoFile
      /\ \A o : PlaceAt(t, o)
  <2>1. IsClose(t, f, Null)
    BY Zenon, <1>4, CloseFields
  <2>. QED  BY Zenon, <2>1 DEF IsClose
<1>. HIDE DEF t
<1>6. /\ OnlyOf(p) /\ OnlyAt(p, {-1}) /\ Was(p, -1) = Null /\ Now(p, -1) = f
      /\ th'[p] = t /\ th' \in [Procs -> Thread]
  BY Zenon, <1>1, <1>2, <1>3, <1>5, ThOnly
<1>7. /\ file' \in [Files -> FileRec] /\ file'[f].ref = 1 /\ EntryOK'
      /\ \A g \in Files : g # f => file'[g] = file[g]
      /\ \A g \in Files : Kind(file'[g]) = Kind(file[g])
  <2>1. 1 \in Nat \ {0}
    BY SMTT(20)
  <2>. QED  BY Zenon, <1>1, <1>2, <1>4, <2>1, RefStep
<1>8. TypeOK'
  BY Zenon, <1>1, <1>2, <1>6, <1>7 DEF TypeOK
<1>9. Other(p, f) /\ -1 \in Places
  BY Zenon, <1>2, <1>4, NotOther, CellAt
<1>10. RefOK'
  <2>1. file'[f].ref = file[f].ref + 1 /\ \A g \in Files : g # f => file'[g].ref = file[g].ref
    BY SMTT(20), <1>4, <1>7, NewRec
  <2>. QED  BY Zenon, <1>2, <1>4, <1>6, <1>9, <2>1, RefGain
<1>11. HeldOK'
  <2>1. \A q \in Procs : th'[q].ff = th[q].ff
    BY Zenon, <1>3, <1>5, <1>6 DEF OnlyOf
  <2>. QED  BY Zenon, <1>1, <1>2, <1>7, <2>1, HeldSame
<1>12. /\ \A c \in {-1} : Other(p, Now(p, c))
       /\ \A g \in Files : file'[g] = file[g] \/ Other(p, g)
       /\ th[p].pc # "fork" /\ th[p].pc # "forked" /\ th'[p].pc # "fork"
       /\ PlaceAt(th'[p], ofile'[p]) /\ {-1} \in SUBSET Places
  BY <1>1, <1>5, <1>6, <1>7, <1>9
<1>13. AllocAt(p)'
  <2>1. th'[p].pc # "pipealloc"
    BY <1>5, <1>6
  <2>. QED  BY Zenon, <2>1 DEF AllocAt
<1>. QED  BY Zenon, <1>1, <1>6, <1>7, <1>8, <1>10, <1>11, <1>12, <1>13, StepInv

\* The entries of F and the copies of P may change, and no others; e is one
\* of the others.
OnlyEntries(F, P) ==
    /\ \A f \in Files : f \notin F => Kind(file'[f]) = Kind(file[f])
    /\ \A q \in Procs : q \notin P => th'[q].ff = th[q].ff
NotEntry(e, F, P) == (\A f \in F : e # <<0, f>>) /\ \A q \in P : e # <<1, q>>

LEMMA StandsStay ==
    ASSUME NEW F, NEW P, OnlyEntries(F, P), NEW e \in Entries, NotEntry(e, F, P)
    PROVE  Stands'[e] = Stands[e]
<1>1. (\E f \in Files : e = <<0, f>>) \/ (\E q \in Procs : e = <<1, q>>)
  BY SMTT(20) DEF Entries
<1>. QED  BY Zenon, <1>1, StandAt DEF OnlyEntries, NotEntry

LEMMA OpenSucceeds ==
    ASSUME Sizes, Inv, NEW p \in Procs, sys_open(p), Free(p) # {}
    PROVE  Inv'
<1>. DEFINE f == filealloc
            fd == Least(Free(p))
            r == File(1, "inode", Null, FALSE)
<1>1. /\ th[p].pc = "user" /\ file' = [file EXCEPT ![f] = r]
      /\ ofile' = [ofile EXCEPT ![p][fd] = f] /\ th' = th
      /\ iref' = iref + 1 /\ pipe' = pipe /\ panic' = panic /\ Unused # {}
  BY Zenon DEF sys_open, User
<1>2. TypeOK /\ EntryOK /\ PlaceOK /\ AllocOK /\ RefOK /\ HeldOK
  BY Zenon DEF Inv
<1>3. f \in Files /\ file[f] = NoFile
  BY Zenon, <1>1, <1>2, Fresh
<1>4. fd \in Fds /\ ofile[p][fd] = Null
  <2>1. Free(p) \subseteq Free(p)
    OBVIOUS
  <2>. QED  BY Zenon, <2>1, FreeFd
<1>. HIDE DEF f, fd
<1>5. r \in FileRec /\ r.ref = 1 /\ Kind(r) = Inode /\ EntryAt(r)
  <2>1. r \in FileRec
    BY FileType
  <2>2. r.ref = 1 /\ r.type = "inode" /\ r.pipe = Null /\ r.writable = FALSE
    BY DEF File
  <2>. HIDE DEF r
  <2>3. Kind(r) = Inode
    BY Zenon, <2>2 DEF Kind, Inode
  <2>. QED  BY SMTT(20), <2>1, <2>2, <2>3, KindsAre DEF EntryAt
<1>. HIDE DEF r
<1>6. /\ OnlyOf(p) /\ OnlyAt(p, {fd}) /\ Was(p, fd) = Null /\ Now(p, fd) = f
      /\ ofile' \in [Procs -> [Fds -> Files \cup {Null}]]
  BY Zenon, <1>1, <1>2, <1>3, <1>4, FdOnly
<1>7. /\ file' \in [Files -> FileRec] /\ file'[f] = r /\ EntryOK'
      /\ \A g \in Files : g # f => file'[g] = file[g]
  BY Zenon, <1>1, <1>2, <1>3, <1>5, FileStep
<1>8. TypeOK'
  BY Zenon, <1>1, <1>2, <1>6, <1>7 DEF TypeOK
<1>9. Other(p, f) /\ fd \in Places
  BY Zenon, <1>2, <1>3, <1>4, NotOther, CellAt
<1>10. RefOK'
  <2>1. file'[f].ref = file[f].ref + 1 /\ \A g \in Files : g # f => file'[g].ref = file[g].ref
    BY SMTT(20), <1>3, <1>5, <1>7, NewRec
  <2>. QED  BY Zenon, <1>2, <1>3, <1>6, <1>9, <2>1, RefGain
<1>11. HeldOK'
  <2>1. /\ <<0, f>> \in Entries /\ Stands[<<0, f>>] = NoFile /\ Stands'[<<0, f>>] = Inode
    BY Zenon, <1>3, <1>5, <1>7, StandAt, NewRec
  <2>2. ASSUME NEW e \in Entries, e # <<0, f>>
        PROVE  Stands'[e] = Stands[e]
    <3>1. OnlyEntries({f}, {}) /\ NotEntry(e, {f}, {})
      BY Zenon, <1>1, <1>7, <2>2 DEF OnlyEntries, NotEntry
    <3>. QED  BY Zenon, <3>1, StandsStay
  <2>3. ASSUME NEW v \in Kinds \ {NoFile}
        PROVE  Held(pipe', iref', v) = Held(pipe, iref, v) + Is(Stands'[<<0, f>>], v)
                                                           - Is(Stands[<<0, f>>], v)
    <3>1. Held(pipe, iref, v) \in Nat
      BY Zenon, <1>2, HeldType
    <3>2. Is(NoFile, v) = 0 /\ Is(Inode, v) = IF v = Inode THEN 1 ELSE 0
      BY Zenon DEF Is
    <3>3. CASE v = Inode
      <4>1. Held(pipe, iref, v) = iref /\ Held(pipe', iref', v) = iref + 1
        BY Zenon, <1>1, <3>3 DEF Held
      <4>. QED  BY SMTT(20), <2>1, <3>1, <3>2, <3>3, <4>1
    <3>4. CASE v # Inode
      <4>1. Held(pipe', iref', v) = Held(pipe, iref, v)
        BY Zenon, <1>1, <3>4 DEF Held
      <4>. QED  BY SMTT(20), <2>1, <3>1, <3>2, <3>4, <4>1
    <3>. QED  BY Zenon, <3>3, <3>4
  <2>. QED  BY Zenon, <1>2, <2>1, <2>2, <2>3, HeldOne
<1>12. /\ \A c \in {fd} : Other(p, Now(p, c))
       /\ \A g \in Files : file'[g] = file[g] \/ Other(p, g)
       /\ th[p].pc # "fork" /\ th[p].pc # "forked" /\ th'[p].pc # "fork"
       /\ {fd} \in SUBSET Places
  BY <1>1, <1>6, <1>7, <1>9
<1>13. AllocAt(p)' /\ PlaceAt(th'[p], ofile'[p])
  <2>1. th'[p].pc = "user" /\ th'[p] = th[p]
    BY Zenon, <1>1
  <2>2. PlaceAt(th[p], ofile[p])
    BY Zenon, <1>2 DEF PlaceOK
  <2>. QED  BY <2>1, <2>2 DEF AllocAt, PlaceAt
<1>. QED  BY Zenon, <1>1, <1>6, <1>7, <1>8, <1>10, <1>11, <1>12, <1>13, StepInv

LEMMA PipeStep ==
    ASSUME Sizes, Inv, NEW p \in Procs, sys_pipe(p)
    PROVE  Inv'
<1>. DEFINE f == filealloc
            t == [At("pipealloc") EXCEPT !.f0 = f]
<1>1. /\ th[p].pc = "user" /\ file' = [file EXCEPT ![f].ref = 1] /\ th' = [th EXCEPT ![p] = t]
      /\ ofile' = ofile /\ iref' = iref /\ pipe' = pipe /\ panic' = panic /\ Unused # {}
  BY Zenon DEF sys_pipe, User, Goto
<1>2. TypeOK /\ EntryOK /\ PlaceOK /\ AllocOK /\ RefOK /\ HeldOK
  BY Zenon DEF Inv
<1>3. th[p].f0 = Null /\ th[p].f1 = Null /\ th[p].ff = NoFile
  BY Zenon, <1>1, <1>2, IdlePlace
<1>4. f \in Files /\ file[f] = NoFile /\ \A x \in PtrDom : Pointers[x] # f
  BY Zenon, <1>1, <1>2, Fresh
<1>. HIDE DEF f
<1>5. /\ t \in Thread /\ t.pc = "pipealloc" /\ t.f0 = f /\ t.f1 = Null /\ t.ff = NoFile
  BY <1>4, KindsAre DEF At, Thread, Pcs
<1>. HIDE DEF t
<1>6. /\ OnlyOf(p) /\ OnlyAt(p, {-1}) /\ Was(p, -1) = Null /\ Now(p, -1) = f
      /\ th'[p] = t /\ th' \in [Procs -> Thread]
  BY Zenon, <1>1, <1>2, <1>3, <1>5, ThOnly
<1>7. /\ file' \in [Files -> FileRec] /\ file'[f].ref = 1 /\ EntryOK'
      /\ file'[f] = File(1, file[f].type, file[f].pipe, file[f].writable)
      /\ \A g \in Files : g # f => file'[g] = file[g]
      /\ \A g \in Files : Kind(file'[g]) = Kind(file[g])
  <2>1. 1 \in Nat \ {0}
    BY SMTT(20)
  <2>. QED  BY Zenon, <1>1, <1>2, <1>4, <2>1, RefStep
<1>8. TypeOK'
  BY Zenon, <1>1, <1>2, <1>6, <1>7 DEF TypeOK
<1>9. Other(p, f) /\ -1 \in Places
  BY Zenon, <1>2, <1>4, NotOther, CellAt
<1>10. RefOK'
  <2>1. file'[f].ref = file[f].ref + 1 /\ \A g \in Files : g # f => file'[g].ref = file[g].ref
    BY SMTT(20), <1>4, <1>7, NewRec
  <2>. QED  BY Zenon, <1>2, <1>4, <1>6, <1>9, <2>1, RefGain
<1>11. HeldOK'
  <2>1. \A q \in Procs : th'[q].ff = th[q].ff
    BY Zenon, <1>3, <1>5, <1>6 DEF OnlyOf
  <2>. QED  BY Zenon, <1>1, <1>2, <1>7, <2>1, HeldSame
<1>12. /\ \A c \in {-1} : Other(p, Now(p, c))
       /\ \A g \in Files : file'[g] = file[g] \/ Other(p, g)
       /\ th[p].pc # "fork" /\ th[p].pc # "forked" /\ th'[p].pc # "fork"
       /\ {-1} \in SUBSET Places
  BY <1>1, <1>5, <1>6, <1>7, <1>9
<1>13. PlaceAt(th'[p], ofile'[p])
  BY <1>5, <1>6 DEF PlaceAt
<1>14. AllocAt(p)'
  <2>1. NoFile.type = "none" /\ NoFile.pipe = Null /\ NoFile.writable = FALSE
    BY DEF NoFile, File
  <2>2. file'[f] = New
    BY Zenon, <1>4, <1>7, <2>1 DEF New
  <2>3. ASSUME NEW x \in PtrDom, Pointers'[x] = f
        PROVE  x = <<p, -1>>
    <3>. SUFFICES ASSUME x # <<p, -1>>  PROVE FALSE
      OBVIOUS
    <3>1. Elsewhere(x, p, {-1})
      BY Zenon DEF Elsewhere
    <3>2. Pointers'[x] = Pointers[x]
      BY Zenon, <1>6, <3>1, PointersStay
    <3>. QED  BY Zenon, <1>4, <2>3, <3>2
  <2>. QED  BY Zenon, <1>4, <1>5, <1>6, <2>2, <2>3 DEF AllocAt
<1>. QED  BY Zenon, <1>1, <1>6, <1>7, <1>8, <1>10, <1>11, <1>12, <1>13, <1>14, StepInv

LEMMA PipeFailsNoFile ==
    ASSUME Sizes, Inv, NEW p \in Procs, th[p].pc = "pipealloc",
           Close(p, th[p].f0, Null, "user"), UNCHANGED <<file, ofile, pipe, iref, panic>>
    PROVE  Inv'
<1>. DEFINE t == CloseRec(th[p].f0, Null, "user")
<1>1. /\ th' = [th EXCEPT ![p] = t]
      /\ file' = file /\ ofile' = ofile /\ iref' = iref /\ pipe' = pipe /\ panic' = panic
  BY Zenon DEF Close, Goto, CloseRec
<1>2. TypeOK /\ EntryOK /\ PlaceOK /\ AllocOK /\ RefOK /\ HeldOK
  BY Zenon DEF Inv
<1>3. th[p].f0 \in Files /\ th[p].f1 = Null /\ th[p].ff = NoFile
  BY Zenon, <1>2 DEF AllocOK, PlaceOK, PlaceAt
<1>5. /\ t \in Thread /\ t.pc = "close" /\ t.f0 = th[p].f0 /\ t.f1 = Null /\ t.ff = NoFile
      /\ \A o : PlaceAt(t, o)
  <2>1. th[p].f0 \in Files \cup {Null} /\ Null \in Files \cup {Null}
    BY Zenon, <1>3
  <2>2. IsClose(t, th[p].f0, Null)
    BY Zenon, <2>1, CloseFields
  <2>. QED  BY Zenon, <2>2 DEF IsClose
<1>. HIDE DEF t
<1>6. /\ OnlyOf(p) /\ OnlyAt(p, {}) /\ th'[p] = t /\ th' \in [Procs -> Thread]
  BY Zenon, <1>1, <1>2, <1>3, <1>5, ThOnly
<1>8. TypeOK' /\ EntryOK'
  BY Zenon, <1>1, <1>2, <1>6 DEF TypeOK, EntryOK
<1>10. RefOK'
  <2>1. ASSUME NEW x \in PtrDom  PROVE Pointers'[x] = Pointers[x]
    <3>1. Elsewhere(x, p, {})
      BY Zenon DEF Elsewhere
    <3>. QED  BY Zenon, <1>6, <3>1, PointersStay
  <2>. QED  BY Zenon, <1>1, <1>2, <2>1, RefSame
<1>11. HeldOK'
  <2>1. \A q \in Procs : th'[q].ff = th[q].ff
    BY Zenon, <1>3, <1>5, <1>6 DEF OnlyOf
  <2>. QED  BY Zenon, <1>1, <1>2, <2>1, HeldSame
<1>12. /\ \A c \in {} : Other(p, Now(p, c))
       /\ \A g \in Files : file'[g] = file[g] \/ Other(p, g)
       /\ th[p].pc # "fork" /\ th[p].pc # "forked" /\ th'[p].pc # "fork"
       /\ PlaceAt(th'[p], ofile'[p]) /\ {} \in SUBSET Places
  BY <1>1, <1>5, <1>6
<1>13. AllocAt(p)'
  <2>1. th'[p].pc # "pipealloc"
    BY <1>5, <1>6
  <2>. QED  BY Zenon, <2>1 DEF AllocAt
<1>. QED  BY Zenon, <1>1, <1>6, <1>8, <1>10, <1>11, <1>12, <1>13, StepInv

LEMMA PipeFailsNoPage ==
    ASSUME Sizes, Inv, NEW p \in Procs, th[p].pc = "pipealloc", Unused # {},
           file' = [file EXCEPT ![filealloc].ref = 1],
           Close(p, th[p].f0, filealloc, "user"), UNCHANGED <<ofile, pipe, iref, panic>>
    PROVE  Inv'
<1>. DEFINE f == filealloc
            t == CloseRec(th[p].f0, f, "user")
<1>1. /\ th' = [th EXCEPT ![p] = t] /\ file' = [file EXCEPT ![f].ref = 1]
      /\ ofile' = ofile /\ iref' = iref /\ pipe' = pipe /\ panic' = panic
  BY Zenon DEF Close, Goto, CloseRec
<1>2. TypeOK /\ EntryOK /\ PlaceOK /\ AllocOK /\ RefOK /\ HeldOK
  BY Zenon DEF Inv
<1>3. th[p].f0 \in Files /\ th[p].f1 = Null /\ th[p].ff = NoFile
  BY Zenon, <1>2 DEF AllocOK, PlaceOK, PlaceAt
<1>4. f \in Files /\ file[f] = NoFile
  BY Zenon, <1>2, Fresh
<1>. HIDE DEF f
<1>5. /\ t \in Thread /\ t.pc = "close" /\ t.f0 = th[p].f0 /\ t.f1 = f /\ t.ff = NoFile
      /\ \A o : PlaceAt(t, o)
  <2>1. th[p].f0 \in Files \cup {Null} /\ f \in Files \cup {Null}
    BY Zenon, <1>3, <1>4
  <2>2. IsClose(t, th[p].f0, f)
    BY Zenon, <2>1, CloseFields
  <2>. QED  BY Zenon, <2>2 DEF IsClose
<1>. HIDE DEF t
<1>6. /\ OnlyOf(p) /\ OnlyAt(p, {-2}) /\ Was(p, -2) = Null /\ Now(p, -2) = f
      /\ th'[p] = t /\ th' \in [Procs -> Thread]
  BY Zenon, <1>1, <1>2, <1>3, <1>5, ThOnly
<1>7. /\ file' \in [Files -> FileRec] /\ file'[f].ref = 1 /\ EntryOK'
      /\ \A g \in Files : g # f => file'[g] = file[g]
      /\ \A g \in Files : Kind(file'[g]) = Kind(file[g])
  <2>1. 1 \in Nat \ {0}
    BY SMTT(20)
  <2>. QED  BY Zenon, <1>1, <1>2, <1>4, <2>1, RefStep
<1>8. TypeOK'
  BY Zenon, <1>1, <1>2, <1>6, <1>7 DEF TypeOK
<1>9. Other(p, f) /\ -2 \in Places
  BY Zenon, <1>2, <1>4, NotOther, CellAt
<1>10. RefOK'
  <2>1. file'[f].ref = file[f].ref + 1 /\ \A g \in Files : g # f => file'[g].ref = file[g].ref
    BY SMTT(20), <1>4, <1>7, NewRec
  <2>. QED  BY Zenon, <1>2, <1>4, <1>6, <1>9, <2>1, RefGain
<1>11. HeldOK'
  <2>1. \A q \in Procs : th'[q].ff = th[q].ff
    BY Zenon, <1>3, <1>5, <1>6 DEF OnlyOf
  <2>. QED  BY Zenon, <1>1, <1>2, <1>7, <2>1, HeldSame
<1>12. /\ \A c \in {-2} : Other(p, Now(p, c))
       /\ \A g \in Files : file'[g] = file[g] \/ Other(p, g)
       /\ th[p].pc # "fork" /\ th[p].pc # "forked" /\ th'[p].pc # "fork"
       /\ PlaceAt(th'[p], ofile'[p]) /\ {-2} \in SUBSET Places
  BY <1>5, <1>6, <1>7, <1>9
<1>13. AllocAt(p)'
  <2>1. th'[p].pc # "pipealloc"
    BY <1>5, <1>6
  <2>. QED  BY Zenon, <2>1 DEF AllocAt
<1>. QED  BY Zenon, <1>1, <1>6, <1>7, <1>8, <1>10, <1>11, <1>12, <1>13, StepInv

(* filedup() of a file to which there is a pointer.                        *)
LEMMA DupStep ==
    ASSUME Sizes, TypeOK, EntryOK, RefOK, NEW r \in Procs, NEW fd \in Fds,
           ofile[r][fd] # Null, filedup(ofile[r][fd])
    PROVE  LET f == ofile[r][fd]
           IN  /\ f \in Files /\ panic' = panic
               /\ file' \in [Files -> FileRec] /\ EntryOK'
               /\ file'[f].ref = file[f].ref + 1
               /\ \A g \in Files : g # f => file'[g] = file[g]
               /\ \A g \in Files : Kind(file'[g]) = Kind(file[g])
<1>. DEFINE f == ofile[r][fd]
<1>1. f \in Files
  BY SMTT(20) DEF TypeOK
<1>2. file[f].ref \in Nat \ {0}
  BY Zenon, <1>1, CellAt, FdCell, Pointed
<1>3. ~(file[f].ref < 1) /\ file[f].ref + 1 \in Nat \ {0}
  BY <1>2, SMTT(20)
<1>4. panic' = panic /\ file' = [file EXCEPT ![f].ref = file[f].ref + 1]
  BY <1>3 DEF filedup
<1>. HIDE DEF f
<1>5. /\ file' \in [Files -> FileRec] /\ EntryOK' /\ file'[f].ref = file[f].ref + 1
      /\ \A g \in Files : g # f => file'[g] = file[g]
      /\ \A g \in Files : Kind(file'[g]) = Kind(file[g])
  BY Zenon, <1>1, <1>3, <1>4, RefStep
<1>. QED  BY Zenon, <1>1, <1>4, <1>5 DEF f

LEMMA DupSysStep ==
    ASSUME Sizes, Inv, NEW p \in Procs, sys_dup(p)
    PROVE  Inv'
<1>. DEFINE d == Least(Free(p))
<1>1. PICK fd \in Fds :
        /\ th[p].pc = "user" /\ ofile[p][fd] # Null /\ Free(p) # {}
        /\ ofile' = [ofile EXCEPT ![p][d] = ofile[p][fd]]
        /\ filedup(ofile[p][fd])
        /\ pipe' = pipe /\ iref' = iref /\ th' = th
  BY Zenon DEF sys_dup, User
<1>2. TypeOK /\ EntryOK /\ PlaceOK /\ AllocOK /\ RefOK /\ HeldOK
  BY Zenon DEF Inv
<1>3. d \in Fds /\ ofile[p][d] = Null
  <2>1. Free(p) \subseteq Free(p)
    OBVIOUS
  <2>. QED  BY Zenon, <1>1, <2>1, FreeFd
<1>. DEFINE f == ofile[p][fd]
<1>4. /\ f \in Files /\ panic' = panic /\ file' \in [Files -> FileRec] /\ EntryOK'
      /\ file'[f].ref = file[f].ref + 1
      /\ \A g \in Files : g # f => file'[g] = file[g]
      /\ \A g \in Files : Kind(file'[g]) = Kind(file[g])
  BY Zenon, <1>1, <1>2, DupStep
<1>5. Other(p, f) /\ d \in Places
  <2>1. Was(p, fd) = f
    BY Zenon, FdCell
  <2>. QED  BY Zenon, <1>2, <1>3, <2>1, NotOther, CellAt
<1>6. ofile' = [ofile EXCEPT ![p][d] = f]
  BY <1>1
<1>. HIDE DEF d, f
<1>7. /\ OnlyOf(p) /\ OnlyAt(p, {d}) /\ Was(p, d) = Null /\ Now(p, d) = f
      /\ ofile' \in [Procs -> [Fds -> Files \cup {Null}]]
  <2>1. th' = th /\ f \in Files \cup {Null}
    BY Zenon, <1>1, <1>4
  <2>. QED  BY Zenon, <1>2, <1>3, <1>6, <2>1, FdOnly
<1>8. TypeOK'
  BY Zenon, <1>1, <1>2, <1>4, <1>7 DEF TypeOK
<1>9. RefOK'
  BY Zenon, <1>2, <1>4, <1>5, <1>7, RefGain
<1>10. HeldOK'
  BY Zenon, <1>1, <1>2, <1>4, HeldSame
<1>11. /\ \A c \in {d} : Other(p, Now(p, c))
       /\ \A g \in Files : file'[g] = file[g] \/ Other(p, g)
       /\ th[p].pc # "fork" /\ th[p].pc # "forked" /\ th'[p].pc # "fork"
       /\ {d} \in SUBSET Places
  BY <1>1, <1>4, <1>5, <1>7
<1>12. AllocAt(p)' /\ PlaceAt(th'[p], ofile'[p])
  <2>1. th'[p].pc = "user" /\ th'[p] = th[p]
    BY Zenon, <1>1
  <2>2. PlaceAt(th[p], ofile[p])
    BY Zenon, <1>2 DEF PlaceOK
  <2>. QED  BY <2>1, <2>2 DEF AllocAt, PlaceAt
<1>. QED  BY Zenon, <1>4, <1>7, <1>8, <1>9, <1>10, <1>11, <1>12, StepInv

(* sys_close() and a turn of exit(): the pointer moves from the descriptor *)
(* to the call.                                                            *)
LEMMA CloseFd ==
    ASSUME Sizes, Inv, NEW p \in Procs, NEW fd \in Fds, NEW ret \in {"user", "exit"},
           th[p].pc \in {"user", "exit"}, ofile[p][fd] # Null,
           ofile' = [ofile EXCEPT ![p][fd] = Null], Close(p, ofile[p][fd], Null, ret),
           UNCHANGED <<file, pipe, iref, panic>>
    PROVE  Inv'
<1>. DEFINE f == ofile[p][fd]
            t == CloseRec(f, Null, ret)
<1>1. /\ th' = [th EXCEPT ![p] = t]
      /\ file' = file /\ iref' = iref /\ pipe' = pipe /\ panic' = panic
  BY Zenon DEF Close, Goto, CloseRec
<1>2. TypeOK /\ EntryOK /\ PlaceOK /\ AllocOK /\ RefOK /\ HeldOK
  BY Zenon DEF Inv
<1>3. th[p].f0 = Null /\ th[p].f1 = Null /\ th[p].ff = NoFile
  <2>1. th[p].pc \notin {"close", "pipealloc"}
    OBVIOUS
  <2>. QED  BY Zenon, <1>2, <2>1, IdlePlace
<1>4. f \in Files
  BY SMTT(20), <1>2 DEF TypeOK
<1>5. Was(p, fd) = f
  BY Zenon, FdCell
<1>. HIDE DEF f
<1>6. /\ t \in Thread /\ t.pc = "close" /\ t.f0 = f /\ t.f1 = Null /\ t.ff = NoFile
      /\ \A o : PlaceAt(t, o)
  <2>1. IsClose(t, f, Null)
    BY Zenon, <1>4, CloseFields
  <2>. QED  BY Zenon, <2>1 DEF IsClose
<1>. HIDE DEF t
<1>7. th'[p] = t /\ th' \in [Procs -> Thread] /\ \A q \in Procs : q # p => th'[q] = th[q]
  BY Zenon, <1>1, <1>2, <1>6, ThStep
<1>8. /\ ofile' \in [Procs -> [Fds -> Files \cup {Null}]] /\ ofile'[p][fd] = Null
      /\ \A d \in Fds : d # fd => ofile'[p][d] = ofile[p][d]
      /\ \A q \in Procs : q # p => ofile'[q] = ofile[q]
  <2>1. Null \in Files \cup {Null}
    OBVIOUS
  <2>. QED  BY Zenon, <1>2, <2>1, FdStep
<1>9. OnlyOf(p)
  BY Zenon, <1>7, <1>8 DEF OnlyOf
<1>10. OnlyAt(p, {-1, fd})
  <2>1. -1 \notin {-1, fd} => th'[p].f0 = th[p].f0
    BY Zenon
  <2>2. -2 \notin {-1, fd} => th'[p].f1 = th[p].f1
    BY Zenon, <1>3, <1>6, <1>7
  <2>3. \A d \in Fds : d \notin {-1, fd} => ofile'[p][d] = ofile[p][d]
    BY Zenon, <1>8
  <2>. QED  BY Zenon, <2>1, <2>2, <2>3, CellsStay
<1>11. Now(p, -1) = f /\ Was(p, -1) = Null /\ Now(p, fd) = Null
  <2>1. Now(p, fd) = Null
    BY Zenon, <1>8, FdCell
  <2>2. Now(p, -1) = th'[p].f0 /\ Was(p, -1) = th[p].f0
    BY Zenon, CellAt DEF Now, Was
  <2>. QED  BY Zenon, <1>3, <1>6, <1>7, <2>1, <2>2
<1>12. TypeOK' /\ EntryOK'
  BY Zenon, <1>1, <1>2, <1>7, <1>8 DEF TypeOK, EntryOK
<1>13. -1 \in Places /\ fd \in Places /\ -1 # fd
  BY Zenon, CellAt
<1>14. RefOK'
  BY Zenon, <1>1, <1>2, <1>5, <1>9, <1>10, <1>11, <1>13, RefMove
<1>15. HeldOK'
  <2>1. \A q \in Procs : th'[q].ff = th[q].ff
    BY Zenon, <1>3, <1>6, <1>7
  <2>. QED  BY Zenon, <1>1, <1>2, <2>1, HeldSame
<1>16. /\ \A c \in {-1, fd} : Other(p, Now(p, c))
       /\ \A g \in Files : file'[g] = file[g] \/ Other(p, g)
       /\ {-1, fd} \in SUBSET Places
  <2>1. Other(p, f) /\ Other(p, Null)
    BY Zenon, <1>2, <1>5, NotOther
  <2>. QED  BY <1>1, <1>11, <1>13, <2>1
<1>17. /\ th[p].pc # "fork" /\ th[p].pc # "forked" /\ th'[p].pc # "fork"
       /\ PlaceAt(th'[p], ofile'[p]) /\ th'[p].pc # "pipealloc"
  BY <1>6, <1>7
<1>18. AllocAt(p)'
  BY Zenon, <1>17 DEF AllocAt
<1>. QED  BY Zenon, <1>1, <1>9, <1>10, <1>12, <1>14, <1>15, <1>16, <1>17, <1>18, StepInv

LEMMA CloseSysStep ==
    ASSUME Sizes, Inv, NEW p \in Procs, sys_close(p)
    PROVE  Inv'
<1>1. PICK fd \in Fds :
        /\ th[p].pc = "user" /\ ofile[p][fd] # Null
        /\ ofile' = [ofile EXCEPT ![p][fd] = Null]
        /\ Close(p, ofile[p][fd], Null, "user")
        /\ UNCHANGED <<file, pipe, iref, panic>>
  BY Zenon DEF sys_close, User
<1>. QED  BY Zenon, <1>1, CloseFd

LEMMA ExitStep ==
    ASSUME Sizes, Inv, NEW p \in Procs, exit(p)
    PROVE  Inv'
<1>1. th[p].pc \in {"user", "exit"} /\ UNCHANGED <<file, pipe, iref, panic>>
  BY Zenon DEF exit, User
<1>2. TypeOK /\ EntryOK /\ PlaceOK /\ AllocOK /\ RefOK /\ HeldOK
  BY Zenon DEF Inv
<1>3. CASE Open(p) # {}
  <2>1. Open(p) \subseteq Nat /\ Open(p) \subseteq Fds
    BY SMTT(20) DEF Open, Fds, Sizes
  <2>2. Least(Open(p)) \in Open(p)
    BY Zenon, <1>3, <2>1, LeastIsIn
  <2>3. Least(Open(p)) \in Fds /\ ofile[p][Least(Open(p))] # Null
    BY Zenon, <2>2 DEF Open
  <2>4. /\ ofile' = [ofile EXCEPT ![p][Least(Open(p))] = Null]
        /\ Close(p, ofile[p][Least(Open(p))], Null, "exit")
    BY Zenon, <1>3 DEF exit
  <2>. QED  BY Zenon, <1>1, <2>3, <2>4, CloseFd
<1>4. CASE Open(p) = {}
  <2>. DEFINE t == At("unused")
  <2>1. /\ th' = [th EXCEPT ![p] = t] /\ ofile' = ofile
        /\ file' = file /\ iref' = iref /\ pipe' = pipe /\ panic' = panic
    BY Zenon, <1>1, <1>4 DEF exit, Goto
  <2>2. th[p].f0 = Null /\ th[p].f1 = Null /\ th[p].ff = NoFile
    <3>1. th[p].pc \notin {"close", "pipealloc"}
      BY <1>1
    <3>. QED  BY Zenon, <1>2, <3>1, IdlePlace
  <2>3. t \in Thread /\ t.pc = "unused" /\ t.f0 = Null /\ t.f1 = Null /\ t.ff = NoFile
    BY AtRec DEF Pcs
  <2>. HIDE DEF t
  <2>4. /\ OnlyOf(p) /\ OnlyAt(p, {}) /\ th'[p] = t /\ th' \in [Procs -> Thread]
    BY Zenon, <1>2, <2>1, <2>2, <2>3, ThOnly
  <2>5. TypeOK' /\ EntryOK'
    BY Zenon, <1>2, <2>1, <2>4 DEF TypeOK, EntryOK
  <2>6. RefOK'
    <3>1. ASSUME NEW x \in PtrDom  PROVE Pointers'[x] = Pointers[x]
      <4>1. Elsewhere(x, p, {})
        BY Zenon DEF Elsewhere
      <4>. QED  BY Zenon, <2>4, <4>1, PointersStay
    <3>. QED  BY Zenon, <1>2, <2>1, <3>1, RefSame
  <2>7. HeldOK'
    <3>1. \A q \in Procs : th'[q].ff = th[q].ff
      BY Zenon, <2>2, <2>3, <2>4 DEF OnlyOf
    <3>. QED  BY Zenon, <1>2, <2>1, <3>1, HeldSame
  <2>8. /\ \A c \in {} : Other(p, Now(p, c))
        /\ \A g \in Files : file'[g] = file[g] \/ Other(p, g)
        /\ th[p].pc # "fork" /\ th[p].pc # "forked" /\ th'[p].pc # "fork"
        /\ th'[p].pc # "pipealloc" /\ {} \in SUBSET Places
    BY <1>1, <2>1, <2>3, <2>4
  <2>9. PlaceAt(th'[p], ofile'[p])
    <3>1. \A fd \in Fds : ofile'[p][fd] = Null
      BY Zenon, <1>4, <2>1 DEF Open
    <3>. QED  BY <2>3, <2>4, <3>1 DEF PlaceAt
  <2>10. AllocAt(p)'
    BY Zenon, <2>8 DEF AllocAt
  <2>. QED  BY Zenon, <2>1, <2>4, <2>5, <2>6, <2>7, <2>8, <2>9, <2>10, StepInv
<1>. QED  BY Zenon, <1>3, <1>4

(* Where a process goes on with what it has to close.                      *)
LEMMA ClosingRec ==
    ASSUME NEW u \in Thread, u.pc = "close", u.ret \in {"user", "exit"}, NEW t,
           t = IF u.f0 = Null /\ u.f1 = Null /\ u.ff = NoFile THEN At(u.ret) ELSE u
    PROVE  /\ t \in Thread /\ t.f0 = u.f0 /\ t.f1 = u.f1 /\ t.ff = u.ff
           /\ t.pc \in {"close", "user", "exit"}
           /\ \A o : PlaceAt(t, o)
<1>1. CASE u.f0 = Null /\ u.f1 = Null /\ u.ff = NoFile
  <2>1. t = At(u.ret) /\ u.ret \in Pcs
    BY <1>1 DEF Pcs
  <2>2. t \in Thread /\ t.pc = u.ret /\ t.f0 = Null /\ t.f1 = Null /\ t.ff = NoFile
    BY Zenon, <2>1, AtRec
  <2>3. \A o : PlaceAt(t, o)
    BY <2>2 DEF PlaceAt
  <2>4. t.pc \in {"close", "user", "exit"}
    BY <2>2
  <2>. QED  BY Zenon, <1>1, <2>2, <2>3, <2>4
<1>2. CASE ~(u.f0 = Null /\ u.f1 = Null /\ u.ff = NoFile)
  <2>1. t = u
    BY Zenon, <1>2
  <2>2. \A o : PlaceAt(t, o)
    BY <2>1 DEF PlaceAt
  <2>. QED  BY Zenon, <2>1, <2>2
<1>. QED  BY Zenon, <1>1, <1>2

LEMMA FileCloseStep ==
    ASSUME Sizes, Inv, NEW p \in Procs, fileclose(p)
    PROVE  Inv'
<1>. DEFINE first == th[p].f0 # Null
            c == IF first THEN -1 ELSE -2
            f == IF first THEN th[p].f0 ELSE th[p].f1
            last == file[f].ref = 1
            ff == IF last THEN Kind(file[f]) ELSE NoFile
            u == [th[p] EXCEPT !.f0 = Null, !.f1 = IF first THEN th[p].f1 ELSE Null, !.ff = ff]
            t == IF u.f0 = Null /\ u.f1 = Null /\ u.ff = NoFile THEN At(u.ret) ELSE u
<1>1. TypeOK /\ EntryOK /\ PlaceOK /\ AllocOK /\ RefOK /\ HeldOK
  BY Zenon DEF Inv
<1>2. /\ th[p].pc = "close" /\ f # Null /\ th[p].ff = NoFile
      /\ ofile' = ofile /\ pipe' = pipe /\ iref' = iref
  BY Zenon DEF fileclose
<1>3. th[p] \in Thread
  BY Zenon, <1>1 DEF TypeOK
<1>4. f \in Files
  BY <1>2, <1>3 DEF Thread
<1>5. c \in Places /\ Was(p, c) = f
  <2>1. -1 \in Places /\ -2 \in Places /\ Was(p, -1) = th[p].f0 /\ Was(p, -2) = th[p].f1
    BY Zenon, CellAt DEF Was
  <2>. QED  BY Zenon, <2>1
<1>6. file[f].ref \in Nat \ {0}
  BY Zenon, <1>1, <1>4, <1>5, Pointed
<1>7. ~(file[f].ref < 1)
  BY <1>6, SMTT(20)
<1>8. /\ file' = IF last THEN [file EXCEPT ![f] = NoFile]
                 ELSE [file EXCEPT ![f].ref = file[f].ref - 1]
      /\ th' = [th EXCEPT ![p] = t]
      /\ panic' = panic
  BY <1>7 DEF fileclose, Reset, Closing, Goto
<1>9. ff \in Kinds
  BY Zenon, <1>1, <1>4, KindsAre DEF EntryOK, EntryAt
<1>10. u \in Thread /\ u.pc = "close" /\ u.ret = th[p].ret /\ u.f0 = Null
       /\ u.f1 = (IF first THEN th[p].f1 ELSE Null) /\ u.ff = ff
  <2>. HIDE DEF ff
  <2>. QED  BY <1>2, <1>3, <1>9 DEF Thread
<1>11. th[p].ret \in {"user", "exit"}
  BY Zenon, <1>1, <1>2 DEF PlaceOK, PlaceAt
<1>. HIDE DEF u, ff
<1>12. /\ t \in Thread /\ t.f0 = Null /\ t.f1 = (IF first THEN th[p].f1 ELSE Null) /\ t.ff = ff
       /\ t.pc \in {"close", "user", "exit"}
       /\ \A o : PlaceAt(t, o)
  BY Zenon, <1>10, <1>11, ClosingRec
<1>. HIDE DEF t
<1>13. th'[p] = t /\ th' \in [Procs -> Thread] /\ \A q \in Procs : q # p => th'[q] = th[q]
  BY Zenon, <1>1, <1>8, <1>12, ThStep
<1>14. OnlyOf(p) /\ OnlyAt(p, {c}) /\ Now(p, c) = Null
  <2>1. CASE first
    <3>1. t.f1 = th[p].f1 /\ c = -1
      BY Zenon, <1>12, <2>1
    <3>. QED  BY Zenon, <1>1, <1>2, <1>8, <1>12, <3>1, ThOnly
  <2>2. CASE ~first
    <3>1. t.f0 = th[p].f0 /\ t.f1 = Null /\ c = -2
      BY Zenon, <1>12, <2>2
    <3>. QED  BY Zenon, <1>1, <1>2, <1>8, <1>12, <3>1, ThOnly
  <2>. QED  BY Zenon, <2>1, <2>2
<1>15. Other(p, f) /\ Other(p, Null)
  BY Zenon, <1>1, <1>5, NotOther
<1>. HIDE DEF c, f
<1>16. /\ \A d \in {c} : Other(p, Now(p, d)) /\ {c} \in SUBSET Places
       /\ th[p].pc # "fork" /\ th[p].pc # "forked" /\ th'[p].pc # "fork"
       /\ th'[p].pc # "pipealloc" /\ PlaceAt(th'[p], ofile'[p])
  BY <1>2, <1>5, <1>12, <1>13, <1>14, <1>15
<1>17. AllocAt(p)'
  BY Zenon, <1>16 DEF AllocAt
<1>18. CASE last
  <2>1. /\ file' \in [Files -> FileRec] /\ file'[f] = NoFile /\ EntryOK'
        /\ \A g \in Files : g # f => file'[g] = file[g]
    <3>1. file' = [file EXCEPT ![f] = NoFile]
      BY Zenon, <1>8, <1>18
    <3>. QED  BY Zenon, <1>1, <1>4, <3>1, FileStep, NewRec
  <2>2. TypeOK'
    BY Zenon, <1>1, <1>2, <1>13, <2>1 DEF TypeOK
  <2>3. RefOK'
    <3>1. file'[f].ref = file[f].ref - 1 /\ \A g \in Files : g # f => file'[g].ref = file[g].ref
      BY SMTT(20), <1>18, <2>1, NewRec
    <3>. QED  BY Zenon, <1>1, <1>4, <1>5, <1>14, <3>1, RefDrop
  <2>4. HeldOK'
    <3>1. /\ <<0, f>> \in Entries /\ Stands[<<0, f>>] = ff /\ Stands'[<<0, f>>] = NoFile
          /\ <<1, p>> \in Entries /\ Stands[<<1, p>>] = NoFile /\ Stands'[<<1, p>>] = ff
      <4>1. ff = Kind(file[f])
        BY Zenon, <1>18 DEF ff
      <4>. QED  BY Zenon, <1>2, <1>4, <1>12, <1>13, <2>1, <4>1, StandAt, NewRec
    <3>2. <<0, f>> # <<1, p>>
      BY SMTT(20)
    <3>3. ASSUME NEW e \in Entries, e # <<0, f>>, e # <<1, p>>
          PROVE  Stands'[e] = Stands[e]
      <4>1. OnlyEntries({f}, {p}) /\ NotEntry(e, {f}, {p})
        BY Zenon, <1>13, <2>1, <3>3 DEF OnlyEntries, NotEntry
      <4>. QED  BY Zenon, <4>1, StandsStay
    <3>4. ASSUME NEW v \in Kinds \ {NoFile}
          PROVE  Held(pipe', iref', v)
                   = Held(pipe, iref, v) + Is(Stands'[<<0, f>>], v) + Is(Stands'[<<1, p>>], v)
                                         - Is(Stands[<<0, f>>], v) - Is(Stands[<<1, p>>], v)
      <4>1. Held(pipe, iref, v) \in Nat /\ Held(pipe', iref', v) = Held(pipe, iref, v)
        BY Zenon, <1>1, <1>2, HeldType
      <4>2. Is(NoFile, v) \in {0, 1} /\ Is(ff, v) \in {0, 1}
        BY Zenon, IsType
      <4>. QED  BY SMTT(20), <3>1, <4>1, <4>2
    <3>. QED  BY Zenon, <1>1, <3>1, <3>2, <3>3, <3>4, HeldTwo
  <2>5. \A g \in Files : file'[g] = file[g] \/ Other(p, g)
    BY Zenon, <1>15, <2>1
  <2>. QED  BY Zenon, <1>8, <1>14, <1>16, <1>17, <2>1, <2>2, <2>3, <2>4, <2>5, StepInv
<1>19. CASE ~last
  <2>1. file[f].ref - 1 \in Nat \ {0}
    BY <1>6, <1>19, SMTT(20)
  <2>2. file' = [file EXCEPT ![f].ref = file[f].ref - 1]
    BY <1>8, <1>19
  <2>3. /\ file' \in [Files -> FileRec] /\ file'[f].ref = file[f].ref - 1 /\ EntryOK'
        /\ \A g \in Files : g # f => file'[g] = file[g]
        /\ \A g \in Files : Kind(file'[g]) = Kind(file[g])
    BY Zenon, <1>1, <1>4, <2>1, <2>2, RefStep
  <2>4. TypeOK'
    BY Zenon, <1>1, <1>2, <1>13, <2>3 DEF TypeOK
  <2>5. RefOK'
    <3>1. \A g \in Files : g # f => file'[g].ref = file[g].ref
      BY Zenon, <2>3
    <3>. QED  BY Zenon, <1>1, <1>4, <1>5, <1>14, <2>3, <3>1, RefDrop
  <2>6. HeldOK'
    <3>1. ff = NoFile
      BY Zenon, <1>19 DEF ff
    <3>2. \A q \in Procs : th'[q].ff = th[q].ff
      BY Zenon, <1>2, <1>12, <1>13, <3>1
    <3>. QED  BY Zenon, <1>1, <1>2, <2>3, <3>2, HeldSame
  <2>7. \A g \in Files : file'[g] = file[g] \/ Other(p, g)
    BY Zenon, <1>15, <2>3
  <2>. QED  BY Zenon, <1>8, <1>14, <1>16, <1>17, <2>3, <2>4, <2>5, <2>6, <2>7, StepInv
<1>. QED  BY Zenon, <1>18, <1>19

(* One flag of one pipe is cleared.                                        *)
ClearedWrite(pp, qq, g) ==
    /\ qq \in [Pages -> Flags]
    /\ qq[g].writeopen = FALSE /\ qq[g].readopen = pp[g].readopen
    /\ \A h \in Pages : h # g => qq[h] = pp[h]
ClearedRead(pp, qq, g) ==
    /\ qq \in [Pages -> Flags]
    /\ qq[g].readopen = FALSE /\ qq[g].writeopen = pp[g].writeopen
    /\ \A h \in Pages : h # g => qq[h] = pp[h]
LEMMA FlagStep ==
    ASSUME NEW pp \in [Pages -> Flags], NEW g \in Pages, NEW qq
    PROVE  /\ qq = [pp EXCEPT ![g].writeopen = FALSE] => ClearedWrite(pp, qq, g)
           /\ qq = [pp EXCEPT ![g].readopen = FALSE] => ClearedRead(pp, qq, g)
<1>1. ASSUME qq = [pp EXCEPT ![g].writeopen = FALSE]
      PROVE  ClearedWrite(pp, qq, g)
  <2>1. qq \in [Pages -> Flags]
    BY <1>1 DEF Flags
  <2>2. qq[g].writeopen = FALSE /\ qq[g].readopen = pp[g].readopen
    BY <1>1 DEF Flags
  <2>3. \A h \in Pages : h # g => qq[h] = pp[h]
    BY <1>1
  <2>. QED  BY Zenon, <2>1, <2>2, <2>3 DEF ClearedWrite
<1>2. ASSUME qq = [pp EXCEPT ![g].readopen = FALSE]
      PROVE  ClearedRead(pp, qq, g)
  <2>1. qq \in [Pages -> Flags]
    BY <1>2 DEF Flags
  <2>2. qq[g].readopen = FALSE /\ qq[g].writeopen = pp[g].writeopen
    BY <1>2 DEF Flags
  <2>3. \A h \in Pages : h # g => qq[h] = pp[h]
    BY <1>2
  <2>. QED  BY Zenon, <2>1, <2>2, <2>3 DEF ClearedRead
<1>. QED  BY Zenon, <1>1, <1>2

(* What closing the copy v does to what is held.                           *)
LEMMA PutHeld ==
    ASSUME Sizes, TypeOK, HeldOK, NEW k \in Kinds \ {NoFile}, Held(pipe, iref, k) # 0,
           pipe' = IF k.type # "pipe" THEN pipe
                   ELSE IF k.writable THEN [pipe EXCEPT ![k.pipe].writeopen = FALSE]
                   ELSE [pipe EXCEPT ![k.pipe].readopen = FALSE],
           iref' = IF k.type = "inode" THEN iref - 1 ELSE iref
    PROVE  /\ pipe' \in [Pages -> Flags]
           /\ \A v \in Kinds \ {NoFile} : Held(pipe', iref', v) = Held(pipe, iref, v) - Is(k, v)
<1>1. CASE k = Inode
  <2>1. k.type = "inode"
    BY Zenon, <1>1, KindsDiffer
  <2>2. pipe' = pipe /\ iref' = iref - 1
    BY <2>1
  <2>3. ASSUME NEW v \in Kinds \ {NoFile}
        PROVE  Held(pipe', iref', v) = Held(pipe, iref, v) - Is(k, v)
    <3>1. Held(pipe, iref, v) \in Nat
      BY Zenon, HeldType
    <3>2. CASE v = Inode
      <4>1. Held(pipe, iref, v) = iref /\ Held(pipe', iref', v) = iref - 1 /\ Is(k, v) = 1
        BY Zenon, <1>1, <2>2, <3>2 DEF Held, Is
      <4>. QED  BY Zenon, <4>1
    <3>3. CASE v # Inode
      <4>1. Held(pipe', iref', v) = Held(pipe, iref, v) /\ Is(k, v) = 0
        BY Zenon, <1>1, <2>2, <3>3 DEF Held, Is
      <4>. QED  BY SMTT(20), <3>1, <4>1
    <3>. QED  BY Zenon, <3>2, <3>3
  <2>. QED  BY Zenon, <2>2, <2>3 DEF TypeOK
<1>2. ASSUME NEW g \in Pages, k = PipeEnd(g, TRUE)
      PROVE  /\ pipe' \in [Pages -> Flags]
             /\ \A v \in Kinds \ {NoFile} : Held(pipe', iref', v) = Held(pipe, iref, v) - Is(k, v)
  <2>1. k.type = "pipe" /\ k.writable = TRUE /\ k.pipe = g /\ k # Inode
    BY Zenon, <1>2, KindsDiffer
  <2>2. pipe' = [pipe EXCEPT ![g].writeopen = FALSE] /\ iref' = iref
    BY <2>1
  <2>3. /\ pipe' \in [Pages -> Flags]
        /\ pipe'[g].writeopen = FALSE /\ pipe'[g].readopen = pipe[g].readopen
        /\ \A h \in Pages : h # g => pipe'[h] = pipe[h]
    <3>1. pipe \in [Pages -> Flags]
      BY Zenon DEF TypeOK
    <3>2. ClearedWrite(pipe, pipe', g)
      BY Zenon, <2>2, <3>1, FlagStep
    <3>. QED  BY Zenon, <3>2 DEF ClearedWrite
  <2>4. Held(pipe, iref, k) = One(pipe[g].writeopen) /\ Held(pipe', iref', k) = One(pipe'[g].writeopen)
    BY Zenon, <2>1 DEF Held
  <2>5. Held(pipe, iref, k) = 1 /\ Held(pipe', iref', k) = 0
    BY <2>3, <2>4 DEF One
  <2>6. ASSUME NEW v \in Kinds \ {NoFile}
        PROVE  Held(pipe', iref', v) = Held(pipe, iref, v) - Is(k, v)
    <3>1. Held(pipe, iref, v) \in Nat
      BY Zenon, HeldType
    <3>2. CASE v = k
      <4>1. Is(k, v) = 1
        BY Zenon, <3>2 DEF Is
      <4>. QED  BY SMTT(20), <2>5, <3>2, <4>1
    <3>3. CASE v # k
      <4>1. Held(pipe', iref', v) = Held(pipe, iref, v)
        <5>1. CASE v = Inode
          BY Zenon, <2>2, <5>1 DEF Held
        <5>2. ASSUME NEW h \in Pages, v = PipeEnd(h, TRUE)
              PROVE  Held(pipe', iref', v) = Held(pipe, iref, v)
          <6>1. h # g
            BY Zenon, <1>2, <3>3, <5>2
          <6>2. v # Inode /\ v.pipe = h
            BY Zenon, <5>2, KindsDiffer
          <6>3. pipe'[v.pipe] = pipe[v.pipe]
            BY Zenon, <2>3, <6>1, <6>2
          <6>4. /\ One(pipe'[v.pipe].writeopen) = One(pipe[v.pipe].writeopen)
                /\ One(pipe'[v.pipe].readopen) = One(pipe[v.pipe].readopen)
            BY <6>3 DEF One
          <6>. QED  BY Zenon, <6>2, <6>4 DEF Held
        <5>3. ASSUME NEW h \in Pages, v = PipeEnd(h, FALSE)
              PROVE  Held(pipe', iref', v) = Held(pipe, iref, v)
          <6>1. v # Inode /\ v.pipe = h /\ v.writable = FALSE
            BY Zenon, <5>3, KindsDiffer
          <6>2. pipe'[h].readopen = pipe[h].readopen
            BY Zenon, <2>3
          <6>3. /\ Held(pipe, iref, v) = One(pipe[h].readopen)
                /\ Held(pipe', iref', v) = One(pipe'[h].readopen)
            BY Zenon, <6>1 DEF Held
          <6>. QED  BY <6>2, <6>3 DEF One
        <5>. QED  BY Zenon, <5>1, <5>2, <5>3, KindsAre
      <4>2. Is(k, v) = 0
        BY Zenon, <3>3 DEF Is
      <4>. QED  BY SMTT(20), <3>1, <4>1, <4>2
    <3>. QED  BY Zenon, <3>2, <3>3
  <2>. QED  BY Zenon, <2>3, <2>6
<1>3. ASSUME NEW g \in Pages, k = PipeEnd(g, FALSE)
      PROVE  /\ pipe' \in [Pages -> Flags]
             /\ \A v \in Kinds \ {NoFile} : Held(pipe', iref', v) = Held(pipe, iref, v) - Is(k, v)
  <2>1. k.type = "pipe" /\ k.writable = FALSE /\ k.pipe = g /\ k # Inode
    BY Zenon, <1>3, KindsDiffer
  <2>2. pipe' = [pipe EXCEPT ![g].readopen = FALSE] /\ iref' = iref
    BY <2>1
  <2>3. /\ pipe' \in [Pages -> Flags]
        /\ pipe'[g].readopen = FALSE /\ pipe'[g].writeopen = pipe[g].writeopen
        /\ \A h \in Pages : h # g => pipe'[h] = pipe[h]
    <3>1. pipe \in [Pages -> Flags]
      BY Zenon DEF TypeOK
    <3>2. ClearedRead(pipe, pipe', g)
      BY Zenon, <2>2, <3>1, FlagStep
    <3>. QED  BY Zenon, <3>2 DEF ClearedRead
  <2>4. Held(pipe, iref, k) = One(pipe[g].readopen) /\ Held(pipe', iref', k) = One(pipe'[g].readopen)
    BY Zenon, <2>1 DEF Held
  <2>5. Held(pipe, iref, k) = 1 /\ Held(pipe', iref', k) = 0
    BY <2>3, <2>4 DEF One
  <2>6. ASSUME NEW v \in Kinds \ {NoFile}
        PROVE  Held(pipe', iref', v) = Held(pipe, iref, v) - Is(k, v)
    <3>1. Held(pipe, iref, v) \in Nat
      BY Zenon, HeldType
    <3>2. CASE v = k
      <4>1. Is(k, v) = 1
        BY Zenon, <3>2 DEF Is
      <4>. QED  BY SMTT(20), <2>5, <3>2, <4>1
    <3>3. CASE v # k
      <4>1. Held(pipe', iref', v) = Held(pipe, iref, v)
        <5>1. CASE v = Inode
          BY Zenon, <2>2, <5>1 DEF Held
        <5>2. ASSUME NEW h \in Pages, v = PipeEnd(h, FALSE)
              PROVE  Held(pipe', iref', v) = Held(pipe, iref, v)
          <6>1. h # g
            BY Zenon, <1>3, <3>3, <5>2
          <6>2. v # Inode /\ v.pipe = h
            BY Zenon, <5>2, KindsDiffer
          <6>3. pipe'[v.pipe] = pipe[v.pipe]
            BY Zenon, <2>3, <6>1, <6>2
          <6>4. /\ One(pipe'[v.pipe].writeopen) = One(pipe[v.pipe].writeopen)
                /\ One(pipe'[v.pipe].readopen) = One(pipe[v.pipe].readopen)
            BY <6>3 DEF One
          <6>. QED  BY Zenon, <6>2, <6>4 DEF Held
        <5>3. ASSUME NEW h \in Pages, v = PipeEnd(h, TRUE)
              PROVE  Held(pipe', iref', v) = Held(pipe, iref, v)
          <6>1. v # Inode /\ v.pipe = h /\ v.writable = TRUE
            BY Zenon, <5>3, KindsDiffer
          <6>2. pipe'[h].writeopen = pipe[h].writeopen
            BY Zenon, <2>3
          <6>3. /\ Held(pipe, iref, v) = One(pipe[h].writeopen)
                /\ Held(pipe', iref', v) = One(pipe'[h].writeopen)
            BY Zenon, <6>1 DEF Held
          <6>. QED  BY <6>2, <6>3 DEF One
        <5>. QED  BY Zenon, <5>1, <5>2, <5>3, KindsAre
      <4>2. Is(k, v) = 0
        BY Zenon, <3>3 DEF Is
      <4>. QED  BY SMTT(20), <3>1, <4>1, <4>2
    <3>. QED  BY Zenon, <3>2, <3>3
  <2>. QED  BY Zenon, <2>3, <2>6
<1>. QED  BY Zenon, <1>1, <1>2, <1>3, KindsAre

LEMMA CloseEndStep ==
    ASSUME Sizes, Inv, NEW p \in Procs, close_ff(p)
    PROVE  Inv'
<1>. DEFINE k == th[p].ff
            u == [th[p] EXCEPT !.ff = NoFile]
            t == IF u.f0 = Null /\ u.f1 = Null /\ u.ff = NoFile THEN At(u.ret) ELSE u
<1>1. TypeOK /\ EntryOK /\ PlaceOK /\ AllocOK /\ RefOK /\ HeldOK
  BY Zenon DEF Inv
<1>2. /\ th[p].pc = "close" /\ k # NoFile /\ th' = [th EXCEPT ![p] = t]
      /\ ofile' = ofile /\ file' = file /\ panic' = panic
  BY Zenon DEF close_ff, Closing, Goto
<1>3. th[p] \in Thread /\ th[p].ret \in {"user", "exit"}
  BY Zenon, <1>1, <1>2 DEF TypeOK, PlaceOK, PlaceAt
<1>4. k \in Kinds \ {NoFile}
  BY <1>2, <1>3 DEF Thread
<1>5. <<1, p>> \in Entries /\ Stands[<<1, p>>] = k /\ Stands'[<<1, p>>] = th'[p].ff
  BY Zenon, StandAt
<1>6. Held(pipe, iref, k) # 0
  BY Zenon, <1>1, <1>4, <1>5, Standing
<1>7. /\ pipe' \in [Pages -> Flags]
      /\ \A v \in Kinds \ {NoFile} : Held(pipe', iref', v) = Held(pipe, iref, v) - Is(k, v)
  <2>1. /\ pipe' = IF k.type # "pipe" THEN pipe
                   ELSE IF k.writable THEN [pipe EXCEPT ![k.pipe].writeopen = FALSE]
                   ELSE [pipe EXCEPT ![k.pipe].readopen = FALSE]
        /\ iref' = IF k.type = "inode" THEN iref - 1 ELSE iref
    BY DEF close_ff
  <2>. HIDE DEF k
  <2>. QED  BY Zenon, <1>1, <1>4, <1>6, <2>1, PutHeld
<1>8. /\ u \in Thread /\ u.pc = "close" /\ u.ret = th[p].ret /\ u.f0 = th[p].f0
      /\ u.f1 = th[p].f1 /\ u.ff = NoFile
  BY <1>2, <1>3, KindsAre DEF Thread
<1>. HIDE DEF u, k
<1>9. /\ t \in Thread /\ t.f0 = th[p].f0 /\ t.f1 = th[p].f1 /\ t.ff = NoFile
      /\ t.pc \in {"close", "user", "exit"}
      /\ \A o : PlaceAt(t, o)
  BY Zenon, <1>3, <1>8, ClosingRec
<1>. HIDE DEF t
<1>10. /\ OnlyOf(p) /\ OnlyAt(p, {}) /\ th'[p] = t /\ th' \in [Procs -> Thread]
  BY Zenon, <1>1, <1>2, <1>9, ThOnly
<1>11. TypeOK' /\ EntryOK'
  BY Zenon, <1>1, <1>2, <1>7, <1>10 DEF TypeOK, EntryOK
<1>12. RefOK'
  <2>1. ASSUME NEW x \in PtrDom  PROVE Pointers'[x] = Pointers[x]
    <3>1. Elsewhere(x, p, {})
      BY Zenon DEF Elsewhere
    <3>. QED  BY Zenon, <1>10, <3>1, PointersStay
  <2>. QED  BY Zenon, <1>1, <1>2, <2>1, RefSame
<1>13. HeldOK'
  <2>1. ASSUME NEW e \in Entries, e # <<1, p>>
        PROVE  Stands'[e] = Stands[e]
    <3>1. OnlyEntries({}, {p}) /\ NotEntry(e, {}, {p})
      BY Zenon, <1>2, <1>10, <2>1 DEF OnlyEntries, NotEntry, OnlyOf
    <3>. QED  BY Zenon, <3>1, StandsStay
  <2>2. ASSUME NEW v \in Kinds \ {NoFile}
        PROVE  Held(pipe', iref', v) = Held(pipe, iref, v) + Is(Stands'[<<1, p>>], v)
                                                           - Is(Stands[<<1, p>>], v)
    <3>1. Held(pipe, iref, v) \in Nat /\ Is(k, v) \in {0, 1}
      BY Zenon, <1>1, HeldType, IsType
    <3>2. Is(NoFile, v) = 0
      BY Zenon DEF Is
    <3>3. Stands[<<1, p>>] = k /\ Stands'[<<1, p>>] = NoFile
      BY Zenon, <1>5, <1>9, <1>10
    <3>4. Held(pipe', iref', v) = Held(pipe, iref, v) - Is(k, v)
      BY Zenon, <1>7
    <3>. QED  BY SMTT(20), <3>1, <3>2, <3>3, <3>4
  <2>. QED  BY Zenon, <1>1, <1>5, <2>1, <2>2, HeldOne
<1>14. /\ \A c \in {} : Other(p, Now(p, c))
       /\ \A g \in Files : file'[g] = file[g] \/ Other(p, g)
       /\ th[p].pc # "fork" /\ th[p].pc # "forked" /\ th'[p].pc # "fork"
       /\ th'[p].pc # "pipealloc" /\ PlaceAt(th'[p], ofile'[p]) /\ {} \in SUBSET Places
  BY <1>2, <1>9, <1>10
<1>15. AllocAt(p)'
  BY Zenon, <1>14 DEF AllocAt
<1>. QED  BY Zenon, <1>2, <1>10, <1>11, <1>12, <1>13, <1>14, <1>15, StepInv

(* Both ends of a new pipe are held.                                       *)
LEMMA OpenHeld ==
    ASSUME Sizes, TypeOK, HeldOK, NEW g \in Pages, pipe[g] = NoPipe,
           pipe' = [pipe EXCEPT ![g] = [readopen |-> TRUE, writeopen |-> TRUE]], iref' = iref
    PROVE  /\ pipe' \in [Pages -> Flags]
           /\ \A v \in Kinds \ {NoFile} :
                Held(pipe', iref', v)
                  = Held(pipe, iref, v) + Is(PipeEnd(g, FALSE), v) + Is(PipeEnd(g, TRUE), v)
<1>1. pipe' \in [Pages -> Flags] /\ \A h \in Pages : h # g => pipe'[h] = pipe[h]
  BY DEF TypeOK, Flags
<1>2. pipe'[g] = [readopen |-> TRUE, writeopen |-> TRUE]
  BY DEF TypeOK
<1>3. /\ One(pipe'[g].readopen) = 1 /\ One(pipe'[g].writeopen) = 1
      /\ One(pipe[g].readopen) = 0 /\ One(pipe[g].writeopen) = 0
  BY SMTT(20), <1>2 DEF One, NoPipe
<1>4. ASSUME NEW v \in Kinds \ {NoFile}
      PROVE  Held(pipe', iref', v)
               = Held(pipe, iref, v) + Is(PipeEnd(g, FALSE), v) + Is(PipeEnd(g, TRUE), v)
  <2>1. Held(pipe, iref, v) \in Nat
    BY Zenon, HeldType
  <2>2. CASE v = PipeEnd(g, FALSE)
    <3>1. v # Inode /\ v.writable = FALSE /\ v.pipe = g
      BY Zenon, <2>2, KindsDiffer
    <3>2. PipeEnd(g, TRUE).writable = TRUE
      BY Zenon, KindsDiffer
    <3>3. Held(pipe, iref, v) = 0 /\ Held(pipe', iref', v) = 1
      BY Zenon, <1>3, <3>1 DEF Held
    <3>4. v # PipeEnd(g, TRUE)
      BY <3>1, <3>2
    <3>5. Is(PipeEnd(g, FALSE), v) = 1 /\ Is(PipeEnd(g, TRUE), v) = 0
      BY Zenon, <2>2, <3>4 DEF Is
    <3>6. 1 = 0 + 1 + 0
      BY SMT
    <3>. QED  BY Zenon, <3>3, <3>5, <3>6
  <2>3. CASE v = PipeEnd(g, TRUE)
    <3>1. v # Inode /\ v.writable = TRUE /\ v.pipe = g
      BY Zenon, <2>3, KindsDiffer
    <3>2. PipeEnd(g, FALSE).writable = FALSE
      BY Zenon, KindsDiffer
    <3>3. Held(pipe, iref, v) = 0 /\ Held(pipe', iref', v) = 1
      BY Zenon, <1>3, <3>1 DEF Held
    <3>4. v # PipeEnd(g, FALSE)
      BY <3>1, <3>2
    <3>5. Is(PipeEnd(g, TRUE), v) = 1 /\ Is(PipeEnd(g, FALSE), v) = 0
      BY Zenon, <2>3, <3>4 DEF Is
    <3>6. 1 = 0 + 0 + 1
      BY SMT
    <3>. QED  BY Zenon, <3>3, <3>5, <3>6
  <2>4. CASE v # PipeEnd(g, FALSE) /\ v # PipeEnd(g, TRUE)
    <3>1. Held(pipe', iref', v) = Held(pipe, iref, v)
      <4>1. CASE v = Inode
        BY Zenon, <4>1 DEF Held
      <4>2. ASSUME NEW h \in Pages, v = PipeEnd(h, TRUE) \/ v = PipeEnd(h, FALSE)
            PROVE  Held(pipe', iref', v) = Held(pipe, iref, v)
        <5>1. h # g
          BY Zenon, <2>4, <4>2
        <5>2. v # Inode /\ v.pipe = h
          BY Zenon, <4>2, KindsDiffer
        <5>3. pipe'[v.pipe] = pipe[v.pipe]
          BY Zenon, <1>1, <5>1, <5>2
        <5>4. /\ One(pipe'[v.pipe].writeopen) = One(pipe[v.pipe].writeopen)
              /\ One(pipe'[v.pipe].readopen) = One(pipe[v.pipe].readopen)
          BY <5>3 DEF One
        <5>. QED  BY Zenon, <5>2, <5>4 DEF Held
      <4>. QED  BY Zenon, <4>1, <4>2, KindsAre
    <3>2. Is(PipeEnd(g, TRUE), v) = 0 /\ Is(PipeEnd(g, FALSE), v) = 0
      BY Zenon, <2>4 DEF Is
    <3>3. \A n \in Nat : n = n + 0 + 0
      BY SMT
    <3>. QED  BY Zenon, <2>1, <3>1, <3>2, <3>3
  <2>. QED  BY Zenon, <2>2, <2>3, <2>4
<1>. QED  BY Zenon, <1>1, <1>4

(* Two files, or two descriptors of a process, change.                     *)
LEMMA FileStep2 ==
    ASSUME TypeOK, EntryOK, NEW f \in Files, NEW g \in Files, f # g,
           NEW r \in FileRec, EntryAt(r), NEW s \in FileRec, EntryAt(s),
           file' = [file EXCEPT ![f] = r, ![g] = s]
    PROVE  /\ file' \in [Files -> FileRec] /\ file'[f] = r /\ file'[g] = s
           /\ \A h \in Files : h # f /\ h # g => file'[h] = file[h]
           /\ EntryOK'
<1>1. /\ file' \in [Files -> FileRec] /\ file'[f] = r /\ file'[g] = s
      /\ \A h \in Files : h # f /\ h # g => file'[h] = file[h]
  BY DEF TypeOK
<1>2. \A h \in Files : EntryAt(file'[h])
  BY Zenon, <1>1 DEF EntryOK
<1>. QED  BY Zenon, <1>1, <1>2 DEF EntryOK

LEMMA FdStep2 ==
    ASSUME TypeOK, NEW p \in Procs, NEW c \in Fds, NEW d \in Fds, c # d,
           NEW f \in Files \cup {Null}, NEW g \in Files \cup {Null},
           ofile' = [ofile EXCEPT ![p][c] = f, ![p][d] = g]
    PROVE  /\ ofile' \in [Procs -> [Fds -> Files \cup {Null}]]
           /\ ofile'[p][c] = f /\ ofile'[p][d] = g
           /\ \A e \in Fds : e # c /\ e # d => ofile'[p][e] = ofile[p][e]
           /\ \A q \in Procs : q # p => ofile'[q] = ofile[q]
BY DEF TypeOK

\* What pipealloc() does to the table, whatever becomes of the descriptors.
PipeMade(p, rf, wf) ==
    /\ rf = th[p].f0 /\ rf \in Files /\ wf \in Files /\ rf # wf /\ file[wf] = NoFile
    /\ file' \in [Files -> FileRec] /\ EntryOK'
    /\ file'[rf].ref = 1 /\ file[rf].ref = 1 /\ file'[wf].ref = 1 /\ file[wf].ref = 0
    /\ \A f \in Files : f # rf /\ f # wf => file'[f] = file[f]
    /\ pipe' \in [Pages -> Flags]
    /\ (\A q \in Procs : th'[q].ff = th[q].ff) => HeldOK'

LEMMA PipeTable ==
    ASSUME Sizes, Inv, NEW p \in Procs, NEW g \in Pages, pipealloc(p, g)
    PROVE  PipeMade(p, th[p].f0, filealloc)
<1>. DEFINE rf == th[p].f0
            wf == filealloc
            r == File(1, "pipe", g, FALSE)
            w == File(1, "pipe", g, TRUE)
<1>1. /\ th[p].pc = "pipealloc" /\ Unused # {} /\ pipe[g] = NoPipe
      /\ pipe' = [pipe EXCEPT ![g] = [readopen |-> TRUE, writeopen |-> TRUE]]
      /\ file' = [file EXCEPT ![rf] = r, ![wf] = w]
      /\ iref' = iref
  BY Zenon DEF pipealloc
<1>2. TypeOK /\ EntryOK /\ PlaceOK /\ AllocOK /\ RefOK /\ HeldOK
  BY Zenon DEF Inv
<1>3. wf \in Files /\ file[wf] = NoFile
  BY Zenon, <1>1, <1>2, Fresh
<1>4. rf \in Files /\ file[rf] = New
  BY Zenon, <1>1, <1>2 DEF AllocOK
<1>5. file[rf].ref = 1 /\ file[wf].ref = 0 /\ rf # wf
  BY SMTT(20), <1>3, <1>4, NewRec
<1>6. /\ r \in FileRec /\ r.ref = 1 /\ Kind(r) = PipeEnd(g, FALSE) /\ EntryAt(r)
      /\ w \in FileRec /\ w.ref = 1 /\ Kind(w) = PipeEnd(g, TRUE) /\ EntryAt(w)
  <2>1. r \in FileRec /\ w \in FileRec
    BY FileType
  <2>2. /\ r.ref = 1 /\ r.type = "pipe" /\ r.pipe = g /\ r.writable = FALSE
        /\ w.ref = 1 /\ w.type = "pipe" /\ w.pipe = g /\ w.writable = TRUE
    BY DEF File
  <2>. HIDE DEF r, w
  <2>3. Kind(r) = PipeEnd(g, FALSE) /\ Kind(w) = PipeEnd(g, TRUE)
    BY Zenon, <2>2 DEF Kind, PipeEnd
  <2>4. EntryAt(r) /\ EntryAt(w)
    <3>1. Kind(r) \in Kinds /\ Kind(w) \in Kinds
      BY Zenon, <2>3, KindsAre
    <3>2. r.ref # 0 /\ w.ref # 0
      BY SMTT(20), <2>2
    <3>. QED  BY Zenon, <3>1, <3>2 DEF EntryAt
  <2>. QED  BY Zenon, <2>1, <2>2, <2>3, <2>4
<1>. HIDE DEF r, w, rf, wf
<1>7. /\ file' \in [Files -> FileRec] /\ file'[rf] = r /\ file'[wf] = w /\ EntryOK'
      /\ \A f \in Files : f # rf /\ f # wf => file'[f] = file[f]
  BY Zenon, <1>1, <1>2, <1>3, <1>4, <1>5, <1>6, FileStep2
<1>8. /\ pipe' \in [Pages -> Flags]
      /\ \A v \in Kinds \ {NoFile} :
           Held(pipe', iref', v)
             = Held(pipe, iref, v) + Is(PipeEnd(g, FALSE), v) + Is(PipeEnd(g, TRUE), v)
  BY Zenon, <1>1, <1>2, OpenHeld
<1>9. ASSUME \A q \in Procs : th'[q].ff = th[q].ff
      PROVE  HeldOK'
  <2>1. /\ <<0, rf>> \in Entries /\ Stands[<<0, rf>>] = NoFile /\ Stands'[<<0, rf>>] = PipeEnd(g, FALSE)
        /\ <<0, wf>> \in Entries /\ Stands[<<0, wf>>] = NoFile /\ Stands'[<<0, wf>>] = PipeEnd(g, TRUE)
    BY Zenon, <1>3, <1>4, <1>6, <1>7, StandAt, NewRec
  <2>2. <<0, rf>> # <<0, wf>>
    BY <1>5
  <2>3. ASSUME NEW e \in Entries, e # <<0, rf>>, e # <<0, wf>>
        PROVE  Stands'[e] = Stands[e]
    <3>1. OnlyEntries({rf, wf}, {}) /\ NotEntry(e, {rf, wf}, {})
      BY Zenon, <1>7, <1>9, <2>3 DEF OnlyEntries, NotEntry
    <3>. QED  BY Zenon, <3>1, StandsStay
  <2>4. ASSUME NEW v \in Kinds \ {NoFile}
        PROVE  Held(pipe', iref', v)
                 = Held(pipe, iref, v) + Is(Stands'[<<0, rf>>], v) + Is(Stands'[<<0, wf>>], v)
                                       - Is(Stands[<<0, rf>>], v) - Is(Stands[<<0, wf>>], v)
    <3>1. Held(pipe, iref, v) \in Nat /\ Is(PipeEnd(g, FALSE), v) \in {0, 1}
          /\ Is(PipeEnd(g, TRUE), v) \in {0, 1}
      BY Zenon, <1>2, HeldType, IsType
    <3>2. Is(NoFile, v) = 0
      BY Zenon DEF Is
    <3>3. Held(pipe', iref', v)
            = Held(pipe, iref, v) + Is(PipeEnd(g, FALSE), v) + Is(PipeEnd(g, TRUE), v)
      BY Zenon, <1>8
    <3>4. \A n \in Nat : \A a, b \in {0, 1} : n + a + b = n + a + b - 0 - 0
      BY SMT
    <3>5. /\ Is(Stands'[<<0, rf>>], v) = Is(PipeEnd(g, FALSE), v) /\ Is(Stands[<<0, rf>>], v) = 0
          /\ Is(Stands'[<<0, wf>>], v) = Is(PipeEnd(g, TRUE), v) /\ Is(Stands[<<0, wf>>], v) = 0
      BY Zenon, <2>1, <3>2
    <3>6. Held(pipe', iref', v)
            = Held(pipe, iref, v) + Is(PipeEnd(g, FALSE), v) + Is(PipeEnd(g, TRUE), v) - 0 - 0
      BY Zenon, <3>1, <3>3, <3>4
    <3>. QED  BY Zenon, <3>5, <3>6
  <2>. QED  BY Zenon, <1>2, <2>1, <2>2, <2>3, <2>4, HeldTwo
<1>10. rf = th[p].f0
  BY DEF rf
<1>. QED  BY Zenon, <1>3, <1>4, <1>5, <1>6, <1>7, <1>8, <1>9, <1>10 DEF PipeMade, rf, wf

(* pipealloc() has both ends; sys_pipe() finds two descriptors, or closes   *)
(* both files again.                                                       *)
LEMMA PipeOpens ==
    ASSUME Sizes, Inv, NEW p \in Procs, NEW g \in Pages, pipealloc(p, g)
    PROVE  Inv'
<1>. DEFINE rf == th[p].f0
            wf == filealloc
            fd0 == Least(Free(p))
            fd1 == Least(Free(p) \ {fd0})
<1>1. /\ th[p].pc = "pipealloc" /\ Unused # {} /\ Describe(p, rf, wf)
      /\ iref' = iref /\ panic' = panic
  BY Zenon DEF pipealloc
<1>2. TypeOK /\ EntryOK /\ PlaceOK /\ AllocOK /\ RefOK /\ HeldOK
  BY Zenon DEF Inv
<1>3. PipeMade(p, rf, wf)
  BY Zenon, PipeTable
<1>4. th[p].f1 = Null /\ th[p].ff = NoFile /\ th[p] \in Thread
  BY Zenon, <1>1, <1>2 DEF PlaceOK, PlaceAt, TypeOK
<1>5. Was(p, -1) = rf /\ Was(p, -2) = Null
  BY Zenon, <1>4, CellAt DEF Was
<1>6. -1 \in Places /\ -2 \in Places /\ Fds \subseteq Places
  BY DEF Places
<1>7. Other(p, Null) /\ Other(p, rf) /\ Other(p, wf)
  BY Zenon, <1>2, <1>3, <1>5, <1>6, NotOther DEF PipeMade
<1>8. \A f \in Files : file'[f] = file[f] \/ Other(p, f)
  BY Zenon, <1>3, <1>7 DEF PipeMade
<1>9. CASE /\ Free(p) # {} /\ Free(p) \ {fd0} # {}
            /\ ofile' = [ofile EXCEPT ![p][fd0] = rf, ![p][fd1] = wf]
            /\ Goto(p, At("user"))
  <2>1. /\ fd0 \in Fds /\ ofile[p][fd0] = Null
        /\ fd1 \in Fds /\ ofile[p][fd1] = Null /\ fd0 # fd1
    <3>1. fd0 \in Fds /\ ofile[p][fd0] = Null
      BY Zenon, <1>9, FreeFd
    <3>2. Free(p) \ {fd0} \subseteq Free(p)
      OBVIOUS
    <3>3. fd1 \in Free(p) \ {fd0} /\ fd1 \in Fds /\ ofile[p][fd1] = Null
      BY Zenon, <1>9, <3>2, FreeFd
    <3>. QED  BY Zenon, <3>1, <3>3
  <2>2. /\ At("user") \in Thread /\ At("user").pc = "user" /\ At("user").f0 = Null
        /\ At("user").f1 = Null /\ At("user").ff = NoFile
    BY AtRec DEF Pcs
  <2>3. rf \in Files /\ wf \in Files
    BY Zenon, <1>3 DEF PipeMade
  <2>. HIDE DEF rf, wf, fd0, fd1
  <2>4. /\ ofile' \in [Procs -> [Fds -> Files \cup {Null}]]
        /\ ofile'[p][fd0] = rf /\ ofile'[p][fd1] = wf
        /\ \A e \in Fds : e # fd0 /\ e # fd1 => ofile'[p][e] = ofile[p][e]
        /\ \A q \in Procs : q # p => ofile'[q] = ofile[q]
    BY Zenon, <1>2, <1>9, <2>1, <2>3, FdStep2
  <2>5. /\ th' \in [Procs -> Thread] /\ th'[p] = At("user")
        /\ \A q \in Procs : q # p => th'[q] = th[q]
    BY Zenon, <1>2, <1>9, <2>2, ThStep DEF Goto
  <2>6. OnlyOf(p)
    BY Zenon, <2>4, <2>5 DEF OnlyOf
  <2>7. \A e \in Fds : e \notin {-1, fd0, fd1} => ofile'[p][e] = ofile[p][e]
    BY Zenon, <2>4
  <2>8. OnlyAt(p, {-1, fd0, fd1})
    <3>1. th'[p].f1 = th[p].f1
      BY Zenon, <1>4, <2>2, <2>5
    <3>2. -1 \in {-1, fd0, fd1}
      OBVIOUS
    <3>. QED  BY Zenon, <2>7, <3>1, <3>2, CellsStay
  <2>9. /\ Was(p, fd0) = Null /\ Now(p, fd0) = rf
        /\ Was(p, fd1) = Null /\ Now(p, fd1) = wf /\ Now(p, -1) = Null
    <3>1. /\ Was(p, fd0) = ofile[p][fd0] /\ Now(p, fd0) = ofile'[p][fd0]
          /\ Was(p, fd1) = ofile[p][fd1] /\ Now(p, fd1) = ofile'[p][fd1]
      BY Zenon, <2>1, FdCell
    <3>2. Now(p, -1) = th'[p].f0
      BY Zenon, CellAt DEF Now
    <3>. QED  BY Zenon, <2>1, <2>2, <2>4, <2>5, <3>1, <3>2
  <2>10. -1 # fd0 /\ -1 # fd1
    BY Zenon, <2>1, CellAt
  <2>11. ASSUME NEW f \in Files
         PROVE  file'[f].ref
                  = file[f].ref + Is(Now(p, -1), f) + Is(Now(p, fd0), f) + Is(Now(p, fd1), f)
                                - Is(Was(p, -1), f) - Is(Was(p, fd0), f) - Is(Was(p, fd1), f)
    <3>1. f # Null /\ file[f].ref \in Nat
      BY SMTT(20), <1>2 DEF Null, Files, TypeOK, FileRec
    <3>2. Is(Null, f) = 0 /\ Is(rf, f) \in {0, 1} /\ Is(wf, f) \in {0, 1}
      BY Zenon, <3>1, IsType
    <3>3. file'[f].ref = file[f].ref + Is(wf, f)
      <4>1. CASE f = wf
        <5>1. file'[f].ref = 1 /\ file[f].ref = 0 /\ Is(wf, f) = 1
          BY Zenon, <1>3, <4>1, IsType DEF PipeMade, rf, wf
        <5>. QED  BY SMTT(20), <5>1
      <4>2. CASE f # wf
        <5>1. file'[f].ref = file[f].ref
          BY Zenon, <1>3, <4>2 DEF PipeMade, rf, wf
        <5>2. Is(wf, f) = 0
          BY Zenon, <4>2, IsType
        <5>. QED  BY SMTT(20), <3>1, <5>1, <5>2
      <4>. QED  BY Zenon, <4>1, <4>2
    <3>4. /\ Is(Now(p, -1), f) = 0 /\ Is(Now(p, fd0), f) = Is(rf, f) /\ Is(Now(p, fd1), f) = Is(wf, f)
          /\ Is(Was(p, -1), f) = Is(rf, f) /\ Is(Was(p, fd0), f) = 0 /\ Is(Was(p, fd1), f) = 0
      BY Zenon, <1>5, <2>9, <3>2 DEF rf, wf
    <3>. QED  BY SMTT(20), <3>1, <3>2, <3>3, <3>4
  <2>12. RefOK'
    BY Zenon, <1>2, <1>6, <2>1, <2>6, <2>8, <2>10, <2>11, RefThree
  <2>13. HeldOK'
    <3>1. \A q \in Procs : th'[q].ff = th[q].ff
      BY Zenon, <1>4, <2>2, <2>5
    <3>. QED  BY Zenon, <1>3, <3>1 DEF PipeMade
  <2>14. TypeOK' /\ EntryOK'
    BY Zenon, <1>1, <1>2, <1>3, <2>4, <2>5 DEF TypeOK, PipeMade
  <2>15. PlaceAt(th'[p], ofile'[p]) /\ AllocAt(p)'
    <3>1. th'[p].pc = "user"
      BY Zenon, <2>2, <2>5
    <3>. QED  BY Zenon, <2>2, <2>5, <3>1 DEF PlaceAt, AllocAt
  <2>16. \A c \in {-1, fd0, fd1} : Other(p, Now(p, c))
    BY Zenon, <1>7, <2>9 DEF rf, wf
  <2>17. {-1, fd0, fd1} \in SUBSET Places
    BY Zenon, <1>6, <2>1
  <2>18. th[p].pc # "fork" /\ th[p].pc # "forked" /\ th'[p].pc # "fork"
    BY <1>1, <2>2, <2>5
  <2>. QED  BY Zenon, <1>1, <1>8, <2>6, <2>8, <2>12, <2>13, <2>14, <2>15, <2>16, <2>17, <2>18, StepInv
<1>10. CASE Close(p, rf, wf, "user") /\ UNCHANGED ofile
  <2>1. rf \in Files /\ wf \in Files
    BY Zenon, <1>3 DEF PipeMade
  <2>. DEFINE t == CloseRec(rf, wf, "user")
  <2>2. th' = [th EXCEPT ![p] = t] /\ ofile' = ofile
    BY Zenon, <1>10 DEF Close, Goto, CloseRec
  <2>3. IsClose(t, rf, wf)
    BY Zenon, <2>1, CloseFields
  <2>. HIDE DEF t, rf, wf
  <2>4. t \in Thread /\ t.pc = "close" /\ t.f0 = rf /\ t.f1 = wf /\ t.ff = NoFile
    BY Zenon, <2>3 DEF IsClose
  <2>5. /\ OnlyOf(p) /\ th'[p] = t /\ th' \in [Procs -> Thread]
        /\ Now(p, -2) = wf /\ OnlyAt(p, {-2})
    BY Zenon, <1>2, <2>2, <2>3, <2>4, ThOnly DEF rf
  <2>6. RefOK'
    <3>1. file'[wf].ref = file[wf].ref + 1
      BY SMTT(20), <1>3 DEF PipeMade, rf, wf
    <3>2. \A f \in Files : f # wf => file'[f].ref = file[f].ref
      BY Zenon, <1>3 DEF PipeMade, rf, wf
    <3>. QED  BY Zenon, <1>2, <1>5, <1>6, <2>1, <2>5, <3>1, <3>2, RefGain
  <2>7. HeldOK'
    <3>1. \A q \in Procs : th'[q].ff = th[q].ff
      BY Zenon, <1>4, <2>4, <2>5 DEF OnlyOf
    <3>. QED  BY Zenon, <1>3, <3>1 DEF PipeMade
  <2>8. TypeOK' /\ EntryOK'
    BY Zenon, <1>1, <1>2, <1>3, <2>2, <2>5 DEF TypeOK, PipeMade
  <2>9. PlaceAt(th'[p], ofile'[p]) /\ AllocAt(p)'
    <3>1. th'[p].pc = "close"
      BY Zenon, <2>4, <2>5
    <3>. QED  BY Zenon, <2>3, <2>4, <2>5, <3>1 DEF PlaceAt, AllocAt, IsClose
  <2>10. \A c \in {-2} : Other(p, Now(p, c))
    BY Zenon, <1>7, <2>5 DEF wf
  <2>11. {-2} \in SUBSET Places
    BY Zenon, <1>6
  <2>12. th[p].pc # "fork" /\ th[p].pc # "forked" /\ th'[p].pc # "fork"
    BY <1>1, <2>4, <2>5
  <2>. QED  BY Zenon, <1>1, <1>8, <2>5, <2>6, <2>7, <2>8, <2>9, <2>10, <2>11, <2>12, StepInv
<1>. QED  BY Zenon, <1>1, <1>9, <1>10 DEF Describe
-----------------------------------------------------------------------------
(* fork(): two processes change, none of which has a pointer besides its    *)
(* descriptors.                                                            *)
LEMMA TwoThreads ==
    ASSUME Sizes, Inv, NEW p \in Procs, NEW n \in Procs, p # n, NEW a, NEW b,
           a \in Thread, a.f0 = Null, a.f1 = Null, a.ff = NoFile, a.pc # "pipealloc",
           b \in Thread, b.f0 = Null, b.f1 = Null, b.ff = NoFile, b.pc # "pipealloc",
           PlaceAt(a, ofile[p]), PlaceAt(b, ofile[n]),
           th[p].pc \notin {"close", "pipealloc"}, th[n].pc \notin {"close", "pipealloc"},
           th' = [th EXCEPT ![p] = a, ![n] = b],
           file' = file, ofile' = ofile, pipe' = pipe, iref' = iref, panic' = panic, ForkOK'
    PROVE  Inv'
<1>1. TypeOK /\ EntryOK /\ PlaceOK /\ AllocOK /\ RefOK /\ HeldOK /\ NoPanic
  BY Zenon DEF Inv
<1>2. /\ th' \in [Procs -> Thread] /\ th'[p] = a /\ th'[n] = b
      /\ \A q \in Procs : q # p /\ q # n => th'[q] = th[q]
  BY <1>1 DEF TypeOK
<1>3. /\ th[p].f0 = Null /\ th[p].f1 = Null /\ th[p].ff = NoFile
      /\ th[n].f0 = Null /\ th[n].f1 = Null /\ th[n].ff = NoFile
  BY Zenon, <1>1, IdlePlace
<1>4. \A q \in Procs : th'[q].f0 = th[q].f0 /\ th'[q].f1 = th[q].f1 /\ th'[q].ff = th[q].ff
  BY Zenon, <1>2, <1>3
<1>5. \A x \in PtrDom : Pointers'[x] = Pointers[x]
  <2>. SUFFICES ASSUME NEW q \in Procs, NEW c \in Places
               PROVE  Pointers'[<<q, c>>] = Pointers[<<q, c>>]
    BY SMTT(20) DEF PtrDom
  <2>1. OnlyAt(q, {})
    BY Zenon, <1>4, CellsStay
  <2>2. Cell(th'[q], ofile'[q], c) = Cell(th[q], ofile[q], c)
    BY Zenon, <2>1 DEF OnlyAt
  <2>3. /\ Pointers[<<q, c>>] = Cell(th[q], ofile[q], c)
        /\ Pointers'[<<q, c>>] = Cell(th'[q], ofile'[q], c)
    BY Zenon, PointerCell
  <2>. QED  BY Zenon, <2>2, <2>3
<1>6. RefOK'
  BY Zenon, <1>1, <1>5, RefSame
<1>7. HeldOK'
  BY Zenon, <1>1, <1>4, HeldSame
<1>8. PlaceOK'
  <2>1. \A q \in Procs : PlaceAt(th'[q], ofile'[q])
    BY Zenon, <1>1, <1>2 DEF PlaceOK
  <2>. QED  BY Zenon, <2>1 DEF PlaceOK
<1>9. AllocOK'
  <2>. SUFFICES ASSUME NEW q \in Procs, th'[q].pc = "pipealloc"
               PROVE  /\ th'[q].f0 \in Files /\ file'[th'[q].f0] = New
                      /\ \A x \in PtrDom : Pointers'[x] = th'[q].f0 => x = <<q, -1>>
    BY Zenon DEF AllocOK
  <2>1. th'[q] = th[q]
    BY Zenon, <1>2
  <2>. QED  BY Zenon, <1>1, <1>5, <2>1 DEF AllocOK
<1>10. TypeOK' /\ EntryOK' /\ NoPanic'
  BY Zenon, <1>1, <1>2 DEF TypeOK, EntryOK, NoPanic
<1>. QED  BY Zenon, <1>6, <1>7, <1>8, <1>9, <1>10 DEF Inv

\* fork() starts: the child has no files yet, and no other parent.
LEMMA ForkStep ==
    ASSUME Sizes, Inv, NEW p \in Procs, NEW np \in Procs, fork(p, np)
    PROVE  Inv'
<1>. DEFINE a == [At("fork") EXCEPT !.np = np]
            b == At("forked")
<1>1. /\ th[p].pc = "user" /\ th[np].pc = "unused" /\ th' = [th EXCEPT ![p] = a, ![np] = b]
      /\ file' = file /\ ofile' = ofile /\ pipe' = pipe /\ iref' = iref /\ panic' = panic
  BY Zenon DEF fork, User
<1>2. TypeOK /\ PlaceOK /\ ForkOK
  BY Zenon DEF Inv
<1>3. p # np
  BY <1>1
<1>4. /\ a \in Thread /\ a.pc = "fork" /\ a.f0 = Null /\ a.f1 = Null /\ a.ff = NoFile /\ a.np = np
      /\ b \in Thread /\ b.pc = "forked" /\ b.f0 = Null /\ b.f1 = Null /\ b.ff = NoFile
  BY KindsAre DEF At, Thread, Pcs
<1>. HIDE DEF a, b
<1>5. PlaceAt(a, ofile[p]) /\ PlaceAt(b, ofile[np])
  BY <1>4 DEF PlaceAt
<1>6. /\ th'[p] = a /\ th'[np] = b
      /\ \A q \in Procs : q # p /\ q # np => th'[q] = th[q]
  BY <1>1, <1>2, <1>3 DEF TypeOK
<1>7. \A fd \in Fds : ofile[np][fd] = Null
  BY Zenon, <1>1, <1>2 DEF PlaceOK, PlaceAt
<1>8. \A q \in Procs : th[q].pc = "fork" => q # p /\ q # np /\ th[q].np # p /\ th[q].np # np
  BY <1>1, <1>2 DEF ForkOK
<1>9. \A q \in Procs : th'[q].pc = "fork" => q = p \/ (q # np /\ th'[q] = th[q])
  BY <1>4, <1>6
<1>10. ForkOK'
  <2>. SUFFICES ASSUME NEW q \in Procs, th'[q].pc = "fork"
               PROVE  /\ th'[q].np \in Procs /\ th'[th'[q].np].pc = "forked"
                      /\ \A fd \in Fds : ofile'[th'[q].np][fd] \in {Null, ofile'[q][fd]}
                      /\ \A r \in Procs : th'[r].pc = "fork" /\ th'[r].np = th'[q].np => r = q
    BY Zenon DEF ForkOK
  <2>1. CASE q = p
    <3>1. th'[q].np = np
      BY Zenon, <1>4, <1>6, <2>1
    <3>2. \A r \in Procs : th'[r].pc = "fork" /\ th'[r].np = np => r = q
      BY Zenon, <1>8, <1>9, <2>1
    <3>. QED  BY Zenon, <1>1, <1>4, <1>6, <1>7, <3>1, <3>2
  <2>2. CASE q # p
    <3>1. th'[q] = th[q] /\ th[q].pc = "fork" /\ th[q].np # p /\ th[q].np # np
      BY Zenon, <1>8, <1>9, <2>2
    <3>2. /\ th[q].np \in Procs /\ th[th[q].np].pc = "forked"
          /\ \A fd \in Fds : ofile[th[q].np][fd] \in {Null, ofile[q][fd]}
          /\ \A r \in Procs : th[r].pc = "fork" /\ th[r].np = th[q].np => r = q
      BY Zenon, <1>2, <3>1 DEF ForkOK
    <3>3. th'[th[q].np] = th[th[q].np]
      BY Zenon, <1>6, <3>1, <3>2
    <3>4. ASSUME NEW r \in Procs, th'[r].pc = "fork", th'[r].np = th[q].np
          PROVE  r = q
      <4>1. r # p
        BY Zenon, <1>4, <1>6, <3>1, <3>4
      <4>. QED  BY Zenon, <1>9, <3>2, <3>4, <4>1
    <3>. QED  BY Zenon, <1>1, <3>1, <3>2, <3>3, <3>4
  <2>. QED  BY Zenon, <2>1, <2>2
<1>11. a.pc # "pipealloc" /\ b.pc # "pipealloc"
  BY <1>4
<1>12. th[p].pc \notin {"close", "pipealloc"} /\ th[np].pc \notin {"close", "pipealloc"}
  BY <1>1
<1>. QED  BY Zenon, <1>1, <1>3, <1>4, <1>5, <1>10, <1>11, <1>12, TwoThreads

(* A turn of fork()'s loop that gives the child np descriptor fd.           *)
Gives(p, np, fd, f) ==
    /\ ofile[p][fd] # ofile[np][fd] /\ f = ofile[p][fd] /\ filedup(f)
    /\ ofile' = [ofile EXCEPT ![np][fd] = f]
    /\ th[p].pc = "fork" /\ th[p].np = np

LEMMA ForkTurn ==
    ASSUME Sizes, Inv, NEW p \in Procs, NEW np \in Procs, NEW fd \in Fds, NEW f,
           Gives(p, np, fd, f), th' = th, pipe' = pipe, iref' = iref
    PROVE  Inv'
<1>1. TypeOK /\ EntryOK /\ PlaceOK /\ ForkOK /\ AllocOK /\ RefOK /\ HeldOK /\ NoPanic
  BY Zenon DEF Inv
<1>2. /\ th[np].pc = "forked"
      /\ \A d \in Fds : ofile[np][d] \in {Null, ofile[p][d]}
      /\ \A q \in Procs : th[q].pc = "fork" /\ th[q].np = np => q = p
  BY Zenon, <1>1 DEF ForkOK, Gives
<1>3. ofile[np][fd] = Null /\ f # Null
  BY Zenon, <1>2 DEF Gives
<1>4. /\ f \in Files /\ panic' = panic
      /\ file' \in [Files -> FileRec] /\ EntryOK'
      /\ file'[f].ref = file[f].ref + 1
      /\ \A g \in Files : g # f => file'[g] = file[g]
      /\ \A g \in Files : Kind(file'[g]) = Kind(file[g])
  BY Zenon, <1>1, <1>3, DupStep DEF Gives
<1>5. /\ OnlyOf(np) /\ OnlyAt(np, {fd})
      /\ ofile' \in [Procs -> [Fds -> Files \cup {Null}]]
      /\ Was(np, fd) = ofile[np][fd] /\ Now(np, fd) = f
  <2>1. f \in Files \cup {Null}
    BY Zenon, <1>4
  <2>2. ofile' = [ofile EXCEPT ![np][fd] = f]
    BY Zenon DEF Gives
  <2>. QED  BY Zenon, <1>1, <2>1, <2>2, FdOnly
<1>6. /\ ofile'[np][fd] = f
      /\ \A d \in Fds : d # fd => ofile'[np][d] = ofile[np][d]
      /\ \A q \in Procs : q # np => ofile'[q] = ofile[q]
  <2>1. f \in Files \cup {Null}
    BY Zenon, <1>4
  <2>2. ofile' = [ofile EXCEPT ![np][fd] = f]
    BY Zenon DEF Gives
  <2>. QED  BY Zenon, <1>1, <2>1, <2>2, FdStep
<1>7. fd \in Places /\ {fd} \in SUBSET Places
  BY DEF Places
<1>8. Other(np, f)
  <2>1. Was(p, fd) = f
    BY Zenon, FdCell DEF Gives
  <2>. QED  BY Zenon, <1>1, <2>1, NotOther
<1>9. RefOK'
  <2>1. \A g \in Files : g # f => file'[g].ref = file[g].ref
    BY Zenon, <1>4
  <2>. QED  BY Zenon, <1>1, <1>2, <1>3, <1>4, <1>5, <1>7, <2>1, RefGain
<1>10. HeldOK'
  BY Zenon, <1>1, <1>4, HeldSame
<1>11. PlaceOK'
  <2>1. PlaceAt(th'[np], ofile'[np])
    <3>1. PlaceAt(th[np], ofile[np])
      BY Zenon, <1>1, <1>2 DEF PlaceOK
    <3>2. th[np].pc # "unused"
      BY <1>2
    <3>. QED  BY Zenon, <3>1, <3>2 DEF PlaceAt
  <2>. QED  BY Zenon, <1>1, <1>2, <1>5, <2>1, PlaceFrame
<1>12. AllocOK'
  <2>1. AllocAt(np)'
    BY <1>2 DEF AllocAt
  <2>2. \A c \in {fd} : Other(np, Now(np, c))
    BY Zenon, <1>5, <1>8
  <2>3. \A g \in Files : file'[g] = file[g] \/ Other(np, g)
    BY Zenon, <1>4, <1>8
  <2>. QED  BY Zenon, <1>1, <1>2, <1>5, <1>7, <2>1, <2>2, <2>3, AllocFrame
<1>13. ForkOK'
  <2>. SUFFICES ASSUME NEW q \in Procs, th[q].pc = "fork"
               PROVE  \A d \in Fds : ofile'[th[q].np][d] \in {Null, ofile'[q][d]}
    BY Zenon, <1>1 DEF ForkOK
  <2>. TAKE d \in Fds
  <2>1. /\ q # np /\ th[q].np \in Procs /\ (th[q].np = np => q = p)
        /\ ofile[th[q].np][d] \in {Null, ofile[q][d]}
    BY Zenon, <1>1, <1>2 DEF ForkOK
  <2>2. ofile'[q] = ofile[q]
    BY Zenon, <1>6, <2>1
  <2>3. CASE th[q].np = np /\ d = fd
    BY Zenon, <1>6, <2>1, <2>2, <2>3 DEF Gives
  <2>4. CASE th[q].np # np \/ d # fd
    <3>1. ofile'[th[q].np][d] = ofile[th[q].np][d]
      BY Zenon, <1>6, <2>1, <2>4
    <3>. QED  BY Zenon, <2>1, <2>2, <3>1
  <2>. QED  BY Zenon, <2>3, <2>4
<1>14. TypeOK' /\ NoPanic'
  BY Zenon, <1>1, <1>4, <1>5 DEF TypeOK, NoPanic
<1>. QED  BY Zenon, <1>4, <1>9, <1>10, <1>11, <1>12, <1>13, <1>14 DEF Inv

(* A turn of fork()'s loop.                                                *)
LEMMA ForkDupStep ==
    ASSUME Sizes, Inv, NEW p \in Procs, fork_dup(p)
    PROVE  Inv'
<1>. DEFINE np == th[p].np
            rest == {fd \in Fds : ofile[p][fd] # ofile[np][fd]}
            fd == Least(rest)
<1>1. th[p].pc = "fork" /\ pipe' = pipe /\ iref' = iref
  BY Zenon DEF fork_dup
<1>2. TypeOK /\ EntryOK /\ PlaceOK /\ ForkOK /\ AllocOK /\ RefOK /\ HeldOK /\ NoPanic
  BY Zenon DEF Inv
<1>3. /\ np \in Procs /\ th[np].pc = "forked"
      /\ \A d \in Fds : ofile[np][d] \in {Null, ofile[p][d]}
      /\ \A q \in Procs : th[q].pc = "fork" /\ th[q].np = np => q = p
  BY Zenon, <1>1, <1>2 DEF ForkOK
<1>4. p # np
  BY <1>1, <1>3
<1>5. th[p].pc \notin {"close", "pipealloc"} /\ th[np].pc \notin {"close", "pipealloc"}
  BY <1>1, <1>3
<1>6. \A q \in Procs : th[q].pc = "fork" => /\ th[q].np \in Procs /\ th[q].np # p /\ q # np
                                            /\ th[th[q].np].pc = "forked"
                                            /\ th[q].np = np => q = p
  BY <1>1, <1>2, <1>3 DEF ForkOK
<1>7. CASE rest = {}
  <2>. DEFINE u == At("user")
  <2>1. /\ th' = [th EXCEPT ![p] = u, ![np] = u]
        /\ file' = file /\ ofile' = ofile /\ panic' = panic
    BY Zenon, <1>7 DEF fork_dup
  <2>2. u \in Thread /\ u.pc = "user" /\ u.f0 = Null /\ u.f1 = Null /\ u.ff = NoFile
    BY AtRec DEF Pcs
  <2>. HIDE DEF u, np
  <2>3. PlaceAt(u, ofile[p]) /\ PlaceAt(u, ofile[np]) /\ u.pc # "pipealloc" /\ u.pc # "fork"
    BY <2>2 DEF PlaceAt
  <2>4. /\ th'[p] = u /\ th'[np] = u
        /\ \A q \in Procs : q # p /\ q # np => th'[q] = th[q]
    BY <1>2, <1>3, <1>4, <2>1 DEF TypeOK
  <2>5. \A q \in Procs : th'[q].pc = "fork" => q # p /\ q # np /\ th'[q] = th[q]
    BY Zenon, <2>3, <2>4
  <2>6. ForkOK'
    <3>. SUFFICES ASSUME NEW q \in Procs, th'[q].pc = "fork"
                 PROVE  /\ th'[q].np \in Procs /\ th'[th'[q].np].pc = "forked"
                        /\ \A d \in Fds : ofile'[th'[q].np][d] \in {Null, ofile'[q][d]}
                        /\ \A r \in Procs : th'[r].pc = "fork" /\ th'[r].np = th'[q].np => r = q
      BY Zenon DEF ForkOK
    <3>1. th'[q] = th[q] /\ th[q].pc = "fork" /\ th[q].np # p /\ th[q].np # np
      BY Zenon, <1>6, <2>5
    <3>2. /\ th[q].np \in Procs /\ th[th[q].np].pc = "forked"
          /\ \A d \in Fds : ofile[th[q].np][d] \in {Null, ofile[q][d]}
          /\ \A r \in Procs : th[r].pc = "fork" /\ th[r].np = th[q].np => r = q
      BY Zenon, <1>2, <3>1 DEF ForkOK
    <3>3. th'[th[q].np] = th[th[q].np]
      BY Zenon, <2>4, <3>1, <3>2
    <3>4. \A r \in Procs : th'[r].pc = "fork" /\ th'[r].np = th[q].np => r = q
      BY Zenon, <2>5, <3>2
    <3>. QED  BY Zenon, <2>1, <3>1, <3>2, <3>3, <3>4
  <2>. QED  BY Zenon, <1>1, <1>3, <1>4, <1>5, <2>1, <2>2, <2>3, <2>6, TwoThreads
<1>8. CASE rest # {}
  <2>1. /\ ofile' = [ofile EXCEPT ![np][fd] = ofile[p][fd]]
        /\ filedup(ofile[p][fd]) /\ th' = th
    BY Zenon, <1>8 DEF fork_dup
  <2>2. fd \in Fds /\ ofile[p][fd] # ofile[np][fd]
    <3>1. Fds \subseteq Nat
      BY SMTT(20) DEF Fds, Sizes
    <3>2. rest \subseteq Nat
      BY <3>1
    <3>3. fd \in rest
      BY Zenon, <1>8, <3>2, LeastIsIn
    <3>. QED  BY Zenon, <3>3
  <2>. HIDE DEF rest, fd
  <2>3. Gives(p, np, fd, ofile[p][fd])
    BY Zenon, <1>1, <2>1, <2>2 DEF Gives
  <2>. QED  BY Zenon, <1>1, <1>3, <2>1, <2>2, <2>3, ForkTurn
<1>. QED  BY Zenon, <1>7, <1>8
-----------------------------------------------------------------------------
(* The theorems.                                                           *)

LEMMA CountNone ==
    ASSUME NEW D, NEW h, NEW v, \A x \in D : h[x] # v
    PROVE  CountOn(D, h, v) = 0
<1>1. {x \in D : h[x] = v} = {}
  OBVIOUS
<1>2. Cardinality({}) = 0
  BY Zenon, FS_EmptySet
<1>. QED  BY Zenon, <1>1, <1>2 DEF CountOn

LEMMA InitInv ==
    ASSUME Sizes, Init
    PROVE  Inv
<1>1. \A p \in Procs : \E a \in {"user", "unused"} : th[p] = At(a)
  BY DEF Init
<1>2. \A p \in Procs : /\ th[p] \in Thread /\ th[p].pc \in {"user", "unused"} /\ th[p].f0 = Null
                       /\ th[p].f1 = Null /\ th[p].ff = NoFile
  <2>1. {"user", "unused"} \subseteq Pcs
    BY DEF Pcs
  <2>2. \A a \in {"user", "unused"} :
          /\ At(a) \in Thread /\ At(a).pc = a /\ At(a).f0 = Null
          /\ At(a).f1 = Null /\ At(a).ff = NoFile
    BY Zenon, <2>1, AtRec
  <2>. QED  BY Zenon, <1>1, <2>2
<1>3. \A f \in Files : file[f] = NoFile
  BY Zenon DEF Init
<1>4. \A p \in Procs, fd \in Fds : ofile[p][fd] = Null
  BY DEF Init
<1>5. \A g \in Pages : pipe[g] = NoPipe
  BY Zenon DEF Init
<1>6. TypeOK
  <2>1. file \in [Files -> FileRec]
    BY NewRec DEF Init
  <2>2. ofile \in [Procs -> [Fds -> Files \cup {Null}]]
    BY DEF Init
  <2>3. pipe \in [Pages -> Flags]
    BY DEF Init, NoPipe, Flags
  <2>4. th = [p \in Procs |-> th[p]]
    BY DEF Init
  <2>5. th \in [Procs -> Thread]
    BY <1>2, <2>4
  <2>. QED  BY Zenon, <2>1, <2>2, <2>3, <2>5 DEF TypeOK
<1>7. EntryOK
  BY Zenon, <1>3, NewRec DEF EntryOK
<1>8. PlaceOK /\ ForkOK /\ AllocOK
  <2>1. PlaceOK
    <3>. SUFFICES ASSUME NEW p \in Procs  PROVE PlaceAt(th[p], ofile[p])
      BY Zenon DEF PlaceOK
    <3>1. th[p].pc # "close"
      BY <1>2
    <3>. QED  BY Zenon, <1>2, <1>4, <3>1 DEF PlaceAt
  <2>2. \A p \in Procs : th[p].pc # "fork" /\ th[p].pc # "pipealloc"
    BY <1>2
  <2>. QED  BY Zenon, <2>1, <2>2 DEF ForkOK, AllocOK
<1>9. RefOK
  <2>. SUFFICES ASSUME NEW f \in Files  PROVE file[f].ref = CountOn(PtrDom, Pointers, f)
    BY Zenon DEF RefOK
  <2>1. f # Null
    BY SMTT(20) DEF Null, Files
  <2>2. ASSUME NEW x \in PtrDom  PROVE Pointers[x] # f
    <3>1. PICK q \in Procs, c \in Places : x = <<q, c>>
      BY SMTT(20) DEF PtrDom
    <3>2. Pointers[x] = Cell(th[q], ofile[q], c)
      BY Zenon, <3>1, PointerCell
    <3>3. c = -1 \/ c = -2 \/ c \in Fds
      BY DEF Places
    <3>4. /\ Cell(th[q], ofile[q], -1) = th[q].f0 /\ Cell(th[q], ofile[q], -2) = th[q].f1
          /\ \A fd \in Fds : Cell(th[q], ofile[q], fd) = ofile[q][fd]
      BY Zenon, CellAt
    <3>5. Cell(th[q], ofile[q], c) = Null
      BY Zenon, <1>2, <1>4, <3>3, <3>4
    <3>. QED  BY Zenon, <2>1, <3>2, <3>5
  <2>3. CountOn(PtrDom, Pointers, f) = 0
    BY Zenon, <2>2, CountNone
  <2>. QED  BY Zenon, <1>3, <2>3, NewRec
<1>10. HeldOK
  <2>. SUFFICES ASSUME NEW v \in Kinds \ {NoFile}
               PROVE  CountOn(Entries, Stands, v) = Held(pipe, iref, v)
    BY Zenon DEF HeldOK
  <2>1. ASSUME NEW e \in Entries  PROVE Stands[e] # v
    <3>1. (\E f \in Files : e = <<0, f>>) \/ (\E q \in Procs : e = <<1, q>>)
      BY SMTT(20) DEF Entries
    <3>2. Stands[e] = NoFile
      BY Zenon, <1>2, <1>3, <3>1, StandAt, NewRec
    <3>. QED  BY Zenon, <3>2
  <2>2. CountOn(Entries, Stands, v) = 0
    BY Zenon, <2>1, CountNone
  <2>3. iref = 0 /\ \A g \in Pages : One(pipe[g].readopen) = 0 /\ One(pipe[g].writeopen) = 0
    BY <1>5 DEF Init, One, NoPipe
  <2>4. v = Inode \/ v.pipe \in Pages
    <3>1. v = Inode \/ \E g \in Pages : v = PipeEnd(g, TRUE) \/ v = PipeEnd(g, FALSE)
      BY Zenon, KindsAre
    <3>2. \A g \in Pages : PipeEnd(g, TRUE).pipe = g /\ PipeEnd(g, FALSE).pipe = g
      BY Zenon, KindsDiffer
    <3>. QED  BY Zenon, <3>1, <3>2
  <2>5. Held(pipe, iref, v) = 0
    BY Zenon, <2>3, <2>4 DEF Held
  <2>. QED  BY Zenon, <2>2, <2>5
<1>11. NoPanic
  BY Zenon DEF Init, NoPanic
<1>. QED  BY Zenon, <1>6, <1>7, <1>8, <1>9, <1>10, <1>11 DEF Inv

LEMMA StutterInv ==
    ASSUME Inv, UNCHANGED vars
    PROVE  Inv'
<1>1. file' = file /\ ofile' = ofile /\ pipe' = pipe /\ iref' = iref /\ th' = th /\ panic' = panic
  BY DEF vars
<1>2. Pointers' = Pointers /\ Stands' = Stands
  BY SMTT(20), <1>1 DEF Pointers, Stands
<1>3. (TypeOK /\ EntryOK /\ PlaceOK /\ ForkOK /\ NoPanic)'
  BY Zenon, <1>1 DEF Inv, TypeOK, EntryOK, PlaceOK, ForkOK, NoPanic
<1>4. (AllocOK /\ RefOK /\ HeldOK)'
  BY Zenon, <1>1, <1>2 DEF Inv, AllocOK, RefOK, HeldOK
<1>. QED  BY Zenon, <1>3, <1>4 DEF Inv

LEMMA NextInv ==
    ASSUME Sizes, Inv, [Next]_vars
    PROVE  Inv'
<1>1. CASE UNCHANGED vars
  BY Zenon, <1>1, StutterInv
<1>2. ASSUME NEW p \in Procs, sys_open(p)  PROVE Inv'
  BY Zenon, <1>2, OpenFails, OpenSucceeds
<1>3. ASSUME NEW p \in Procs, sys_pipe(p)  PROVE Inv'
  BY Zenon, <1>3, PipeStep
<1>4. ASSUME NEW p \in Procs, pipealloc_bad(p)  PROVE Inv'
  <2>1. CASE Unused = {}
    <3>1. /\ th[p].pc = "pipealloc" /\ Close(p, th[p].f0, Null, "user")
          /\ UNCHANGED <<file, ofile, pipe, iref, panic>>
      BY Zenon, <1>4, <2>1 DEF pipealloc_bad
    <3>. QED  BY Zenon, <3>1, PipeFailsNoFile
  <2>2. CASE Unused # {}
    <3>1. /\ th[p].pc = "pipealloc" /\ Close(p, th[p].f0, filealloc, "user")
          /\ file' = [file EXCEPT ![filealloc].ref = 1] /\ UNCHANGED <<ofile, pipe, iref, panic>>
      BY Zenon, <1>4, <2>2 DEF pipealloc_bad
    <3>. QED  BY Zenon, <2>2, <3>1, PipeFailsNoPage
  <2>. QED  BY Zenon, <2>1, <2>2
<1>5. ASSUME NEW p \in Procs, NEW g \in Pages, pipealloc(p, g)  PROVE Inv'
  BY Zenon, <1>5, PipeOpens
<1>6. ASSUME NEW p \in Procs, sys_dup(p)  PROVE Inv'
  BY Zenon, <1>6, DupSysStep
<1>7. ASSUME NEW p \in Procs, sys_close(p)  PROVE Inv'
  BY Zenon, <1>7, CloseSysStep
<1>8. ASSUME NEW p \in Procs, exit(p)  PROVE Inv'
  BY Zenon, <1>8, ExitStep
<1>9. ASSUME NEW p \in Procs, NEW np \in Procs, fork(p, np)  PROVE Inv'
  BY Zenon, <1>9, ForkStep
<1>10. ASSUME NEW p \in Procs, fork_dup(p)  PROVE Inv'
  BY Zenon, <1>10, ForkDupStep
<1>11. ASSUME NEW p \in Procs, fileclose(p)  PROVE Inv'
  BY Zenon, <1>11, FileCloseStep
<1>12. ASSUME NEW p \in Procs, close_ff(p)  PROVE Inv'
  BY Zenon, <1>12, CloseEndStep
<1>. QED  BY Zenon, <1>1, <1>2, <1>3, <1>4, <1>5, <1>6, <1>7, <1>8, <1>9, <1>10, <1>11, <1>12 DEF Next

(* In every reachable state f->ref is the number of pointers to f, in      *)
(* descriptors and in the local variables of calls in progress, and each   *)
(* open end of a pipe and each reference to an inode belongs to one file   *)
(* or to the copy of one that fileclose() is working on (file.c:           *)
(* filealloc, filedup, fileclose; sysfile.c, pipe.c: pipealloc; proc.c:    *)
(* fork, exit).                                                            *)
THEOREM FilesAlwaysCounted ==
    ASSUME Sizes
    PROVE  Spec => []FilesCounted
<1>1. Init => Inv
  BY Zenon, InitInv
<1>2. Inv /\ [Next]_vars => Inv'
  BY Zenon, NextInv
<1>3. Inv => FilesCounted
  BY Zenon, CountedFromInv DEF Inv
<1>. QED  BY <1>1, <1>2, <1>3, PTL DEF Spec

(* filedup() and fileclose() are never called on a file whose count is 0,  *)
(* so neither of them panics.                                              *)
THEOREM FilesNeverPanic ==
    ASSUME Sizes
    PROVE  Spec => []NoPanic
<1>1. Init => Inv
  BY Zenon, InitInv
<1>2. Inv /\ [Next]_vars => Inv'
  BY Zenon, NextInv
<1>3. Inv => NoPanic
  BY Zenon DEF Inv
<1>. QED  BY <1>1, <1>2, <1>3, PTL DEF Spec
=============================================================================
