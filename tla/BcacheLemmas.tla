---------------------------- MODULE BcacheLemmas ----------------------------
(***************************************************************************)
(* Proofs about Bcache, first part: the inductive invariant, and what the  *)
(* steps need to know about the rings, the descriptors, the references to  *)
(* buffers and their list, and when each part of the invariant stays.      *)
(***************************************************************************)
EXTENDS Bcache, FiniteSetTheorems, TLAPS

USE ZenonT(20), SMTT(20)

(* The inductive invariant.                                                *)

\* Processes that own a chain of descriptors.
Requesters == {p \in Procs : pc[p] \in {"disk_sleep", "disk_woken"}}

\* Processes in virtio_disk_rw(), or just out of it, and those that hold the
\* lock of their buffer.
Reading == {"disk_rw", "desc_sleep", "disk_sleep", "disk_woken", "disk_done"}
Holding == Reading \cup {"locked"}

\* bio.c: who refers to a buffer, who holds it, and which block it is for.
RefInv ==
    /\ \A b \in Bufs : refcnt[b] = Cardinality({p \in Procs : buf[p] = b})
    /\ \A p \in Procs : pc[p] = "user" <=> buf[p] = NoBuf
    /\ \A p \in Procs : buf[p] # NoBuf => blockno[buf[p]] = want[p] /\ want[p] \in Blocks
    /\ \A b, c \in Bufs : blockno[b] # NoBlock /\ blockno[b] = blockno[c] => b = c
LockInv ==
    \A p \in Procs, b \in Bufs : holder[b] = p <=> pc[p] \in Holding /\ buf[p] = b

\* virtio_disk.c: a chain is three descriptors that are not free, chains are
\* disjoint, and every descriptor that is not free is in one.
Second(p) == next[idx[p]]
Third(p) == next[Second(p)]
ChainOf(p) == {idx[p], Second(p), Third(p)}
ChainInv ==
    /\ \A p \in Requesters :
          /\ ChainOf(p) \subseteq Descs \ free
          /\ idx[p] # Second(p) /\ idx[p] # Third(p) /\ Second(p) # Third(p)
    /\ \A p, q \in Requesters : p # q => ChainOf(p) \cap ChainOf(q) = {}
    /\ \A i \in Descs \ free : \E p \in Requesters : i \in ChainOf(p)

\* The chain of a process describes its request.
RequestInv ==
    \A p \in Requesters :
        /\ info[idx[p]] = buf[p]
        /\ ops[idx[p]] = [write |-> write[p], b |-> buf[p], sector |-> want[p]]

\* No chain is twice in a ring.
OneEach(ring, a, e) ==
    \A k, l \in Window(a, e) : ring[k % NUM] = ring[l % NUM] => k = l

\* A chain is in the avail ring, with the device, in the used ring or done,
\* and b->disk and the status say which.
Waiting == Entries(avail, dev_avail, avail_idx)
RingInv ==
    /\ OneEach(avail, dev_avail, avail_idx) /\ OneEach(used, used_idx, dev_used)
    /\ Waiting \cap inflight = {} /\ Unseen \cap (Waiting \cup inflight) = {}
    /\ \A i \in Waiting \cup inflight \cup Unseen : \E p \in Requesters : idx[p] = i
    /\ \A p \in Requesters :
          /\ disk[buf[p]] <=> idx[p] \in Waiting \cup inflight \cup Unseen
          /\ status[idx[p]] <=> idx[p] \notin Waiting \cup inflight
    /\ \A p \in Procs : pc[p] = "disk_sleep" => disk[buf[p]]
    /\ used_idx # dev_used => irq \/ intr = "loop"

\* Whoever waits for descriptors has somebody that will free some.
DescInv ==
    \A p \in Procs : pc[p] = "desc_sleep" =>
        \E q \in Procs : pc[q] \in {"disk_rw", "disk_sleep", "disk_woken"}

\* A write that has not reached the disk.
Writing(p) ==
    /\ write[p]
    /\ pc[p] \in {"disk_rw", "desc_sleep"} \/ (p \in Requesters /\ ~status[idx[p]])

\* Valid buffers hold the last contents of their block, and so does the disk
\* except for writes under way.
DataInv ==
    /\ \A b \in Bufs : valid[b] => blockno[b] \in Blocks /\ data[b] = mem[blockno[b]]
    /\ \A k \in Blocks : medium[k] = mem[k] \/ \E p \in Procs : Writing(p) /\ want[p] = k
    /\ \A p \in Procs : pc[p] \in Reading => (valid[buf[p]] <=> write[p])
    /\ \A p \in Procs : pc[p] = "locked" => valid[buf[p]]
    /\ \A p \in Procs : pc[p] = "disk_done" \/ (p \in Requesters /\ status[idx[p]])
                        => data[buf[p]] = mem[want[p]]

CacheInv ==
    /\ TypeOK /\ RefInv /\ LockInv /\ ChainInv /\ RequestInv /\ RingInv /\ DescInv /\ DataInv
-----------------------------------------------------------------------------
(* The constants.                                                          *)

(* What the proofs use of the constants where they do no arithmetic.       *)
LEMMA CacheFacts ==
    /\ NoBuf \notin Bufs /\ NoDesc \notin Descs /\ 0 \in Descs
    /\ None \notin Procs /\ NoBlock \notin Blocks
    /\ IsFiniteSet(Procs) /\ IsFiniteSet(Descs) /\ IsFiniteSet(Bufs)
    /\ Zero \in Val
<1>1. IsFiniteSet(Descs) /\ IsFiniteSet(Bufs)
  BY SMTT(20), DiskAssumption, FS_Interval DEF DiskAssumption, Descs, Bufs
<1>. QED  BY SMTT(20), <1>1, DiskAssumption, CacheAssumption
          DEF DiskAssumption, CacheAssumption, Bufs, NoBuf, Descs, NoDesc

-----------------------------------------------------------------------------
(* The rings: indices are numbers modulo WRAP, slots are indices modulo    *)
(* NUM, which divides WRAP.                                                *)

Indices == 0 .. WRAP - 1

(* Numbers modulo WRAP, less than one modulus away from the range.         *)
LEMMA Remainder ==
    ASSUME NEW x \in Int
    PROVE  /\ x \in 0 .. WRAP - 1 => x % WRAP = x
           /\ x \in WRAP .. 2 * WRAP - 1 => x % WRAP = x - WRAP
           /\ x \in -WRAP .. -1 => x % WRAP = x + WRAP
<1>. DEFINE W == WRAP
<1>. W \in Nat \ {0}
  BY DiskAssumption DEF DiskAssumption
<1>. HIDE DEF W
<1>1. \A q \in Int, r \in 0 .. W - 1 : (W * q + r) % W = r
  BY SMTT(20)
<1>2. ASSUME x \in 0 .. W - 1 PROVE x % W = x
  BY <1>2, SMTT(20)
<1>3. ASSUME x \in W .. 2 * W - 1 PROVE x % W = x - W
  <2>1. x - W \in 0 .. W - 1 /\ x = W * 1 + (x - W)
    BY <1>3, SMTT(20)
  <2>. QED  BY <2>1, <1>1, SMTT(20)
<1>4. ASSUME x \in -W .. -1 PROVE x % W = x + W
  <2>1. x + W \in 0 .. W - 1 /\ x = W * (-1) + (x + W)
    BY <1>4, SMTT(20)
  <2>. QED  BY <2>1, <1>1, SMTT(20)
<1>. QED  BY <1>2, <1>3, <1>4, SMTT(20) DEF W

(* How far one index is from another, and the index after an index.        *)
LEMMA Distance ==
    \A a, k \in Indices : (k - a) % WRAP = IF k >= a THEN k - a ELSE k - a + WRAP
<1>. USE SMTT(20) DEF Indices
<1>. TAKE a, k \in Indices
<1>0. WRAP \in Nat \ {0}
  BY DiskAssumption DEF DiskAssumption
<1>1. k - a \in 0 .. WRAP - 1 \/ k - a \in -WRAP .. -1
  BY <1>0
<1>. QED  BY <1>0, <1>1, Remainder

LEMMA Successor ==
    \A a \in Indices : /\ (a + 1) % WRAP = IF a = WRAP - 1 THEN 0 ELSE a + 1
                       /\ (a + 1) % WRAP \in Indices
<1>. USE SMTT(20) DEF Indices
<1>. TAKE a \in Indices
<1>0. WRAP \in Nat \ {0}
  BY DiskAssumption DEF DiskAssumption
<1>1. a + 1 \in 0 .. WRAP - 1 \/ a + 1 \in WRAP .. 2 * WRAP - 1
  BY <1>0
<1>2. (a + 1) % WRAP = IF a = WRAP - 1 THEN 0 ELSE a + 1
  BY <1>0, <1>1, Remainder
<1>. QED  BY <1>0, <1>2

(* Two indices less than NUM apart are in different slots.                 *)
LEMMA Slots ==
    ASSUME NEW a \in Indices, NEW k \in Indices, NEW l \in Indices,
           (k - a) % WRAP < NUM, (l - a) % WRAP < NUM, k % NUM = l % NUM
    PROVE  k = l
<1>. USE SMTT(20)
<1>. DEFINE N == NUM
            W == WRAP
            d == ((k - a) % WRAP) - ((l - a) % WRAP)
<1>1. N \in Nat \ {0} /\ W \in Nat \ {0} /\ W % N = 0
  BY DiskAssumption DEF DiskAssumption
<1>2. /\ (k - a) % WRAP = IF k >= a THEN k - a ELSE k - a + W
      /\ (l - a) % WRAP = IF l >= a THEN l - a ELSE l - a + W
  BY Distance
<1>3. k \in Int /\ l \in Int /\ a \in Int
  BY <1>1 DEF Indices
<1>4. d \in Int /\ d < N /\ -N < d
  <2>. HIDE DEF N, W
  <2>1. NUM = N /\ WRAP = W
    BY DEF N, W
  <2>. DEFINE x == (k - a) % WRAP
              y == (l - a) % WRAP
  <2>2. x \in Int /\ y \in Int /\ 0 <= x /\ 0 <= y
    BY <1>1, <1>2, <1>3 DEF Indices, W
  <2>3. x < N /\ y < N
    BY <2>1
  <2>4. d = x - y
    OBVIOUS
  <2>. HIDE DEF x, y, d
  <2>. QED  BY <1>1, <2>2, <2>3, <2>4
<1>5. \E z \in {-1, 0, 1} : k - l = d + z * W
  <2>1. k - l = d \/ k - l = d + W \/ k - l = d - W
    BY <1>1, <1>2, <1>3
  <2>2. W \in Int /\ d \in Int
    BY <1>1, <1>4
  <2>. HIDE DEF d, W
  <2>3. d = d + 0 * W /\ d + W = d + 1 * W /\ d - W = d + (-1) * W
    BY <2>2
  <2>. QED  BY <2>1, <2>3
<1>6. PICK z \in {-1, 0, 1} : k - l = d + z * W
  BY <1>5
<1>. HIDE DEF N, W, d
<1>7. \A x \in Int : x = N * (x \div N) + (x % N) /\ x \div N \in Int
  BY <1>1
<1>8. /\ k = N * (k \div N) + (k % N) /\ k \div N \in Int
      /\ l = N * (l \div N) + (l % N) /\ l \div N \in Int
      /\ W = N * (W \div N) /\ W \div N \in Int
  <2>1. W = N * (W \div N) + (W % N) /\ W \div N \in Int
    BY <1>1, <1>7
  <2>. QED  BY <1>1, <1>3, <1>7, <2>1
<1>9. k % N = l % N /\ k % N \in Int
  BY <1>1, <1>3 DEF N
<1>10. ASSUME NEW u \in Int, NEW v \in Int, NEW m \in Int, NEW r \in Int,
              k = N * u + r, l = N * v + r, W = N * m
       PROVE  d = 0
  <2>1. d = N * (u - v - z * m)
    <3>1. z * W = N * (z * m)
      BY <1>1, <1>10
    <3>2. k - l = N * (u - v)
      BY <1>1, <1>10
    <3>3. d = N * (u - v) - N * (z * m)
      BY <1>1, <1>4, <1>6, <1>10, <3>1, <3>2
    <3>. QED  BY <1>1, <3>3
  <2>2. u - v - z * m \in Int
    OBVIOUS
  <2>3. \A y \in Int : N * y < N /\ -N < N * y => y = 0
    BY <1>1
  <2>. QED  BY <1>1, <1>4, <2>1, <2>2, <2>3
<1>11. d = 0
  BY <1>8, <1>9, <1>10
<1>. QED  BY <1>2, <1>3, <1>1, <1>11 DEF d, Indices, W, N

(* Entering the next index, and leaving the first.                         *)
LEMMA WindowGrows ==
    ASSUME NEW a \in Indices, NEW e \in Indices, (e - a) % WRAP < WRAP - 1
    PROVE  /\ Window(a, (e + 1) % WRAP) = Window(a, e) \cup {e}
           /\ e \notin Window(a, e)
<1>. USE SMTT(20)
<1>. DEFINE f == (e + 1) % WRAP
<1>1. WRAP \in Nat \ {0} /\ f \in Indices /\ f = IF e = WRAP - 1 THEN 0 ELSE e + 1
  BY DiskAssumption, Successor DEF DiskAssumption
<1>2. /\ (e - a) % WRAP = IF e >= a THEN e - a ELSE e - a + WRAP
      /\ (f - a) % WRAP = IF f >= a THEN f - a ELSE f - a + WRAP
  <2>. HIDE DEF f
  <2>. QED  BY <1>1, Distance, Zenon
<1>3. \A k \in Indices : (k - a) % WRAP = IF k >= a THEN k - a ELSE k - a + WRAP
  BY Distance
<1>. HIDE DEF f
<1>4. \A k \in Indices : (k - a) % WRAP < (f - a) % WRAP
                         <=> (k - a) % WRAP < (e - a) % WRAP \/ k = e
  BY <1>1, <1>2, <1>3 DEF Indices
<1>5. ~((e - a) % WRAP < (e - a) % WRAP)
  BY <1>1, <1>2 DEF Indices
<1>. QED  BY <1>4, <1>5, Zenon DEF Window, Indices, f

LEMMA WindowShrinks ==
    ASSUME NEW a \in Indices, NEW e \in Indices, a # e
    PROVE  /\ Window((a + 1) % WRAP, e) = Window(a, e) \ {a}
           /\ a \in Window(a, e)
<1>. USE SMTT(20)
<1>. DEFINE f == (a + 1) % WRAP
<1>1. WRAP \in Nat \ {0} /\ f \in Indices /\ f = IF a = WRAP - 1 THEN 0 ELSE a + 1
  BY DiskAssumption, Successor DEF DiskAssumption
<1>2. /\ (e - a) % WRAP = IF e >= a THEN e - a ELSE e - a + WRAP
      /\ (e - f) % WRAP = IF e >= f THEN e - f ELSE e - f + WRAP
  <2>. HIDE DEF f
  <2>. QED  BY <1>1, Distance, Zenon
<1>3. \A k \in Indices : /\ (k - a) % WRAP = IF k >= a THEN k - a ELSE k - a + WRAP
                         /\ (k - f) % WRAP = IF k >= f THEN k - f ELSE k - f + WRAP
  <2>. HIDE DEF f
  <2>. QED  BY <1>1, Distance, Zenon
<1>. HIDE DEF f
<1>4. \A k \in Indices : (k - f) % WRAP < (e - f) % WRAP
                         <=> (k - a) % WRAP < (e - a) % WRAP /\ k # a
  <2>. TAKE k \in Indices
  <2>1. /\ (k - a) % WRAP = IF k >= a THEN k - a ELSE k - a + WRAP
        /\ (k - f) % WRAP = IF k >= f THEN k - f ELSE k - f + WRAP
    BY <1>3, Zenon
  <2>. QED  BY <1>1, <1>2, <2>1 DEF Indices
<1>5. (a - a) % WRAP < (e - a) % WRAP
  BY <1>1, <1>2, <1>3 DEF Indices
<1>. QED  BY <1>4, <1>5, Zenon DEF Window, Indices, f

(* A window has as many indices as it is long.                             *)
LEMMA WindowSize ==
    ASSUME NEW a \in Indices, NEW e \in Indices
    PROVE  /\ IsFiniteSet(Window(a, e))
           /\ Cardinality(Window(a, e)) = (e - a) % WRAP
           /\ (e - a) % WRAP \in Nat
<1>. USE SMTT(20)
<1>. DEFINE n == (e - a) % WRAP
            f == [j \in 1 .. n |-> IF a + j - 1 < WRAP THEN a + j - 1 ELSE a + j - 1 - WRAP]
<1>1. WRAP \in Nat \ {0} /\ n = IF e >= a THEN e - a ELSE e - a + WRAP
  BY DiskAssumption, Distance DEF DiskAssumption
<1>2. n \in Nat /\ n < WRAP
  BY <1>1 DEF Indices
<1>3. \A k \in Indices : (k - a) % WRAP = IF k >= a THEN k - a ELSE k - a + WRAP
  BY Distance
<1>4. \A k : k \in Window(a, e) <=> k \in Indices /\ (k - a) % WRAP < n
  BY Zenon DEF Window, Indices
<1>. HIDE DEF n
<1>5. \A j \in 1 .. n : f[j] \in Indices /\ (f[j] - a) % WRAP = j - 1
  <2>. TAKE j \in 1 .. n
  <2>1. f[j] = IF a + j - 1 < WRAP THEN a + j - 1 ELSE a + j - 1 - WRAP
    OBVIOUS
  <2>2. f[j] \in Indices
    BY <1>1, <1>2, <2>1 DEF Indices
  <2>3. (f[j] - a) % WRAP = IF f[j] >= a THEN f[j] - a ELSE f[j] - a + WRAP
    BY <1>3, <2>2
  <2>. HIDE DEF f
  <2>. QED  BY <1>1, <1>2, <2>1, <2>2, <2>3 DEF Indices
<1>6. f \in [1 .. n -> Window(a, e)]
  <2>1. \A j \in 1 .. n : j - 1 < n
    BY <1>2
  <2>2. \A j \in 1 .. n : f[j] \in Window(a, e)
    BY <1>4, <1>5, <2>1
  <2>. QED  BY <2>2
<1>7. \A i, j \in 1 .. n : f[i] = f[j] => i = j
  <2>1. \A i, j \in 1 .. n : i - 1 = j - 1 => i = j
    BY <1>2
  <2>. HIDE DEF f
  <2>. QED  BY <1>5, <2>1
<1>8. \A k \in Window(a, e) : \E j \in 1 .. n : f[j] = k
  <2>. TAKE k \in Window(a, e)
  <2>1. k \in Indices /\ (k - a) % WRAP < n
    BY <1>4
  <2>2. (k - a) % WRAP = IF k >= a THEN k - a ELSE k - a + WRAP
    BY <1>3, <2>1
  <2>. DEFINE j == IF k >= a THEN k - a + 1 ELSE k - a + WRAP + 1
  <2>3. j \in 1 .. n /\ k = IF a + j - 1 < WRAP THEN a + j - 1 ELSE a + j - 1 - WRAP
    BY <1>1, <1>2, <2>1, <2>2 DEF Indices
  <2>. HIDE DEF j
  <2>. QED  BY <2>3
<1>9. f \in Bijection(1 .. n, Window(a, e))
  <2>. HIDE DEF f
  <2>. QED  BY <1>6, <1>7, <1>8, Zenon DEF Bijection, Injection, Surjection, IsInjective
<1>10. ExistsBijection(1 .. n, Window(a, e))
  BY <1>9, Zenon DEF ExistsBijection
<1>11. IsFiniteSet(Window(a, e)) /\ Cardinality(Window(a, e)) = n
  BY <1>2, <1>10, FS_CountingElements, FS_NatBijection
<1>. QED  BY <1>2, <1>11 DEF n

(* The slots of a window that is not full, and of the index after it, are  *)
(* different.                                                              *)
LEMMA WindowSlots ==
    ASSUME NEW a \in Indices, NEW e \in Indices, (e - a) % WRAP < NUM,
           NEW k \in Window(a, e) \cup {e}, NEW l \in Window(a, e) \cup {e},
           k % NUM = l % NUM
    PROVE  k = l
<1>1. WRAP \in Nat \ {0} /\ NUM \in Nat
  BY DiskAssumption DEF DiskAssumption
<1>2. \A j \in Window(a, e) \cup {e} : j \in Indices /\ (j - a) % WRAP < NUM
  <2>. TAKE j \in Window(a, e) \cup {e}
  <2>1. j \in Indices /\ (j = e \/ (j - a) % WRAP < (e - a) % WRAP)
    BY Zenon DEF Window, Indices
  <2>2. (j - a) % WRAP \in Int /\ (e - a) % WRAP \in Int
    BY <1>1, <2>1, SMTT(20) DEF Indices
  <2>. QED  BY <1>1, <2>1, <2>2, SMTT(20)
<1>. QED  BY <1>2, Slots

(* The slot of an index.                                                   *)
LEMMA SlotType ==
    \A k \in Indices : k % NUM \in Descs
  BY DiskAssumption, SMTT(20) DEF DiskAssumption, Indices, Descs

\* A ring with room for one more entry than it has, and one to spare.
Room(a, e) == (e - a) % WRAP < NUM - 1

\* A ring with i in its next slot, and the index after an index.
Put(ring, e, i) == [ring EXCEPT ![e % NUM] = i]
After(e) == (e + 1) % WRAP

(* An entry is added at the end of a ring that is not full.                *)
LEMMA RingPut ==
    ASSUME NEW ring \in [Descs -> Descs], NEW a \in Indices, NEW e \in Indices,
           Room(a, e), OneEach(ring, a, e),
           NEW i \in Descs, i \notin Entries(ring, a, e)
    PROVE  /\ Entries(Put(ring, e, i), a, After(e)) = Entries(ring, a, e) \cup {i}
           /\ OneEach(Put(ring, e, i), a, After(e))
<1>. DEFINE r2 == Put(ring, e, i)
            e2 == After(e)
<1>. r2 = [ring EXCEPT ![e % NUM] = i] /\ e2 = (e + 1) % WRAP
  BY DEF Put, After
<1>. HIDE DEF r2, e2
<1>1. (e - a) % WRAP < NUM /\ (e - a) % WRAP < WRAP - 1
  <2>1. NUM \in Nat /\ WRAP \in Nat /\ NUM <= WRAP
    <3>. DEFINE N == NUM
                W == WRAP
    <3>1. N \in Nat \ {0} /\ W \in Nat \ {0} /\ W % N = 0
      BY DiskAssumption, SMTT(20) DEF DiskAssumption
    <3>. HIDE DEF N, W
    <3>2. W < N => W % N = W
      BY <3>1, SMTT(20)
    <3>3. N <= W
      BY <3>1, <3>2, SMTT(20)
    <3>. QED  BY <3>1, <3>3 DEF N, W
  <2>2. (e - a) % WRAP \in Int
    BY WindowSize, SMTT(20)
  <2>. QED  BY <2>1, <2>2, SMTT(20) DEF Room
<1>2. Window(a, e2) = Window(a, e) \cup {e} /\ e \notin Window(a, e)
  BY <1>1, WindowGrows
<1>3. \A k \in Window(a, e) \cup {e} : k \in Indices /\ k % NUM \in Descs
  BY SlotType DEF Window, Indices
<1>4. \A k \in Window(a, e) : k % NUM # e % NUM
  BY <1>1, <1>2, WindowSlots
<1>5. r2[e % NUM] = i /\ \A k \in Window(a, e) : r2[k % NUM] = ring[k % NUM]
  BY <1>3, <1>4
<1>6. Entries(r2, a, e2) = Entries(ring, a, e) \cup {i}
  BY SMTT(20), <1>2, <1>5 DEF Entries
<1>7. OneEach(r2, a, e2)
  BY SMTT(20), <1>2, <1>5 DEF Entries, OneEach
<1>. QED  BY <1>6, <1>7 DEF r2, e2

(* The first entry of a ring is taken, and its slot cleared.               *)
LEMMA RingTake ==
    ASSUME NEW ring \in [Descs -> Descs], NEW a \in Indices, NEW e \in Indices, a # e,
           Room(a, e), OneEach(ring, a, e),
           NEW r2, r2 = [ring EXCEPT ![a % NUM] = 0],
           NEW a2, a2 = (a + 1) % WRAP
    PROVE  /\ Entries(r2, a2, e) = Entries(ring, a, e) \ {ring[a % NUM]}
           /\ ring[a % NUM] \in Entries(ring, a, e)
           /\ OneEach(r2, a2, e)
<1>1. (e - a) % WRAP < NUM
  <2>1. NUM \in Nat /\ (e - a) % WRAP \in Int
    BY DiskAssumption, WindowSize, SMTT(20) DEF DiskAssumption
  <2>. QED  BY <2>1, SMTT(20) DEF Room
<1>2. Window(a2, e) = Window(a, e) \ {a} /\ a \in Window(a, e)
  BY WindowShrinks
<1>3. \A k \in Window(a, e) : k \in Indices /\ k % NUM \in Descs
  BY SlotType DEF Window, Indices
<1>4. \A k \in Window(a, e) \ {a} : k % NUM # a % NUM
  BY <1>1, <1>2, WindowSlots
<1>5. \A k \in Window(a, e) \ {a} : r2[k % NUM] = ring[k % NUM]
  BY <1>3, <1>4
<1>6. \A k \in Window(a, e) \ {a} : ring[k % NUM] # ring[a % NUM]
  BY <1>2 DEF OneEach
<1>7. Entries(r2, a2, e) = Entries(ring, a, e) \ {ring[a % NUM]}
  BY <1>2, <1>5, <1>6 DEF Entries
<1>8. OneEach(r2, a2, e)
  BY <1>2, <1>5 DEF OneEach
<1>. QED  BY <1>2, <1>7, <1>8 DEF Entries

(* A ring without repetitions is no longer than its entries are many.      *)
LEMMA RingLength ==
    ASSUME NEW ring \in [Descs -> Descs], NEW a \in Indices, NEW e \in Indices,
           OneEach(ring, a, e), NEW S, IsFiniteSet(S), Entries(ring, a, e) \subseteq S
    PROVE  (e - a) % WRAP <= Cardinality(S)
<1>. DEFINE f == [k \in Window(a, e) |-> ring[k % NUM]]
<1>1. f \in [Window(a, e) -> S]
  BY DEF Entries
<1>2. \A k, l \in Window(a, e) : f[k] = f[l] => k = l
  BY DEF OneEach
<1>3. f \in Injection(Window(a, e), S)
  <2>. HIDE DEF f
  <2>. QED  BY <1>1, <1>2 DEF Injection, IsInjective
<1>4. Cardinality(Window(a, e)) <= Cardinality(S)
  <2>. HIDE DEF f
  <2>. QED  BY <1>3, FS_Injection
<1>. QED  BY <1>4, WindowSize

(* The least of the free descriptors is one of them.                       *)
LEMMA LeastIsMember ==
    ASSUME NEW S, S \subseteq Descs, S # {}
    PROVE  Least(S) \in S
<1>1. S \subseteq Nat
  BY DiskAssumption, SMTT(20) DEF DiskAssumption, Descs
<1>2. PICK x \in S : \A y \in S : ~(<<y, x>> \in OpToRel(<, Nat))
  BY <1>1, NatLessThanWellFounded, WFMin
<1>3. \A y \in S : ~(y < x)
  BY <1>1, <1>2 DEF OpToRel
<1>4. \A y \in S : x <= y
  BY <1>1, <1>3, SMTT(20)
<1>. QED  BY <1>4, Zenon DEF Least

(* Three free descriptors are three different ones.                        *)
LEMMA ThreeFree ==
    ASSUME NEW S, S \subseteq Descs, ~(Cardinality(S) < 3)
    PROVE  LET i0 == Least(S)
               i1 == Least(S \ {i0})
               i2 == Least(S \ {i0, i1})
           IN  {i0, i1, i2} \subseteq S /\ i0 # i1 /\ i0 # i2 /\ i1 # i2
<1>. DEFINE i0 == Least(S)
            i1 == Least(S \ {i0})
            i2 == Least(S \ {i0, i1})
<1>1. IsFiniteSet(S) /\ Cardinality(S) \in Nat
  BY CacheFacts, FS_Subset, FS_CardinalityType
<1>2. S # {} /\ i0 \in S
  BY SMTT(20), <1>1, FS_EmptySet, LeastIsMember
<1>. HIDE DEF i0
<1>3. IsFiniteSet(S \ {i0}) /\ Cardinality(S \ {i0}) = Cardinality(S) - 1
  BY <1>1, <1>2, FS_RemoveElement
<1>4. S \ {i0} # {}
  BY <1>1, <1>3, FS_EmptySet, SMTT(20)
<1>5. i1 \in S \ {i0}
  BY <1>4, LeastIsMember
<1>. HIDE DEF i1
<1>6. (S \ {i0}) \ {i1} = S \ {i0, i1}
  OBVIOUS
<1>7. IsFiniteSet(S \ {i0, i1}) /\ Cardinality(S \ {i0, i1}) = Cardinality(S) - 2
  <2>. DEFINE T == S \ {i0}
  <2>1. IsFiniteSet(T) /\ i1 \in T
    BY <1>3, <1>5
  <2>. HIDE DEF T
  <2>2. IsFiniteSet(T \ {i1}) /\ Cardinality(T \ {i1}) = Cardinality(T) - 1
    BY <2>1, FS_RemoveElement
  <2>3. T \ {i1} = S \ {i0, i1} /\ Cardinality(T) = Cardinality(S) - 1
    BY <1>3, <1>6 DEF T
  <2>. QED  BY <1>1, <2>2, <2>3, SMTT(20)
<1>8. S \ {i0, i1} # {}
  BY <1>1, <1>7, FS_EmptySet, SMTT(20)
<1>9. i2 \in S \ {i0, i1}
  BY <1>8, LeastIsMember
<1>. QED  BY <1>2, <1>5, <1>9 DEF i0, i1

(* Both rings are shorter than NUM - 1: a chain has two descriptors that   *)
(* are not its head.                                                       *)
LEMMA RingsShort ==
    ASSUME TypeOK, ChainInv, RingInv
    PROVE  Room(dev_avail, avail_idx) /\ Room(used_idx, dev_used)
<1>. DEFINE Heads == {idx[p] : p \in Requesters}
<1>1. /\ avail_idx \in Indices /\ dev_avail \in Indices
      /\ used_idx \in Indices /\ dev_used \in Indices
      /\ avail \in [Descs -> Descs] /\ used \in [Descs -> Descs]
  BY DEF TypeOK, DiskTypeOK, Indices
<1>2. /\ Entries(avail, dev_avail, avail_idx) \subseteq Heads
      /\ Entries(used, used_idx, dev_used) \subseteq Heads
  BY DEF RingInv, Waiting, Unseen
<1>3. IsFiniteSet(Heads) /\ Cardinality(Heads) <= NUM - 2
  <2>1. NUM \in Nat /\ NUM >= 3 /\ Cardinality(Descs) = NUM
    BY DiskAssumption, FS_Interval, SMTT(20) DEF DiskAssumption, Descs
  <2>2. CASE Requesters = {}
    <3>1. Heads = {}
      BY <2>2
    <3>2. IsFiniteSet(Heads) /\ Cardinality(Heads) = 0
      BY <3>1, FS_EmptySet
    <3>. HIDE DEF Heads
    <3>. QED  BY <2>1, <3>2, SMTT(20)
  <2>3. CASE Requesters # {}
    <3>1. PICK p \in Requesters : TRUE
      BY <2>3
    <3>. DEFINE T == (Descs \ {Second(p)}) \ {Third(p)}
    <3>2. Second(p) \in Descs /\ Third(p) \in Descs \ {Second(p)}
      BY DEF ChainInv, ChainOf
    <3>3. \A q \in Requesters : idx[q] \in Descs /\ idx[q] # Second(p) /\ idx[q] # Third(p)
      BY DEF ChainInv, ChainOf
    <3>4. Heads \subseteq T
      BY <3>3
    <3>5. IsFiniteSet(Descs \ {Second(p)}) /\ Cardinality(Descs \ {Second(p)}) = NUM - 1
      BY <2>1, <3>2, CacheFacts, FS_RemoveElement
    <3>6. IsFiniteSet(T) /\ Cardinality(T) = (NUM - 1) - 1
      <4>. DEFINE D == Descs \ {Second(p)}
      <4>1. IsFiniteSet(D) /\ Cardinality(D) = NUM - 1 /\ Third(p) \in D
        BY <3>2, <3>5
      <4>. HIDE DEF D
      <4>2. IsFiniteSet(D \ {Third(p)}) /\ Cardinality(D \ {Third(p)}) = (NUM - 1) - 1
        BY <4>1, FS_RemoveElement
      <4>. QED  BY <4>2 DEF D
    <3>. HIDE DEF T, Heads
    <3>7. IsFiniteSet(Heads) /\ Cardinality(Heads) <= Cardinality(T)
      BY <3>4, <3>6, FS_Subset
    <3>. QED  BY <2>1, <3>6, <3>7, SMTT(20)
  <2>. QED  BY <2>2, <2>3
<1>. HIDE DEF Heads
<1>4. /\ (avail_idx - dev_avail) % WRAP <= Cardinality(Heads)
      /\ (dev_used - used_idx) % WRAP <= Cardinality(Heads)
  <2>1. OneEach(avail, dev_avail, avail_idx) /\ OneEach(used, used_idx, dev_used)
    BY DEF RingInv
  <2>. QED  BY <1>1, <1>2, <1>3, <2>1, RingLength
<1>5. /\ (avail_idx - dev_avail) % WRAP \in Nat /\ (dev_used - used_idx) % WRAP \in Nat
      /\ NUM \in Nat /\ Cardinality(Heads) \in Nat
  BY <1>1, <1>3, WindowSize, FS_CardinalityType, DiskAssumption DEF DiskAssumption
<1>. DEFINE x == (avail_idx - dev_avail) % WRAP
            y == (dev_used - used_idx) % WRAP
<1>6. x <= Cardinality(Heads) /\ y <= Cardinality(Heads) /\ x \in Nat /\ y \in Nat
  BY <1>4, <1>5
<1>. HIDE DEF x, y
<1>7. x < NUM - 1 /\ y < NUM - 1
  BY <1>3, <1>5, <1>6, SMTT(20)
<1>. QED  BY <1>7 DEF x, y, Room

(* The device adds a completion, and the driver a request.                 *)
LEMMA UsedPut ==
    ASSUME TypeOK, ChainInv, RingInv, NEW j \in Descs, j \notin Unseen,
           used' = [used EXCEPT ![dev_used % NUM] = j], dev_used' = (dev_used + 1) % WRAP,
           used_idx' = used_idx
    PROVE  Unseen' = Unseen \cup {j} /\ OneEach(used, used_idx, dev_used)'
<1>1. /\ used_idx \in Indices /\ dev_used \in Indices /\ used \in [Descs -> Descs]
      /\ Room(used_idx, dev_used) /\ OneEach(used, used_idx, dev_used)
  BY RingsShort DEF TypeOK, DiskTypeOK, Indices, RingInv
<1>2. j \notin Entries(used, used_idx, dev_used)
  BY DEF Unseen
<1>3. OneEach(Put(used, dev_used, j), used_idx, After(dev_used))
  BY <1>1, <1>2, RingPut
<1>4. Entries(Put(used, dev_used, j), used_idx, After(dev_used)) = Entries(used, used_idx, dev_used) \cup {j}
  BY SMTT(20), <1>1, <1>2, RingPut
<1>5. used' = Put(used, dev_used, j) /\ dev_used' = After(dev_used)
  BY DEF Put, After
<1>6. OneEach(used', used_idx', dev_used') /\ Entries(used', used_idx', dev_used') = Entries(used, used_idx, dev_used) \cup {j}
  BY <1>3, <1>4, <1>5
<1>. QED  BY <1>6 DEF Unseen

LEMMA AvailPut ==
    ASSUME TypeOK, ChainInv, RingInv, NEW j \in Descs, j \notin Waiting,
           avail' = [avail EXCEPT ![avail_idx % NUM] = j], avail_idx' = (avail_idx + 1) % WRAP,
           dev_avail' = dev_avail
    PROVE  Waiting' = Waiting \cup {j} /\ OneEach(avail, dev_avail, avail_idx)'
<1>1. /\ dev_avail \in Indices /\ avail_idx \in Indices /\ avail \in [Descs -> Descs]
      /\ Room(dev_avail, avail_idx) /\ OneEach(avail, dev_avail, avail_idx)
  BY RingsShort DEF TypeOK, DiskTypeOK, Indices, RingInv
<1>2. j \notin Entries(avail, dev_avail, avail_idx)
  BY DEF Waiting
<1>3. OneEach(Put(avail, avail_idx, j), dev_avail, After(avail_idx))
  BY <1>1, <1>2, RingPut
<1>4. Entries(Put(avail, avail_idx, j), dev_avail, After(avail_idx)) = Entries(avail, dev_avail, avail_idx) \cup {j}
  BY SMTT(20), <1>1, <1>2, RingPut
<1>5. avail' = Put(avail, avail_idx, j) /\ avail_idx' = After(avail_idx)
  BY DEF Put, After
<1>6. OneEach(avail', dev_avail', avail_idx') /\ Entries(avail', dev_avail', avail_idx') = Entries(avail, dev_avail, avail_idx) \cup {j}
  BY <1>3, <1>4, <1>5
<1>. QED  BY <1>6 DEF Waiting

(* A ring whose indices are equal is empty.                                *)
LEMMA EmptyRing ==
    ASSUME NEW a \in Indices
    PROVE  Window(a, a) = {}
<1>1. WRAP \in Nat \ {0}
  BY DiskAssumption DEF DiskAssumption
<1>2. \A k \in Indices : (k - a) % WRAP \in Nat
  BY WindowSize
<1>3. (a - a) % WRAP = 0
  BY <1>1, Distance, SMTT(20) DEF Indices
<1>4. \A k \in Indices : ~((k - a) % WRAP < (a - a) % WRAP)
  BY <1>2, <1>3, SMTT(20)
<1>. QED  BY <1>4 DEF Window, Indices
-----------------------------------------------------------------------------
\* The processes that refer to a buffer.
Users(f, b) == {q \in Procs : f[q] = b}

LEMMA UserCount ==
    ASSUME NEW f, NEW b
    PROVE  IsFiniteSet(Users(f, b)) /\ Cardinality(Users(f, b)) \in 0 .. Cardinality(Procs)
<1>1. IsFiniteSet(Procs) /\ Users(f, b) \subseteq Procs
  BY CacheFacts DEF Users
<1>2. /\ IsFiniteSet(Users(f, b)) /\ Cardinality(Users(f, b)) <= Cardinality(Procs)
      /\ Cardinality(Users(f, b)) \in Nat /\ Cardinality(Procs) \in Nat
  BY <1>1, FS_Subset, FS_CardinalityType
<1>. QED  BY <1>2, SMTT(20)

(* One more refers to a buffer, or one less.                               *)
LEMMA UserJoins ==
    ASSUME NEW f, NEW g, NEW p \in Procs, NEW b \in Bufs, f[p] = NoBuf, g[p] = b,
           \A q \in Procs : q # p => g[q] = f[q]
    PROVE  /\ Cardinality(Users(g, b)) = Cardinality(Users(f, b)) + 1
           /\ \A c \in Bufs : c # b => Users(g, c) = Users(f, c)
<1>1. p \notin Users(f, b) /\ Users(g, b) = Users(f, b) \cup {p}
  BY CacheFacts DEF Users
<1>2. Cardinality(Users(f, b) \cup {p}) = Cardinality(Users(f, b)) + 1
  BY <1>1, UserCount, FS_AddElement
<1>3. \A c \in Bufs : c # b => Users(g, c) = Users(f, c)
  <2>. TAKE c \in Bufs
  <2>. HAVE c # b
  <2>1. f[p] # c /\ g[p] # c
    BY CacheFacts
  <2>. QED  BY <2>1 DEF Users
<1>. QED  BY <1>1, <1>2, <1>3

LEMMA UserLeaves ==
    ASSUME NEW f, NEW g, NEW p \in Procs, NEW b \in Bufs, f[p] = b, g[p] = NoBuf,
           \A q \in Procs : q # p => g[q] = f[q]
    PROVE  /\ Cardinality(Users(g, b)) = Cardinality(Users(f, b)) - 1
           /\ \A c \in Bufs : c # b => Users(g, c) = Users(f, c)
<1>1. p \in Users(f, b) /\ Users(g, b) = Users(f, b) \ {p}
  BY CacheFacts DEF Users
<1>2. Cardinality(Users(f, b) \ {p}) = Cardinality(Users(f, b)) - 1
  BY <1>1, UserCount, FS_RemoveElement
<1>3. \A c \in Bufs : c # b => Users(g, c) = Users(f, c)
  <2>. TAKE c \in Bufs
  <2>. HAVE c # b
  <2>1. f[p] # c /\ g[p] # c
    BY CacheFacts
  <2>. QED  BY <2>1 DEF Users
<1>. QED  BY <1>1, <1>2, <1>3

(* The list of buffers keeps them all when one moves to its head.          *)
LEMMA MoveFirstKeeps ==
    ASSUME lru \in [Bufs -> Bufs], \A c \in Bufs : \E k \in Bufs : lru[k] = c, NEW b \in Bufs
    PROVE  /\ MoveFirst(b) \in [Bufs -> Bufs]
           /\ \A c \in Bufs : \E k \in Bufs : MoveFirst(b)[k] = c
<1>. DEFINE j == CHOOSE k \in Bufs : lru[k] = b
            m == MoveFirst(b)
<1>1. j \in Bufs /\ lru[j] = b
  OBVIOUS
<1>2. m = [k \in Bufs |-> IF k = 1 THEN b ELSE IF k <= j THEN lru[k - 1] ELSE lru[k]]
  BY DEF MoveFirst
<1>. HIDE DEF j, m
<1>3. NBUF \in Nat \ {0}
  BY DiskAssumption DEF DiskAssumption
<1>4. \A k \in Bufs : k # 1 => k - 1 \in Bufs
  BY <1>3, SMTT(20) DEF Bufs
<1>5. m \in [Bufs -> Bufs]
  BY <1>2, <1>4
<1>6. ASSUME NEW c \in Bufs PROVE \E k \in Bufs : m[k] = c
  <2>1. CASE c = b
    <3>1. 1 \in Bufs
      BY <1>3, SMTT(20) DEF Bufs
    <3>. QED  BY <1>2, <2>1, <3>1
  <2>2. CASE c # b
    <3>1. PICK k \in Bufs : lru[k] = c
      OBVIOUS
    <3>2. k # j
      BY <1>1, <2>2, <3>1
    <3>3. CASE k < j
      <4>1. k + 1 \in Bufs /\ k + 1 # 1 /\ k + 1 <= j /\ (k + 1) - 1 = k
        BY <1>1, <1>3, <3>3, SMTT(20) DEF Bufs
      <4>2. m[k + 1] = lru[(k + 1) - 1]
        BY <1>2, <4>1
      <4>. QED  BY <3>1, <4>1, <4>2
    <3>4. CASE ~(k < j)
      <4>1. k # 1 /\ ~(k <= j)
        BY <1>1, <1>3, <3>2, <3>4, SMTT(20) DEF Bufs
      <4>. QED  BY <1>2, <3>1, <4>1
    <3>. QED  BY <3>3, <3>4
  <2>. QED  BY <2>1, <2>2
<1>. QED  BY <1>5, <1>6 DEF m

(* The last idle buffer of the list is an idle buffer.                     *)
LEMMA LastIsMember ==
    ASSUME NEW S, S \subseteq Bufs, S # {}
    PROVE  (CHOOSE j \in S : \A l \in S : l <= j) \in S
<1>. DEFINE T == {NBUF - k : k \in S}
<1>1. NBUF \in Nat
  BY DiskAssumption DEF DiskAssumption
<1>2. T \subseteq Nat /\ T # {}
  <2>1. \A k \in Bufs : NBUF - k \in Nat
    BY <1>1, SMTT(20) DEF Bufs
  <2>. QED  BY <2>1
<1>3. PICK x \in T : \A y \in T : ~(<<y, x>> \in OpToRel(<, Nat))
  BY <1>2, NatLessThanWellFounded, WFMin
<1>4. \A y \in T : ~(y < x)
  BY <1>2, <1>3 DEF OpToRel
<1>5. PICK j \in S : x = NBUF - j
  BY <1>3
<1>6. \A l \in S : ~(NBUF - l < NBUF - j)
  BY <1>4, <1>5
<1>7. S \subseteq Int
  <2>1. Bufs \subseteq Int
    BY <1>1, SMTT(20) DEF Bufs
  <2>. QED  BY <2>1
<1>. HIDE DEF T
<1>8. \A l \in S : l <= j
  BY <1>1, <1>6, <1>7, SMTT(20)
<1>. QED  BY <1>8, Zenon
-----------------------------------------------------------------------------
(* What a step must leave alone for each part of the invariant to stay.    *)

LEMMA RefFrame ==
    ASSUME RefInv, UNCHANGED <<refcnt, buf, blockno, want>>,
           \A p \in Procs : pc'[p] = "user" <=> pc[p] = "user"
    PROVE  RefInv'
  BY DEF RefInv

LEMMA LockFrame ==
    ASSUME LockInv, UNCHANGED <<holder, buf>>,
           \A p \in Procs : pc'[p] \in Holding <=> pc[p] \in Holding
    PROVE  LockInv'
  BY DEF LockInv

LEMMA ChainFrame ==
    ASSUME ChainInv, UNCHANGED <<free, next, idx>>, Requesters' = Requesters
    PROVE  ChainInv'
  BY SMTT(20) DEF ChainInv, ChainOf, Second, Third

LEMMA RequestFrame ==
    ASSUME RequestInv, UNCHANGED <<info, ops, idx, buf, want>>, Requesters' = Requesters,
           \A p \in Requesters : write'[p] = write[p]
    PROVE  RequestInv'
  BY DEF RequestInv

LEMMA RingFrame ==
    ASSUME RingInv, UNCHANGED <<ringvars, inflight, disk, status, idx>>,
           Requesters' = Requesters,
           \A p \in Requesters : buf'[p] = buf[p],
           \A p \in Procs : pc'[p] = "disk_sleep" => disk[buf[p]] /\ buf'[p] = buf[p],
           used_idx # dev_used => irq' \/ intr' = "loop"
    PROVE  RingInv'
<1>1. /\ Waiting' = Waiting /\ Unseen' = Unseen
      /\ OneEach(avail, dev_avail, avail_idx)' = OneEach(avail, dev_avail, avail_idx)
      /\ OneEach(used, used_idx, dev_used)' = OneEach(used, used_idx, dev_used)
  BY SMTT(20) DEF Waiting, Unseen, ringvars, Entries, Window, OneEach
<1>2. UNCHANGED <<used_idx, dev_used, inflight, disk, status, idx>>
  BY DEF ringvars
<1>. QED  BY SMTT(20), <1>1, <1>2 DEF RingInv

LEMMA DataFrame ==
    ASSUME DataInv, UNCHANGED <<valid, blockno, data, mem, medium, status, idx>>,
           Requesters' = Requesters,
           \A p \in Procs : pc'[p] # "user" =>
               /\ buf'[p] = buf[p] /\ want'[p] = want[p] /\ write'[p] = write[p],
           \A p \in Procs : /\ pc'[p] \in Reading <=> pc[p] \in Reading
                            /\ pc'[p] = "disk_done" <=> pc[p] = "disk_done"
                            /\ pc'[p] = "locked" <=> pc[p] = "locked"
    PROVE  DataInv'
<1>1. \A p \in Procs : pc[p] \in {"disk_rw", "desc_sleep"} =>
                        pc'[p] \in {"disk_rw", "desc_sleep"}
  BY DEF Reading, Requesters
<1>2. \A p \in Procs : pc[p] \in Reading \/ pc[p] = "locked" \/ p \in Requesters =>
          buf'[p] = buf[p] /\ want'[p] = want[p] /\ write'[p] = write[p]
  BY DEF Reading, Requesters
<1>3. \A p \in Procs : Writing(p) => Writing(p)' /\ want'[p] = want[p]
  BY <1>1, <1>2 DEF Writing, Reading
<1>4. \A k \in Blocks : medium'[k] = mem'[k] \/ \E p \in Procs : Writing(p)' /\ want'[p] = k
  BY SMTT(20), <1>3 DEF DataInv
<1>5. \A p \in Procs : /\ pc'[p] \in Reading => (valid'[buf'[p]] <=> write'[p])
                       /\ pc'[p] = "locked" => valid'[buf'[p]]
  BY <1>2 DEF DataInv
<1>6. \A p \in Procs : pc'[p] = "disk_done" \/ (p \in Requesters' /\ status'[idx'[p]])
                        => data'[buf'[p]] = mem'[want'[p]]
  BY SMTT(20), <1>2 DEF DataInv, Reading
<1>. QED  BY <1>4, <1>5, <1>6 DEF DataInv

\* Places that the invariant does not tell apart.
Same(l, m) ==
    \/ l = m
    \/ {l, m} \subseteq {"disk_rw", "desc_sleep"}
    \/ {l, m} \subseteq {"disk_sleep", "disk_woken"}
    \/ {l, m} \subseteq {"acquiresleep", "lock_sleep"}
=============================================================================
