----------------------------- MODULE DiskIO_proofs -----------------------------
(* Theorems about BufCache, for every finite set of processes and buffers   *)
(* and every set of blocks and values: counts, locks and the list of the    *)
(* cache are in order, and it implements BlockStore.  Then theorems about   *)
(* VirtioDisk, for any callers and any number of descriptors: chains,       *)
(* requests and wake-ups of the disk driver.                                *)
EXTENDS BufCache, VirtioDisk, Integers, SequenceTheorems, FiniteSetTheorems, TLAPS

-----------------------------------------------------------------------------
(* The buffer cache.                                                        *)

\* None is no buffer, and what a process has or waits for is for a block.
ProcsRight ==
    \A p \in Procs :
        /\ buf[p] = None <=> pc[p] = "idle"
        /\ buf[p] \notin held[p]
        /\ buf[p] # None => blockno[buf[p]] # None
        /\ \A b \in held[p] : blockno[b] # None /\ valid[b]

\* A sleep lock is held from acquiresleep() to releasesleep().
LocksRight ==
    \A p \in Procs, b \in Bufs :
        locked[b] = p <=> b \in held[p] \/ (pc[p] = "fill" /\ buf[p] = b)

\* A block has one buffer, and keeps it while it is pinned.
BlocksRight ==
    /\ \A b, c \in Bufs : blockno[b] # None /\ blockno[b] = blockno[c] => b = c
    /\ \A k \in pinned : \E b \in Bufs : blockno[b] = k

\* What is not pinned is as on the disk.
CopiesRight ==
    \A b \in Bufs :
        /\ valid[b] => blockno[b] # None
        /\ blockno[b] \in pinned => valid[b]
        /\ valid[b] /\ blockno[b] \notin pinned => data[b] = disk[blockno[b]]

IInv == CacheSound /\ ProcsRight /\ LocksRight /\ BlocksRight /\ CopiesRight

-----------------------------------------------------------------------------
(* Sets of processes, positions in the list.                                *)

LEMMA CountIs ==
    ASSUME NEW U \in SUBSET Procs, NEW p \in Procs
    PROVE  /\ Cardinality(Procs) \in Nat
           /\ Cardinality(U) \in 0..Cardinality(Procs)
           /\ Cardinality(U \cup {p}) = IF p \in U THEN Cardinality(U) ELSE Cardinality(U) + 1
           /\ Cardinality(U \ {p}) = IF p \in U THEN Cardinality(U) - 1 ELSE Cardinality(U)
           /\ Cardinality(U) = 0 <=> U = {}
<1>1. IsFiniteSet(Procs)
  BY BufCacheAssumption
<1>2. IsFiniteSet(U) /\ Cardinality(U) <= Cardinality(Procs)
  BY <1>1, FS_Subset
<1>3. Cardinality(Procs) \in Nat /\ Cardinality(U) \in Nat
  BY <1>1, <1>2, FS_CardinalityType
<1>4. Cardinality(U \cup {p}) = IF p \in U THEN Cardinality(U) ELSE Cardinality(U) + 1
  BY <1>2, FS_AddElement
<1>5. Cardinality(U \ {p}) = IF p \in U THEN Cardinality(U) - 1 ELSE Cardinality(U)
  BY <1>2, FS_RemoveElement
<1>6. Cardinality(U) = 0 <=> U = {}
  BY <1>2, FS_EmptySet
<1> QED BY <1>2, <1>3, <1>4, <1>5, <1>6

LEMMA BufsFinite == Cardinality(Bufs) \in Nat
BY BufCacheAssumption, FS_CardinalityType

LEMMA LastIs ==
    ASSUME NEW n \in Nat, NEW S \in SUBSET (1..n), S # {}
    PROVE  Max(S) \in S
<1> DEFINE T == {n - x : x \in S}
           R == {pair \in Nat \X Nat : pair[1] < pair[2]}
<1>1. IsWellFoundedOn(R, Nat)
  BY NatLessThanWellFounded DEF OpToRel
<1>2. T \in SUBSET Nat /\ T # {}
  <2>1. \A x \in S : x \in 1..n /\ n - x \in Nat
    OBVIOUS
  <2>2. PICK x \in S : TRUE
    OBVIOUS
  <2> QED BY <2>1, <2>2
<1>3. \E t \in T : \A y \in T : ~ (<<y, t>> \in R)
  <2> HIDE DEF R, T
  <2> QED BY <1>1, <1>2, WFMin
<1>4. PICK t \in T : \A y \in T : ~ (<<y, t>> \in R)
  BY <1>3
<1>5. PICK x \in S : t = n - x
  OBVIOUS
<1>6. ASSUME NEW y \in S PROVE x >= y
  <2>1. n - y \in T /\ n - y \in Nat /\ t \in Nat /\ x \in Nat /\ y \in Nat
    OBVIOUS
  <2>2. ~ (n - y < t)
    BY <1>4, <2>1
  <2> QED BY <1>5, <2>1, <2>2
<1> QED BY <1>6 DEF Max

\* The buffer that bget() recycles exists and is not in use.
LEMMA RecycledIs ==
    ASSUME TypeOK, Unused # {}
    PROVE  lru[Max(Unused)] \in Bufs /\ refcnt[lru[Max(Unused)]] = 0
<1>1. Unused \in SUBSET (1..Cardinality(Bufs))
  BY DEF TypeOK, Unused
<1>2. Max(Unused) \in Unused
  BY <1>1, LastIs, BufsFinite
<1> QED BY <1>1, <1>2 DEF TypeOK, Unused

LEMMA ToHeadIs ==
    ASSUME TypeOK, NEW b \in Bufs
    PROVE  /\ ToHead(b) \in [1..Cardinality(Bufs) -> Bufs]
           /\ ToSet(ToHead(b)) = Bufs
<1> DEFINE n == Cardinality(Bufs)
           at == CHOOSE i \in DOMAIN lru : lru[i] = b
<1>1. n \in Nat /\ DOMAIN lru = 1..n /\ \A i \in 1..n : lru[i] \in Bufs
  BY BufsFinite DEF TypeOK
<1>2. \A c \in Bufs : \E i \in 1..n : lru[i] = c
  BY <1>1 DEF TypeOK, ToSet
<1>3. at \in 1..n /\ lru[at] = b
  BY <1>1, <1>2
<1>4. ToHead(b) = [i \in 1..n |-> IF i = 1 THEN b ELSE IF i <= at THEN lru[i - 1] ELSE lru[i]]
  BY <1>1 DEF ToHead
<1> HIDE DEF n, at
<1>5. ToHead(b) \in [1..n -> Bufs]
  BY <1>1, <1>3, <1>4
<1>6. ASSUME NEW c \in Bufs PROVE \E i \in 1..n : ToHead(b)[i] = c
  <2>1. PICK i \in 1..n : lru[i] = c
    BY <1>2
  <2>2. CASE i = at
    <3>1. 1 \in 1..n /\ ToHead(b)[1] = b
      BY <1>1, <1>3, <1>4
    <3> QED BY <1>3, <2>1, <2>2, <3>1
  <2>3. CASE i < at
    <3>1. i + 1 \in 1..n /\ i + 1 # 1 /\ i + 1 <= at /\ (i + 1) - 1 = i
      BY <1>1, <1>3, <2>3
    <3>2. ToHead(b)[i + 1] = lru[i]
      BY <1>4, <3>1
    <3> QED BY <2>1, <3>1, <3>2
  <2>4. CASE i > at
    BY <1>1, <1>3, <1>4, <2>1, <2>4
  <2> QED BY <1>1, <1>3, <2>2, <2>3, <2>4
<1>7. ToSet(ToHead(b)) = Bufs
  BY <1>5, <1>6 DEF ToSet
<1> QED BY <1>5, <1>7 DEF n

-----------------------------------------------------------------------------
(* The counts.                                                              *)

\* Nobody has a buffer whose count is 0, and the log has not pinned it.
LEMMA UnusedIs ==
    ASSUME IInv, NEW b \in Bufs, refcnt[b] = 0
    PROVE  /\ UsersOf(b) = {} /\ blockno[b] \notin pinned
           /\ locked[b] = None
<1>1. refcnt[b] = Cardinality(UsersOf(b)) + IF blockno[b] \in pinned THEN 1 ELSE 0
  BY DEF IInv, CacheSound, RefsCounted, References
<1>2. UsersOf(b) \in SUBSET Procs
  BY DEF UsersOf
<1>3. UsersOf(b) = {} /\ blockno[b] \notin pinned
  <2>1. CASE Procs = {}
    <3>1. UsersOf(b) = {} /\ Cardinality(UsersOf(b)) = 0
      BY <1>2, <2>1, FS_EmptySet
    <3> QED BY <1>1, <3>1
  <2>2. CASE Procs # {}
    <3>1. PICK p \in Procs : TRUE
      BY <2>2
    <3>2. /\ Cardinality(UsersOf(b)) \in 0..Cardinality(Procs) /\ Cardinality(Procs) \in Nat
          /\ Cardinality(UsersOf(b)) = 0 <=> UsersOf(b) = {}
      BY <1>2, <3>1, CountIs
    <3> QED BY <1>1, <3>2
  <2> QED BY <2>1, <2>2
<1>4. locked[b] \in Procs \cup {None}
  BY DEF IInv, CacheSound, TypeOK
<1> QED BY <1>3, <1>4 DEF IInv, LocksRight, UsersOf

\* The part of RefsCounted and TypeOK that a step with new counts has to show.
LEMMA Counted ==
    ASSUME NEW p \in Procs, refcnt' \in [Bufs -> Int],
           \A c \in Bufs : refcnt'[c] = Cardinality(UsersOf(c)') + (IF blockno'[c] \in pinned' THEN 1 ELSE 0)
    PROVE  RefsCounted' /\ refcnt' \in [Bufs -> 0..(Cardinality(Procs) + 1)]
<1>1. \A c \in Bufs : UsersOf(c)' \in SUBSET Procs
  BY DEF UsersOf
<1>2. \A c \in Bufs : Cardinality(UsersOf(c)') \in 0..Cardinality(Procs)
  BY <1>1, CountIs
<1>3. Cardinality(Procs) \in Nat
  BY <1>1, CountIs, BufCacheAssumption
<1>4. RefsCounted'
  BY DEF RefsCounted, References
<1>5. ASSUME NEW c \in Bufs PROVE refcnt'[c] \in 0..(Cardinality(Procs) + 1)
  <2> DEFINE k == Cardinality(UsersOf(c)')
  <2>1. k \in 0..Cardinality(Procs) /\ refcnt'[c] \in {k, k + 1}
    BY <1>2, <1>3
  <2> HIDE DEF k
  <2> QED BY <1>3, <2>1
<1> QED BY <1>4, <1>5

\* A step that changes no count, and nobody's buffers.
LEMMA CountsKept ==
    ASSUME IInv, NEW p \in Procs, UNCHANGED <<refcnt, blockno, pinned>>,
           \A c \in Bufs : UsersOf(c)' = UsersOf(c)
    PROVE  RefsCounted' /\ refcnt' \in [Bufs -> 0..(Cardinality(Procs) + 1)]
BY DEF IInv, CacheSound, TypeOK, RefsCounted, References

-----------------------------------------------------------------------------
(* One step.                                                                *)

LEMMA HitKeeps ==
    ASSUME IInv, NEW p \in Procs, NEW b \in Bufs, bget_hit(p, b)
    PROVE  IInv'
<1>a. b \notin held[p]
  <2>1. blockno[b] \in Nat
    BY BufCacheAssumption DEF IInv, CacheSound, TypeOK, bget_hit
  <2>2. ~(blockno[b] < blockno[b])
    BY <2>1
  <2> QED BY <2>2 DEF bget_hit, MayRead
<1>1. RefsCounted' /\ refcnt' \in [Bufs -> 0..(Cardinality(Procs) + 1)]
  <2>1. p \notin UsersOf(b)
    BY <1>a, BufCacheAssumption DEF IInv, ProcsRight, UsersOf, bget_hit, MayRead
  <2>2. \A c \in Bufs : UsersOf(c)' = IF c = b THEN UsersOf(c) \cup {p} ELSE UsersOf(c)
    BY BufCacheAssumption DEF IInv, CacheSound, TypeOK, ProcsRight, UsersOf, bget_hit, MayRead, Goto
  <2>3. UsersOf(b) \in SUBSET Procs
    BY DEF UsersOf
  <2>4. /\ Cardinality(UsersOf(b) \cup {p}) = Cardinality(UsersOf(b)) + 1
        /\ Cardinality(UsersOf(b)) \in Nat
    BY <2>1, <2>3, CountIs
  <2>5. \A c \in Bufs : refcnt[c] = Cardinality(UsersOf(c)) + (IF blockno[c] \in pinned THEN 1 ELSE 0)
    BY DEF IInv, CacheSound, RefsCounted, References
  <2>6. /\ refcnt' = [refcnt EXCEPT ![b] = @ + 1] /\ refcnt \in [Bufs -> Int]
        /\ UNCHANGED <<blockno, pinned>>
    BY DEF bget_hit, fields, IInv, CacheSound, TypeOK
  <2>7. \A c \in Bufs : refcnt'[c] = Cardinality(UsersOf(c)') + (IF blockno'[c] \in pinned' THEN 1 ELSE 0)
    BY <2>2, <2>4, <2>5, <2>6
  <2> QED BY <2>6, <2>7, Counted
<1>2. TypeOK'
  BY <1>1, BufCacheAssumption, <1>a DEF IInv, CacheSound, TypeOK, ProcsRight, bget_hit, fields, MayRead, Goto
<1>3. SleeperHasHolder'
  BY <1>1, BufCacheAssumption, <1>a DEF IInv, CacheSound, TypeOK, SleeperHasHolder, ProcsRight, bget_hit, fields, MayRead, Goto
<1>4. ProcsRight'
  BY <1>1, BufCacheAssumption, <1>a DEF IInv, CacheSound, TypeOK, ProcsRight, bget_hit, fields, MayRead, Goto
<1>5. LocksRight'
  BY <1>1, BufCacheAssumption, <1>a DEF IInv, CacheSound, TypeOK, ProcsRight, LocksRight, bget_hit, fields, MayRead, Goto
<1>6. BlocksRight'
  BY <1>1, BufCacheAssumption, <1>a DEF IInv, CacheSound, TypeOK, ProcsRight, BlocksRight, bget_hit, fields, MayRead, Goto
<1>7. CopiesRight'
  BY <1>1, BufCacheAssumption, <1>a DEF IInv, CacheSound, TypeOK, ProcsRight, BlocksRight, CopiesRight, bget_hit, fields, MayRead, Goto
<1> QED BY <1>1, <1>2, <1>3, <1>4, <1>5, <1>6, <1>7 DEF IInv, CacheSound

LEMMA RecycleKeeps ==
    ASSUME IInv, NEW p \in Procs, NEW k \in Blocks, bget_recycle(p, k)
    PROVE  IInv'
<1>a. PICK b \in Bufs :
      /\ refcnt[b] = 0
      /\ UsersOf(b) = {} /\ blockno[b] \notin pinned /\ locked[b] = None
      /\ \A q \in Procs : b \notin held[q] /\ buf[q] # b
      /\ pc[p] = "idle" /\ Cached(k) = {} /\ k # None
      /\ blockno' = [blockno EXCEPT ![b] = k]
      /\ valid' = [valid EXCEPT ![b] = FALSE]
      /\ refcnt' = [refcnt EXCEPT ![b] = 1]
      /\ pc' = [pc EXCEPT ![p] = "lock"] /\ buf' = [buf EXCEPT ![p] = b]
      /\ UNCHANGED <<data, locked, lru, disk, pinned, held, panicked>>
  <2> DEFINE b == lru[Max(Unused)]
  <2>1. b \in Bufs /\ refcnt[b] = 0
    BY RecycledIs DEF bget_recycle, IInv, CacheSound
  <2>2. k # None
    BY BufCacheAssumption
  <2>3. UsersOf(b) = {} /\ blockno[b] \notin pinned /\ locked[b] = None
    BY <2>1, UnusedIs
  <2>4. \A q \in Procs : b \notin held[q] /\ buf[q] # b
    BY <2>3 DEF UsersOf
  <2> QED BY <2>1, <2>2, <2>3, <2>4 DEF bget_recycle, MayRead, Goto
<1>1. RefsCounted' /\ refcnt' \in [Bufs -> 0..(Cardinality(Procs) + 1)]
  <2>1. \A c \in Bufs : UsersOf(c)' = IF c = b THEN {p} ELSE UsersOf(c)
    BY <1>a, BufCacheAssumption DEF IInv, CacheSound, TypeOK, ProcsRight, UsersOf
  <2>2. Cardinality({p}) = 1
    BY FS_Singleton
  <2>3. \A c \in Bufs : refcnt[c] = Cardinality(UsersOf(c)) + (IF blockno[c] \in pinned THEN 1 ELSE 0)
    BY DEF IInv, CacheSound, RefsCounted, References
  <2>4. refcnt \in [Bufs -> Int] /\ k \notin pinned
    BY <1>a DEF IInv, CacheSound, TypeOK, BlocksRight, Cached
  <2>5. \A c \in Bufs : blockno'[c] = IF c = b THEN k ELSE blockno[c]
    BY <1>a DEF IInv, CacheSound, TypeOK
  <2>6. ASSUME NEW c \in Bufs
        PROVE  refcnt'[c] = Cardinality(UsersOf(c)') + (IF blockno'[c] \in pinned' THEN 1 ELSE 0)
    <3>1. CASE c = b
      <4>1. refcnt'[b] = 1 /\ UsersOf(b)' = {p} /\ blockno'[b] \notin pinned'
        BY <1>a, <2>1, <2>4, <2>5
      <4> QED BY <2>2, <3>1, <4>1
    <3>2. CASE c # b
      <4>1. refcnt'[c] = refcnt[c] /\ UsersOf(c)' = UsersOf(c) /\ blockno'[c] = blockno[c]
        BY <1>a, <2>1, <2>4, <2>5, <3>2
      <4>2. pinned' = pinned
        BY <1>a
      <4> QED BY <2>3, <4>1, <4>2
    <3> QED BY <3>1, <3>2
  <2> QED BY <1>a, <2>4, <2>6, Counted
<1>2. TypeOK'
  BY <1>1, BufCacheAssumption, <1>a DEF IInv, CacheSound, TypeOK, ProcsRight, Cached
<1>3. SleeperHasHolder'
  BY <1>1, BufCacheAssumption, <1>a DEF IInv, CacheSound, TypeOK, SleeperHasHolder, ProcsRight, Cached
<1>4. ProcsRight'
  BY <1>1, BufCacheAssumption, <1>a DEF IInv, CacheSound, TypeOK, ProcsRight, Cached
<1>5. LocksRight'
  BY <1>1, BufCacheAssumption, <1>a DEF IInv, CacheSound, TypeOK, ProcsRight, LocksRight, Cached
<1>6. BlocksRight'
  BY <1>1, BufCacheAssumption, <1>a DEF IInv, CacheSound, TypeOK, ProcsRight, BlocksRight, Cached
<1>7. CopiesRight'
  BY <1>1, BufCacheAssumption, <1>a DEF IInv, CacheSound, TypeOK, ProcsRight, BlocksRight, CopiesRight, Cached
<1> QED BY <1>1, <1>2, <1>3, <1>4, <1>5, <1>6, <1>7 DEF IInv, CacheSound

LEMMA AcquireKeeps ==
    ASSUME IInv, NEW p \in Procs, acquiresleep(p)
    PROVE  IInv'
<1>1. RefsCounted' /\ refcnt' \in [Bufs -> 0..(Cardinality(Procs) + 1)]
  <2>1. \A c \in Bufs : UsersOf(c)' = UsersOf(c)
    BY DEF IInv, CacheSound, TypeOK, ProcsRight, UsersOf, acquiresleep, fields, Goto
  <2> QED BY <2>1, CountsKept DEF acquiresleep, fields, Goto
<1>2. TypeOK'
  BY <1>1, BufCacheAssumption DEF IInv, CacheSound, TypeOK, ProcsRight, acquiresleep, fields, Goto
<1>3. SleeperHasHolder'
  BY <1>1, BufCacheAssumption DEF IInv, CacheSound, TypeOK, SleeperHasHolder, ProcsRight, acquiresleep, fields, Goto
<1>4. ProcsRight'
  BY <1>1, BufCacheAssumption DEF IInv, CacheSound, TypeOK, ProcsRight, acquiresleep, fields, Goto
<1>5. LocksRight'
  BY <1>1, BufCacheAssumption DEF IInv, CacheSound, TypeOK, ProcsRight, LocksRight, acquiresleep, fields, Goto
<1>6. BlocksRight'
  BY <1>1, BufCacheAssumption DEF IInv, CacheSound, TypeOK, ProcsRight, BlocksRight, acquiresleep, fields, Goto
<1>7. CopiesRight'
  BY <1>1, BufCacheAssumption DEF IInv, CacheSound, TypeOK, ProcsRight, BlocksRight, CopiesRight, acquiresleep, fields, Goto
<1> QED BY <1>1, <1>2, <1>3, <1>4, <1>5, <1>6, <1>7 DEF IInv, CacheSound

LEMMA SleepKeeps ==
    ASSUME IInv, NEW p \in Procs, acquiresleep_sleep(p)
    PROVE  IInv'
<1>1. RefsCounted' /\ refcnt' \in [Bufs -> 0..(Cardinality(Procs) + 1)]
  <2>1. \A c \in Bufs : UsersOf(c)' = UsersOf(c)
    BY DEF IInv, CacheSound, TypeOK, ProcsRight, UsersOf, acquiresleep_sleep, fields, Goto
  <2> QED BY <2>1, CountsKept DEF acquiresleep_sleep, fields, Goto
<1>2. TypeOK'
  BY <1>1, BufCacheAssumption DEF IInv, CacheSound, TypeOK, ProcsRight, acquiresleep_sleep, fields, Goto
<1>3. SleeperHasHolder'
  BY <1>1, BufCacheAssumption DEF IInv, CacheSound, TypeOK, SleeperHasHolder, ProcsRight, acquiresleep_sleep, fields, Goto
<1>4. ProcsRight'
  BY <1>1, BufCacheAssumption DEF IInv, CacheSound, TypeOK, ProcsRight, acquiresleep_sleep, fields, Goto
<1>5. LocksRight'
  BY <1>1, BufCacheAssumption DEF IInv, CacheSound, TypeOK, ProcsRight, LocksRight, acquiresleep_sleep, fields, Goto
<1>6. BlocksRight'
  BY <1>1, BufCacheAssumption DEF IInv, CacheSound, TypeOK, ProcsRight, BlocksRight, acquiresleep_sleep, fields, Goto
<1>7. CopiesRight'
  BY <1>1, BufCacheAssumption DEF IInv, CacheSound, TypeOK, ProcsRight, BlocksRight, CopiesRight, acquiresleep_sleep, fields, Goto
<1> QED BY <1>1, <1>2, <1>3, <1>4, <1>5, <1>6, <1>7 DEF IInv, CacheSound

LEMMA BreadKeeps ==
    ASSUME IInv, NEW p \in Procs, bread(p)
    PROVE  IInv'
<1>a. PICK b \in Bufs :
      /\ b = buf[p] /\ pc[p] = "fill" /\ blockno[b] \in Blocks
      /\ valid' = [valid EXCEPT ![b] = TRUE]
      /\ data' \in [Bufs -> Vals] /\ \A c \in Bufs : c # b \/ valid[c] => data'[c] = data[c]
      /\ ~valid[b] => data'[b] = disk[blockno[b]]
      /\ held' = [held EXCEPT ![p] = @ \cup {b}]
      /\ pc' = [pc EXCEPT ![p] = "idle"] /\ buf' = [buf EXCEPT ![p] = None]
      /\ UNCHANGED <<blockno, refcnt, locked, lru, disk, pinned, panicked>>
  <2> DEFINE b == buf[p]
  <2>1. b \in Bufs /\ pc[p] = "fill" /\ blockno[b] \in Blocks
    BY DEF bread, IInv, CacheSound, TypeOK, ProcsRight
  <2>2. /\ data \in [Bufs -> Vals] /\ disk[blockno[b]] \in Vals
        /\ data' = [data EXCEPT ![b] = IF valid[b] THEN @ ELSE disk[blockno[b]]]
    BY <2>1 DEF bread, IInv, CacheSound, TypeOK
  <2>3. /\ data' \in [Bufs -> Vals] /\ \A c \in Bufs : c # b \/ valid[c] => data'[c] = data[c]
        /\ ~valid[b] => data'[b] = disk[blockno[b]]
    BY <2>1, <2>2
  <2> QED BY <2>1, <2>3 DEF bread, Goto
<1>1. RefsCounted' /\ refcnt' \in [Bufs -> 0..(Cardinality(Procs) + 1)]
  <2>1. \A c \in Bufs : UsersOf(c)' = UsersOf(c)
    BY BufCacheAssumption DEF IInv, CacheSound, TypeOK, ProcsRight, UsersOf, bread, Goto
  <2> QED BY <2>1, CountsKept DEF bread, Goto
<1>2. TypeOK'
  BY <1>1, BufCacheAssumption, <1>a DEF IInv, CacheSound, TypeOK, ProcsRight, bread, Goto
<1>3. SleeperHasHolder'
  BY <1>1, BufCacheAssumption, <1>a DEF IInv, CacheSound, TypeOK, SleeperHasHolder, ProcsRight, bread, Goto
<1>4. ProcsRight'
  BY <1>1, BufCacheAssumption, <1>a DEF IInv, CacheSound, TypeOK, ProcsRight, bread, Goto
<1>5. LocksRight'
  BY <1>1, BufCacheAssumption, <1>a DEF IInv, CacheSound, TypeOK, ProcsRight, LocksRight, bread, Goto
<1>6. BlocksRight'
  BY <1>1, BufCacheAssumption, <1>a DEF IInv, CacheSound, TypeOK, ProcsRight, BlocksRight, bread, Goto
<1>7. CopiesRight'
  BY <1>1, BufCacheAssumption, <1>a DEF IInv, CacheSound, TypeOK, ProcsRight, BlocksRight, CopiesRight, bread, Goto
<1> QED BY <1>1, <1>2, <1>3, <1>4, <1>5, <1>6, <1>7 DEF IInv, CacheSound

LEMMA BwriteKeeps ==
    ASSUME IInv, NEW p \in Procs, NEW b \in Bufs, NEW v \in Vals, bwrite(p, b, v)
    PROVE  IInv'
<1>1. RefsCounted' /\ refcnt' \in [Bufs -> 0..(Cardinality(Procs) + 1)]
  <2>1. \A c \in Bufs : UsersOf(c)' = UsersOf(c)
    BY DEF IInv, CacheSound, TypeOK, ProcsRight, UsersOf, bwrite, where
  <2> QED BY <2>1, CountsKept DEF bwrite, where
<1>2. TypeOK'
  BY <1>1, BufCacheAssumption DEF IInv, CacheSound, TypeOK, ProcsRight, bwrite, where, Holds
<1>3. SleeperHasHolder'
  BY <1>1, BufCacheAssumption DEF IInv, CacheSound, TypeOK, SleeperHasHolder, ProcsRight, bwrite, where, Holds
<1>4. ProcsRight'
  BY <1>1, BufCacheAssumption DEF IInv, CacheSound, TypeOK, ProcsRight, bwrite, where, Holds
<1>5. LocksRight'
  BY <1>1, BufCacheAssumption DEF IInv, CacheSound, TypeOK, ProcsRight, LocksRight, bwrite, where, Holds
<1>6. BlocksRight'
  BY <1>1, BufCacheAssumption DEF IInv, CacheSound, TypeOK, ProcsRight, BlocksRight, bwrite, where, Holds
<1>7. CopiesRight'
  BY <1>1, BufCacheAssumption DEF IInv, CacheSound, TypeOK, ProcsRight, BlocksRight, CopiesRight, bwrite, where, Holds
<1> QED BY <1>1, <1>2, <1>3, <1>4, <1>5, <1>6, <1>7 DEF IInv, CacheSound

LEMMA BpinKeeps ==
    ASSUME IInv, NEW p \in Procs, NEW b \in Bufs, NEW v \in Vals, bpin(p, b, v)
    PROVE  IInv'
<1>1. RefsCounted' /\ refcnt' \in [Bufs -> 0..(Cardinality(Procs) + 1)]
  <2>1. \A c \in Bufs : UsersOf(c)' = UsersOf(c)
    BY DEF UsersOf, bpin, where
  <2>2. \A c \in Bufs : refcnt[c] = Cardinality(UsersOf(c)) + (IF blockno[c] \in pinned THEN 1 ELSE 0)
    BY DEF IInv, CacheSound, RefsCounted, References
  <2>3. \A c \in Bufs : c # b => blockno[c] # blockno[b]
    BY DEF IInv, ProcsRight, BlocksRight, bpin, Holds
  <2>4. refcnt \in [Bufs -> Int] /\ UNCHANGED blockno
    BY DEF IInv, CacheSound, TypeOK, bpin, fields
  <2>5. \A c \in Bufs : UsersOf(c) \in SUBSET Procs
    BY DEF UsersOf
  <2>6. \A c \in Bufs : Cardinality(UsersOf(c)) \in 0..Cardinality(Procs)
    BY <2>5, CountIs
  <2>7. \A c \in Bufs : refcnt'[c] = Cardinality(UsersOf(c)') + (IF blockno'[c] \in pinned' THEN 1 ELSE 0)
    BY <2>1, <2>2, <2>3, <2>4, <2>6 DEF bpin, PinCount
  <2>8. refcnt' \in [Bufs -> Int]
    BY <2>4 DEF bpin, PinCount
  <2> QED BY <2>7, <2>8, Counted
<1>2. TypeOK'
  <2>1. blockno[b] \in Blocks
    BY DEF IInv, CacheSound, TypeOK, ProcsRight, bpin, Holds
  <2> QED BY <1>1, <2>1 DEF IInv, CacheSound, TypeOK, bpin, where
<1>3. SleeperHasHolder'
  BY <1>1, BufCacheAssumption DEF IInv, CacheSound, TypeOK, SleeperHasHolder, ProcsRight, bpin, where, Holds
<1>4. ProcsRight'
  BY <1>1, BufCacheAssumption DEF IInv, CacheSound, TypeOK, ProcsRight, bpin, where, Holds
<1>5. LocksRight'
  BY <1>1, BufCacheAssumption DEF IInv, CacheSound, TypeOK, ProcsRight, LocksRight, bpin, where, Holds
<1>6. BlocksRight'
  BY <1>1, BufCacheAssumption DEF IInv, CacheSound, TypeOK, ProcsRight, BlocksRight, bpin, where, Holds
<1>7. CopiesRight'
  BY <1>1, BufCacheAssumption DEF IInv, CacheSound, TypeOK, ProcsRight, BlocksRight, CopiesRight, bpin, where, Holds
<1> QED BY <1>1, <1>2, <1>3, <1>4, <1>5, <1>6, <1>7 DEF IInv, CacheSound

LEMMA BunpinKeeps ==
    ASSUME IInv, NEW p \in Procs, NEW b \in Bufs, bunpin(p, b)
    PROVE  IInv'
<1>1. RefsCounted' /\ refcnt' \in [Bufs -> 0..(Cardinality(Procs) + 1)]
  <2>1. \A c \in Bufs : UsersOf(c)' = UsersOf(c)
    BY DEF UsersOf, bunpin, where
  <2>2. \A c \in Bufs : refcnt[c] = Cardinality(UsersOf(c)) + (IF blockno[c] \in pinned THEN 1 ELSE 0)
    BY DEF IInv, CacheSound, RefsCounted, References
  <2>3. \A c \in Bufs : c # b => blockno[c] # blockno[b]
    BY DEF IInv, ProcsRight, BlocksRight, bunpin, Holds
  <2>4. refcnt \in [Bufs -> Int] /\ UNCHANGED blockno
    BY DEF IInv, CacheSound, TypeOK, bunpin, fields
  <2>5. \A c \in Bufs : UsersOf(c) \in SUBSET Procs
    BY DEF UsersOf
  <2>6. \A c \in Bufs : Cardinality(UsersOf(c)) \in 0..Cardinality(Procs)
    BY <2>5, CountIs
  <2>7. \A c \in Bufs : refcnt'[c] = Cardinality(UsersOf(c)') + (IF blockno'[c] \in pinned' THEN 1 ELSE 0)
    BY <2>1, <2>2, <2>3, <2>4, <2>6 DEF bunpin, PinCount
  <2>8. refcnt' \in [Bufs -> Int]
    BY <2>4 DEF bunpin, PinCount
  <2> QED BY <2>7, <2>8, Counted
<1>2. TypeOK'
  BY <1>1, BufCacheAssumption DEF IInv, CacheSound, TypeOK, ProcsRight, bunpin, where, fields, Holds
<1>3. SleeperHasHolder'
  BY <1>1, BufCacheAssumption DEF IInv, CacheSound, TypeOK, SleeperHasHolder, ProcsRight, bunpin, where, fields, Holds
<1>4. ProcsRight'
  BY <1>1, BufCacheAssumption DEF IInv, CacheSound, TypeOK, ProcsRight, bunpin, where, fields, Holds
<1>5. LocksRight'
  BY <1>1, BufCacheAssumption DEF IInv, CacheSound, TypeOK, ProcsRight, LocksRight, bunpin, where, fields, Holds
<1>6. BlocksRight'
  BY <1>1, BufCacheAssumption DEF IInv, CacheSound, TypeOK, ProcsRight, BlocksRight, bunpin, where, fields, Holds
<1>7. CopiesRight'
  BY <1>1, BufCacheAssumption DEF IInv, CacheSound, TypeOK, ProcsRight, BlocksRight, CopiesRight, bunpin, where, fields, Holds
<1> QED BY <1>1, <1>2, <1>3, <1>4, <1>5, <1>6, <1>7 DEF IInv, CacheSound

LEMMA ReleaseKeeps ==
    ASSUME IInv, NEW p \in Procs, NEW b \in Bufs, releasesleep(p, b)
    PROVE  IInv'
<1>1. RefsCounted' /\ refcnt' \in [Bufs -> 0..(Cardinality(Procs) + 1)]
  <2>1. \A c \in Bufs : UsersOf(c)' = UsersOf(c)
    BY BufCacheAssumption DEF IInv, CacheSound, TypeOK, ProcsRight, UsersOf, releasesleep, Holds, fields
  <2> QED BY <2>1, CountsKept DEF releasesleep, Holds, fields
<1>2. TypeOK'
  BY <1>1, BufCacheAssumption DEF IInv, CacheSound, TypeOK, ProcsRight, releasesleep, fields, Holds, Wakeup
<1>3. SleeperHasHolder'
  BY <1>1, BufCacheAssumption DEF IInv, CacheSound, TypeOK, SleeperHasHolder, ProcsRight, releasesleep, fields, Holds, Wakeup
<1>4. ProcsRight'
  BY <1>1, BufCacheAssumption DEF IInv, CacheSound, TypeOK, ProcsRight, releasesleep, fields, Holds, Wakeup
<1>5. LocksRight'
  BY <1>1, BufCacheAssumption DEF IInv, CacheSound, TypeOK, ProcsRight, LocksRight, releasesleep, fields, Holds, Wakeup
<1>6. BlocksRight'
  BY <1>1, BufCacheAssumption DEF IInv, CacheSound, TypeOK, ProcsRight, BlocksRight, releasesleep, fields, Holds, Wakeup
<1>7. CopiesRight'
  BY <1>1, BufCacheAssumption DEF IInv, CacheSound, TypeOK, ProcsRight, BlocksRight, CopiesRight, releasesleep, fields, Holds, Wakeup
<1> QED BY <1>1, <1>2, <1>3, <1>4, <1>5, <1>6, <1>7 DEF IInv, CacheSound

LEMMA BrelseKeeps ==
    ASSUME IInv, NEW p \in Procs, brelse(p)
    PROVE  IInv'
<1>a. PICK b \in Bufs :
      /\ b = buf[p] /\ pc[p] = "unref"
      /\ refcnt' = [refcnt EXCEPT ![b] = @ - 1]
      /\ lru' \in [1..Cardinality(Bufs) -> Bufs] /\ ToSet(lru') = Bufs
      /\ pc' = [pc EXCEPT ![p] = "idle"] /\ buf' = [buf EXCEPT ![p] = None]
      /\ UNCHANGED <<fields, locked, disk, pinned, held, panicked>>
      /\ UNCHANGED <<blockno, valid, data>>
  <2> DEFINE b == buf[p]
  <2>1. b \in Bufs /\ pc[p] = "unref"
    BY DEF brelse, IInv, CacheSound, TypeOK, ProcsRight
  <2>2. lru' \in {lru, ToHead(b)}
    BY DEF brelse
  <2>3. TypeOK
    BY DEF IInv, CacheSound
  <2>4. lru' \in [1..Cardinality(Bufs) -> Bufs] /\ ToSet(lru') = Bufs
    BY <2>1, <2>2, <2>3, ToHeadIs DEF TypeOK
  <2> QED BY <2>1, <2>4 DEF brelse, Goto, fields
<1>1. RefsCounted' /\ refcnt' \in [Bufs -> 0..(Cardinality(Procs) + 1)]
  <2>1. p \in UsersOf(b)
    BY <1>a DEF UsersOf
  <2>2. \A c \in Bufs : UsersOf(c)' = IF c = b THEN UsersOf(c) \ {p} ELSE UsersOf(c)
    BY <1>a, BufCacheAssumption DEF IInv, CacheSound, TypeOK, ProcsRight, UsersOf
  <2>3. UsersOf(b) \in SUBSET Procs
    BY DEF UsersOf
  <2>4. /\ Cardinality(UsersOf(b) \ {p}) = Cardinality(UsersOf(b)) - 1
        /\ Cardinality(UsersOf(b)) \in Nat
    <3>1. /\ Cardinality(Procs) \in Nat /\ Cardinality(UsersOf(b)) \in 0..Cardinality(Procs)
          /\ Cardinality(UsersOf(b) \ {p}) =
                IF p \in UsersOf(b) THEN Cardinality(UsersOf(b)) - 1 ELSE Cardinality(UsersOf(b))
      BY <2>3, CountIs
    <3> QED BY <2>1, <3>1
  <2>5. \A c \in Bufs : refcnt[c] = Cardinality(UsersOf(c)) + (IF blockno[c] \in pinned THEN 1 ELSE 0)
    BY DEF IInv, CacheSound, RefsCounted, References
  <2>6. refcnt \in [Bufs -> Int]
    BY DEF IInv, CacheSound, TypeOK
  <2>a. \A c \in Bufs : refcnt'[c] = IF c = b THEN refcnt[c] - 1 ELSE refcnt[c]
    BY <1>a, <2>6
  <2>b. UNCHANGED <<blockno, pinned>>
    BY <1>a
  <2>7. ASSUME NEW c \in Bufs
        PROVE  refcnt'[c] = Cardinality(UsersOf(c)') + (IF blockno'[c] \in pinned' THEN 1 ELSE 0)
    <3>1. CASE c = b
      <4>1. refcnt'[b] = refcnt[b] - 1 /\ UsersOf(b)' = UsersOf(b) \ {p}
        BY <1>a, <2>a, <2>2
      <4>2. refcnt[b] = Cardinality(UsersOf(b)) + (IF blockno[b] \in pinned THEN 1 ELSE 0)
        BY <1>a, <2>5
      <4>3. refcnt'[b] = Cardinality(UsersOf(b)') + (IF blockno[b] \in pinned THEN 1 ELSE 0)
        BY <2>4, <4>1, <4>2
      <4> QED BY <2>b, <3>1, <4>3
    <3>2. CASE c # b
      BY <2>a, <2>b, <2>2, <2>5, <3>2
    <3> QED BY <3>1, <3>2
  <2> QED BY <1>a, <2>6, <2>7, Counted
<1>2. TypeOK'
  BY <1>1, BufCacheAssumption, <1>a DEF IInv, CacheSound, TypeOK, ProcsRight, fields
<1>3. SleeperHasHolder'
  BY <1>1, BufCacheAssumption, <1>a DEF IInv, CacheSound, TypeOK, SleeperHasHolder, ProcsRight, fields
<1>4. ProcsRight'
  BY <1>1, BufCacheAssumption, <1>a DEF IInv, CacheSound, TypeOK, ProcsRight, fields
<1>5. LocksRight'
  BY <1>1, BufCacheAssumption, <1>a DEF IInv, CacheSound, TypeOK, ProcsRight, LocksRight, fields
<1>6. BlocksRight'
  BY <1>1, BufCacheAssumption, <1>a DEF IInv, CacheSound, TypeOK, ProcsRight, BlocksRight, fields
<1>7. CopiesRight'
  BY <1>1, BufCacheAssumption, <1>a DEF IInv, CacheSound, TypeOK, ProcsRight, BlocksRight, CopiesRight, fields
<1> QED BY <1>1, <1>2, <1>3, <1>4, <1>5, <1>6, <1>7 DEF IInv, CacheSound

-----------------------------------------------------------------------------
(* The cache is in order.                                                   *)

LEMMA InitSound == CacheInit => IInv
<1> SUFFICES ASSUME CacheInit PROVE IInv
  OBVIOUS
<1>1. Cardinality(Procs) \in Nat
  BY BufCacheAssumption, FS_CardinalityType
<1>2. lru \in [1..Cardinality(Bufs) -> Bufs] /\ ToSet(lru) = Bufs
  <2> DEFINE D == 1..Cardinality(Bufs)
  <2>1. lru \in [D -> Bufs] /\ \A i, j \in D : i # j => lru[i] # lru[j]
    BY DEF CacheInit, SetToSeqs
  <2>2. Cardinality(Bufs) \in Nat /\ IsFiniteSet(Bufs)
    BY BufsFinite, BufCacheAssumption
  <2>3. Cardinality(D) = Cardinality(Bufs)
    <3>1. \A n \in Nat : Cardinality(1..n) = n
      BY FS_Interval
    <3> QED BY <2>2, <3>1
  <2>4. lru \in Injection(D, Bufs)
    BY <2>1 DEF Injection, IsInjective
  <2> HIDE DEF D
  <2>5. lru \in Surjection(D, Bufs)
    BY <2>2, <2>3, <2>4, FS_Injection
  <2>6. \A c \in Bufs : \E i \in D : lru[i] = c
    BY <2>5 DEF Surjection
  <2>7. ToSet(lru) = Bufs
    BY <2>1, <2>6 DEF ToSet
  <2> QED BY <2>1, <2>7 DEF D
<1>3. TypeOK
  <2>1. refcnt \in [Bufs -> 0..(Cardinality(Procs) + 1)]
    BY <1>1 DEF CacheInit
  <2> QED BY <1>2, <2>1, BufCacheAssumption DEF CacheInit, TypeOK
<1>4. RefsCounted
  <2>1. \A b \in Bufs : UsersOf(b) = {} /\ blockno[b] \notin pinned /\ refcnt[b] = 0
    BY BufCacheAssumption DEF CacheInit, UsersOf
  <2> QED BY <2>1, FS_EmptySet DEF RefsCounted, References
<1>5. SleeperHasHolder /\ ProcsRight /\ LocksRight /\ BlocksRight /\ CopiesRight
  BY BufCacheAssumption
  DEF CacheInit, SleeperHasHolder, ProcsRight, LocksRight, BlocksRight, CopiesRight
<1> QED BY <1>3, <1>4, <1>5 DEF IInv, CacheSound

\* A step that changes nothing but panicked.
LEMMA QuietKeeps ==
    ASSUME IInv, UNCHANGED <<fields, refcnt, locked, lru, disk, pinned, where>>,
           panicked' \in BOOLEAN
    PROVE  IInv'
<1>1. \A b \in Bufs : UsersOf(b)' = UsersOf(b)
  BY DEF UsersOf, where
<1>2. RefsCounted'
  BY <1>1 DEF IInv, CacheSound, RefsCounted, References, fields
<1>3. TypeOK' /\ SleeperHasHolder'
  BY DEF IInv, CacheSound, TypeOK, SleeperHasHolder, fields, where
<1>4. ProcsRight' /\ LocksRight' /\ BlocksRight' /\ CopiesRight'
  BY DEF IInv, ProcsRight, LocksRight, BlocksRight, CopiesRight, fields, where
<1> QED BY <1>2, <1>3, <1>4 DEF IInv, CacheSound

LEMMA NextSound == IInv /\ [CacheNext]_cacheVars => IInv'
<1> SUFFICES ASSUME IInv, [CacheNext]_cacheVars PROVE IInv'
  OBVIOUS
<1>1. CASE UNCHANGED cacheVars \/ Halted
  BY <1>1, QuietKeeps DEF cacheVars, Halted, IInv, CacheSound, TypeOK
<1>2. ASSUME NEW p \in Procs, NEW k \in Blocks, bget_panic(p, k) PROVE IInv'
  BY <1>2, QuietKeeps DEF bget_panic
<1>3. ASSUME NEW p \in Procs, NEW b \in Bufs, bget_hit(p, b) PROVE IInv'
  BY <1>3, HitKeeps
<1>4. ASSUME NEW p \in Procs, NEW k \in Blocks, bget_recycle(p, k) PROVE IInv'
  BY <1>4, RecycleKeeps
<1>5. ASSUME NEW p \in Procs,
             acquiresleep(p) \/ acquiresleep_sleep(p) \/ bread(p) \/ brelse(p)
      PROVE  IInv'
  BY <1>5, AcquireKeeps, SleepKeeps, BreadKeeps, BrelseKeeps
<1>6. ASSUME NEW p \in Procs, NEW b \in Bufs, NEW v \in Vals,
             bwrite(p, b, v) \/ bpin(p, b, v)
      PROVE  IInv'
  BY <1>6, BwriteKeeps, BpinKeeps
<1>7. ASSUME NEW p \in Procs, NEW b \in Bufs, bunpin(p, b) \/ releasesleep(p, b)
      PROVE  IInv'
  BY <1>7, BunpinKeeps, ReleaseKeeps
<1> QED BY <1>1, <1>2, <1>3, <1>4, <1>5, <1>6, <1>7 DEF CacheNext

(***************************************************************************)
(* Whatever processes read, lock, wait for, log, pin and release, in any   *)
(* interleaving: the counts of bio.c are the references there are, nobody  *)
(* sleeps in acquiresleep() for a free lock, and the list keeps every      *)
(* buffer (bio.c:55-152, sleeplock.c:21-41).                               *)
(***************************************************************************)
THEOREM CacheIsSound == CacheSpec => []CacheSound
<1>1. IInv => CacheSound
  BY DEF IInv
<1> QED BY <1>1, InitSound, NextSound, PTL DEF CacheSpec

-----------------------------------------------------------------------------
(* One value and one holder per block.                                      *)

\* The buffer of a block says what the block's value is and who holds it.
CachedView ==
    \A b \in Bufs : blockno[b] # None =>
        /\ Value[blockno[b]] = IF valid[b] THEN data[b] ELSE disk[blockno[b]]
        /\ Holders[blockno[b]] = {locked[b]} \ {None}
\* The others are on the disk.
OtherView ==
    \A k \in Blocks : (\A b \in Bufs : blockno[b] # k) => Value[k] = disk[k] /\ Holders[k] = {}

LEMMA ViewOfCached == IInv => CachedView
<1> SUFFICES ASSUME IInv, NEW b \in Bufs, blockno[b] # None
             PROVE  /\ Value[blockno[b]] = IF valid[b] THEN data[b] ELSE disk[blockno[b]]
                    /\ Holders[blockno[b]] = {locked[b]} \ {None}
  BY DEF CachedView
<1> DEFINE k == blockno[b]
<1>1. k \in Blocks
  BY DEF IInv, CacheSound, TypeOK
<1>2. Cached(k) = {b}
  BY DEF IInv, BlocksRight, Cached
<1>3. Holders[k] = {locked[b]} \ {None}
  BY <1>1, <1>2 DEF Holders
<1>4. CASE valid[b]
  <2>1. (CHOOSE c \in {b} : valid[c]) = b
    BY <1>4
  <2>2. Value[k] = data[b]
    BY <1>1, <1>2, <1>4, <2>1 DEF Value
  <2> QED BY <1>3, <1>4, <2>2
<1>5. CASE ~valid[b]
  <2>1. Value[k] = disk[k]
    BY <1>1, <1>2, <1>5 DEF Value
  <2> QED BY <1>3, <1>5, <2>1
<1> QED BY <1>4, <1>5

LEMMA ViewOfOthers == OtherView
<1> SUFFICES ASSUME NEW k \in Blocks, \A b \in Bufs : blockno[b] # k
             PROVE  Value[k] = disk[k] /\ Holders[k] = {}
  BY DEF OtherView
<1>1. Cached(k) = {}
  BY DEF Cached
<1> QED BY <1>1 DEF Value, Holders

LEMMA ViewType == DOMAIN Value = Blocks /\ DOMAIN Holders = Blocks
BY DEF Value, Holders

\* What is cached, what is on the disk, and who has the locks.
content == <<blockno, valid, data, disk>>

LEMMA SameView ==
    /\ UNCHANGED content => Value' = Value
    /\ UNCHANGED <<blockno, locked>> => Holders' = Holders
BY DEF content, Value, Holders, Cached

\* One step of one block, the others are as they were.
LEMMA OneBlock ==
    ASSUME NEW k \in Blocks, \A j \in Blocks : j # k => Value'[j] = Value[j]
    PROVE  Value' = [Value EXCEPT ![k] = Value'[k]]
BY DEF Value

LEMMA OneHolder ==
    ASSUME NEW k \in Blocks, \A j \in Blocks : j # k => Holders'[j] = Holders[j]
    PROVE  Holders' = [Holders EXCEPT ![k] = Holders'[k]]
BY DEF Holders

LEMMA ViewsNext == IInv' => CachedView' /\ OtherView'
BY ViewOfCached, ViewOfOthers, PTL

\* A step that leaves the buffers of a block alone leaves its value alone.
LEMMA ValueKept ==
    ASSUME IInv, IInv', NEW j \in Blocks, UNCHANGED blockno, disk'[j] = disk[j],
           \A c \in Bufs : blockno[c] = j => valid'[c] = valid[c] /\ data'[c] = data[c]
    PROVE  Value'[j] = Value[j]
<1>1. CachedView /\ OtherView /\ CachedView' /\ OtherView'
  BY ViewOfCached, ViewOfOthers, ViewsNext
<1>2. CASE \A b \in Bufs : blockno[b] # j
  BY <1>1, <1>2 DEF OtherView
<1>3. CASE \E b \in Bufs : blockno[b] = j
  <2>1. PICK b \in Bufs : blockno[b] = j
    BY <1>3
  <2>2. j # None
    BY BufCacheAssumption
  <2>3. Value[j] = IF valid[b] THEN data[b] ELSE disk[j]
    BY <1>1, <2>1, <2>2 DEF CachedView
  <2>4. Value'[j] = IF valid'[b] THEN data'[b] ELSE disk'[j]
    BY <1>1, <2>1, <2>2 DEF CachedView
  <2> QED BY <2>1, <2>3, <2>4
<1> QED BY <1>2, <1>3

LEMMA HolderKept ==
    ASSUME IInv, IInv', NEW j \in Blocks, UNCHANGED blockno,
           \A c \in Bufs : blockno[c] = j => locked'[c] = locked[c]
    PROVE  Holders'[j] = Holders[j]
<1>1. CachedView /\ OtherView /\ CachedView' /\ OtherView'
  BY ViewOfCached, ViewOfOthers, ViewsNext
<1>2. CASE \A b \in Bufs : blockno[b] # j
  BY <1>1, <1>2 DEF OtherView
<1>3. CASE \E b \in Bufs : blockno[b] = j
  <2>1. PICK b \in Bufs : blockno[b] = j
    BY <1>3
  <2>2. j # None
    BY BufCacheAssumption
  <2>3. Holders[j] = {locked[b]} \ {None} /\ Holders'[j] = {locked'[b]} \ {None}
    BY <1>1, <2>1, <2>2 DEF CachedView
  <2> QED BY <2>1, <2>3
<1> QED BY <1>2, <1>3

LEMMA AllKept ==
    /\ (\A j \in Blocks : Value'[j] = Value[j]) => Value' = Value
    /\ (\A j \in Blocks : Holders'[j] = Holders[j]) => Holders' = Holders
BY DEF Value, Holders

\* bget() gives a buffer to another block: neither block changes its value.
LEMMA RecycleMaps ==
    ASSUME IInv, IInv', NEW p \in Procs, NEW k \in Blocks, bget_recycle(p, k)
    PROVE  UNCHANGED <<Value, Holders>>
<1>1. PICK b \in Bufs :
        /\ blockno[b] \notin pinned /\ locked[b] = None
        /\ blockno' = [blockno EXCEPT ![b] = k] /\ valid' = [valid EXCEPT ![b] = FALSE]
        /\ \A c \in Bufs : blockno[c] # k
        /\ UNCHANGED <<data, locked, disk>>
  <2> DEFINE b == lru[Max(Unused)]
  <2>1. b \in Bufs /\ refcnt[b] = 0
    BY RecycledIs DEF bget_recycle, IInv, CacheSound
  <2>2. blockno[b] \notin pinned /\ locked[b] = None
    BY <2>1, UnusedIs
  <2> QED BY <2>1, <2>2 DEF bget_recycle, Cached
<1>2. CachedView /\ OtherView /\ CachedView' /\ OtherView'
  BY ViewOfCached, ViewOfOthers, ViewsNext
<1>3. /\ blockno \in [Bufs -> Blocks \cup {None}] /\ valid \in [Bufs -> BOOLEAN]
      /\ None \notin Blocks
  BY BufCacheAssumption DEF IInv, CacheSound, TypeOK
<1>4. ASSUME NEW j \in Blocks
      PROVE  Value'[j] = Value[j] /\ Holders'[j] = Holders[j]
  <2>1. CASE j = k
    <3>1. Value[j] = disk[j] /\ Holders[j] = {}
      BY <1>1, <1>2, <2>1 DEF OtherView
    <3>2. blockno'[b] = j /\ ~valid'[b] /\ j # None /\ locked'[b] = None
      BY <1>1, <1>3, <2>1
    <3>3. Value'[j] = disk'[j] /\ Holders'[j] = {}
      BY <1>2, <3>2 DEF CachedView
    <3> QED BY <1>1, <3>1, <3>3
  <2>2. CASE j # k /\ \E c \in Bufs : c # b /\ blockno[c] = j
    <3>1. PICK c \in Bufs : c # b /\ blockno[c] = j
      BY <2>2
    <3>2. blockno'[c] = j /\ valid'[c] = valid[c] /\ j # None
      BY <1>1, <1>3, <3>1
    <3>3. /\ Value[j] = (IF valid[c] THEN data[c] ELSE disk[j])
          /\ Holders[j] = {locked[c]} \ {None}
      BY <1>2, <3>1, <3>2 DEF CachedView
    <3>4. /\ Value'[j] = (IF valid'[c] THEN data'[c] ELSE disk'[j])
          /\ Holders'[j] = {locked'[c]} \ {None}
      BY <1>2, <3>2 DEF CachedView
    <3> QED BY <1>1, <3>2, <3>3, <3>4
  <2>3. CASE j # k /\ \A c \in Bufs : c # b => blockno[c] # j
    <3>1. \A c \in Bufs : blockno'[c] # j
      BY <1>1, <1>3, <2>3
    <3>2. Value'[j] = disk'[j] /\ Holders'[j] = {}
      BY <1>2, <3>1 DEF OtherView
    <3>3. CASE blockno[b] = j
      <4>1. Value[j] = (IF valid[b] THEN data[b] ELSE disk[j]) /\ Holders[j] = {}
        BY <1>1, <1>2, <1>3, <3>3 DEF CachedView
      <4>2. valid[b] => data[b] = disk[j]
        BY <1>1, <3>3 DEF IInv, CopiesRight
      <4> QED BY <1>1, <3>2, <4>1, <4>2
    <3>4. CASE blockno[b] # j
      <4>1. Value[j] = disk[j] /\ Holders[j] = {}
        BY <1>2, <2>3, <3>4 DEF OtherView
      <4> QED BY <1>1, <3>2, <4>1
    <3> QED BY <3>3, <3>4
  <2> QED BY <2>1, <2>2, <2>3
<1> QED BY <1>4, AllKept

\* bread() fills a buffer with what its block is.
LEMMA BreadMaps ==
    ASSUME IInv, IInv', NEW p \in Procs, bread(p)
    PROVE  UNCHANGED <<Value, Holders>>
<1>1. PICK b \in Bufs :
        /\ blockno[b] # None
        /\ valid' = [valid EXCEPT ![b] = TRUE]
        /\ data' = [data EXCEPT ![b] = IF valid[b] THEN @ ELSE disk[blockno[b]]]
        /\ UNCHANGED <<blockno, locked, disk>>
  <2>1. buf[p] \in Bufs /\ blockno[buf[p]] # None
    BY DEF bread, IInv, CacheSound, TypeOK, ProcsRight
  <2> QED BY <2>1 DEF bread
<1>2. /\ data \in [Bufs -> Vals] /\ valid \in [Bufs -> BOOLEAN]
      /\ blockno \in [Bufs -> Blocks \cup {None}]
  BY DEF IInv, CacheSound, TypeOK
<1>3. CachedView /\ CachedView'
  BY ViewOfCached, ViewsNext
<1>4. Value[blockno[b]] = IF valid[b] THEN data[b] ELSE disk[blockno[b]]
  BY <1>1, <1>3 DEF CachedView
<1>5. Value'[blockno[b]] = data'[b]
  BY <1>1, <1>2, <1>3 DEF CachedView
<1>6. Value'[blockno[b]] = Value[blockno[b]]
  BY <1>1, <1>2, <1>4, <1>5
<1>7. ASSUME NEW j \in Blocks, j # blockno[b] PROVE Value'[j] = Value[j]
  <2>1. \A c \in Bufs : blockno[c] = j => valid'[c] = valid[c] /\ data'[c] = data[c]
    BY <1>1, <1>2, <1>7
  <2> QED BY <1>1, <2>1, ValueKept
<1>8. Value' = Value
  BY <1>6, <1>7, AllKept
<1> QED BY <1>1, <1>8, SameView

\* bwrite() and bpin() change the value of a block that the process holds.
LEMMA ChangeMaps ==
    ASSUME IInv, IInv', NEW p \in Procs, NEW b \in Bufs, NEW v \in Vals,
           bwrite(p, b, v) \/ bpin(p, b, v)
    PROVE  BS!Change(p, blockno[b])
<1>1. /\ Holds(p, b) /\ data' = [data EXCEPT ![b] = v]
      /\ disk' = disk \/ disk' = [disk EXCEPT ![blockno[b]] = v]
      /\ UNCHANGED <<blockno, valid, locked>>
  BY DEF bwrite, bpin
<1>2. locked[b] = p /\ valid[b] /\ blockno[b] # None /\ p # None
  BY <1>1, BufCacheAssumption DEF Holds, IInv, LocksRight, ProcsRight
<1>3. /\ data \in [Bufs -> Vals] /\ disk \in [Blocks -> Vals]
      /\ blockno \in [Bufs -> Blocks \cup {None}]
  BY DEF IInv, CacheSound, TypeOK
<1>4. blockno[b] \in Blocks
  BY <1>2, <1>3
<1>5. CachedView /\ CachedView'
  BY ViewOfCached, ViewsNext
<1>6. Holders[blockno[b]] = {p} /\ Holders' = Holders
  BY <1>1, <1>2, <1>5, SameView DEF CachedView
<1>7. Value'[blockno[b]] = v
  BY <1>1, <1>2, <1>3, <1>5 DEF CachedView
<1>8. ASSUME NEW j \in Blocks, j # blockno[b] PROVE Value'[j] = Value[j]
  <2>1. \A c \in Bufs : blockno[c] = j => valid'[c] = valid[c] /\ data'[c] = data[c]
    BY <1>1, <1>3, <1>8
  <2>2. disk'[j] = disk[j]
    BY <1>1, <1>3, <1>8
  <2> QED BY <1>1, <2>1, <2>2, ValueKept
<1>9. Value' = [Value EXCEPT ![blockno[b]] = v]
  BY <1>4, <1>7, <1>8, OneBlock
<1> QED BY <1>6, <1>9 DEF BS!Change

\* install_trans() writes home what readers already see.
LEMMA UnpinMaps ==
    ASSUME IInv, IInv', NEW p \in Procs, NEW b \in Bufs, bunpin(p, b)
    PROVE  UNCHANGED <<Value, Holders>>
<1>1. /\ disk' = [disk EXCEPT ![blockno[b]] = data[b]]
      /\ UNCHANGED <<blockno, valid, data, locked>>
  BY DEF bunpin, fields
<1>2. valid[b] /\ blockno[b] # None
  BY DEF bunpin, Holds, IInv, ProcsRight
<1>3. CachedView /\ CachedView'
  BY ViewOfCached, ViewsNext
<1>4. Value'[blockno[b]] = Value[blockno[b]]
  BY <1>1, <1>2, <1>3 DEF CachedView
<1>5. ASSUME NEW j \in Blocks, j # blockno[b] PROVE Value'[j] = Value[j]
  <2>1. disk'[j] = disk[j]
    BY <1>1, <1>5 DEF IInv, CacheSound, TypeOK
  <2> QED BY <1>1, <2>1, ValueKept
<1>6. Value' = Value
  BY <1>4, <1>5, AllKept
<1> QED BY <1>1, <1>6, SameView

\* The sleep lock of the buffer is the block's.
LEMMA TakeMaps ==
    ASSUME IInv, IInv', NEW p \in Procs, acquiresleep(p)
    PROVE  \E k \in Blocks : BS!Take(p, k)
<1>1. PICK b \in Bufs :
        /\ blockno[b] # None /\ locked[b] = None
        /\ locked' = [locked EXCEPT ![b] = p]
        /\ UNCHANGED content /\ UNCHANGED blockno
  BY DEF acquiresleep, fields, content, IInv, CacheSound, TypeOK, ProcsRight
<1>2. /\ blockno[b] \in Blocks /\ p # None
      /\ locked' \in [Bufs -> Procs \cup {None}] /\ locked'[b] = p
  BY <1>1, BufCacheAssumption DEF IInv, CacheSound, TypeOK
<1>3. CachedView /\ CachedView'
  BY ViewOfCached, ViewsNext
<1>4. Holders[blockno[b]] = {} /\ Holders'[blockno[b]] = {p}
  BY <1>1, <1>2, <1>3 DEF CachedView
<1>5. ASSUME NEW j \in Blocks, j # blockno[b] PROVE Holders'[j] = Holders[j]
  <2>1. \A c \in Bufs : blockno[c] = j => locked'[c] = locked[c]
    BY <1>1, <1>5 DEF IInv, CacheSound, TypeOK
  <2> QED BY <1>1, <2>1, HolderKept
<1>6. Holders' = [Holders EXCEPT ![blockno[b]] = {p}]
  BY <1>2, <1>4, <1>5, OneHolder
<1> QED BY <1>1, <1>2, <1>4, <1>6, SameView DEF BS!Take

LEMMA DropMaps ==
    ASSUME IInv, IInv', NEW p \in Procs, NEW b \in Bufs, releasesleep(p, b)
    PROVE  BS!Drop(p, blockno[b]) /\ blockno[b] \in Blocks
<1>1. /\ locked' = [locked EXCEPT ![b] = None]
      /\ UNCHANGED content /\ UNCHANGED blockno
      /\ Holds(p, b)
  BY DEF releasesleep, fields, content
<1>2. /\ blockno[b] # None /\ locked[b] = p /\ p # None
      /\ blockno[b] \in Blocks /\ locked'[b] = None
  BY <1>1, BufCacheAssumption DEF Holds, IInv, CacheSound, TypeOK, ProcsRight, LocksRight
<1>3. CachedView /\ CachedView'
  BY ViewOfCached, ViewsNext
<1>4. Holders[blockno[b]] = {p} /\ Holders'[blockno[b]] = {}
  BY <1>1, <1>2, <1>3 DEF CachedView
<1>5. ASSUME NEW j \in Blocks, j # blockno[b] PROVE Holders'[j] = Holders[j]
  <2>1. \A c \in Bufs : blockno[c] = j => locked'[c] = locked[c]
    BY <1>1, <1>5 DEF IInv, CacheSound, TypeOK
  <2> QED BY <1>1, <2>1, HolderKept
<1>6. Holders' = [Holders EXCEPT ![blockno[b]] = {}]
  BY <1>2, <1>4, <1>5, OneHolder
<1> QED BY <1>1, <1>2, <1>4, <1>6, SameView DEF BS!Drop

LEMMA StepMaps == IInv /\ [CacheNext]_cacheVars => [BS!Next]_(BS!vars)
<1> SUFFICES ASSUME IInv, [CacheNext]_cacheVars PROVE [BS!Next]_(BS!vars)
  OBVIOUS
<1>1. IInv'
  BY NextSound
<1>2. UNCHANGED <<Value, Holders>> => [BS!Next]_(BS!vars)
  BY DEF BS!vars
<1>3. UNCHANGED content /\ UNCHANGED locked => [BS!Next]_(BS!vars)
  <2>1. UNCHANGED content => UNCHANGED blockno
    BY DEF content
  <2> QED BY <1>2, <2>1, SameView
<1>4. CASE UNCHANGED cacheVars \/ Halted
  BY <1>3, <1>4 DEF cacheVars, fields, content, Halted
<1>5. ASSUME NEW p \in Procs, NEW b \in Bufs, bget_hit(p, b) PROVE [BS!Next]_(BS!vars)
  BY <1>3, <1>5 DEF bget_hit, fields, content
<1>6. ASSUME NEW p \in Procs, NEW k \in Blocks, bget_recycle(p, k) \/ bget_panic(p, k)
      PROVE  [BS!Next]_(BS!vars)
  <2>1. CASE bget_recycle(p, k)
    BY <1>1, <1>2, <2>1, RecycleMaps
  <2>2. CASE bget_panic(p, k)
    BY <1>3, <2>2 DEF bget_panic, fields, content
  <2> QED BY <1>6, <2>1, <2>2
<1>7. ASSUME NEW p \in Procs, acquiresleep_sleep(p) \/ brelse(p) PROVE [BS!Next]_(BS!vars)
  BY <1>3, <1>7 DEF acquiresleep_sleep, brelse, fields, content
<1>8. ASSUME NEW p \in Procs, acquiresleep(p) PROVE [BS!Next]_(BS!vars)
  <2>1. \E k \in Blocks : BS!Take(p, k)
    BY <1>1, <1>8, TakeMaps
  <2> QED BY <2>1 DEF BS!Next
<1>9. ASSUME NEW p \in Procs, bread(p) PROVE [BS!Next]_(BS!vars)
  BY <1>1, <1>2, <1>9, BreadMaps
<1>10. ASSUME NEW p \in Procs, NEW b \in Bufs, NEW v \in Vals, bwrite(p, b, v) \/ bpin(p, b, v)
       PROVE  [BS!Next]_(BS!vars)
  <2>1. BS!Change(p, blockno[b])
    BY <1>1, <1>10, ChangeMaps
  <2>2. blockno[b] \in Blocks
    BY <1>10 DEF bwrite, bpin, Holds, IInv, CacheSound, TypeOK, ProcsRight
  <2> QED BY <2>1, <2>2 DEF BS!Next
<1>11. ASSUME NEW p \in Procs, NEW b \in Bufs, bunpin(p, b) PROVE [BS!Next]_(BS!vars)
  BY <1>1, <1>2, <1>11, UnpinMaps
<1>12. ASSUME NEW p \in Procs, NEW b \in Bufs, releasesleep(p, b) PROVE [BS!Next]_(BS!vars)
  <2>1. BS!Drop(p, blockno[b]) /\ blockno[b] \in Blocks
    BY <1>1, <1>12, DropMaps
  <2> QED BY <2>1 DEF BS!Next
<1> QED BY <1>4, <1>5, <1>6, <1>7, <1>8, <1>9, <1>10, <1>11, <1>12 DEF CacheNext

LEMMA InitMaps == CacheInit => BS!Init
<1> SUFFICES ASSUME CacheInit PROVE BS!Init
  OBVIOUS
<1>1. \A k \in Blocks : \A b \in Bufs : blockno[b] # k
  BY BufCacheAssumption DEF CacheInit
<1>2. \A k \in Blocks : Value[k] = disk[k] /\ Holders[k] = {}
  BY <1>1, ViewOfOthers DEF OtherView
<1> QED BY <1>2 DEF BS!Init, CacheInit, Value, Holders

(***************************************************************************)
(* Whether a block is in a buffer, pinned, waited for or recycled: it has  *)
(* one value, which only the process that holds the block changes, and one *)
(* process holds it at a time (bio.c:1-16).                                *)
(***************************************************************************)
THEOREM CacheImplementsStore == CacheSpec => OneCopy
<1>1. CacheSpec => []IInv
  BY InitSound, NextSound, PTL DEF CacheSpec
<1> QED BY <1>1, InitMaps, StepMaps, PTL DEF CacheSpec, OneCopy, BS!Spec

-----------------------------------------------------------------------------
(* The disk driver.                                                         *)

Requests == [at : {"idle", "alloc", "nodesc", "wait", "woken", "done"},
             disk : BOOLEAN, idx : Seq(Desc), moved : BOOLEAN]

DiskTypeOK ==
    /\ dfree \in [Desc -> BOOLEAN] /\ info \in [Desc -> Callers \cup {Nobody}]
    /\ avail \in Seq(Desc) /\ seen \in SUBSET Desc /\ used \in Seq(Desc)
    /\ irq \in BOOLEAN /\ handling \in BOOLEAN
    /\ req \in [Callers -> Requests]

UnderWay(p) == req[p].at \in {"wait", "woken"}

\* Who has a chain, and when his block has been moved.
RequestsRight ==
    \A p \in Callers :
        /\ UnderWay(p) => Len(req[p].idx) = 3 /\ info[req[p].idx[1]] = p
        /\ ~UnderWay(p) => req[p].idx = <<>> /\ ~req[p].disk
        /\ req[p].at = "wait" => req[p].disk
        /\ (UnderWay(p) /\ ~req[p].disk) \/ req[p].at = "done" => req[p].moved

\* A descriptor is in one chain or free.
ChainsRight ==
    /\ \A d \in Desc : dfree[d] <=> \A p \in Callers : d \notin ToSet(req[p].idx)
    /\ \A d \in Desc, p, q \in Callers : d \in ToSet(req[p].idx) /\ d \in ToSet(req[q].idx) => p = q

Once(s) == \A i, j \in DOMAIN s : s[i] = s[j] => i = j

\* The rings hold each chain that the driver waits for once, and no other.
RingsRight ==
    /\ Once(avail) /\ Once(used)
    /\ ToSet(avail) \cap seen = {} /\ ToSet(avail) \cap ToSet(used) = {} /\ seen \cap ToSet(used) = {}
    /\ \A d \in ToSet(avail) \cup seen \cup ToSet(used) :
          \E p \in Callers : req[p].disk /\ req[p].idx[1] = d
    /\ \A p \in Callers : req[p].disk => req[p].idx[1] \in ToSet(avail) \cup seen \cup ToSet(used)
    /\ \A p \in Callers : req[p].disk /\ req[p].idx[1] \in ToSet(used) => req[p].moved

WakeupsRight ==
    /\ \A p \in Callers : req[p].at = "nodesc" => Cardinality(Free) < 3
    /\ used # <<>> => irq \/ handling

DInv == DiskTypeOK /\ RequestsRight /\ ChainsRight /\ RingsRight /\ WakeupsRight

-----------------------------------------------------------------------------
(* Rings and descriptors.                                                   *)

LEMMA AppendOnce ==
    ASSUME NEW S, NEW s \in Seq(S), NEW e \in S, Once(s), e \notin ToSet(s)
    PROVE  /\ Append(s, e) \in Seq(S)
           /\ ToSet(Append(s, e)) = ToSet(s) \cup {e}
           /\ Once(Append(s, e))
<1> DEFINE t == Append(s, e)  n == Len(s)
<1>1. /\ n \in Nat /\ DOMAIN s = 1..n /\ DOMAIN t = 1..(n + 1) /\ t \in Seq(S)
      /\ t[n + 1] = e /\ \A i \in 1..n : t[i] = s[i]
  BY AppendProperties, LenProperties
<1> HIDE DEF t, n
<1>2. ToSet(t) = ToSet(s) \cup {e}
  BY <1>1 DEF ToSet
<1>3. \A i \in 1..n : s[i] # e
  BY <1>1 DEF ToSet
<1>4. Once(t)
  BY <1>1, <1>3 DEF Once
<1> QED BY <1>1, <1>2, <1>4 DEF t

LEMMA TailOnce ==
    ASSUME NEW S, NEW s \in Seq(S), s # <<>>, Once(s)
    PROVE  /\ Head(s) \in ToSet(s) /\ Head(s) \in S /\ Tail(s) \in Seq(S)
           /\ ToSet(Tail(s)) = ToSet(s) \ {Head(s)}
           /\ Once(Tail(s))
<1> DEFINE t == Tail(s)  n == Len(s)
<1>1. /\ n \in Nat /\ n > 0 /\ DOMAIN s = 1..n /\ DOMAIN t = 1..(n - 1) /\ t \in Seq(S)
      /\ Head(s) = s[1] /\ \A i \in 1..(n - 1) : t[i] = s[i + 1]
      /\ \A i \in 1..n : s[i] \in S
  BY HeadTailProperties, LenProperties, ElementOfSeq, EmptySeq
<1> HIDE DEF t, n
<1>2. 1 \in 1..n /\ \A i \in 1..n : i = 1 \/ i - 1 \in 1..(n - 1)
  BY <1>1
<1>3. Head(s) \in ToSet(s) /\ Head(s) \in S
  BY <1>1, <1>2 DEF ToSet
<1>4. \A i \in 1..(n - 1) : i + 1 \in 1..n /\ i + 1 # 1
  BY <1>1
<1>5. ToSet(t) = ToSet(s) \ {Head(s)}
  <2>1. ASSUME NEW i \in 1..(n - 1) PROVE t[i] \in ToSet(s) /\ t[i] # s[1]
    <3>1. t[i] = s[i + 1] /\ i + 1 \in DOMAIN s /\ 1 \in DOMAIN s /\ i + 1 # 1
      BY <1>1, <1>2, <1>4
    <3>2. s[i + 1] \in ToSet(s)
      BY <3>1 DEF ToSet
    <3>3. s[i + 1] # s[1]
      BY <3>1 DEF Once
    <3> QED BY <3>1, <3>2, <3>3
  <2>2. ASSUME NEW x \in ToSet(s), x # s[1] PROVE x \in ToSet(t)
    <3>1. PICK i \in 1..n : x = s[i]
      BY <1>1 DEF ToSet
    <3>2. i - 1 \in 1..(n - 1) /\ t[i - 1] = s[i]
      <4>1. i # 1 /\ i - 1 \in 1..(n - 1)
        BY <1>2, <2>2, <3>1
      <4>2. t[i - 1] = s[(i - 1) + 1]
        BY <1>1, <4>1
      <4>3. (i - 1) + 1 = i
        BY <1>1
      <4> QED BY <4>1, <4>2, <4>3
    <3> QED BY <1>1, <3>1, <3>2 DEF ToSet
  <2>3. ASSUME NEW x \in ToSet(t) PROVE x \in ToSet(s) /\ x # s[1]
    <3>1. PICK i \in 1..(n - 1) : x = t[i]
      BY <1>1 DEF ToSet
    <3> QED BY <2>1, <3>1
  <2>4. Head(s) = s[1]
    BY <1>1
  <2> QED BY <2>2, <2>3, <2>4
<1>6. Once(t)
  <2>1. ASSUME NEW i \in 1..(n - 1), NEW j \in 1..(n - 1), t[i] = t[j] PROVE i = j
    <3>1. s[i + 1] = s[j + 1] /\ i + 1 \in DOMAIN s /\ j + 1 \in DOMAIN s
      BY <1>1, <1>4, <2>1
    <3>2. i + 1 = j + 1
      BY <3>1 DEF Once
    <3> QED BY <1>1, <3>2
  <2> QED BY <1>1, <2>1 DEF Once
<1> QED BY <1>1, <1>3, <1>5, <1>6 DEF t

LEMMA LeastIs ==
    ASSUME NEW T \in SUBSET Nat, T # {}
    PROVE  Min(T) \in T
<1> DEFINE R == {pair \in Nat \X Nat : pair[1] < pair[2]}
<1>1. IsWellFoundedOn(R, Nat)
  BY NatLessThanWellFounded DEF OpToRel
<1>2. \E x \in T : \A y \in T : ~ (<<y, x>> \in R)
  <2> HIDE DEF R
  <2> QED BY <1>1, WFMin
<1>3. PICK x \in T : \A y \in T : ~ (<<y, x>> \in R)
  BY <1>2
<1>4. ASSUME NEW y \in T PROVE x <= y
  <2>1. x \in Nat /\ y \in Nat
    OBVIOUS
  <2>2. <<y, x>> \in R <=> y < x
    BY <2>1
  <2> QED BY <1>3, <2>1, <2>2
<1> QED BY <1>4 DEF Min

LEMMA FreeFinite ==
    ASSUME NEW T \in SUBSET Desc
    PROVE  IsFiniteSet(T) /\ Cardinality(T) \in Nat
<1>1. IsFiniteSet(Desc)
  <2>1. NUM - 1 \in Int /\ 0 \in Int
    BY VirtioDiskAssumption
  <2> QED BY <2>1, FS_Interval DEF Desc
<1> QED BY <1>1, FS_Subset, FS_CardinalityType

\* alloc3_desc() finds three descriptors when there are three.
LEMMA ThreeFree ==
    ASSUME Cardinality(Free) >= 3
    PROVE  LET a == Min(Free)
               b == Min(Free \ {a})
               c == Min(Free \ {a, b})
           IN  a \in Free /\ b \in Free /\ c \in Free
<1> DEFINE a == Min(Free)  b == Min(Free \ {a})  c == Min(Free \ {a, b})
<1>1. Free \in SUBSET Desc /\ Free \in SUBSET Nat
  BY DEF Free, Desc
<1>2. IsFiniteSet(Free) /\ Cardinality(Free) \in Nat
  BY <1>1, FreeFinite
<1>3. a \in Free
  <2>1. Free # {}
    BY <1>2, FS_EmptySet
  <2> QED BY <1>1, <2>1, LeastIs
<1>4. IsFiniteSet(Free \ {a}) /\ Cardinality(Free \ {a}) = Cardinality(Free) - 1
  BY <1>2, <1>3, FS_RemoveElement
<1>5. b \in Free \ {a}
  <2>1. Free \ {a} # {}
    BY <1>2, <1>4, FS_EmptySet
  <2> HIDE DEF a
  <2> QED BY <1>1, <2>1, LeastIs
<1>6. /\ IsFiniteSet((Free \ {a}) \ {b})
      /\ Cardinality((Free \ {a}) \ {b}) = Cardinality(Free \ {a}) - 1
  BY <1>4, <1>5, FS_RemoveElement
<1>7. c \in Free \ {a, b}
  <2> HIDE DEF a, b
  <2>1. (Free \ {a}) \ {b} = Free \ {a, b}
    OBVIOUS
  <2>2. Free \ {a, b} # {}
    BY <1>2, <1>4, <1>6, <2>1, FS_EmptySet
  <2> QED BY <1>1, <2>2, LeastIs
<1> QED BY <1>3, <1>5, <1>7

-----------------------------------------------------------------------------
(* One step.                                                                *)

\* A step that only moves processes on: their chains are as they were.
LEMMA OnlyWalks ==
    ASSUME DInv, UNCHANGED <<dfree, info, avail, seen, used, irq, handling>>,
           req' \in [Callers -> Requests],
           \A p \in Callers :
               /\ req'[p].idx = req[p].idx /\ req'[p].disk = req[p].disk
               /\ req'[p].moved = req[p].moved \/ req'[p].at \in {"idle", "alloc"}
               /\ req'[p].at \in {"wait", "woken"} <=> UnderWay(p)
               /\ req'[p].at = "wait" => req[p].disk
               /\ req'[p].at = "done" => req[p].at = "done"
               /\ req'[p].at = "nodesc" => Cardinality(Free) < 3
    PROVE  DInv'
<1>1. DiskTypeOK'
  BY DEF DInv, DiskTypeOK
<1>2. RequestsRight'
  BY DEF DInv, RequestsRight, UnderWay
<1>3. ChainsRight'
  BY DEF DInv, ChainsRight
<1>4. RingsRight'
  <2>1. \A p \in Callers : req[p].disk => req'[p].moved = req[p].moved
    BY DEF DInv, RequestsRight, UnderWay
  <2> QED BY <2>1 DEF DInv, RingsRight
<1>5. WakeupsRight'
  BY DEF DInv, WakeupsRight, Free
<1> QED BY <1>1, <1>2, <1>3, <1>4, <1>5 DEF DInv

LEMMA WalksKeep ==
    ASSUME DInv, NEW p \in Callers,
           \/ virtio_disk_rw(p) \/ alloc_fails(p) \/ SleepAgain(p) \/ Release(p) \/ kill(p)
    PROVE  DInv'
<1>1. req \in [Callers -> Requests]
  BY DEF DInv, DiskTypeOK
<1>2. CASE virtio_disk_rw(p) \/ Release(p)
  <2>1. /\ req[p].idx = <<>> /\ ~req[p].disk /\ ~UnderWay(p)
    BY <1>2 DEF virtio_disk_rw, Release, DInv, RequestsRight, UnderWay
  <2>2. NoReq \in Requests /\ [NoReq EXCEPT !.at = "alloc"] \in Requests
    BY EmptySeq DEF NoReq, Requests
  <2>3. PICK r \in {NoReq, [NoReq EXCEPT !.at = "alloc"]} : req' = [req EXCEPT ![p] = r]
    BY <1>2 DEF virtio_disk_rw, Release, Becomes
  <2>4. /\ r \in Requests /\ r.at \in {"idle", "alloc"} /\ r.idx = <<>> /\ r.disk = FALSE
    <3>1. r \in Requests
      BY <2>2, <2>3
    <3>2. CASE r = NoReq
      BY <3>1, <3>2 DEF NoReq
    <3>3. CASE r = [NoReq EXCEPT !.at = "alloc"]
      BY <3>1, <3>3 DEF NoReq
    <3> QED BY <2>3, <3>2, <3>3
  <2>5. req[p].disk = FALSE
    BY <1>1, <2>1 DEF Requests
  <2>6. \A q \in Callers : req'[q] = IF q = p THEN r ELSE req[q]
    BY <1>1, <2>3
  <2>7. req' \in [Callers -> Requests]
    BY <1>1, <2>3, <2>4
  <2>8. UNCHANGED <<dfree, info, avail, seen, used, irq, handling>>
    BY <1>2 DEF virtio_disk_rw, Release
  <2>9. ASSUME NEW q \in Callers
        PROVE  /\ req'[q].idx = req[q].idx /\ req'[q].disk = req[q].disk
               /\ req'[q].moved = req[q].moved \/ req'[q].at \in {"idle", "alloc"}
               /\ req'[q].at \in {"wait", "woken"} <=> UnderWay(q)
               /\ req'[q].at = "wait" => req[q].disk
               /\ req'[q].at = "done" => req[q].at = "done"
               /\ req'[q].at = "nodesc" => Cardinality(Free) < 3
    BY <2>1, <2>4, <2>5, <2>6 DEF DInv, RequestsRight, WakeupsRight, UnderWay
  <2> QED BY <2>7, <2>8, <2>9, OnlyWalks
<1>3. CASE alloc_fails(p) \/ SleepAgain(p) \/ kill(p)
  <2>1. UNCHANGED <<dfree, info, avail, seen, used, irq, handling>>
    BY <1>3 DEF alloc_fails, SleepAgain, kill
  <2>2. ASSUME NEW q \in Callers
        PROVE  \E l \in {"idle", "alloc", "nodesc", "wait", "woken", "done"} :
                  /\ req'[q] = [req[q] EXCEPT !.at = l]
                  /\ l \in {"wait", "woken"} <=> UnderWay(q)
                  /\ l = "wait" => req[q].disk
                  /\ l = "done" => req[q].at = "done"
                  /\ l = "nodesc" => Cardinality(Free) < 3
    <3>1. req[q] \in Requests /\ req[q] = [req[q] EXCEPT !.at = req[q].at]
      BY <1>1 DEF Requests
    <3>2. /\ req[q].at = "wait" => req[q].disk
          /\ req[q].at = "nodesc" => Cardinality(Free) < 3
      BY DEF DInv, RequestsRight, WakeupsRight
    <3>3. CASE alloc_fails(p)
      <4>1. Cardinality(Free) < 3 /\ req[p].at = "alloc"
        BY <3>3 DEF alloc_fails
      <4>2. \/ req' = [req EXCEPT ![p] = [req[p] EXCEPT !.at = "nodesc"]]
            \/ req' = [x \in Callers |-> IF x = p THEN [req[p] EXCEPT !.at = "nodesc"]
                          ELSE [req[x] EXCEPT !.at = IF @ = "nodesc" THEN "alloc" ELSE @]]
        BY <3>3 DEF alloc_fails, Becomes, WakeAll
      <4>3. CASE q = p
        BY <1>1, <4>1, <4>2, <4>3 DEF UnderWay
      <4>4. CASE q # p
        <5>1. \/ req'[q] = req[q]
              \/ req'[q] = [req[q] EXCEPT !.at = IF req[q].at = "nodesc" THEN "alloc" ELSE req[q].at]
          BY <1>1, <4>2, <4>4
        <5> QED BY <3>1, <3>2, <5>1 DEF UnderWay, Requests
      <4> QED BY <4>3, <4>4
    <3>4. CASE SleepAgain(p)
      <4>1. req[p].at = "woken" /\ req[p].disk /\ req' = [req EXCEPT ![p] = [req[p] EXCEPT !.at = "wait"]]
        BY <3>4 DEF SleepAgain, Ready, Becomes
      <4>2. req'[q] = IF q = p THEN [req[q] EXCEPT !.at = "wait"] ELSE req[q]
        BY <1>1, <4>1
      <4> QED BY <3>1, <3>2, <4>1, <4>2 DEF UnderWay, Requests
    <3>5. CASE kill(p)
      <4>1. /\ req[p].at \in {"wait", "nodesc"}
            /\ req' = [req EXCEPT ![p] = [req[p] EXCEPT !.at = IF @ = "wait" THEN "woken" ELSE "alloc"]]
        BY <3>5 DEF kill, Becomes
      <4>2. req'[q] = IF q = p THEN [req[q] EXCEPT !.at = IF @ = "wait" THEN "woken" ELSE "alloc"] ELSE req[q]
        BY <1>1, <4>1
      <4> QED BY <3>1, <3>2, <4>1, <4>2 DEF UnderWay, Requests
    <3> QED BY <1>3, <3>3, <3>4, <3>5
  <2>3. DOMAIN req' = Callers /\ req' = [q \in Callers |-> req'[q]]
    BY <1>1, <1>3 DEF alloc_fails, SleepAgain, kill, Becomes, WakeAll
  <2>4. ASSUME NEW q \in Callers
        PROVE  /\ req'[q] \in Requests
               /\ req'[q].idx = req[q].idx /\ req'[q].disk = req[q].disk
               /\ req'[q].moved = req[q].moved \/ req'[q].at \in {"idle", "alloc"}
               /\ req'[q].at \in {"wait", "woken"} <=> UnderWay(q)
               /\ req'[q].at = "wait" => req[q].disk
               /\ req'[q].at = "done" => req[q].at = "done"
               /\ req'[q].at = "nodesc" => Cardinality(Free) < 3
    <3>1. PICK l \in {"idle", "alloc", "nodesc", "wait", "woken", "done"} :
                  /\ req'[q] = [req[q] EXCEPT !.at = l]
                  /\ l \in {"wait", "woken"} <=> UnderWay(q)
                  /\ l = "wait" => req[q].disk
                  /\ l = "done" => req[q].at = "done"
                  /\ l = "nodesc" => Cardinality(Free) < 3
      BY <2>2
    <3>2. req[q] \in Requests
      BY <1>1
    <3> QED BY <3>1, <3>2 DEF Requests
  <2>5. req' \in [Callers -> Requests]
    BY <2>3, <2>4
  <2> QED BY <2>1, <2>4, <2>5, OnlyWalks
<1> QED BY <1>2, <1>3

LEMMA HeadOfChain ==
    ASSUME DInv, NEW p \in Callers, UnderWay(p) \/ req[p].disk
    PROVE  /\ UnderWay(p) /\ req[p].idx[1] \in ToSet(req[p].idx)
           /\ req[p].idx[1] \in Desc /\ info[req[p].idx[1]] = p
<1>1. UnderWay(p) /\ Len(req[p].idx) = 3 /\ info[req[p].idx[1]] = p
  BY DEF DInv, RequestsRight
<1>2. req[p].idx \in Seq(Desc)
  BY DEF DInv, DiskTypeOK, Requests
<1>3. 1 \in DOMAIN req[p].idx /\ 1 \in 1..Len(req[p].idx)
  BY <1>1, <1>2, LenProperties
<1>4. req[p].idx[1] \in Desc
  BY <1>2, <1>3, ElementOfSeq
<1> QED BY <1>1, <1>3, <1>4 DEF ToSet

\* What is in a ring belongs to a chain.
LEMMA RingsInChains ==
    ASSUME DInv, NEW d \in ToSet(avail) \cup seen \cup ToSet(used)
    PROVE  \E p \in Callers : /\ req[p].disk /\ req[p].idx[1] = d /\ UnderWay(p)
                              /\ d \in ToSet(req[p].idx) /\ info[d] = p
<1>1. PICK p \in Callers : req[p].disk /\ req[p].idx[1] = d
  BY DEF DInv, RingsRight
<1> QED BY <1>1, HeadOfChain

LEMMA OfThree ==
    ASSUME NEW x \in Desc, NEW y \in Desc, NEW z \in Desc
    PROVE  /\ <<x, y, z>> \in Seq(Desc) /\ Len(<<x, y, z>>) = 3
           /\ <<x, y, z>>[1] = x /\ ToSet(<<x, y, z>>) = {x, y, z}
BY DEF ToSet

LEMMA SubmitKeeps ==
    ASSUME DInv, NEW p \in Callers, Submit(p)
    PROVE  DInv'
<1>1. PICK x, y, z \in Free :
          /\ dfree' = [d \in Desc |-> dfree[d] /\ d \notin ToSet(<<x, y, z>>)]
          /\ info' = [info EXCEPT ![x] = p]
          /\ avail' = Append(avail, x)
          /\ req' = [req EXCEPT ![p] = [req[p] EXCEPT !.at = "wait", !.disk = TRUE, !.idx = <<x, y, z>>]]
  <2> DEFINE a == Min(Free)  b == Min(Free \ {a})  c == Min(Free \ {a, b})
  <2>1. a \in Free /\ b \in Free /\ c \in Free
    BY ThreeFree DEF Submit
  <2>2. /\ dfree' = [d \in Desc |-> dfree[d] /\ d \notin ToSet(<<a, b, c>>)]
        /\ info' = [info EXCEPT ![a] = p]
        /\ avail' = Append(avail, a)
        /\ req' = [req EXCEPT ![p] = [req[p] EXCEPT !.at = "wait", !.disk = TRUE, !.idx = <<a, b, c>>]]
    BY DEF Submit, Becomes
  <2> HIDE DEF a, b, c
  <2> QED BY <2>1, <2>2
<1> DEFINE idx == <<x, y, z>>
           r == [req[p] EXCEPT !.at = "wait", !.disk = TRUE, !.idx = <<x, y, z>>]
<1>2. /\ req[p].at = "alloc" /\ Cardinality(Free) >= 3 /\ UNCHANGED <<seen, used, irq, handling>>
  BY DEF Submit
<1>3. x \in Desc /\ y \in Desc /\ z \in Desc /\ dfree[x] /\ dfree[y] /\ dfree[z]
  BY DEF Free
<1>4. idx \in Seq(Desc) /\ Len(idx) = 3 /\ idx[1] = x /\ ToSet(idx) = {x, y, z}
  BY <1>3, OfThree
<1> HIDE DEF idx
<1>5. req \in [Callers -> Requests] /\ dfree \in [Desc -> BOOLEAN]
      /\ info \in [Desc -> Callers \cup {Nobody}] /\ avail \in Seq(Desc)
  BY DEF DInv, DiskTypeOK
<1>6. /\ r \in Requests /\ r.at = "wait" /\ r.disk = TRUE /\ r.idx = idx /\ r.moved = req[p].moved
  <2>1. r = [req[p] EXCEPT !.at = "wait", !.disk = TRUE, !.idx = idx]
    BY DEF idx
  <2> HIDE DEF r
  <2> QED BY <1>4, <1>5, <2>1 DEF Requests
<1>7. req' \in [Callers -> Requests] /\ \A q \in Callers : req'[q] = IF q = p THEN r ELSE req[q]
  <2>1. req' = [req EXCEPT ![p] = r]
    BY <1>1
  <2> HIDE DEF r
  <2> QED BY <1>5, <1>6, <2>1
<1>8. \A q \in Callers : x \notin ToSet(req[q].idx) /\ y \notin ToSet(req[q].idx) /\ z \notin ToSet(req[q].idx)
  BY <1>3 DEF DInv, ChainsRight
<1>9. x \notin ToSet(avail) \cup seen \cup ToSet(used)
  BY <1>8, RingsInChains
<1>10. avail' \in Seq(Desc) /\ ToSet(avail') = ToSet(avail) \cup {x} /\ Once(avail')
  <2>1. Once(avail) /\ x \notin ToSet(avail)
    BY <1>9 DEF DInv, RingsRight
  <2> QED BY <1>1, <1>3, <1>5, <2>1, AppendOnce
<1>11. ~UnderWay(p) /\ req[p].idx = <<>> /\ ~req[p].disk
  BY <1>2 DEF DInv, RequestsRight, UnderWay
<1> HIDE DEF r
<1>12. info' \in [Desc -> Callers \cup {Nobody}] /\ info'[x] = p /\ \A d \in Desc : d # x => info'[d] = info[d]
  BY <1>1, <1>3, <1>5
<1>13. dfree' \in [Desc -> BOOLEAN] /\ \A d \in Desc : dfree'[d] <=> dfree[d] /\ d \notin {x, y, z}
  BY <1>1, <1>4, <1>5 DEF idx
<1>14. DiskTypeOK'
  BY <1>2, <1>7, <1>10, <1>12, <1>13 DEF DInv, DiskTypeOK
<1>15. RequestsRight'
  <2>1. ASSUME NEW q \in Callers, q # p, UnderWay(q)
        PROVE  info'[req[q].idx[1]] = q
    BY <1>8, <1>12, <2>1, HeadOfChain
  <2> QED BY <1>4, <1>6, <1>7, <1>12, <2>1 DEF DInv, RequestsRight, UnderWay
<1>16. ChainsRight'
  <2>1. /\ ToSet(req'[p].idx) = {x, y, z}
        /\ \A q \in Callers : q # p => ToSet(req'[q].idx) = ToSet(req[q].idx)
    BY <1>4, <1>6, <1>7
  <2>2. \A d : d \notin ToSet(req[p].idx)
    BY <1>11 DEF ToSet
  <2>3. ASSUME NEW d \in Desc
        PROVE  dfree'[d] <=> \A q \in Callers : d \notin ToSet(req'[q].idx)
    <3>1. dfree[d] <=> \A q \in Callers : d \notin ToSet(req[q].idx)
      BY DEF DInv, ChainsRight
    <3> QED BY <1>13, <2>1, <2>2, <3>1
  <2>4. ASSUME NEW d \in Desc, NEW q \in Callers, NEW s \in Callers,
               d \in ToSet(req'[q].idx), d \in ToSet(req'[s].idx)
        PROVE  q = s
    BY <1>8, <2>1, <2>4 DEF DInv, ChainsRight
  <2> QED BY <2>3, <2>4 DEF ChainsRight
<1>17. RingsRight'
  <2>1. \A d \in ToSet(avail') \cup seen' \cup ToSet(used') :
          \E q \in Callers : req'[q].disk /\ req'[q].idx[1] = d
    <3>1. ASSUME NEW d \in ToSet(avail) \cup seen \cup ToSet(used)
          PROVE  \E q \in Callers : req'[q].disk /\ req'[q].idx[1] = d
      BY <1>7, <1>11, RingsInChains
    <3>2. req'[p].disk /\ req'[p].idx[1] = x
      BY <1>4, <1>6, <1>7
    <3> QED BY <1>2, <1>10, <3>1, <3>2
  <2>2. \A q \in Callers : req'[q].disk =>
          /\ req'[q].idx[1] \in ToSet(avail') \cup seen' \cup ToSet(used')
          /\ req'[q].idx[1] \in ToSet(used') => req'[q].moved
    BY <1>2, <1>4, <1>6, <1>7, <1>9, <1>10 DEF DInv, RingsRight
  <2> QED BY <1>2, <1>9, <1>10, <2>1, <2>2 DEF DInv, RingsRight
<1>18. WakeupsRight'
  <2>1. Cardinality(Free) \in Nat /\ ~(Cardinality(Free) < 3)
    BY <1>2, FreeFinite DEF Free
  <2>2. \A q \in Callers : req'[q].at # "nodesc"
    BY <1>6, <1>7, <2>1 DEF DInv, WakeupsRight
  <2> QED BY <1>2, <2>2 DEF DInv, WakeupsRight
<1> QED BY <1>14, <1>15, <1>16, <1>17, <1>18 DEF DInv

LEMMA FinishKeeps ==
    ASSUME DInv, NEW p \in Callers, Finish(p)
    PROVE  DInv'
<1> DEFINE h == req[p].idx[1]  r == [req[p] EXCEPT !.at = "done", !.idx = <<>>]
<1>1. /\ req[p].at = "woken" /\ ~req[p].disk /\ UNCHANGED <<avail, seen, used, irq, handling>>
      /\ dfree' = [d \in Desc |-> dfree[d] \/ d \in ToSet(req[p].idx)]
      /\ info' = [info EXCEPT ![h] = Nobody]
      /\ req' = [q \in Callers |-> IF q = p THEN r
                   ELSE [req[q] EXCEPT !.at = IF @ = "nodesc" THEN "alloc" ELSE @]]
  BY DEF Finish, Ready, WakeAll
<1>2. UnderWay(p) /\ h \in ToSet(req[p].idx) /\ h \in Desc
  BY <1>1, HeadOfChain DEF UnderWay
<1>3. req \in [Callers -> Requests] /\ dfree \in [Desc -> BOOLEAN]
      /\ info \in [Desc -> Callers \cup {Nobody}]
  BY DEF DInv, DiskTypeOK
<1>4. /\ r \in Requests /\ r.at = "done" /\ r.disk = req[p].disk /\ r.idx = <<>> /\ r.moved = req[p].moved
  BY <1>3, EmptySeq DEF Requests
<1>5. req'[p] = r
  BY <1>1
<1>6. ASSUME NEW q \in Callers, q # p
      PROVE  /\ req'[q] \in Requests /\ req'[q].disk = req[q].disk /\ req'[q].idx = req[q].idx
             /\ req'[q].moved = req[q].moved /\ req'[q].at # "nodesc"
             /\ req'[q].at = req[q].at \/ (req[q].at = "nodesc" /\ req'[q].at = "alloc")
  <2>1. req'[q] = [req[q] EXCEPT !.at = IF @ = "nodesc" THEN "alloc" ELSE @]
    BY <1>1, <1>6
  <2> QED BY <1>3, <2>1 DEF Requests
<1> HIDE DEF h, r
<1>7. req' \in [Callers -> Requests]
  <2>1. DOMAIN req' = Callers /\ req' = [q \in Callers |-> req'[q]]
    BY <1>1
  <2> QED BY <1>4, <1>5, <1>6, <2>1
<1>8. info' \in [Desc -> Callers \cup {Nobody}] /\ \A d \in Desc : d # h => info'[d] = info[d]
  BY <1>1, <1>2, <1>3
<1>9. dfree' \in [Desc -> BOOLEAN] /\ \A d \in Desc : dfree'[d] <=> dfree[d] \/ d \in ToSet(req[p].idx)
  BY <1>1, <1>3
<1>10. DiskTypeOK'
  BY <1>1, <1>7, <1>8, <1>9 DEF DInv, DiskTypeOK
<1>11. RequestsRight'
  <2>1. req[p].moved
    BY <1>1, <1>2 DEF DInv, RequestsRight
  <2>2. ASSUME NEW q \in Callers, q # p, UnderWay(q)
        PROVE  info'[req[q].idx[1]] = q
    BY <1>2, <1>8, <2>2, HeadOfChain DEF DInv, ChainsRight
  <2>3. /\ ~UnderWay(p)' /\ req'[p].idx = <<>> /\ ~req'[p].disk
        /\ req'[p].at # "wait" /\ req'[p].moved
    BY <1>1, <1>4, <1>5, <2>1 DEF UnderWay
  <2>4. ASSUME NEW q \in Callers, q # p
        PROVE  /\ UnderWay(q)' => Len(req[q].idx) = 3 /\ info'[req[q].idx[1]] = q
               /\ ~UnderWay(q)' => req[q].idx = <<>> /\ ~req[q].disk
               /\ req'[q].at = "wait" => req[q].disk
               /\ (UnderWay(q)' /\ ~req[q].disk) \/ req'[q].at = "done" => req[q].moved
    <3>1. UnderWay(q)' <=> UnderWay(q)
      BY <1>6, <2>4 DEF UnderWay
    <3>2. req'[q].at \in {"wait", "done"} => req'[q].at = req[q].at
      BY <1>6, <2>4
    <3> QED BY <2>2, <2>4, <3>1, <3>2 DEF DInv, RequestsRight
  <2> QED BY <1>6, <2>3, <2>4 DEF RequestsRight
<1>12. ChainsRight'
  <2>1. \A d : d \notin ToSet(<<>>)
    BY DEF ToSet
  <2>2. ToSet(req'[p].idx) = {} /\ \A q \in Callers : q # p => ToSet(req'[q].idx) = ToSet(req[q].idx)
    BY <1>4, <1>5, <1>6, <2>1
  <2> QED BY <1>9, <2>2 DEF DInv, ChainsRight
<1>13. RingsRight'
  BY <1>1, <1>4, <1>5, <1>6 DEF DInv, RingsRight
<1>14. WakeupsRight'
  BY <1>1, <1>4, <1>5, <1>6 DEF DInv, WakeupsRight
<1> QED BY <1>10, <1>11, <1>12, <1>13, <1>14 DEF DInv

\* Steps of the device and of the interrupt.
LEMMA TakesKeeps ==
    ASSUME DInv, DeviceTakes
    PROVE  DInv'
<1> DEFINE h == Head(avail)
<1>1. /\ avail # <<>> /\ seen' = seen \cup {h} /\ avail' = Tail(avail)
      /\ UNCHANGED <<dfree, info, used, irq, handling, req>>
  BY DEF DeviceTakes
<1>2. /\ avail \in Seq(Desc) /\ Once(avail)
  BY DEF DInv, DiskTypeOK, RingsRight
<1>3. /\ h \in ToSet(avail) /\ h \in Desc /\ avail' \in Seq(Desc)
      /\ ToSet(avail') = ToSet(avail) \ {h} /\ Once(avail')
  BY <1>1, <1>2, TailOnce
<1> HIDE DEF h
<1>4. DiskTypeOK' /\ RequestsRight' /\ ChainsRight' /\ WakeupsRight'
  BY <1>1, <1>3 DEF DInv, DiskTypeOK, RequestsRight, UnderWay, ChainsRight, WakeupsRight, Free
<1>5. RingsRight'
  <2>1. ToSet(avail') \cup seen' = ToSet(avail) \cup seen
    BY <1>1, <1>3
  <2>2. ToSet(used') = ToSet(used) /\ req' = req /\ used' = used
    BY <1>1
  <2>3. /\ ToSet(avail') \cap seen' = {} /\ ToSet(avail') \cap ToSet(used') = {}
        /\ seen' \cap ToSet(used') = {}
    BY <1>1, <1>3, <2>2 DEF DInv, RingsRight
  <2> QED BY <1>3, <2>1, <2>2, <2>3 DEF DInv, RingsRight
<1> QED BY <1>4, <1>5 DEF DInv

LEMMA FinishesKeeps ==
    ASSUME DInv, NEW d \in Desc, DeviceFinishes(d)
    PROVE  DInv'
<1>1. /\ d \in seen /\ req' = [p \in Callers |-> [req[p] EXCEPT !.moved = @ \/ p = info[d]]]
      /\ seen' = seen \ {d} /\ used' = Append(used, d) /\ irq' = TRUE
      /\ UNCHANGED <<dfree, info, avail, handling>>
  BY DEF DeviceFinishes
<1>2. /\ used \in Seq(Desc) /\ Once(used) /\ d \notin ToSet(used) /\ d \notin ToSet(avail)
      /\ req \in [Callers -> Requests]
  BY <1>1 DEF DInv, DiskTypeOK, RingsRight
<1>3. used' \in Seq(Desc) /\ ToSet(used') = ToSet(used) \cup {d} /\ Once(used')
  BY <1>1, <1>2, AppendOnce
<1>4. ASSUME NEW p \in Callers
      PROVE  /\ req'[p] \in Requests /\ req'[p].at = req[p].at /\ req'[p].disk = req[p].disk
             /\ req'[p].idx = req[p].idx /\ req'[p].moved = (req[p].moved \/ p = info[d])
  <2>1. req'[p] = [req[p] EXCEPT !.moved = (req[p].moved \/ p = info[d])]
    BY <1>1
  <2>2. req[p] \in Requests /\ (req[p].moved \/ p = info[d]) \in BOOLEAN
    BY <1>2
  <2> QED BY <2>1, <2>2 DEF Requests
<1>5. req' \in [Callers -> Requests]
  <2>1. DOMAIN req' = Callers /\ req' = [p \in Callers |-> req'[p]]
    BY <1>1
  <2> QED BY <1>4, <2>1
<1>6. DiskTypeOK'
  BY <1>1, <1>3, <1>5 DEF DInv, DiskTypeOK
<1>7. RequestsRight'
  <2>1. ASSUME NEW p \in Callers
        PROVE  /\ req'[p].at = req[p].at /\ req'[p].disk = req[p].disk /\ req'[p].idx = req[p].idx
               /\ req[p].moved => req'[p].moved
    BY <1>4
  <2> QED BY <1>1, <2>1 DEF DInv, RequestsRight, UnderWay
<1>8. ChainsRight'
  <2>1. \A p \in Callers : req'[p].idx = req[p].idx
    BY <1>4
  <2> QED BY <1>1, <2>1 DEF DInv, ChainsRight
<1>9. RingsRight'
  <2>1. ToSet(avail') \cup seen' \cup ToSet(used') = ToSet(avail) \cup seen \cup ToSet(used)
    BY <1>1, <1>3
  <2>2. ASSUME NEW p \in Callers, req[p].disk, req[p].idx[1] \in ToSet(used')
        PROVE  req'[p].moved
    <3>1. CASE req[p].idx[1] = d
      BY <1>4, <2>2, <3>1, HeadOfChain
    <3>2. CASE req[p].idx[1] # d
      BY <1>3, <1>4, <2>2, <3>2 DEF DInv, RingsRight
    <3> QED BY <3>1, <3>2
  <2>3. /\ ToSet(avail') \cap seen' = {} /\ ToSet(avail') \cap ToSet(used') = {}
        /\ seen' \cap ToSet(used') = {} /\ Once(avail')
    BY <1>1, <1>2, <1>3 DEF DInv, RingsRight
  <2>4. \A p \in Callers : req'[p].disk = req[p].disk /\ req'[p].idx = req[p].idx
    BY <1>4
  <2>5. /\ \A e \in ToSet(avail') \cup seen' \cup ToSet(used') :
              \E p \in Callers : req'[p].disk /\ req'[p].idx[1] = e
        /\ \A p \in Callers : req'[p].disk =>
              req'[p].idx[1] \in ToSet(avail') \cup seen' \cup ToSet(used')
    BY <2>1, <2>4 DEF DInv, RingsRight
  <2>6. \A p \in Callers : req'[p].disk /\ req'[p].idx[1] \in ToSet(used') => req'[p].moved
    BY <2>2, <2>4
  <2> QED BY <1>3, <2>3, <2>5, <2>6 DEF RingsRight
<1>10. WakeupsRight'
  BY <1>1, <1>4 DEF DInv, WakeupsRight, Free
<1> QED BY <1>6, <1>7, <1>8, <1>9, <1>10 DEF DInv

LEMMA IntrOneKeeps ==
    ASSUME DInv, IntrOne
    PROVE  DInv'
<1> DEFINE h == Head(used)
<1>1. /\ handling /\ used # <<>> /\ used' = Tail(used)
      /\ req' = [req EXCEPT ![info[h]] = [req[info[h]] EXCEPT !.disk = FALSE, !.at = IF @ = "wait" THEN "woken" ELSE @]]
      /\ UNCHANGED <<dfree, info, avail, seen, irq, handling>>
  BY DEF IntrOne, Becomes
<1>2. used \in Seq(Desc) /\ Once(used) /\ req \in [Callers -> Requests]
  BY DEF DInv, DiskTypeOK, RingsRight
<1>3. /\ h \in ToSet(used) /\ h \in Desc /\ used' \in Seq(Desc)
      /\ ToSet(used') = ToSet(used) \ {h} /\ Once(used')
  BY <1>1, <1>2, TailOnce
<1> HIDE DEF h
<1>4. PICK p \in Callers : req[p].disk /\ req[p].idx[1] = h /\ UnderWay(p) /\ info[h] = p
  BY <1>3, RingsInChains
<1>5. req[p].moved
  BY <1>3, <1>4 DEF DInv, RingsRight
<1> DEFINE r == [req[p] EXCEPT !.disk = FALSE, !.at = IF @ = "wait" THEN "woken" ELSE @]
<1>6. r \in Requests /\ r.at = "woken" /\ r.disk = FALSE /\ r.idx = req[p].idx /\ r.moved = req[p].moved
  BY <1>2, <1>4 DEF Requests, UnderWay
<1>7. req' = [req EXCEPT ![p] = r]
  BY <1>1, <1>4
<1> HIDE DEF r
<1>8. req' \in [Callers -> Requests] /\ \A q \in Callers : req'[q] = IF q = p THEN r ELSE req[q]
  BY <1>2, <1>6, <1>7
<1>9. DiskTypeOK'
  BY <1>1, <1>3, <1>8 DEF DInv, DiskTypeOK
<1>10. RequestsRight'
  BY <1>1, <1>4, <1>5, <1>6, <1>8 DEF DInv, RequestsRight, UnderWay
<1>11. ChainsRight'
  <2>1. \A q \in Callers : req'[q].idx = req[q].idx
    BY <1>6, <1>8
  <2> QED BY <1>1, <2>1 DEF DInv, ChainsRight
<1>12. RingsRight'
  <2>1. h \notin ToSet(avail) /\ h \notin seen
    BY <1>3 DEF DInv, RingsRight
  <2>2. /\ ToSet(avail') = ToSet(avail) /\ seen' = seen /\ avail' = avail
    BY <1>1
  <2>3. ASSUME NEW d \in ToSet(avail') \cup seen' \cup ToSet(used')
        PROVE  \E q \in Callers : req'[q].disk /\ req'[q].idx[1] = d
    <3>1. d # h /\ d \in ToSet(avail) \cup seen \cup ToSet(used)
      BY <1>3, <2>1, <2>2, <2>3
    <3>2. PICK q \in Callers : req[q].disk /\ req[q].idx[1] = d
      BY <3>1, RingsInChains
    <3> QED BY <1>4, <1>8, <3>1, <3>2
  <2>4. ASSUME NEW q \in Callers, req'[q].disk
        PROVE  /\ req'[q].idx[1] \in ToSet(avail') \cup seen' \cup ToSet(used')
               /\ req'[q].idx[1] \in ToSet(used') => req'[q].moved
    <3>1. q # p /\ req'[q] = req[q] /\ req[q].disk
      BY <1>6, <1>8, <2>4
    <3>2. req[q].idx[1] # h
      BY <1>4, <3>1, HeadOfChain
    <3> QED BY <1>3, <2>2, <3>1, <3>2 DEF DInv, RingsRight
  <2> QED BY <1>3, <2>2, <2>3, <2>4 DEF DInv, RingsRight
<1>13. WakeupsRight'
  <2>1. \A q \in Callers : req'[q].at = "nodesc" => req[q].at = "nodesc"
    BY <1>6, <1>8
  <2> QED BY <1>1, <2>1 DEF DInv, WakeupsRight, Free
<1> QED BY <1>9, <1>10, <1>11, <1>12, <1>13 DEF DInv

LEMMA HandlerKeeps ==
    ASSUME DInv, Intr \/ IntrEnd
    PROVE  DInv'
<1>1. /\ UNCHANGED <<dfree, info, avail, seen, used, req>> /\ irq' \in BOOLEAN /\ handling' \in BOOLEAN
      /\ used # <<>> => irq' \/ handling'
  BY DEF Intr, IntrEnd, DInv, DiskTypeOK
<1> QED BY <1>1 DEF DInv, DiskTypeOK, RequestsRight, UnderWay, ChainsRight, RingsRight, WakeupsRight, Free

LEMMA InitDisk == virtio_disk_init => DInv
<1> SUFFICES ASSUME virtio_disk_init PROVE DInv
  OBVIOUS
<1>1. ToSet(<<>>) = {} /\ Once(<<>>)
  BY DEF ToSet, Once
<1>2. NoReq \in Requests
  BY EmptySeq DEF NoReq, Requests
<1>3. /\ req \in [Callers -> Requests] /\ \A p \in Callers : req[p] = NoReq
  BY <1>2 DEF virtio_disk_init
<1>4. \A p \in Callers : req[p].at = "idle" /\ ~req[p].disk /\ req[p].idx = <<>>
  BY <1>3 DEF NoReq
<1>5. DiskTypeOK
  BY <1>3, EmptySeq DEF virtio_disk_init, DiskTypeOK
<1>6. RequestsRight /\ WakeupsRight
  BY <1>4 DEF virtio_disk_init, RequestsRight, WakeupsRight, UnderWay
<1>7. ChainsRight
  BY <1>1, <1>4 DEF virtio_disk_init, ChainsRight
<1>8. RingsRight
  BY <1>1, <1>4 DEF virtio_disk_init, RingsRight
<1> QED BY <1>5, <1>6, <1>7, <1>8 DEF DInv

LEMMA DiskKeeps == DInv /\ [DiskNext]_diskVars => DInv'
<1> SUFFICES ASSUME DInv, [DiskNext]_diskVars PROVE DInv'
  OBVIOUS
<1>1. ASSUME NEW p \in Callers, virtio_disk_rw(p) \/ alloc_fails(p) \/ SleepAgain(p) \/ Release(p) \/ kill(p)
      PROVE  DInv'
  BY <1>1, WalksKeep
<1>2. ASSUME NEW p \in Callers, Submit(p) PROVE DInv'
  BY <1>2, SubmitKeeps
<1>3. ASSUME NEW p \in Callers, Finish(p) PROVE DInv'
  BY <1>3, FinishKeeps
<1>4. CASE DeviceTakes
  BY <1>4, TakesKeeps
<1>5. ASSUME NEW d \in Desc, DeviceFinishes(d) PROVE DInv'
  BY <1>5, FinishesKeeps
<1>6. CASE Intr \/ IntrEnd
  BY <1>6, HandlerKeeps
<1>7. CASE IntrOne
  BY <1>7, IntrOneKeeps
<1>8. CASE UNCHANGED diskVars
  BY <1>8 DEF diskVars, DInv, DiskTypeOK, RequestsRight, UnderWay, ChainsRight, RingsRight, WakeupsRight, Free
<1> QED BY <1>1, <1>2, <1>3, <1>4, <1>5, <1>6, <1>7, <1>8 DEF DiskNext

-----------------------------------------------------------------------------
(* What the invariant says of the driver.                                   *)

LEMMA SoundDisk == DInv => DiskSound
<1> SUFFICES ASSUME DInv PROVE DiskSound
  OBVIOUS
<1>1. ChainsDisjoint
  <2> SUFFICES ASSUME NEW d \in Desc
               PROVE  Cardinality({p \in Callers : d \in ToSet(req[p].idx)}) = IF dfree[d] THEN 0 ELSE 1
    BY DEF ChainsDisjoint
  <2> DEFINE W == {p \in Callers : d \in ToSet(req[p].idx)}
  <2>1. CASE dfree[d]
    <3>1. W = {}
      BY <2>1 DEF DInv, ChainsRight
    <3> QED BY <2>1, <3>1, FS_EmptySet
  <2>2. CASE ~dfree[d]
    <3>1. PICK p \in Callers : d \in ToSet(req[p].idx)
      BY <2>2 DEF DInv, ChainsRight
    <3>2. W = {p}
      BY <3>1 DEF DInv, ChainsRight
    <3> HIDE DEF W
    <3>3. Cardinality(W) = 1
      BY <3>2, FS_Singleton
    <3> QED BY <2>2, <3>3 DEF W
  <2> QED BY <2>1, <2>2
<1>2. Transferred
  BY DEF DInv, RequestsRight, Transferred
<1>3. NoneLost
  BY DEF DInv, RingsRight, NoneLost, Places
<1>4. NoneForgotten
  BY DEF DInv, RequestsRight, WakeupsRight, NoneForgotten
<1> QED BY <1>1, <1>2, <1>3, <1>4 DEF DiskSound

\* The disk driver with any number of callers and of descriptors: no
\* descriptor is lost or given out twice, a request that returns has moved its
\* block, none is lost on the rings, and every wake-up reaches its sleeper
\* (virtio_disk.c:210-327).
THEOREM DiskIsSound == DiskSpec => []DiskSound
<1>1. virtio_disk_init => DInv
  BY InitDisk
<1>2. DInv /\ [DiskNext]_diskVars => DInv'
  BY DiskKeeps
<1>3. DInv => DiskSound
  BY SoundDisk
<1> QED BY <1>1, <1>2, <1>3, PTL DEF DiskSpec
================================================================================
