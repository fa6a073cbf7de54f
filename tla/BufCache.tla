------------------------------ MODULE BufCache ------------------------------
(***************************************************************************)
(* The buffer cache of kernel/bio.c and the sleep locks of                 *)
(* kernel/sleeplock.c: processes read blocks into shared buffers, change   *)
(* them, give them to the log, which pins them, and release them.  A       *)
(* section under bcache.lock, or under the spin lock of a sleep lock, is   *)
(* one step.  Whoever changes a buffer writes or logs it before releasing  *)
(* it; writei() does not when the user's address is bad (fs.c:521-524).    *)
(***************************************************************************)
EXTENDS Naturals, FiniteSetsExt, SequencesExt

CONSTANTS
    Procs,
    Bufs,       \* bcache.buf
    Blocks,     \* block numbers
    Vals, Blank,
    None,
    LOGSIZE,    \* how many blocks the log pins at most
    MaxHeld     \* how many buffers a system call holds at a time

ASSUME BufCacheAssumption ==
    /\ IsFiniteSet(Procs)
    /\ Blocks \subseteq Nat /\ None \notin Nat \cup Procs \cup Bufs
    /\ IsFiniteSet(Bufs) /\ Bufs # {}
    /\ Blank \in Vals
    /\ LOGSIZE \in Nat /\ MaxHeld \in Nat \ {0}

VARIABLES
    blockno, refcnt, valid, data,   \* fields of each buffer
    locked,     \* the process that has its sleep lock
    lru,        \* the list from bcache.head.next, most recently used first
    disk,
    pinned,     \* the blocks that log_write() has pinned
    pc, buf,    \* where each process is, on which buffer
    held,       \* the buffers it holds between calls
    panicked

fields == <<blockno, valid, data>>
where  == <<pc, buf, held>>
cacheVars == <<fields, refcnt, locked, lru, disk, pinned, where, panicked>>

TypeOK ==
    /\ blockno \in [Bufs -> Blocks \cup {None}]
    /\ refcnt \in [Bufs -> 0..(Cardinality(Procs) + 1)]
    /\ valid \in [Bufs -> BOOLEAN]
    /\ data \in [Bufs -> Vals]
    /\ locked \in [Bufs -> Procs \cup {None}]
    /\ lru \in [1..Cardinality(Bufs) -> Bufs] /\ ToSet(lru) = Bufs
    /\ disk \in [Blocks -> Vals]
    /\ pinned \in SUBSET Blocks
    /\ pc \in [Procs -> {"idle", "lock", "asleep", "fill", "unref"}]
    /\ buf \in [Procs -> Bufs \cup {None}]
    /\ held \in [Procs -> SUBSET Bufs]
    /\ panicked \in BOOLEAN

\* binit(); which buffer comes first does not matter.
CacheInit ==
    /\ blockno = [b \in Bufs |-> None]
    /\ refcnt = [b \in Bufs |-> 0]
    /\ valid = [b \in Bufs |-> FALSE]
    /\ data = [b \in Bufs |-> Blank]
    /\ locked = [b \in Bufs |-> None]
    /\ lru \in SetToSeqs(Bufs)
    /\ disk = [k \in Blocks |-> Blank]
    /\ pinned = {}
    /\ pc = [p \in Procs |-> "idle"]
    /\ buf = [p \in Procs |-> None]
    /\ held = [p \in Procs |-> {}]
    /\ panicked = FALSE

(* Definitions named Bug_... are deliberate faults: each is the definition  *)
(* that follows it with one slip, kept to show which property notices it.   *)

Goto(p, l, b) ==
    /\ pc' = [pc EXCEPT ![p] = l]
    /\ buf' = [buf EXCEPT ![p] = b]

-----------------------------------------------------------------------------
(* bget() and bread()                                                       *)

\* A system call that holds a buffer asks for another only in a fixed order
\* of blocks: a log block before its home block (log.c:73-74, 184-185), an
\* indirect block before the bitmap or a new block (fs.c:407-412, 440-447).
MayRead(p, k) ==
    /\ ~panicked /\ pc[p] = "idle"
    /\ Cardinality(held[p]) < MaxHeld
    /\ \A b \in held[p] : blockno[b] < k

Cached(k) == {b \in Bufs : blockno[b] = k}

bget_hit(p, b) ==
    /\ blockno[b] # None /\ MayRead(p, blockno[b])
    /\ refcnt' = [refcnt EXCEPT ![b] = @ + 1]
    /\ Goto(p, "lock", b)
    /\ UNCHANGED <<fields, locked, lru, disk, pinned, held, panicked>>

Unused == {i \in DOMAIN lru : refcnt[lru[i]] = 0}

bget_recycle(p, k) ==
    /\ MayRead(p, k) /\ Cached(k) = {}
    /\ Unused # {}
    /\ LET b == lru[Max(Unused)] IN
       /\ blockno' = [blockno EXCEPT ![b] = k]
       /\ valid' = [valid EXCEPT ![b] = FALSE]
       /\ refcnt' = [refcnt EXCEPT ![b] = 1]
       /\ Goto(p, "lock", b)
    /\ UNCHANGED <<data, locked, lru, disk, pinned, held, panicked>>

\* "bget: no buffers"
bget_panic(p, k) ==
    /\ MayRead(p, k) /\ Cached(k) = {} /\ Unused = {}
    /\ panicked' = TRUE
    /\ UNCHANGED <<fields, refcnt, locked, lru, disk, pinned, where>>

acquiresleep(p) ==
    /\ ~panicked /\ pc[p] = "lock" /\ locked[buf[p]] = None
    /\ locked' = [locked EXCEPT ![buf[p]] = p]
    /\ Goto(p, "fill", buf[p])
    /\ UNCHANGED <<fields, refcnt, lru, disk, pinned, held, panicked>>

acquiresleep_sleep(p) ==
    /\ ~panicked /\ pc[p] = "lock" /\ locked[buf[p]] # None
    /\ Goto(p, "asleep", buf[p])
    /\ UNCHANGED <<fields, refcnt, locked, lru, disk, pinned, held, panicked>>

\* bread() reads the disk unless the buffer is valid.
bread(p) ==
    /\ ~panicked /\ pc[p] = "fill"
    /\ LET b == buf[p] IN
       /\ valid' = [valid EXCEPT ![b] = TRUE]
       /\ data' = [data EXCEPT ![b] = IF valid[b] THEN @ ELSE disk[blockno[b]]]
       /\ held' = [held EXCEPT ![p] = @ \cup {b}]
    /\ Goto(p, "idle", None)
    /\ UNCHANGED <<blockno, refcnt, locked, lru, disk, pinned, panicked>>

-----------------------------------------------------------------------------
(* What a process does with a buffer that it holds.                         *)

Holds(p, b) == ~panicked /\ pc[p] = "idle" /\ b \in held[p]

\* bwrite() of the log's own blocks, which are never pinned.
bwrite(p, b, v) ==
    /\ Holds(p, b) /\ blockno[b] \notin pinned
    /\ data' = [data EXCEPT ![b] = v]
    /\ disk' = [disk EXCEPT ![blockno[b]] = v]
    /\ UNCHANGED <<blockno, valid, refcnt, locked, lru, pinned, where, panicked>>

Bug_PinCount_Always(k) == 1
\* log_write() pins a block when it enters the list.
PinCount(k) == IF k \in pinned THEN 0 ELSE 1

\* The buffer is changed and given to log_write(): bpin().
bpin(p, b, v) ==
    /\ Holds(p, b)
    /\ Cardinality(pinned \cup {blockno[b]}) <= LOGSIZE
    /\ data' = [data EXCEPT ![b] = v]
    /\ refcnt' = [refcnt EXCEPT ![b] = @ + PinCount(blockno[b])]
    /\ pinned' = pinned \cup {blockno[b]}
    /\ UNCHANGED <<blockno, valid, locked, lru, disk, where, panicked>>

Bug_bunpin_NoWrite(p, b) ==
    /\ Holds(p, b) /\ blockno[b] \in pinned
    /\ refcnt' = [refcnt EXCEPT ![b] = @ - 1]
    /\ pinned' = pinned \ {blockno[b]}
    /\ UNCHANGED <<fields, locked, lru, disk, where, panicked>>

\* install_trans(): bwrite(dbuf); bunpin(dbuf).
bunpin(p, b) ==
    /\ Holds(p, b) /\ blockno[b] \in pinned
    /\ disk' = [disk EXCEPT ![blockno[b]] = data[b]]
    /\ refcnt' = [refcnt EXCEPT ![b] = @ - 1]
    /\ pinned' = pinned \ {blockno[b]}
    /\ UNCHANGED <<fields, locked, lru, where, panicked>>

-----------------------------------------------------------------------------
(* brelse()                                                                 *)

\* wakeup(lk) in releasesleep()
Wakeup(b) ==
    [q \in Procs |-> IF pc[q] = "asleep" /\ buf[q] = b THEN "lock" ELSE pc[q]]

releasesleep(p, b) ==
    /\ Holds(p, b)
    /\ locked' = [locked EXCEPT ![b] = None]
    /\ held' = [held EXCEPT ![p] = @ \ {b}]
    /\ pc' = [Wakeup(b) EXCEPT ![p] = "unref"]
    /\ buf' = [buf EXCEPT ![p] = b]
    /\ UNCHANGED <<fields, refcnt, lru, disk, pinned, panicked>>

\* b moves to the front of the list, those before it one place back.
ToHead(b) ==
    LET at == CHOOSE i \in DOMAIN lru : lru[i] = b
    IN  [i \in DOMAIN lru |-> IF i = 1 THEN b ELSE IF i <= at THEN lru[i - 1] ELSE lru[i]]

\* The count is dropped after the sleep lock is free.
brelse(p) ==
    /\ ~panicked /\ pc[p] = "unref"
    /\ LET b == buf[p] IN
       /\ refcnt' = [refcnt EXCEPT ![b] = @ - 1]
       /\ lru' = IF refcnt[b] = 1 THEN ToHead(b) ELSE lru
    /\ Goto(p, "idle", None)
    /\ UNCHANGED <<fields, locked, disk, pinned, held, panicked>>

\* panic() loops for ever.
Halted == panicked /\ UNCHANGED cacheVars

-----------------------------------------------------------------------------

CacheNext ==
    \/ \E p \in Procs :
          \/ \E b \in Bufs : bget_hit(p, b)
          \/ \E k \in Blocks : bget_recycle(p, k) \/ bget_panic(p, k)
          \/ acquiresleep(p) \/ acquiresleep_sleep(p) \/ bread(p)
          \/ \E b \in Bufs, v \in Vals : bwrite(p, b, v) \/ bpin(p, b, v)
          \/ \E b \in Bufs : bunpin(p, b) \/ releasesleep(p, b)
          \/ brelse(p)
    \/ Halted

CacheSpec == CacheInit /\ [][CacheNext]_cacheVars

-----------------------------------------------------------------------------
(* Properties.                                                              *)

(***************************************************************************)
(* "Only one process at a time can use a buffer" and every reader sees the *)
(* last change of a block (bio.c:5-16): whether it is in a buffer, pinned, *)
(* waited for by several processes or recycled, a block has one value and  *)
(* one holder.                                                             *)
(***************************************************************************)
Value == [k \in Blocks |->
    IF \E b \in Cached(k) : valid[b]
    THEN data[CHOOSE b \in Cached(k) : valid[b]] ELSE disk[k]]
Holders == [k \in Blocks |-> {locked[b] : b \in Cached(k)} \ {None}]
BS == INSTANCE BlockStore WITH value <- Value, holders <- Holders
OneCopy == BS!Spec

(***************************************************************************)
(* The count of a buffer is the number of processes that have it or wait   *)
(* for it, plus one while the log pins it: no reference leaks and none is  *)
(* given up twice (bio.c:68, 82, 125, 142 and 149).                        *)
(***************************************************************************)
UsersOf(b) == {p \in Procs : buf[p] = b \/ b \in held[p]}
References(b) == Cardinality(UsersOf(b)) + (IF blockno[b] \in pinned THEN 1 ELSE 0)
RefsCounted == \A b \in Bufs : refcnt[b] = References(b)

(***************************************************************************)
(* Nobody sleeps in acquiresleep() for a lock that is free                 *)
(* (sleeplock.c:21-41).                                                    *)
(***************************************************************************)
SleeperHasHolder == \A p \in Procs : pc[p] = "asleep" => locked[buf[p]] # None

\* The cache's list, counts and locks are in order whatever was interleaved.
CacheSound == TypeOK /\ RefsCounted /\ SleeperHasHolder

=============================================================================
