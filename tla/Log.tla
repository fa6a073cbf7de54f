--------------------------------- MODULE Log ---------------------------------
(***************************************************************************)
(* The write-ahead log of the file system (kernel/log.c): begin_op(),      *)
(* log_write(), end_op(), the commit by the last system call that ends,    *)
(* and recovery, on a disk whose block writes are atomic, synchronous and  *)
(* survive a crash at any point.  A section under log.lock is one step; a  *)
(* block write is one step.  The buffer cache appears as the contents it   *)
(* gives to readers: a buffer that is not pinned may be recycled and read  *)
(* again from its home block at any time.                                  *)
(***************************************************************************)
EXTENDS Naturals, Sequences, FiniteSets

CONSTANTS
    Ops,            \* the processes that make file system calls
    Blocks, Vals,   \* blocks outside the log, and what they may hold
    Blank,          \* what the blocks hold on a new file system
    MAXOPBLOCKS, LOGSIZE,
    Size,           \* sb->nlog, the header included
    MaxCrashes      \* bound on crashes

ASSUME LogAssumption ==
    /\ Blank \in Vals
    /\ MAXOPBLOCKS \in Nat \ {0} /\ LOGSIZE \in Nat /\ MAXOPBLOCKS <= LOGSIZE
    /\ Size \in Nat /\ Size > LOGSIZE
    /\ IsFiniteSet(Ops)
    /\ MaxCrashes \in Nat

VARIABLES
    home, logblk, hdr,      \* on disk: the blocks, the log, its header
    cache, pinned,          \* in memory: the buffers' data, the pinned ones
    lh, outstanding, committing,
    pc, wrote,              \* per process; the blocks its call has written
    tail,                   \* of the loop in progress
    boot,                   \* initlog(): what remains of recovery
    crashes

disk    == <<home, logblk, hdr>>
bufs    == <<cache, pinned>>
inlog   == <<lh, outstanding, committing>>
control == <<pc, wrote, tail, boot, crashes>>
vars    == <<disk, bufs, inlog, control>>

BlockLists == {<<>>} \cup UNION {[1..n -> Blocks] : n \in 1..LOGSIZE}

TypeOK ==
    /\ home \in [Blocks -> Vals] /\ cache \in [Blocks -> Vals]
    /\ logblk \in [1..LOGSIZE -> Vals]
    /\ hdr \in BlockLists /\ lh \in BlockLists
    /\ pinned \subseteq Blocks
    /\ outstanding \in 0..(LOGSIZE \div MAXOPBLOCKS)
    /\ committing \in BOOLEAN
    /\ pc \in [Ops -> {"idle", "asleep", "woken", "op", "write_log",
                       "write_head", "install", "clear", "done"}]
    /\ wrote \in [Ops -> SUBSET Blocks]
    /\ tail \in 1..(LOGSIZE + 1)
    /\ boot \in {"read_head", "install", "clear", "up"}
    /\ crashes \in 0..MaxCrashes

\* A new file system, just recovered.
Init ==
    /\ home = [b \in Blocks |-> Blank] /\ cache = home
    /\ logblk = [i \in 1..LOGSIZE |-> Blank]
    /\ hdr = <<>> /\ lh = <<>>
    /\ pinned = {}
    /\ outstanding = 0 /\ committing = FALSE
    /\ pc = [p \in Ops |-> "idle"]
    /\ wrote = [p \in Ops |-> {}]
    /\ tail = 1
    /\ boot = "up"
    /\ crashes = 0

(* Definitions named Bug_... are deliberate faults: each is the definition  *)
(* that follows it with one slip, kept to show which property notices it.   *)

-----------------------------------------------------------------------------

\* wakeup(&log)
Woken == [p \in Ops |-> IF pc[p] = "asleep" THEN "woken" ELSE pc[p]]

Bug_HasRoom_IgnoresLogged == (outstanding + 1) * MAXOPBLOCKS <= LOGSIZE
HasRoom == Len(lh) + (outstanding + 1) * MAXOPBLOCKS <= LOGSIZE

MayBegin == ~committing /\ HasRoom

begin_op(p) ==
    /\ boot = "up" /\ pc[p] \in {"idle", "woken"}
    /\ MayBegin
    /\ outstanding' = outstanding + 1
    /\ pc' = [pc EXCEPT ![p] = "op"]
    /\ UNCHANGED <<disk, bufs, lh, committing, wrote, tail, boot, crashes>>

begin_sleep(p) ==
    /\ boot = "up" /\ pc[p] \in {"idle", "woken"}
    /\ ~MayBegin
    /\ pc' = [pc EXCEPT ![p] = "asleep"]
    /\ UNCHANGED <<disk, bufs, inlog, wrote, tail, boot, crashes>>

\* kill() makes the sleeper runnable; the loop tests again.
KillWakes(p) ==
    /\ pc[p] = "asleep"
    /\ pc' = [pc EXCEPT ![p] = "woken"]
    /\ UNCHANGED <<disk, bufs, inlog, wrote, tail, boot, crashes>>

Listed(b) == \E i \in 1..Len(lh) : lh[i] = b

\* log_write() lists a block once.
Absorb(b) == IF Listed(b) THEN lh ELSE Append(lh, b)

Pin(b) == pinned \cup {b}

LogHasRoom == Len(lh) < LOGSIZE /\ Len(lh) < Size - 1

\* A system call modifies a locked buffer and gives it to log_write(), which
\* panics if the list is full, before it looks for the block in it.
Write(p, b, v) ==
    /\ pc[p] = "op"
    /\ b \in wrote[p] \/ Cardinality(wrote[p]) < MAXOPBLOCKS
    /\ LogHasRoom
    /\ cache' = [cache EXCEPT ![b] = v]
    /\ lh' = Absorb(b)
    /\ pinned' = Pin(b)
    /\ wrote' = [wrote EXCEPT ![p] = @ \cup {b}]
    /\ UNCHANGED <<disk, outstanding, committing, pc, tail, boot, crashes>>

Bug_CommitStart_HeadFirst == "write_head"
CommitStart == "write_log"

\* The last call to end commits, unless nothing was written.
end_last(p) ==
    /\ pc[p] = "op" /\ outstanding = 1
    /\ outstanding' = 0
    /\ committing' = TRUE
    /\ tail' = 1
    /\ pc' = [pc EXCEPT ![p] = IF lh = <<>> THEN "done" ELSE CommitStart]
    /\ wrote' = [wrote EXCEPT ![p] = {}]
    /\ UNCHANGED <<disk, bufs, lh, boot, crashes>>

end_other(p) ==
    /\ pc[p] = "op" /\ outstanding > 1
    /\ outstanding' = outstanding - 1
    /\ pc' = [Woken EXCEPT ![p] = "idle"]
    /\ wrote' = [wrote EXCEPT ![p] = {}]
    /\ UNCHANGED <<disk, bufs, lh, committing, tail, boot, crashes>>

-----------------------------------------------------------------------------
(* commit(), by the process that ended last, without log.lock.              *)

\* One iteration of the loop in write_log().
write_log(p) ==
    /\ pc[p] = "write_log"
    /\ logblk' = [logblk EXCEPT ![tail] = cache[lh[tail]]]
    /\ IF tail = Len(lh)
       THEN tail' = 1 /\ pc' = [pc EXCEPT ![p] = "write_head"]
       ELSE tail' = tail + 1 /\ UNCHANGED pc
    /\ UNCHANGED <<home, hdr, bufs, inlog, wrote, boot, crashes>>

\* write_head(): "the true point at which the current transaction commits".
write_head(p) ==
    /\ pc[p] = "write_head"
    /\ hdr' = lh
    /\ pc' = [pc EXCEPT ![p] = "install"]
    /\ UNCHANGED <<home, logblk, bufs, inlog, wrote, tail, boot, crashes>>

\* One iteration of the loop in install_trans().
Install ==
    /\ home' = [home EXCEPT ![lh[tail]] = logblk[tail]]
    /\ cache' = [cache EXCEPT ![lh[tail]] = logblk[tail]]

Bug_AfterInstall_NoClear == "done"
AfterInstall == "clear"

install_trans(p) ==
    /\ pc[p] = "install"
    /\ Install
    /\ pinned' = pinned \ {lh[tail]}
    /\ IF tail = Len(lh)
       THEN tail' = 1 /\ pc' = [pc EXCEPT ![p] = AfterInstall]
       ELSE tail' = tail + 1 /\ UNCHANGED pc
    /\ UNCHANGED <<logblk, hdr, inlog, wrote, boot, crashes>>

\* lh.n = 0; write_head()
clear(p) ==
    /\ pc[p] = "clear"
    /\ lh' = <<>> /\ hdr' = <<>>
    /\ pc' = [pc EXCEPT ![p] = "done"]
    /\ UNCHANGED <<home, logblk, bufs, outstanding, committing, wrote, tail,
                   boot, crashes>>

Bug_AfterCommit_NoWakeup(p) == [pc EXCEPT ![p] = "idle"]
AfterCommit(p) == [Woken EXCEPT ![p] = "idle"]

commit_done(p) ==
    /\ pc[p] = "done"
    /\ committing' = FALSE
    /\ pc' = AfterCommit(p)
    /\ UNCHANGED <<disk, bufs, lh, outstanding, wrote, tail, boot, crashes>>

-----------------------------------------------------------------------------
(* The rest of the machine.                                                 *)

\* bget() recycles buffers nobody holds; the next bread() reads the disk.
Recycle(b) ==
    /\ boot = "up" /\ b \notin pinned
    /\ cache' = [cache EXCEPT ![b] = home[b]]
    /\ UNCHANGED <<disk, pinned, inlog, control>>

\* Power fails; the machine boots and calls initlog().
Crash ==
    /\ crashes < MaxCrashes
    /\ crashes' = crashes + 1
    /\ cache' = home /\ pinned' = {}
    /\ lh' = <<>> /\ outstanding' = 0 /\ committing' = FALSE
    /\ pc' = [p \in Ops |-> "idle"]
    /\ wrote' = [p \in Ops |-> {}]
    /\ tail' = 1
    /\ boot' = "read_head"
    /\ UNCHANGED disk

read_head ==
    /\ boot = "read_head"
    /\ lh' = hdr
    /\ boot' = IF hdr = <<>> THEN "clear" ELSE "install"
    /\ UNCHANGED <<disk, bufs, outstanding, committing, pc, wrote, tail,
                   crashes>>

recover_install ==
    /\ boot = "install"
    /\ Install
    /\ IF tail = Len(lh)
       THEN tail' = 1 /\ boot' = "clear"
       ELSE tail' = tail + 1 /\ UNCHANGED boot
    /\ UNCHANGED <<logblk, hdr, pinned, inlog, pc, wrote, crashes>>

recover_clear ==
    /\ boot = "clear"
    /\ lh' = <<>> /\ hdr' = <<>>
    /\ boot' = "up"
    /\ UNCHANGED <<home, logblk, bufs, outstanding, committing, pc, wrote,
                   tail, crashes>>

commit(p) == \/ write_log(p) \/ write_head(p) \/ install_trans(p)
             \/ clear(p) \/ commit_done(p)
recover   == read_head \/ recover_install \/ recover_clear

Next ==
    \/ \E p \in Ops : \/ begin_op(p) \/ begin_sleep(p) \/ KillWakes(p)
                      \/ \E b \in Blocks, v \in Vals : Write(p, b, v)
                      \/ end_last(p) \/ end_other(p) \/ commit(p)
    \/ \E b \in Blocks : Recycle(b)
    \/ Crash \/ recover

Spec == Init /\ [][Next]_vars

-----------------------------------------------------------------------------
(* Properties.                                                              *)

(***************************************************************************)
(* What recovery would make of the disk now.                               *)
(***************************************************************************)
Recovered ==
    [b \in Blocks |->
        IF \E i \in 1..Len(hdr) : hdr[i] = b
        THEN logblk[CHOOSE i \in 1..Len(hdr) : hdr[i] = b]
        ELSE home[b]]

(***************************************************************************)
(* Crash atomicity: log.c implements AtomicFS.  "The logging system only   *)
(* commits when there are no FS system calls active. Thus there is never   *)
(* any reasoning required about whether a commit might write an            *)
(* uncommitted system call's updates to disk." (log.c:13-16)               *)
(***************************************************************************)
AFS == INSTANCE AtomicFS WITH
    durable <- Recovered,
    visible <- IF boot = "up" THEN cache ELSE Recovered,
    active  <- {p \in Ops : pc[p] = "op"}
CrashAtomic == AFS!Spec

(***************************************************************************)
(* begin_op() reserves enough: while a call has written fewer than         *)
(* MAXOPBLOCKS blocks, log_write() has room for one more and does not      *)
(* panic, however many calls run (log.c:126-142 and 219).                  *)
(***************************************************************************)
NeverTooBig ==
    \A p \in Ops : pc[p] = "op" /\ Cardinality(wrote[p]) < MAXOPBLOCKS
        => LogHasRoom

(***************************************************************************)
(* Nobody sleeps in begin_op() unless someone is there to wake it: a call  *)
(* that will end or a commit in progress (log.c:126-175).                  *)
(***************************************************************************)
SleepersHaveAWaker ==
    \A p \in Ops : pc[p] = "asleep" => committing \/ outstanding > 0

(***************************************************************************)
(* A modified block stays pinned in the cache from log_write() until it is *)
(* in its home block, so that readers see it (log.c:214-235 and 76-78).    *)
(***************************************************************************)
DirtyIsPinned == boot = "up" => \A b \in Blocks : cache[b] # home[b] => b \in pinned

(***************************************************************************)
(* Between two transactions the disk holds everything: once no call runs   *)
(* and no commit is in progress, what readers see is durable, and the log  *)
(* on disk is empty (log.c:193-203).                                       *)
(***************************************************************************)
QuietIsClean ==
    boot = "up" /\ ~committing /\ outstanding = 0 =>
        home = cache /\ hdr = <<>> /\ pinned = {}

\* Cache, log and home blocks fit each other, in a transaction and after it.
LogSound == TypeOK /\ DirtyIsPinned /\ QuietIsClean

=============================================================================
