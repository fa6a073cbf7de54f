-------------------------------- MODULE Pipe --------------------------------
(***************************************************************************)
(* A pipe (kernel/pipe.c) shared by processes that fork, close their ends  *)
(* and are killed.  pi->lock is held over several steps: each iteration of *)
(* a copy loop is one, and so is each test of killed(), because kill()     *)
(* does not take pi->lock.  The counters are unsigned and wrap.            *)
(***************************************************************************)
EXTENDS Naturals, Sequences, FiniteSets

CONSTANTS
    Procs, First,   \* processes; the one that made the pipe
    Bytes,
    PIPESIZE,
    W,              \* the counters count modulo W (2^32)
    MaxN,           \* bound on the n of one read() or write()
    Kills           \* whether processes are killed

None == 0

ASSUME PipeAssumption ==
    /\ First \in Procs /\ None \notin Procs
    /\ PIPESIZE \in Nat \ {0} /\ W \in Nat
    /\ W % PIPESIZE = 0 /\ W > PIPESIZE
    /\ MaxN \in Nat
    /\ Kills \in BOOLEAN

VARIABLES
    data, nread, nwrite, readopen, writeopen,
    freed,          \* kfree(pi) was called
    lock,           \* the holder of pi->lock
    holds,          \* the ends each process has open; {} if it is gone
    killed,
    abandoned,      \* history: a killed writer left bytes it had put in
    pc, i, n        \* the system call of each process, its locals

content == <<data, nread, nwrite>>
killedVars == <<killed, abandoned>>
ends    == <<readopen, writeopen, freed>>
vars    == <<content, ends, lock, holds, killedVars, pc, i, n>>

Ends == {"r", "w"}

TypeOK ==
    /\ data \in [0..(PIPESIZE - 1) -> Bytes \cup {None}]
    /\ nread \in 0..(W - 1) /\ nwrite \in 0..(W - 1)
    /\ readopen \in BOOLEAN /\ writeopen \in BOOLEAN /\ freed \in BOOLEAN
    /\ lock \in Procs \cup {None}
    /\ holds \in [Procs -> SUBSET Ends]
    /\ killed \in [Procs -> BOOLEAN] /\ abandoned \in BOOLEAN
    /\ pc \in [Procs -> {"user", "write", "put", "wsleep", "wwoken", "read",
                         "wait", "rsleep", "rwoken", "copy", "rclose", "wclose"}]
    /\ i \in [Procs -> 0..MaxN] /\ n \in [Procs -> 0..MaxN]

\* pipealloc(), by First.
Init ==
    /\ data = [k \in 0..(PIPESIZE - 1) |-> None]
    /\ nread = 0 /\ nwrite = 0
    /\ readopen = TRUE /\ writeopen = TRUE /\ freed = FALSE
    /\ lock = None
    /\ holds = [p \in Procs |-> IF p = First THEN Ends ELSE {}]
    /\ killed = [p \in Procs |-> FALSE] /\ abandoned = FALSE
    /\ pc = [p \in Procs |-> "user"]
    /\ i = [p \in Procs |-> 0] /\ n = [p \in Procs |-> 0]

(* Definitions named Bug_... are deliberate faults: each is the definition  *)
(* that follows it with one slip, kept to show which property notices it.   *)

\* ++ on an unsigned counter
Incr(k) == (k + 1) % W

Empty == nread = nwrite
Bug_Full_OffByOne == nwrite = (nread + PIPESIZE + 1) % W
Full  == nwrite = (nread + PIPESIZE) % W

Goto(p, l) == pc' = [pc EXCEPT ![p] = l]

\* wakeup(&pi->nread) and wakeup(&pi->nwrite), then p goes to l.
WakeReaders(p, l) ==
    pc' = [q \in Procs |-> IF q = p THEN l
                           ELSE IF pc[q] = "rsleep" THEN "rwoken" ELSE pc[q]]
Bug_WakeWriters_Never(p, l) == Goto(p, l)
WakeWriters(p, l) ==
    pc' = [q \in Procs |-> IF q = p THEN l
                           ELSE IF pc[q] = "wsleep" THEN "wwoken" ELSE pc[q]]

-----------------------------------------------------------------------------
(* pipewrite()                                                              *)

WriteCall(p) ==
    /\ pc[p] = "user" /\ "w" \in holds[p] /\ ~killed[p]
    /\ lock = None /\ lock' = p
    /\ \E k \in 0..MaxN : n' = [n EXCEPT ![p] = k]
    /\ i' = [i EXCEPT ![p] = 0]
    /\ Goto(p, "write")
    /\ UNCHANGED <<content, ends, holds, killedVars>>

WriteTest(p) ==
    /\ pc[p] = "write" /\ i[p] < n[p]
    /\ readopen /\ ~killed[p]
    /\ Goto(p, "put")
    /\ UNCHANGED <<content, ends, lock, holds, killedVars, i, n>>

\* return -1, without a wakeup
WriteFails(p) ==
    /\ pc[p] = "write" /\ i[p] < n[p]
    /\ ~readopen \/ killed[p]
    /\ lock' = None
    /\ Goto(p, "user")
    /\ abandoned' = (abandoned \/ (killed[p] /\ i[p] > 0))
    /\ UNCHANGED <<content, ends, holds, killed, i, n>>

WritePut(p, x) ==
    /\ pc[p] = "put" /\ ~Full
    /\ data' = [data EXCEPT ![nwrite % PIPESIZE] = x]
    /\ nwrite' = Incr(nwrite)
    /\ i' = [i EXCEPT ![p] = @ + 1]
    /\ Goto(p, "write")
    /\ UNCHANGED <<nread, ends, lock, holds, killedVars, n>>

WriteSleep(p) ==
    /\ pc[p] = "put" /\ Full
    /\ lock' = None
    /\ WakeReaders(p, "wsleep")
    /\ UNCHANGED <<content, ends, holds, killedVars, i, n>>

WriteWoken(p) ==
    /\ pc[p] = "wwoken" /\ lock = None /\ lock' = p
    /\ Goto(p, "write")
    /\ UNCHANGED <<content, ends, holds, killedVars, i, n>>

\* All n bytes are written, or copyin() finds a bad address.
WriteDone(p) ==
    /\ (pc[p] = "write" /\ i[p] = n[p]) \/ (pc[p] = "put" /\ ~Full)
    /\ lock' = None
    /\ WakeReaders(p, "user")
    /\ UNCHANGED <<content, ends, holds, killedVars, i, n>>

-----------------------------------------------------------------------------
(* piperead()                                                               *)

ReadCall(p) ==
    /\ pc[p] = "user" /\ "r" \in holds[p] /\ ~killed[p]
    /\ lock = None /\ lock' = p
    /\ \E k \in 0..MaxN : n' = [n EXCEPT ![p] = k]
    /\ i' = [i EXCEPT ![p] = 0]
    /\ Goto(p, "read")
    /\ UNCHANGED <<content, ends, holds, killedVars>>

MustWait == Empty /\ writeopen

ReadTest(p) ==
    /\ pc[p] = "read" /\ MustWait /\ ~killed[p]
    /\ Goto(p, "wait")
    /\ UNCHANGED <<content, ends, lock, holds, killedVars, i, n>>

ReadFails(p) ==
    /\ pc[p] = "read" /\ MustWait /\ killed[p]
    /\ lock' = None
    /\ Goto(p, "user")
    /\ UNCHANGED <<content, ends, holds, killedVars, i, n>>

ReadSleep(p) ==
    /\ pc[p] = "wait"
    /\ lock' = None
    /\ Goto(p, "rsleep")
    /\ UNCHANGED <<content, ends, holds, killedVars, i, n>>

ReadWoken(p) ==
    /\ pc[p] = "rwoken" /\ lock = None /\ lock' = p
    /\ Goto(p, "read")
    /\ UNCHANGED <<content, ends, holds, killedVars, i, n>>

ReadCopies(p) ==
    /\ pc[p] = "read" /\ ~MustWait
    /\ Goto(p, "copy")
    /\ UNCHANGED <<content, ends, lock, holds, killedVars, i, n>>

\* The byte is out of the pipe before copyout(), which may fail.
ReadTake(p) ==
    /\ pc[p] = "copy" /\ i[p] < n[p] /\ ~Empty
    /\ nread' = Incr(nread)
    /\ \/ i' = [i EXCEPT ![p] = @ + 1] /\ UNCHANGED n
       \/ n' = [n EXCEPT ![p] = i[p]] /\ UNCHANGED i
    /\ UNCHANGED <<data, nwrite, ends, lock, holds, killedVars, pc>>

ReadDone(p) ==
    /\ pc[p] = "copy" /\ (i[p] = n[p] \/ Empty)
    /\ lock' = None
    /\ WakeWriters(p, "user")
    /\ UNCHANGED <<content, ends, holds, killedVars, i, n>>

-----------------------------------------------------------------------------
(* The ends: fork() and dup(), close() and exit(), kill().                  *)

\* filedup() of every end that p has open.
Fork(p, q) ==
    /\ pc[p] = "user" /\ holds[p] # {} /\ ~killed[p]
    /\ holds[q] = {} /\ pc[q] = "user"
    /\ holds' = [holds EXCEPT ![q] = holds[p]]
    /\ killed' = [killed EXCEPT ![q] = FALSE]
    /\ UNCHANGED <<content, ends, lock, abandoned, pc, i, n>>

\* fileclose(): the last holder closes the pipe's end, after the table's
\* lock is released.
Close(p, e) ==
    /\ pc[p] = "user" /\ e \in holds[p]
    /\ holds' = [holds EXCEPT ![p] = @ \ {e}]
    /\ Goto(p, IF \E q \in Procs \ {p} : e \in holds[q] THEN "user"
               ELSE IF e = "r" THEN "rclose" ELSE "wclose")
    /\ UNCHANGED <<content, ends, lock, killedVars, i, n>>

pipeclose_r(p) ==
    /\ pc[p] = "rclose" /\ lock = None
    /\ readopen' = FALSE
    /\ freed' = ~writeopen
    /\ WakeWriters(p, "user")
    /\ UNCHANGED <<content, writeopen, lock, holds, killedVars, i, n>>

Bug_pipeclose_w_Frees(p) ==
    /\ pc[p] = "wclose" /\ lock = None
    /\ writeopen' = FALSE
    /\ freed' = TRUE
    /\ WakeReaders(p, "user")
    /\ UNCHANGED <<content, readopen, lock, holds, killedVars, i, n>>

pipeclose_w(p) ==
    /\ pc[p] = "wclose" /\ lock = None
    /\ writeopen' = FALSE
    /\ freed' = ~readopen
    /\ WakeReaders(p, "user")
    /\ UNCHANGED <<content, readopen, lock, holds, killedVars, i, n>>

Kill(p) ==
    /\ Kills /\ holds[p] # {} /\ ~killed[p]
    /\ killed' = [killed EXCEPT ![p] = TRUE]
    /\ Goto(p, CASE pc[p] = "wsleep" -> "wwoken" [] pc[p] = "rsleep" -> "rwoken"
                 [] OTHER -> pc[p])
    /\ UNCHANGED <<content, ends, lock, holds, abandoned, i, n>>

-----------------------------------------------------------------------------

\* The system call that p has made goes on.
Step(p) ==
    \/ WriteTest(p) \/ WriteFails(p) \/ WriteSleep(p) \/ WriteWoken(p)
    \/ WriteDone(p) \/ \E x \in Bytes : WritePut(p, x)
    \/ ReadTest(p) \/ ReadFails(p) \/ ReadSleep(p) \/ ReadWoken(p)
    \/ ReadCopies(p) \/ ReadTake(p) \/ ReadDone(p)
    \/ pipeclose_r(p) \/ pipeclose_w(p)

User(p) ==
    \/ WriteCall(p) \/ ReadCall(p) \/ Kill(p)
    \/ \E e \in Ends : Close(p, e)
    \/ \E q \in Procs : Fork(p, q)

Next == \E p \in Procs : Step(p) \/ User(p)

Spec == Init /\ [][Next]_vars

-----------------------------------------------------------------------------
(* Properties.                                                              *)

(***************************************************************************)
(* The pipe is a FIFO of at most PIPESIZE bytes, also when the counters    *)
(* wrap and several readers and writers share it (pipe.c:76-130).          *)
(***************************************************************************)
Contents == [k \in 1..((nwrite + W - nread) % W) |->
                data[(nread + k - 1) % PIPESIZE]]
FIFO == INSTANCE PipeFIFO WITH q <- Contents, Capacity <- PIPESIZE
IsFIFO == FIFO!Spec

(***************************************************************************)
(* The memory of the pipe is given back when both ends are closed and no   *)
(* process is in a call on it (pipeclose(), pipe.c:58-74).                 *)
(***************************************************************************)
NoUseAfterFree ==
    freed => /\ \A p \in Procs : pc[p] = "user" /\ holds[p] = {}
             /\ ~readopen /\ ~writeopen
PipeSound == TypeOK /\ NoUseAfterFree

(***************************************************************************)
(* Nobody sleeps without a reason: a writer only while the pipe is full    *)
(* and someone may read it, a reader only while someone may write to it    *)
(* (pipe.c:63, 66, 89 and 127 wake them).                                  *)
(***************************************************************************)
WriterSleepsOnFull ==
    lock = None => \A p \in Procs : pc[p] = "wsleep" => Full /\ readopen
ReaderSleepsOnOpen ==
    lock = None => \A p \in Procs : pc[p] = "rsleep" => writeopen

(***************************************************************************)
(* No reader sleeps on data ("DOC: pipe-empty", pipe.c:113), unless a      *)
(* writer was killed half-way: it returns without a wake-up (pipe.c:86).   *)
(***************************************************************************)
ReaderSleepsOnEmpty ==
    lock = None /\ ~abandoned => \A p \in Procs : pc[p] = "rsleep" => Empty

\* Every sleeper at a pipe has a reason and someone who will wake it.
NoIdleSleeper == WriterSleepsOnFull /\ ReaderSleepsOnOpen /\ ReaderSleepsOnEmpty

=============================================================================
