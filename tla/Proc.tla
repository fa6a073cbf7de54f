-------------------------------- MODULE Proc --------------------------------
(***************************************************************************)
(* Processes on several CPUs: fork(), exit(), wait(), kill(), yield(),     *)
(* sleep() and wakeup() of kernel/proc.c and the round-robin scheduler,    *)
(* with p->lock of every slot and wait_lock.  A critical section that      *)
(* holds one p->lock and no other lock is one step that needs the lock to  *)
(* be free; locks that are held across steps, or across swtch(), are       *)
(* variables.  A lock that a loop over the table takes and releases on     *)
(* slots it does not change is not modelled.                               *)
(*                                                                         *)
(* wait() is the sleep of this module; the sleeps of pipes, buffers and    *)
(* the log have modules of their own.                                      *)
(***************************************************************************)
EXTENDS Naturals, FiniteSets

CONSTANTS
    NPROC,      \* size of the process table
    CPUs,       \* the harts
    MaxPid,     \* bound on nextpid
    KillPids    \* the arguments programs give to kill()

Procs    == 1..NPROC
None     == 0
InitProc == 1

ASSUME ProcAssumption ==
    /\ NPROC \in Nat \ {0}
    /\ None \notin CPUs /\ CPUs # {}
    /\ MaxPid \in Nat \ {0}
    /\ KillPids \subseteq Nat

VARIABLES
    state, parent, killed, pid,
    chan,       \* p->chan: the process whose address p sleeps on
    plock,      \* the CPU that holds p->lock
    waitLock,   \* the CPU that holds wait_lock
    kpc,        \* where p is in the kernel
    kid,        \* fork()'s np
    nextpid,
    strayKill,  \* history: kill() has hit a free slot
    cpu,        \* c->proc, and whose kernel stack c is on
    mode,       \* what c does
    idx         \* RR_scheduler's loop index of c

procVars == <<state, parent, killed, pid, chan>>
lockVars == <<plock, waitLock>>
pidVars  == <<nextpid, strayKill>>
cpuVars  == <<cpu, mode, idx>>
vars == <<procVars, lockVars, cpuVars, kpc, kid, pidVars>>

States == {"UNUSED", "USED", "SLEEPING", "RUNNABLE", "RUNNING", "ZOMBIE"}
Kpcs   == {"user", "fork2", "fork3", "exit1", "exit2", "exit3", "exit4",
           "wait1", "wait2", "wait3", "woken"}
Modes  == {"sched", "enter", "run", "leave"}

TypeOK ==
    /\ state \in [Procs -> States]
    /\ parent \in [Procs -> Procs \cup {None}]
    /\ killed \in [Procs -> BOOLEAN]
    /\ pid \in [Procs -> 0..MaxPid]
    /\ chan \in [Procs -> Procs \cup {None}]
    /\ plock \in [Procs -> CPUs \cup {None}]
    /\ waitLock \in CPUs \cup {None}
    /\ kpc \in [Procs -> Kpcs]
    /\ kid \in [Procs -> Procs \cup {None}]
    /\ nextpid \in 1..(MaxPid + 1) /\ strayKill \in BOOLEAN
    /\ cpu \in [CPUs -> Procs \cup {None}]
    /\ mode \in [CPUs -> Modes]
    /\ idx \in [CPUs -> Procs]

\* After procinit() and userinit().
Init ==
    /\ state = [p \in Procs |-> IF p = InitProc THEN "RUNNABLE" ELSE "UNUSED"]
    /\ parent = [p \in Procs |-> None]
    /\ killed = [p \in Procs |-> FALSE]
    /\ pid = [p \in Procs |-> IF p = InitProc THEN 1 ELSE 0]
    /\ chan = [p \in Procs |-> None]
    /\ plock = [p \in Procs |-> None] /\ waitLock = None
    /\ kpc = [p \in Procs |-> "user"]
    /\ kid = [p \in Procs |-> None]
    /\ nextpid = 2 /\ strayKill = FALSE
    /\ cpu = [c \in CPUs |-> None]
    /\ mode = [c \in CPUs |-> "sched"]
    /\ idx = [c \in CPUs |-> 1]

(* Definitions named Bug_... are deliberate faults: each is the definition  *)
(* that follows it with one slip, kept to show which property notices it.   *)

-----------------------------------------------------------------------------
(* RR_scheduler() on CPU c and the switches between it and processes.       *)

NextSlot(i) == IF i = NPROC THEN 1 ELSE i + 1

\* acquire(&p->lock); a runnable process starts with its lock held.
Dispatch(c) ==
    /\ mode[c] = "sched"
    /\ LET p == idx[c] IN
       /\ plock[p] = None /\ state[p] = "RUNNABLE"
       /\ state' = [state EXCEPT ![p] = "RUNNING"]
       /\ plock' = [plock EXCEPT ![p] = c]
       /\ cpu' = [cpu EXCEPT ![c] = p]
    /\ mode' = [mode EXCEPT ![c] = "enter"]
    /\ idx' = [idx EXCEPT ![c] = NextSlot(@)]
    /\ UNCHANGED <<parent, killed, pid, chan, waitLock, kpc, kid,
                   pidVars>>

Skip(c) ==
    /\ mode[c] = "sched"
    /\ plock[idx[c]] = None /\ state[idx[c]] # "RUNNABLE"
    /\ idx' = [idx EXCEPT ![c] = NextSlot(@)]
    /\ UNCHANGED <<procVars, lockVars, cpu, mode, kpc, kid, pidVars>>

\* The process releases its lock: in yield(), forkret(), or in sleep(),
\* which clears chan and will take the condition's lock again.
Enter(c) ==
    /\ mode[c] = "enter"
    /\ mode' = [mode EXCEPT ![c] = "run"]
    /\ LET p == cpu[c] IN
       /\ plock' = [plock EXCEPT ![p] = None]
       /\ IF kpc[p] = "woken"
          THEN /\ chan' = [chan EXCEPT ![p] = None]
               /\ kpc' = [kpc EXCEPT ![p] = "wait1"]
          ELSE UNCHANGED <<chan, kpc>>
    /\ UNCHANGED <<state, parent, killed, pid, waitLock, cpu, idx, kid,
                   pidVars>>

\* acquire(&p->lock), the new state, sched(): the lock stays held.
Leave(c, s) ==
    LET p == cpu[c] IN
    /\ plock[p] = None
    /\ plock' = [plock EXCEPT ![p] = c]
    /\ state' = [state EXCEPT ![p] = s]
    /\ mode' = [mode EXCEPT ![c] = "leave"]

\* swtch() to the scheduler, which clears c->proc and releases p->lock.
Swtch(c) ==
    /\ mode[c] = "leave"
    /\ mode' = [mode EXCEPT ![c] = "sched"]
    /\ plock' = [plock EXCEPT ![cpu[c]] = None]
    /\ cpu' = [cpu EXCEPT ![c] = None]
    /\ UNCHANGED <<procVars, waitLock, idx, kpc, kid, pidVars>>

-----------------------------------------------------------------------------
(* What the process on CPU c does.                                          *)

\* usertrap() lets a killed process do nothing but exit(-1).
MayCall(c) == mode[c] = "run" /\ kpc[cpu[c]] = "user" /\ ~killed[cpu[c]]
At(c, where) == mode[c] = "run" /\ kpc[cpu[c]] = where
Goto(c, where) == kpc' = [kpc EXCEPT ![cpu[c]] = where]

\* In acquire(&wait_lock): interrupts are off from before the first attempt.
Spinning(c) == kpc[cpu[c]] \in {"fork2", "exit1", "wait1"} /\ waitLock # None

\* A timer interrupt is taken when no spinlock is held or waited for.  A killed
\* process exits instead of yielding when the interrupt comes in user mode.
TimerYield(c) ==
    /\ mode[c] = "run" /\ waitLock # c /\ ~Spinning(c)
    /\ kpc[cpu[c]] = "user" => ~killed[cpu[c]]
    /\ Leave(c, "RUNNABLE")
    /\ UNCHANGED <<parent, killed, pid, chan, waitLock, cpu, idx, kpc,
                   kid, pidVars>>

Bug_freeproc_KilledKept(z) ==
    /\ state' = [state EXCEPT ![z] = "UNUSED"]
    /\ parent' = [parent EXCEPT ![z] = None]
    /\ pid' = [pid EXCEPT ![z] = 0]
    /\ chan' = [chan EXCEPT ![z] = None]
    /\ UNCHANGED killed

freeproc(z) ==
    /\ state' = [state EXCEPT ![z] = "UNUSED"]
    /\ parent' = [parent EXCEPT ![z] = None]
    /\ pid' = [pid EXCEPT ![z] = 0]
    /\ chan' = [chan EXCEPT ![z] = None]
    /\ killed' = [killed EXCEPT ![z] = FALSE]

\* fork(): allocproc() finds a free slot; the child has no parent yet.
ForkAlloc(c, np) ==
    /\ MayCall(c) /\ nextpid <= MaxPid
    /\ plock[np] = None /\ state[np] = "UNUSED"
    /\ state' = [state EXCEPT ![np] = "USED"]
    /\ pid' = [pid EXCEPT ![np] = nextpid]
    /\ nextpid' = nextpid + 1
    /\ kid' = [kid EXCEPT ![cpu[c]] = np]
    /\ Goto(c, "fork2")
    /\ UNCHANGED <<parent, killed, chan, lockVars, cpuVars, strayKill>>

\* No memory for the trap frame or for a page of the child: freeproc(np).
ForkNoMemory(c, np) ==
    /\ MayCall(c) /\ nextpid <= MaxPid
    /\ plock[np] = None /\ state[np] = "UNUSED"
    /\ nextpid' = nextpid + 1
    /\ freeproc(np)
    /\ UNCHANGED <<lockVars, cpuVars, kpc, kid, strayKill>>

ForkParent(c) ==
    /\ At(c, "fork2") /\ waitLock = None
    /\ parent' = [parent EXCEPT ![kid[cpu[c]]] = cpu[c]]
    /\ Goto(c, "fork3")
    /\ UNCHANGED <<state, killed, pid, chan, lockVars, cpuVars, kid,
                   pidVars>>

ForkReady(c) ==
    /\ At(c, "fork3") /\ plock[kid[cpu[c]]] = None
    /\ state' = [state EXCEPT ![kid[cpu[c]]] = "RUNNABLE"]
    /\ kpc' = [kpc EXCEPT ![cpu[c]] = "user", ![kid[cpu[c]]] = "user"]
    /\ kid' = [kid EXCEPT ![cpu[c]] = None]
    /\ UNCHANGED <<parent, killed, pid, chan, lockVars, cpuVars,
                   pidVars>>

Children(p) == {q \in Procs : parent[q] = p}

\* exit(), called by the program or by usertrap() for a killed process.  The
\* closing of its files comes first and is left to the file modules.
ExitCall(c) ==
    /\ At(c, "user") /\ cpu[c] # InitProc
    /\ Goto(c, "exit1")
    /\ UNCHANGED <<procVars, lockVars, cpuVars, kid, pidVars>>

Bug_Adopted_None(p) == parent
Adopted(p) == [q \in Procs |-> IF parent[q] = p THEN InitProc ELSE parent[q]]

\* acquire(&wait_lock); reparent(p).
ExitReparent(c) ==
    /\ At(c, "exit1") /\ waitLock = None
    /\ waitLock' = c
    /\ parent' = Adopted(cpu[c])
    /\ Goto(c, IF Children(cpu[c]) # {} THEN "exit2" ELSE "exit3")
    /\ UNCHANGED <<state, killed, pid, chan, plock, cpuVars, kid,
                   pidVars>>

\* wakeup(q): only q itself ever sleeps on its own address.
wakeup(q) ==
    /\ plock[q] = None
    /\ state' = IF state[q] = "SLEEPING" /\ chan[q] = q
                THEN [state EXCEPT ![q] = "RUNNABLE"] ELSE state

ExitWakeInit(c) ==
    /\ At(c, "exit2")
    /\ wakeup(InitProc)
    /\ Goto(c, "exit3")
    /\ UNCHANGED <<parent, killed, pid, chan, lockVars, cpuVars, kid,
                   pidVars>>

ExitWakeParent(c) ==
    /\ At(c, "exit3")
    /\ wakeup(parent[cpu[c]])
    /\ Goto(c, "exit4")
    /\ UNCHANGED <<parent, killed, pid, chan, lockVars, cpuVars, kid,
                   pidVars>>

Bug_ExitZombie_LockKept(c) ==
    /\ At(c, "exit4")
    /\ Leave(c, "ZOMBIE")
    /\ UNCHANGED <<parent, killed, pid, chan, waitLock, cpu, idx, kpc, kid,
                   pidVars>>

\* acquire(&p->lock); ZOMBIE; release(&wait_lock); sched().
ExitZombie(c) ==
    /\ At(c, "exit4")
    /\ Leave(c, "ZOMBIE")
    /\ waitLock' = None
    /\ UNCHANGED <<parent, killed, pid, chan, cpu, idx, kpc, kid,
                   pidVars>>

WaitCall(c) ==
    /\ MayCall(c)
    /\ Goto(c, "wait1")
    /\ UNCHANGED <<procVars, lockVars, cpuVars, kid, pidVars>>

\* acquire(&wait_lock), in wait() or at the end of sleep().
WaitLock(c) ==
    /\ At(c, "wait1") /\ waitLock = None
    /\ waitLock' = c
    /\ Goto(c, "wait2")
    /\ UNCHANGED <<procVars, plock, cpuVars, kid, pidVars>>

Zombies(p) == {q \in Children(p) : state[q] = "ZOMBIE"}

Bug_LockFree_NotTaken(q) == TRUE
\* acquire(&pp->lock): "make sure the child isn't still in exit() or swtch()".
LockFree(q) == plock[q] = None

\* The scan stops at the first zombie child.
FirstZombie(c, z) ==
    /\ At(c, "wait2")
    /\ z \in Zombies(cpu[c]) /\ \A y \in Zombies(cpu[c]) : z <= y
    /\ LockFree(z)

WaitReap(c, z) ==
    /\ FirstZombie(c, z)
    /\ freeproc(z)
    /\ kpc' = [kpc EXCEPT ![cpu[c]] = "user", ![z] = "user"]
    /\ waitLock' = None
    /\ UNCHANGED <<plock, cpuVars, kid, pidVars>>

\* copyout() of the status to a bad address fails: the zombie stays.  The
\* first process calls wait(0).
WaitBadAddress(c, z) ==
    /\ FirstZombie(c, z) /\ cpu[c] # InitProc
    /\ waitLock' = None
    /\ Goto(c, "user")
    /\ UNCHANGED <<procVars, plock, cpuVars, kid, pidVars>>

\* No zombie: return if there are no children or p was killed.
WaitGiveUp(c) ==
    /\ At(c, "wait2") /\ Zombies(cpu[c]) = {}
    /\ Children(cpu[c]) = {} \/ killed[cpu[c]]
    /\ waitLock' = None
    /\ Goto(c, "user")
    /\ UNCHANGED <<procVars, plock, cpuVars, kid, pidVars>>

Bug_WaitOn_LockReleased(c) ==
    /\ At(c, "wait2") /\ Zombies(cpu[c]) = {}
    /\ Children(cpu[c]) # {} /\ ~killed[cpu[c]]
    /\ waitLock' = None
    /\ Goto(c, "wait3")
    /\ UNCHANGED <<procVars, plock, cpuVars, kid, pidVars>>

WaitOn(c) ==
    /\ At(c, "wait2") /\ Zombies(cpu[c]) = {}
    /\ Children(cpu[c]) # {} /\ ~killed[cpu[c]]
    /\ Goto(c, "wait3")
    /\ UNCHANGED <<procVars, lockVars, cpuVars, kid, pidVars>>

\* sleep(p, &wait_lock): acquire(&p->lock); release(lk); SLEEPING; sched().
WaitSleep(c) ==
    /\ At(c, "wait3")
    /\ Leave(c, "SLEEPING")
    /\ waitLock' = None
    /\ chan' = [chan EXCEPT ![cpu[c]] = cpu[c]]
    /\ Goto(c, "woken")
    /\ UNCHANGED <<parent, killed, pid, cpu, idx, kid, pidVars>>

\* kill(k): the first slot with that pid, whatever its state.
Kill(c, k, q) ==
    /\ MayCall(c)
    /\ plock[q] = None /\ pid[q] = k /\ \A r \in 1..(q - 1) : pid[r] # k
    /\ killed' = [killed EXCEPT ![q] = TRUE]
    /\ state' = IF state[q] = "SLEEPING"
                THEN [state EXCEPT ![q] = "RUNNABLE"] ELSE state
    /\ strayKill' = (strayKill \/ state[q] = "UNUSED")
    /\ UNCHANGED <<parent, pid, chan, lockVars, cpuVars, kpc, kid, nextpid>>

-----------------------------------------------------------------------------

SchedStep(c) == Dispatch(c) \/ Skip(c) \/ Enter(c) \/ Swtch(c)

\* Steps inside a system call, once it has been made.
KernelStep(c) ==
    \/ ForkParent(c) \/ ForkReady(c)
    \/ ExitReparent(c) \/ ExitWakeInit(c) \/ ExitWakeParent(c) \/ ExitZombie(c)
    \/ WaitLock(c) \/ WaitGiveUp(c) \/ WaitOn(c) \/ WaitSleep(c)
    \/ \E z \in Procs : WaitReap(c, z) \/ WaitBadAddress(c, z)

UserStep(c) ==
    \/ \E np \in Procs : ForkAlloc(c, np) \/ ForkNoMemory(c, np)
    \/ ExitCall(c)
    \/ WaitCall(c)
    \/ \E k \in KillPids, q \in Procs : Kill(c, k, q)

Next == \E c \in CPUs :
    SchedStep(c) \/ KernelStep(c) \/ TimerYield(c) \/ UserStep(c)

Spec == Init /\ [][Next]_vars
(***************************************************************************)
(* Fairness.  A hart executes: its scheduler and the system call of a      *)
(* process on it proceed, a killed process exits, and one that waits for a *)
(* lock gets it if it is free again and again.  The timer stays pending    *)
(* while interrupts are off, so that an interrupt which can be taken again *)
(* and again is taken.  The first process waits for children in a loop     *)
(* (user/init.c); other programs owe nothing.                              *)
(***************************************************************************)
Fairness ==
    /\ \A c \in CPUs : SF_vars(SchedStep(c))
    /\ \A p \in Procs :
          /\ SF_vars(\E c \in CPUs : cpu[c] = p /\ TimerYield(c))
          /\ SF_vars(\E c \in CPUs : cpu[c] = p /\
                (KernelStep(c) \/ (killed[p] /\ ExitCall(c))
                               \/ (p = InitProc /\ WaitCall(c))))

FairSpec == Spec /\ Fairness

-----------------------------------------------------------------------------
(* Properties.                                                              *)

(***************************************************************************)
(* proc.c implements the life cycle: in particular no process is run by    *)
(* two CPUs, and none is freed while a CPU is on its stack ("make sure the *)
(* child isn't still in exit() or swtch()", proc.c:443), because p->lock   *)
(* is held from the change of state to the end of swtch().                 *)
(***************************************************************************)
LC == INSTANCE ProcLifecycle
Lifecycle == LC!Spec

(***************************************************************************)
(* No wake-up of wait() is lost: when wait_lock is free, no process sleeps *)
(* in wait() while it has a zombie child, its own or adopted.  exit()      *)
(* wakes the parent before it becomes a zombie; wait_lock, which wait()    *)
(* holds until it has p->lock, closes the gap (proc.c:405-418 and 475).    *)
(***************************************************************************)
NoLostChildWakeup ==
    waitLock = None => \A p \in Procs :
        state[p] = "SLEEPING" /\ chan[p] = p => Zombies(p) = {}

(***************************************************************************)
(* No orphans: whoever is a parent is alive, so that every child can be    *)
(* waited for (reparent(), proc.c:365-377).                                *)
(***************************************************************************)
ParentsAlive ==
    \A p \in Procs : parent[p] # None =>
        state[parent[p]] \in {"RUNNABLE", "RUNNING", "SLEEPING"}

\* The process table is well typed and no process is an orphan.
TableSound == TypeOK /\ ParentsAlive

(***************************************************************************)
(* A slot on the free list carries no kill: the next process in it starts  *)
(* unkilled, although allocproc() does not clear p->killed.  "Kill the     *)
(* process with the given pid." (proc.c:972) holds only for the pids of    *)
(* processes: kill(0) marks the first free slot, whose pid is 0.           *)
(***************************************************************************)
BornAlive ==
    ~strayKill => \A p \in Procs : state[p] = "UNUSED" => ~killed[p]

(***************************************************************************)
(* An exit is completed: the locks of exit(), wait() and the scheduler are *)
(* taken in an order that cannot block it (proc.c:382-423).                *)
(***************************************************************************)
ExitCompletes ==
    \A p \in Procs :
        kpc[p] \in {"exit1", "exit2", "exit3", "exit4"} ~> state[p] = "ZOMBIE"

(***************************************************************************)
(* Every zombie whose parent is the first process, its own child or an     *)
(* adopted one, is reaped in the end (proc.c:365-477).                     *)
(***************************************************************************)
OrphansReaped ==
    \A p \in Procs : (state[p] = "ZOMBIE" /\ parent[p] = InitProc)
                     ~> state[p] = "UNUSED"

=============================================================================
