-------------------------------- MODULE MLFQ --------------------------------
(***************************************************************************)
(* The per-CPU scheduler of project1c (kernel/proc.c): scheduler() with    *)
(* its two policies, RR_scheduler() and MLFQ_scheduler(), the MLFQ queues, *)
(* the system calls startMLFQ() and stopMLFQ() and the steps of processes  *)
(* that a scheduler sees: timer yields, sleeps, wake-ups, exit, wait and   *)
(* fork.  The Makefile builds for one hart (CPUS := 1), so one CPU is      *)
(* modelled; everything that happens between two scheduler steps happens   *)
(* in an interrupt handler (when interrupts are on) or in the process that *)
(* is running.  startMLFQ() holds no lock and runs with interrupts on, so  *)
(* each of its statements is a step of its own: a timer interrupt between  *)
(* two of them lets the scheduler run with what was written so far.        *)
(*                                                                         *)
(* Not modelled here: tickCounts (monotone statistics that nothing reads), *)
(* kill() (for the scheduler it is one more wake-up) and the USED state    *)
(* (fork is one step: a USED process is never scheduled).                  *)
(***************************************************************************)
EXTENDS Integers, FiniteSets, SequencesExt

CONSTANTS
    NPROC,          \* size of the process table
    MaxLevel,       \* MLFQ_MAX_LEVEL
    Params,         \* the arguments that the k-th call of startMLFQ to find the
                    \* flag clear may have; Len(Params) bounds these calls
    Workload,       \* the kernel services programs use
    Pages,          \* pages on the kalloc free list at boot
    BoundedMemory   \* FALSE: kalloc() never fails

Calls == {"fork", "exit", "wait", "dev", "pipe", "fault", "start", "stop"}

ASSUME ConstantsAssumption ==
    /\ NPROC \in Nat \ {0}
    /\ MaxLevel \in Nat \ {0}
    /\ Params \in Seq(SUBSET [m : 1..MaxLevel, n : Nat])
    /\ Workload \subseteq Calls
    /\ Pages \in Nat
    /\ BoundedMemory \in BOOLEAN

Procs    == 1..NPROC        \* slots of the process table
None     == 0               \* the null pointer
InitProc == 1
Levels   == 0..(MaxLevel - 1)

VARIABLES
    \* struct proc
    state, parent,
    blocked,    \* the condition of the sleep loop a process is in, or "no"
    dying,      \* in exit(-1) entered from a trap, with interrupts off
    \* struct MLFQInfoReport of each process
    added, prio, ticks,
    stay,       \* ticksAtMaxPriority
    \* mlfqFlag, mlfqParams, mlfqQueues
    flag, m, n, queue,
    \* locals of the scheduler functions
    pc,
    cur,        \* MLFQ_scheduler's p
    rrIndex,    \* rr_index
    slots,      \* procs_with_highest_priority
    walk,       \* the elements that Rule 5's temp has still to visit
    idx,        \* the loop index of RR_scheduler and of the admission loop
    \* the CPU
    cpuProc,    \* c->proc
    intr,       \* interrupts are enabled while the scheduler runs
    panicked,
    \* kalloc
    freePages,
    \* the calls of startMLFQ
    call,       \* the statement that a process in startMLFQ is at, or "no"
    args,       \* its locals m and n
    level,      \* its loop index
    starts,     \* calls that found the flag clear so far
    torn        \* history: a call was preempted after it had set the flag

procVars  == <<state, parent, blocked, dying>>
infoVars  == <<added, prio, ticks, stay>>
startVars == <<call, args, level, starts, torn>>
mlfqVars  == <<flag, m, n, queue, startVars>>
schedVars == <<pc, cur, rrIndex, slots, walk, idx>>
cpuVars   == <<cpuProc, intr, panicked>>
vars == <<procVars, infoVars, mlfqVars, schedVars, cpuVars, freePages>>

States == {"UNUSED", "SLEEPING", "RUNNABLE", "RUNNING", "ZOMBIE"}
Pcs    == {"top", "rr", "loop", "boost", "admit", "pick"}
Places == {"no", "flag", "m", "n", "reset"}

(***************************************************************************)
(* Type invariant: the kernel's variables stay within their C types and    *)
(* the arrays they index (priority is always a valid index of ticks[] and  *)
(* of mlfqQueues[], rr_index of the candidates array).                     *)
(***************************************************************************)
TypeOK ==
    /\ state \in [Procs -> States]
    /\ parent \in [Procs -> Procs \cup {None}]
    /\ blocked \in [Procs -> {"no", "dev", "pipe", "wait"}]
    /\ dying \in [Procs -> BOOLEAN]
    /\ added \in [Procs -> BOOLEAN]
    /\ prio \in [Procs -> Levels]
    /\ ticks \in [Procs -> [Levels -> Nat]]
    /\ stay \in [Procs -> Nat]
    /\ flag \in BOOLEAN
    /\ m \in 0..MaxLevel
    /\ n \in Nat
    /\ queue \in [Levels -> Seq(Procs)]
    /\ pc \in Pcs
    /\ cur \in Procs \cup {None}
    /\ rrIndex \in 0..(NPROC - 1)
    /\ slots \in [Procs -> Procs \cup {None}]
    /\ walk \in Seq(Procs)
    /\ idx \in 1..(NPROC + 1)
    /\ cpuProc \in Procs \cup {None}
    /\ intr \in BOOLEAN
    /\ panicked \in BOOLEAN
    /\ freePages \in Nat
    /\ call \in [Procs -> Places]
    /\ args \in [Procs -> [m : 0..MaxLevel, n : Nat]]
    /\ level \in [Procs -> Levels]
    /\ starts \in 0..Len(Params)
    /\ torn \in BOOLEAN

NoArgs  == [m |-> 0, n |-> 0]
NoTicks == [l \in Levels |-> 0]

\* userinit() has made the first process; the scheduler is about to start.
Init ==
    /\ state = [p \in Procs |-> IF p = InitProc THEN "RUNNABLE" ELSE "UNUSED"]
    /\ parent = [p \in Procs |-> None]
    /\ blocked = [p \in Procs |-> "no"]
    /\ dying = [p \in Procs |-> FALSE]
    /\ added = [p \in Procs |-> FALSE]
    /\ prio = [p \in Procs |-> 0]
    /\ ticks = [p \in Procs |-> NoTicks]
    /\ stay = [p \in Procs |-> 0]
    /\ flag = FALSE /\ m = 0 /\ n = 0
    /\ queue = [l \in Levels |-> << >>]
    /\ pc = "top"
    /\ cur = None /\ rrIndex = 0
    /\ slots = [k \in Procs |-> None]
    /\ walk = << >> /\ idx = 1
    /\ cpuProc = None /\ intr = FALSE /\ panicked = FALSE
    /\ freePages = Pages
    /\ call = [p \in Procs |-> "no"]
    /\ args = [p \in Procs |-> NoArgs]
    /\ level = [p \in Procs |-> 0]
    /\ starts = 0 /\ torn = FALSE

-----------------------------------------------------------------------------
(* The queues.  An element is a page of kalloc(): mlfq_enque gives up       *)
(* silently when there is none, mlfq_delete does not kfree() what it        *)
(* unlinks.                                                                 *)

(* Definitions named Bug_... are deliberate faults: each is the definition  *)
(* that follows it with one slip, kept to show which property notices it.   *)

CanAlloc    == ~BoundedMemory \/ freePages > 0
PagesAfterAlloc == IF BoundedMemory /\ freePages > 0
                   THEN freePages - 1 ELSE freePages

Bug_Enque_DropsTail(qs, l, p) ==
    IF CanAlloc THEN [qs EXCEPT ![l] = <<p>>] ELSE qs

\* mlfq_enque on a copy qs of the queues.
Enque(qs, l, p) == IF CanAlloc THEN [qs EXCEPT ![l] = Append(@, p)] ELSE qs

\* mlfq_delete: the first element for p goes, if there is one.
Delete(qs, l, p) == [qs EXCEPT ![l] = RemoveFirst(@, p)]

-----------------------------------------------------------------------------
(* The scheduler.                                                           *)

Scheduling == ~panicked /\ cpuProc = None

Bug_intr_on_Missing == UNCHANGED intr
intr_on == intr' = TRUE

Bug_FreshLocals_Kept == UNCHANGED <<cur, rrIndex, slots>>

\* MLFQ_scheduler() starts with p = 0, rr_index = 0 and an unwritten array.
FreshLocals ==
    /\ cur' = None /\ rrIndex' = 0
    /\ slots' = [k \in Procs |-> None]

\* The outer loop of scheduler(): intr_on(), then the policy of the moment.
SchedulerTop ==
    /\ Scheduling /\ pc = "top"
    /\ intr_on
    /\ idx' = 1
    /\ pc' = IF flag THEN "loop" ELSE "rr"
    /\ FreshLocals
    /\ UNCHANGED <<walk, procVars, infoVars, mlfqVars, cpuProc, panicked,
                   freePages>>

Bug_SwitchTo_StateKept(p) ==
    /\ cpuProc' = p
    /\ panicked' = (state[p] = "ZOMBIE")
    /\ UNCHANGED state

\* swtch to p's saved context.  A zombie's continues after sched() in
\* exit(), at panic("zombie exit").
SwitchTo(p) ==
    /\ state' = [state EXCEPT ![p] = "RUNNING"]
    /\ cpuProc' = p
    /\ panicked' = (state[p] = "ZOMBIE")

Bug_RRRuns_Sleeping(p) == state[p] \in {"RUNNABLE", "SLEEPING"}
Bug_RRRuns_AnyUsed(p)  == state[p] # "UNUSED"
RRRuns(p) == state[p] = "RUNNABLE"

\* One turn of the loop of RR_scheduler().
RRVisit ==
    /\ Scheduling /\ pc = "rr" /\ idx <= NPROC
    /\ idx' = idx + 1
    /\ IF RRRuns(idx) THEN SwitchTo(idx)
       ELSE UNCHANGED <<state, cpuProc, panicked>>
    /\ UNCHANGED <<parent, blocked, dying, infoVars, mlfqVars, pc, cur,
                   rrIndex, slots, walk, intr, freePages>>

RRDone ==
    /\ Scheduling /\ pc = "rr" /\ idx = NPROC + 1
    /\ pc' = "top"
    /\ UNCHANGED <<cur, rrIndex, slots, walk, idx, procVars, infoVars,
                   mlfqVars, cpuVars, freePages>>

\* while (mlfqFlag) ends after stopMLFQ().
MLFQDone ==
    /\ Scheduling /\ pc = "loop" /\ ~flag
    /\ pc' = "top"
    /\ UNCHANGED <<cur, rrIndex, slots, walk, idx, procVars, infoVars, mlfqVars,
                   cpuVars, freePages>>

Quantum(l) == 2 * (l + 1)

Bug_Charged_RunningOnly == cur # None /\ state[cur] = "RUNNING"

\* The tick is charged to cur only if it left the CPU runnable.
Charged == cur # None /\ state[cur] \in {"RUNNABLE", "RUNNING"}

\* The quantum expires: cur moves one level down, or starts a new quantum
\* on the lowest one; in both cases another process is to be found.
ChargeAndExpire ==
    /\ Scheduling /\ pc = "loop" /\ flag /\ Charged
    /\ LET l == prio[cur] IN
       /\ ticks[cur][l] + 1 >= Quantum(l)
       /\ ticks' = [ticks EXCEPT ![cur][l] = 0]
       /\ IF l < m - 1
          THEN /\ queue' = Delete(Enque(queue, l + 1, cur), l, cur)
               /\ freePages' = PagesAfterAlloc
               /\ prio' = [prio EXCEPT ![cur] = l + 1]
          ELSE UNCHANGED <<queue, freePages, prio>>
    /\ cur' = None
    /\ UNCHANGED <<added, stay, flag, m, n, startVars, pc, rrIndex, slots,
                   walk, idx, procVars, cpuVars>>

\* Otherwise the iteration goes on to Rule 5 on the bottom queue.  Between
\* the first two statements of the first start m is 0 and that queue is
\* &mlfqQueues[-1]: the word there is a null pointer, or one that the kernel
\* faults on when it follows it.
Charge ==
    /\ Scheduling /\ pc = "loop" /\ flag
    /\ IF Charged
       THEN LET l == prio[cur] IN
            /\ ticks[cur][l] + 1 < Quantum(l)
            /\ ticks' = [ticks EXCEPT ![cur][l] = @ + 1]
       ELSE UNCHANGED ticks
    /\ pc' = "boost"
    /\ \/ m > 0 /\ walk' = queue[m - 1] /\ UNCHANGED panicked
       \/ m = 0 /\ walk' = << >> /\ panicked' \in BOOLEAN
    /\ UNCHANGED <<added, prio, stay, cur, rrIndex, slots, idx, procVars,
                   mlfqVars, cpuProc, intr, freePages>>

Bug_DueForBoost_Late(e)  == stay[e] + 1 > n
Bug_DueForBoost_Early(e) == stay[e] + 2 >= n
DueForBoost(e) == stay[e] + 1 >= n

Bug_BoostedTicks_TopOnly(t) == [t EXCEPT ![0] = 0]
BoostedTicks(t) == [t EXCEPT ![m - 1] = 0, ![0] = 0]

\* Rule 5 for one element of the bottom queue.  With m = 1 the element goes
\* back to the tail of the queue that temp is walking over.
BoostVisit ==
    /\ Scheduling /\ pc = "boost" /\ walk # << >>
    /\ LET e == Head(walk) IN
       IF prio[e] # m - 1
       THEN /\ walk' = Tail(walk)
            /\ UNCHANGED <<queue, freePages, prio, ticks, stay>>
       ELSE IF ~DueForBoost(e)
       THEN /\ stay' = [stay EXCEPT ![e] = @ + 1]
            /\ walk' = Tail(walk)
            /\ UNCHANGED <<queue, freePages, prio, ticks>>
       ELSE /\ queue' = Delete(Enque(queue, 0, e), m - 1, e)
            /\ freePages' = PagesAfterAlloc
            /\ stay' = [stay EXCEPT ![e] = 0]
            /\ ticks' = [ticks EXCEPT ![e] = BoostedTicks(@)]
            /\ prio' = [prio EXCEPT ![e] = 0]
            /\ walk' = IF m = 1 /\ CanAlloc THEN Append(Tail(walk), e)
                       ELSE Tail(walk)
    /\ UNCHANGED <<added, flag, m, n, startVars, pc, cur, rrIndex, slots, idx,
                   procVars, cpuVars>>

BoostDone ==
    /\ Scheduling /\ pc = "boost" /\ walk = << >>
    /\ pc' = "admit"
    /\ idx' = 1
    /\ UNCHANGED <<cur, rrIndex, slots, walk, procVars, infoVars, mlfqVars,
                   cpuVars, freePages>>

\* One turn of the loop that adds new processes to queue 0.
AdmitVisit ==
    /\ Scheduling /\ pc = "admit" /\ idx <= NPROC
    /\ IF state[idx] = "RUNNABLE" /\ ~added[idx]
       THEN /\ queue' = Enque(queue, 0, idx)
            /\ freePages' = PagesAfterAlloc
            /\ added' = [added EXCEPT ![idx] = TRUE]
       ELSE UNCHANGED <<queue, freePages, added>>
    /\ idx' = idx + 1
    /\ UNCHANGED <<prio, ticks, stay, flag, m, n, startVars, pc, cur, rrIndex,
                   slots, walk, procVars, cpuVars>>

AdmitDone ==
    /\ Scheduling /\ pc = "admit" /\ idx = NPROC + 1
    /\ pc' = "pick"
    /\ UNCHANGED <<cur, rrIndex, slots, walk, idx, procVars, infoVars,
                   mlfqVars, cpuVars, freePages>>

\* The runnable processes of the best priority, and that set in table order
\* written over the array's earlier contents.
Runnable == {p \in Procs : state[p] = "RUNNABLE"}
Top      == {p \in Runnable : \A q \in Runnable : prio[p] <= prio[q]}
Rank(p)  == Cardinality({q \in Top : q < p})
FilledSlots ==
    [k \in Procs |-> IF \E p \in Top : Rank(p) = k - 1
                     THEN CHOOSE p \in Top : Rank(p) = k - 1
                     ELSE slots[k]]

Bug_NextIndex_NoWrap(num) == rrIndex + 1
NextIndex(num) == (rrIndex + 1) % num

\* if (p == 0): choose among the best, by rr_index when there are several;
\* rr_index is not reset when that set changes.  The two scans and the
\* switch are one step: a wake-up between them is one before or after it.
Pick ==
    /\ Scheduling /\ pc = "pick" /\ cur = None
    /\ LET num == Cardinality(Top) IN
       /\ slots' = FilledSlots
       /\ cur' = IF num > 1 THEN FilledSlots[rrIndex + 1]
                 ELSE IF num = 1 THEN FilledSlots[1] ELSE None
       /\ rrIndex' = IF num > 1 THEN NextIndex(num) ELSE rrIndex
    /\ IF cur' # None THEN SwitchTo(cur')
       ELSE UNCHANGED <<state, cpuProc, panicked>>
    /\ pc' = "loop"
    /\ UNCHANGED <<walk, idx, parent, blocked, dying, infoVars, mlfqVars,
                   intr, freePages>>

\* p was kept from the previous iteration: it runs again, whatever its state.
Resume ==
    /\ Scheduling /\ pc = "pick" /\ cur # None
    /\ SwitchTo(cur)
    /\ pc' = "loop"
    /\ UNCHANGED <<cur, rrIndex, slots, walk, idx, parent, blocked, dying,
                   infoVars, mlfqVars, intr, freePages>>

SchedulerStep ==
    \/ SchedulerTop \/ RRVisit \/ RRDone \/ MLFQDone
    \/ ChargeAndExpire \/ Charge \/ BoostVisit \/ BoostDone
    \/ AdmitVisit \/ AdmitDone \/ Pick \/ Resume

-----------------------------------------------------------------------------
(* Processes and interrupt handlers.                                        *)

Running(p) == ~panicked /\ cpuProc = p
\* p runs code from which it may call any kernel service.
Free(p)    == Running(p) /\ blocked[p] = "no" /\ ~dying[p] /\ call[p] = "no"
May(p, service) == Free(p) /\ service \in Workload

\* swtch back to the scheduler, whose release(&p->lock) restores the
\* interrupt state p had.  "on" is that state.
LeaveCpu(on) == cpuProc' = None /\ intr' = on /\ UNCHANGED panicked

\* The calls of startMLFQ that have set the flag and not yet returned.
Emptying == {p \in Procs : call[p] \in {"m", "n", "reset"}}

\* usertrap()/kerneltrap() on a timer interrupt: yield() runs with
\* interrupts off.
TimerYield(p) ==
    /\ Running(p) /\ ~dying[p]
    /\ state' = [state EXCEPT ![p] = "RUNNABLE"]
    /\ LeaveCpu(FALSE)
    /\ torn' = (torn \/ p \in Emptying)
    /\ UNCHANGED <<parent, blocked, dying, infoVars, flag, m, n, queue, call,
                   args, level, starts, schedVars, freePages>>

\* sleep() in a loop on a condition that a device interrupt ("dev") or
\* another process ("pipe") will make true.  A dying process still sleeps
\* for the disk, from fileclose() and iput() in exit().
Sleep(p, why) ==
    /\ Running(p) /\ blocked[p] = "no" /\ call[p] = "no" /\ why \in Workload
    /\ why = "dev" \/ ~dying[p]
    /\ state' = [state EXCEPT ![p] = "SLEEPING"]
    /\ blocked' = [blocked EXCEPT ![p] = why]
    /\ LeaveCpu(~dying[p])
    /\ UNCHANGED <<parent, dying, infoVars, mlfqVars, schedVars, freePages>>

Children(p) == {c \in Procs : parent[c] = p}
Zombies(p)  == {c \in Children(p) : state[c] = "ZOMBIE"}

\* wait() with children, none of them a zombie.
WaitSleep(p) ==
    /\ May(p, "wait") /\ Children(p) # {} /\ Zombies(p) = {}
    /\ state' = [state EXCEPT ![p] = "SLEEPING"]
    /\ blocked' = [blocked EXCEPT ![p] = "wait"]
    /\ LeaveCpu(TRUE)
    /\ UNCHANGED <<parent, dying, infoVars, mlfqVars, schedVars, freePages>>

\* sleep() returned and the condition of its loop is still false.
SleepAgain(p) ==
    /\ Running(p) /\ blocked[p] # "no"
    /\ blocked[p] = "wait" => Zombies(p) = {}
    /\ state' = [state EXCEPT ![p] = "SLEEPING"]
    /\ LeaveCpu(~dying[p])
    /\ UNCHANGED <<parent, blocked, dying, infoVars, mlfqVars, schedVars,
                   freePages>>

\* wait() finds its first zombie child; freeproc() clears the slot.
Reap(p, c) ==
    /\ May(p, "wait") \/ (Running(p) /\ blocked[p] = "wait")
    /\ c \in Zombies(p) /\ \A d \in Zombies(p) : c <= d
    /\ blocked' = [blocked EXCEPT ![p] = "no"]
    /\ state' = [state EXCEPT ![c] = "UNUSED"]
    /\ parent' = [parent EXCEPT ![c] = None]
    /\ dying' = [dying EXCEPT ![c] = FALSE]
    /\ added' = [added EXCEPT ![c] = FALSE]
    /\ prio' = [prio EXCEPT ![c] = 0]
    /\ ticks' = [ticks EXCEPT ![c] = NoTicks]
    /\ stay' = [stay EXCEPT ![c] = 0]
    /\ freePages' = IF BoundedMemory THEN freePages + 1 ELSE freePages
    /\ UNCHANGED <<mlfqVars, schedVars, cpuVars>>

\* fork() into the first UNUSED slot; one page stands for the trapframe,
\* page table and memory of the child.
Fork(p, c) ==
    /\ May(p, "fork") /\ CanAlloc
    /\ state[c] = "UNUSED" /\ \A d \in Procs : state[d] = "UNUSED" => c <= d
    /\ state' = [state EXCEPT ![c] = "RUNNABLE"]
    /\ parent' = [parent EXCEPT ![c] = p]
    /\ added' = [added EXCEPT ![c] = FALSE]
    /\ prio' = [prio EXCEPT ![c] = 0]
    /\ ticks' = [ticks EXCEPT ![c] = NoTicks]
    /\ stay' = [stay EXCEPT ![c] = 0]
    /\ freePages' = PagesAfterAlloc
    /\ UNCHANGED <<blocked, dying, mlfqVars, schedVars, cpuVars>>

\* An exception in user code: setkilled() and exit(-1), from usertrap()
\* before any intr_on().
Fault(p) ==
    /\ May(p, "fault") /\ p # InitProc
    /\ dying' = [dying EXCEPT ![p] = TRUE]
    /\ UNCHANGED <<state, parent, blocked, infoVars, mlfqVars, schedVars,
                   cpuVars, freePages>>

\* exit() after its files are closed: children go to init, which is woken if
\* there are any, and so is the parent; then ZOMBIE and sched().
Exit(p) ==
    /\ Running(p) /\ p # InitProc /\ blocked[p] = "no" /\ call[p] = "no"
    /\ dying[p] \/ "exit" \in Workload
    /\ LET woken == {q \in Procs : /\ state[q] = "SLEEPING"
                                   /\ blocked[q] = "wait"
                                   /\ \/ q = parent[p]
                                      \/ q = InitProc /\ Children(p) # {}}
       IN state' = [q \in Procs |-> IF q = p THEN "ZOMBIE"
                                    ELSE IF q \in woken THEN "RUNNABLE"
                                    ELSE state[q]]
    /\ parent' = [q \in Procs |-> IF parent[q] = p THEN InitProc ELSE parent[q]]
    /\ LeaveCpu(~dying[p])
    /\ UNCHANGED <<blocked, dying, infoVars, mlfqVars, schedVars, freePages>>

\* startMLFQ() finds the flag clear; a call that finds it set returns -1.
StartTest(p, arg) ==
    /\ May(p, "start") /\ ~flag
    /\ starts < Len(Params) /\ arg \in Params[starts + 1]
    /\ call' = [call EXCEPT ![p] = "flag"]
    /\ args' = [args EXCEPT ![p] = arg]
    /\ starts' = starts + 1
    /\ UNCHANGED <<level, torn, flag, m, n, queue, procVars, infoVars,
                   schedVars, cpuVars, freePages>>

\* p is in startMLFQ() and about to execute the statement at.
InStart(p, at) == Running(p) /\ call[p] = at

\* mlfqFlag = 1.  torn is about the calls since nobody was emptying.
StartFlag(p) ==
    /\ InStart(p, "flag")
    /\ flag' = TRUE
    /\ torn' = (torn /\ Emptying # {})
    /\ call' = [call EXCEPT ![p] = "m"]
    /\ UNCHANGED <<args, level, starts, m, n, queue, procVars, infoVars,
                   schedVars, cpuVars, freePages>>

StartM(p) ==
    /\ InStart(p, "m")
    /\ m' = args[p].m
    /\ call' = [call EXCEPT ![p] = "n"]
    /\ UNCHANGED <<args, level, starts, torn, flag, n, queue, procVars,
                   infoVars, schedVars, cpuVars, freePages>>

StartN(p) ==
    /\ InStart(p, "n")
    /\ n' = args[p].n
    /\ call' = [call EXCEPT ![p] = "reset"]
    /\ level' = [level EXCEPT ![p] = 0]
    /\ UNCHANGED <<args, starts, torn, flag, m, queue, procVars, infoVars,
                   schedVars, cpuVars, freePages>>

Bug_Emptied_Kept(l) == queue
Emptied(l) == [queue EXCEPT ![l] = << >>]

\* One turn of the loop that empties the queues; after the last, the return.
StartReset(p) ==
    /\ InStart(p, "reset")
    /\ queue' = Emptied(level[p])
    /\ IF level[p] + 1 \in Levels
       THEN level' = [level EXCEPT ![p] = @ + 1] /\ UNCHANGED <<call, args>>
       ELSE /\ call'  = [call EXCEPT ![p] = "no"]
            /\ args'  = [args EXCEPT ![p] = NoArgs]
            /\ level' = [level EXCEPT ![p] = 0]
    /\ UNCHANGED <<starts, torn, flag, m, n, procVars, infoVars, schedVars,
                   cpuVars, freePages>>

startMLFQ(p) ==
    \/ \E arg \in UNION Range(Params) : StartTest(p, arg)
    \/ StartFlag(p) \/ StartM(p) \/ StartN(p) \/ StartReset(p)

\* The test of the flag and its reset may be one step: a reset that comes
\* after another call has cleared the flag changes nothing.
stopMLFQ(p) ==
    /\ May(p, "stop") /\ flag
    /\ flag' = FALSE
    /\ UNCHANGED <<m, n, queue, startVars, procVars, infoVars, schedVars,
                   cpuVars, freePages>>

\* wakeup(): the condition q waits for has come true.
Wake(q) ==
    /\ blocked' = [blocked EXCEPT ![q] = "no"]
    /\ state' = IF state[q] = "SLEEPING"
                THEN [state EXCEPT ![q] = "RUNNABLE"] ELSE state
    /\ UNCHANGED <<parent, dying, infoVars, mlfqVars, schedVars, cpuVars,
                   freePages>>

PipeWake(p, q) == Free(p) /\ blocked[q] = "pipe" /\ Wake(q)

\* The disk, console or clock interrupt that q waits for; it is delivered
\* only to a hart whose interrupts are on.
InterruptsOn == IF cpuProc = None THEN intr ELSE ~dying[cpuProc]
DeviceIntr(q) == ~panicked /\ InterruptsOn /\ blocked[q] = "dev" /\ Wake(q)

ProcessStep(p) ==
    \/ TimerYield(p)
    \/ \E why \in {"dev", "pipe"} : Sleep(p, why)
    \/ WaitSleep(p)
    \/ SleepAgain(p)
    \/ \E c \in Procs : Reap(p, c)
    \/ \E c \in Procs : Fork(p, c)
    \/ Fault(p)
    \/ Exit(p)
    \/ startMLFQ(p)
    \/ stopMLFQ(p)
    \/ \E q \in Procs : PipeWake(p, q)

Next ==
    \/ SchedulerStep
    \/ \E p \in Procs : ProcessStep(p)
    \/ \E q \in Procs : DeviceIntr(q)

Spec == Init /\ [][Next]_vars

(***************************************************************************)
(* Fairness.  The scheduler never stops; timer interrupts keep coming, so  *)
(* a process that runs user code is preempted; one that is back in its     *)
(* sleep loop sleeps again; an interrupt stays pending at the PLIC until   *)
(* it is taken, so it is delivered if interrupts are on again and again.   *)
(* Programs owe nothing: no fairness on their system calls, except that a  *)
(* process in exit() completes it.                                         *)
(***************************************************************************)
Fairness ==
    /\ WF_vars(SchedulerStep)
    /\ \A p \in Procs : WF_vars(TimerYield(p) \/ SleepAgain(p) \/
                                (dying[p] /\ Exit(p)))
    /\ \A q \in Procs : SF_vars(DeviceIntr(q))

FairSpec == Spec /\ Fairness
-----------------------------------------------------------------------------
(* Properties.                                                              *)

(***************************************************************************)
(* Tick accounting: only the ticks of the current level are non-zero and   *)
(* they stay below the quantum of that level, whatever demotions, boosts,  *)
(* restarts and slot reuses came before (mlfqInfo.ticks in proc.c:638-721).*)
(***************************************************************************)
QuantumBound ==
    \A p \in Procs, l \in Levels :
        IF l = prio[p] THEN ticks[p][l] < Quantum(l) ELSE ticks[p][l] = 0

(***************************************************************************)
(* While MLFQ is on, the queues never lie: an element of mlfqQueues[l]     *)
(* belongs to an admitted process whose priority is l, and no process has  *)
(* two elements (mlfq_enque/mlfq_delete pairs, proc.c:650-655 and 706-709, *)
(* and the reset in startMLFQ, proc.c:821-824).  Under the first start it  *)
(* holds at every moment, also while startMLFQ() is half-way, preempted    *)
(* or not; under a later one, once it has returned without having been     *)
(* preempted, because the flag is set before the old queues are emptied.   *)
(***************************************************************************)
Settled == starts <= 1 \/ (Emptying = {} /\ ~torn)
QueueSound ==
    flag /\ Settled => \A l \in Levels : \A i, j \in 1..Len(queue[l]) :
        LET e == queue[l][i] IN
        /\ prio[e] = l
        /\ added[e]
        /\ i # j => e # queue[l][j]

(***************************************************************************)
(* Under the first start of MLFQ, a process marked addedToMLFQ is in the   *)
(* queue of its priority ("Flag indicating if process is added to MLFQ     *)
(* queue", proc.h:111): otherwise Rule 5 would never see it.  Two things   *)
(* break it in the code: a startMLFQ() that is preempted between setting   *)
(* the flag and emptying the queues throws away the elements of who was    *)
(* admitted meanwhile, and a later start leaves the marks of the first.    *)
(***************************************************************************)
FirstStart == flag /\ starts = 1
Lost == {p \in Procs : /\ added[p]
                       /\ \A i \in 1..Len(queue[prio[p]]) : queue[prio[p]][i] # p}
QueueComplete == FirstStart /\ ~torn => Lost = {}

\* Queues and marks agree both ways: QueueSound and QueueComplete.
QueuesRight == QueueSound /\ QueueComplete

(***************************************************************************)
(* Time at the bottom: under the first start, a process has a non-zero     *)
(* ticksAtMaxPriority only while it is at level m-1, and fewer than n of   *)
(* them (Rule 5, proc.c:688-721), although Rule 5 may run before           *)
(* startMLFQ() has set m and n.                                            *)
(***************************************************************************)
StayBound ==
    FirstStart => \A p \in Procs : stay[p] > 0 => prio[p] = m - 1 /\ stay[p] < n

(***************************************************************************)
(* The CPU and the process table agree: exactly the process in c->proc is  *)
(* RUNNING, whichever of the dispatch paths put it there (proc.c:608-792). *)
(***************************************************************************)
RunningIsCurrent ==
    \A p \in Procs : state[p] = "RUNNING" <=> cpuProc = p

(***************************************************************************)
(* No dispatch ever resumes the stale context of a slot that was freed or  *)
(* never used, although MLFQ_scheduler keeps p and the candidates array    *)
(* over many iterations (proc.c:632, 752 and 784).                         *)
(***************************************************************************)
DispatchesUsedSlot ==
    [][\A p \in Procs : cpuProc' = p /\ cpuProc # p => state[p] # "UNUSED"]_vars

(***************************************************************************)
(* A priority changes in three ways only: one level down at the end of a   *)
(* full quantum, to the top from the bottom level after n counts there, or *)
(* with a new life of the slot.  Sleeping, yielding early, stopping and    *)
(* restarting MLFQ do not move a process (proc.c:638-721).                 *)
(***************************************************************************)
MovesByTheRules ==
    [][\A p \in Procs : prio'[p] # prio[p] =>
         \/ /\ prio'[p] = prio[p] + 1 /\ prio'[p] <= m - 1
            /\ ticks[p][prio[p]] + 1 = Quantum(prio[p])
         \/ prio'[p] = 0 /\ prio[p] = m - 1 /\ stay[p] + 1 >= n
         \/ prio'[p] = 0 /\ state'[p] = "UNUSED"]_vars

(***************************************************************************)
(* No starvation among processes that compute: a runnable process is run   *)
(* again, because every iteration counts against the processes of the      *)
(* bottom level, and among equals rr_index advances (proc.c:688-781).      *)
(* Only a preempted startMLFQ() breaks it: a process whose element it has  *)
(* thrown away waits at the bottom for ever while others are boosted.      *)
(***************************************************************************)
NoStarvation ==
    \A p \in Procs : state[p] = "RUNNABLE" ~>
        (state[p] = "RUNNING" \/ Emptying # {} \/ (torn /\ Lost # {}))

(***************************************************************************)
(* Rule 5: a process at the bottom level, running, waiting or asleep, is   *)
(* moved to the top queue in the end, unless MLFQ is stopped or a start of *)
(* it is in progress (proc.c:688-721; m > 1).  After a start that was      *)
(* preempted, this is so for the processes that still have their element.  *)
(***************************************************************************)
BottomBoosted ==
    \A p \in Procs :
        (flag /\ added[p] /\ prio[p] = m - 1 /\ (torn => p \notin Lost))
            ~> (prio[p] = 0 \/ ~flag \/ Emptying # {})

(***************************************************************************)
(* A process that waits for a device is woken: the scheduler lets devices  *)
(* interrupt ("Avoid deadlock by ensuring that devices can interrupt.",    *)
(* proc.c:594).                                                            *)
(***************************************************************************)
DeviceAnswers ==
    \A p \in Procs : blocked[p] = "dev" ~> blocked[p] # "dev"

(***************************************************************************)
(* "An exited process remains in the zombie state until its parent calls   *)
(* wait()." (proc.c:379-381)                                               *)
(***************************************************************************)
ZombieStays ==
    [][\A p \in Procs :
         state[p] = "ZOMBIE" => state'[p] \in {"ZOMBIE", "UNUSED"}]_vars

(***************************************************************************)
(* "Atomically release lock and sleep on chan.  Reacquires lock when       *)
(* awakened." (proc.c:919-920): a sleeping process runs only after a       *)
(* wake-up has made it RUNNABLE.                                           *)
(***************************************************************************)
SleeperRunsAfterWakeup ==
    [][\A p \in Procs : state[p] = "SLEEPING" => state'[p] # "RUNNING"]_vars

=============================================================================
