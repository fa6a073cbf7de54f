----------------------------- MODULE Proc_proofs -----------------------------
(* Theorems about Proc for every size of the process table, every set of   *)
(* CPUs, bound on pids and choice of arguments to kill(), checked by       *)
(* TLAPS.                                                                  *)
EXTENDS Proc, TLAPS

Alive == {"RUNNABLE", "RUNNING", "SLEEPING"}
Exits == {"exit1", "exit2", "exit3", "exit4"}

\* Where a process holds wait_lock.
Holds == {"exit2", "exit3", "exit4", "wait2", "wait3"}

\* A CPU is on the stack of at most one process, and no other CPU is; the
\* process has its lock locked while the CPU comes to it or leaves it.
CpuRight == \A c \in CPUs :
    /\ mode[c] = "sched" <=> cpu[c] = None
    /\ \A d \in CPUs : cpu[c] = cpu[d] /\ cpu[c] # None => c = d
    /\ mode[c] \in {"enter", "run"} => state[cpu[c]] = "RUNNING"
    /\ mode[c] = "leave" => state[cpu[c]] \in {"RUNNABLE", "SLEEPING", "ZOMBIE"}
    /\ mode[c] \in {"enter", "leave"} => plock[cpu[c]] = c

LockRight == \A p \in Procs : plock[p] # None =>
    cpu[plock[p]] = p /\ mode[plock[p]] \in {"enter", "leave"}

\* A process in a system call is alive, or a zombie that was in exit(); the
\* first process never exits.
CallRight ==
    /\ \A p \in Procs :
          /\ kpc[p] # "user" => \/ state[p] \in Alive
                                \/ state[p] = "ZOMBIE" /\ kpc[p] = "exit4"
          /\ state[p] = "ZOMBIE" => kpc[p] = "exit4"
          /\ state[p] = "SLEEPING" => chan[p] = p /\ kpc[p] = "woken"
    /\ state[InitProc] \in Alive /\ kpc[InitProc] \notin Exits

\* fork() has a slot that nobody else touches.
KidRight == \A p \in Procs :
    /\ kid[p] # None <=> kpc[p] \in {"fork2", "fork3"}
    /\ kid[p] # None => state[kid[p]] = "USED"
    /\ \A q \in Procs : kid[p] = kid[q] /\ kid[p] # None => p = q

\* wait_lock is held by the process on the CPU that took it, which runs.
WaitRight ==
    /\ waitLock # None => mode[waitLock] = "run" /\ kpc[cpu[waitLock]] \in Holds
    /\ \A p \in Procs : kpc[p] \in Holds /\ state[p] # "ZOMBIE" =>
          waitLock # None /\ cpu[waitLock] = p

\* After reparent() a process has no children, and gets no more.
FamilyRight ==
    /\ ParentsAlive
    /\ \A p, q \in Procs : kpc[p] \in Exits \ {"exit1"} => parent[q] # p

\* Who sleeps has no zombie child, but for the first process just before exit()
\* wakes it; nobody sleeps whose child is about to become a zombie.
SleepRight ==
    /\ \A p, q \in Procs :
          state[p] = "SLEEPING" /\ state[q] = "ZOMBIE" /\ parent[q] = p =>
              p = InitProc /\ waitLock # None /\ kpc[cpu[waitLock]] = "exit2"
    /\ \A p, q \in Procs :
          kpc[p] = "wait3" /\ state[q] = "ZOMBIE" => parent[q] # p
    /\ \A p, q \in Procs :
          kpc[q] = "exit4" /\ state[q] # "ZOMBIE" /\ parent[q] = p =>
              state[p] # "SLEEPING"

IInv == /\ TypeOK /\ CpuRight /\ LockRight /\ CallRight /\ KidRight
        /\ WaitRight /\ FamilyRight /\ SleepRight /\ BornAlive

-----------------------------------------------------------------------------

LEMMA Constants ==
    /\ None \notin Procs /\ None \notin CPUs /\ InitProc \in Procs
    /\ \A i \in Procs : NextSlot(i) \in Procs
BY ProcAssumption DEF Procs, None, InitProc, NextSlot

\* A process whose lock is free and that does not run is on no CPU.
LEMMA OnNoCpu ==
    ASSUME TypeOK, CpuRight, NEW p \in Procs,
           plock[p] = None, state[p] # "RUNNING"
    PROVE  \A d \in CPUs : cpu[d] # p
<1> SUFFICES ASSUME NEW d \in CPUs, cpu[d] = p PROVE FALSE
  OBVIOUS
<1>1. mode[d] \in {"enter", "run", "leave"}
  BY Constants DEF TypeOK, CpuRight, Modes
<1> QED BY <1>1, Constants DEF CpuRight

LEMMA CpuNext == IInv /\ [Next]_vars => CpuRight'
<1> SUFFICES ASSUME IInv, [Next]_vars PROVE CpuRight'
  OBVIOUS
<1>1. TypeOK /\ CpuRight /\ LockRight /\ KidRight
  BY DEF IInv
<1>2. CASE UNCHANGED <<cpu, mode, state, plock>>
  BY <1>1, <1>2 DEF TypeOK, CpuRight, LockRight
<1>3. CASE UNCHANGED vars
  BY <1>2, <1>3 DEF vars, procVars, lockVars, cpuVars
<1>4. ASSUME NEW c \in CPUs,
             SchedStep(c) \/ KernelStep(c) \/ TimerYield(c) \/ UserStep(c)
      PROVE  CpuRight'
  <2>1. CASE \/ Skip(c) \/ ForkParent(c) \/ ExitReparent(c) \/ WaitLock(c)
             \/ WaitGiveUp(c) \/ WaitOn(c) \/ ExitCall(c) \/ WaitCall(c)
             \/ \E z \in Procs : WaitBadAddress(c, z)
    BY <1>2, <2>1
    DEF Skip, ForkParent, ExitReparent, WaitLock, WaitGiveUp, WaitOn,
        ExitCall, WaitCall, WaitBadAddress, procVars, lockVars, cpuVars
  <2>2. CASE Dispatch(c)
    <3> DEFINE p == idx[c]
    <3>1. /\ p \in Procs /\ mode[c] = "sched" /\ cpu[c] = None
          /\ plock[p] = None /\ state[p] = "RUNNABLE"
          /\ state' = [state EXCEPT ![p] = "RUNNING"]
          /\ plock' = [plock EXCEPT ![p] = c]
          /\ cpu' = [cpu EXCEPT ![c] = p] /\ mode' = [mode EXCEPT ![c] = "enter"]
      BY <1>1, <2>2 DEF Dispatch, TypeOK, CpuRight
    <3> HIDE DEF p
    <3>2. \A d \in CPUs : cpu[d] # p
      BY <1>1, <3>1, OnNoCpu
    <3> QED BY <1>1, <3>1, <3>2, Constants DEF TypeOK, CpuRight
  <2>3. CASE Enter(c)
    BY <1>1, <2>3, Constants
    DEF Enter, TypeOK, CpuRight, LockRight, procVars, lockVars, cpuVars,
        pidVars
  <2>4. CASE Swtch(c)
    BY <1>1, <2>4, Constants
    DEF Swtch, TypeOK, CpuRight, LockRight, procVars, lockVars, cpuVars,
        pidVars
  <2>5. CASE ForkReady(c)
    <3> DEFINE p == cpu[c]
               z == kid[p]
    <3>1. /\ p \in Procs /\ kpc[p] = "fork3" /\ mode[c] = "run"
          /\ state' = [state EXCEPT ![z] = "RUNNABLE"]
          /\ kpc' = [kpc EXCEPT ![p] = "user", ![z] = "user"]
          /\ UNCHANGED <<cpu, mode, plock, chan>>
      BY <1>1, <2>5, Constants
      DEF ForkReady, At, TypeOK, CpuRight, procVars, cpuVars, lockVars
    <3>2. z \in Procs /\ state[z] = "USED"
      BY <1>1, <3>1, Constants DEF KidRight, TypeOK
    <3> HIDE DEF p, z
    <3> QED BY <1>1, <3>1, <3>2 DEF TypeOK, CpuRight
  <2>6. CASE ExitWakeInit(c)
    BY <1>1, <2>6, Constants
    DEF ExitWakeInit, At, Goto, wakeup, TypeOK, CpuRight, LockRight, procVars,
        lockVars, cpuVars, pidVars
  <2>7. CASE ExitWakeParent(c)
    BY <1>1, <2>7, Constants
    DEF ExitWakeParent, At, Goto, wakeup, TypeOK, CpuRight, LockRight,
        procVars, lockVars, cpuVars, pidVars
  <2>8. CASE ExitZombie(c)
    BY <1>1, <2>8, Constants
    DEF ExitZombie, At, Leave, TypeOK, CpuRight, LockRight, procVars,
        lockVars, cpuVars, pidVars
  <2>9. CASE WaitSleep(c)
    BY <1>1, <2>9, Constants
    DEF WaitSleep, At, Leave, Goto, TypeOK, CpuRight, LockRight, procVars,
        lockVars, cpuVars, pidVars
  <2>10. CASE TimerYield(c)
    BY <1>1, <2>10, Constants
    DEF TimerYield, Leave, TypeOK, CpuRight, LockRight, procVars, lockVars,
        cpuVars, pidVars
  <2>11. ASSUME NEW z \in Procs, WaitReap(c, z)
        PROVE  CpuRight'
    BY <1>1, <2>11, Constants
    DEF WaitReap, FirstZombie, At, Zombies, Children, LockFree, freeproc,
        TypeOK, CpuRight, LockRight, procVars, lockVars, cpuVars, pidVars
  <2>12. ASSUME NEW z \in Procs, ForkAlloc(c, z)
        PROVE  CpuRight'
    BY <1>1, <2>12, Constants
    DEF ForkAlloc, MayCall, Goto, TypeOK, CpuRight, LockRight, procVars,
        lockVars, cpuVars, pidVars
  <2>13. ASSUME NEW z \in Procs, ForkNoMemory(c, z)
        PROVE  CpuRight'
    BY <1>1, <2>13, Constants
    DEF ForkNoMemory, MayCall, freeproc, TypeOK, CpuRight, LockRight,
        procVars, lockVars, cpuVars, pidVars
  <2>14. ASSUME NEW k \in KillPids, NEW z \in Procs, Kill(c, k, z)
        PROVE  CpuRight'
    BY <1>1, <2>14, Constants
    DEF Kill, MayCall, TypeOK, CpuRight, LockRight, procVars, lockVars,
        cpuVars, pidVars
  <2> QED BY <1>4, <2>1, <2>2, <2>3, <2>4, <2>5, <2>6, <2>7, <2>8, <2>9,
             <2>10, <2>11, <2>12, <2>13, <2>14 DEF SchedStep, KernelStep,
             UserStep
<1> QED BY <1>3, <1>4 DEF Next

LEMMA LockNext == IInv /\ [Next]_vars => LockRight'
<1> SUFFICES ASSUME IInv, [Next]_vars PROVE LockRight'
  OBVIOUS
<1>1. TypeOK /\ CpuRight /\ LockRight
  BY DEF IInv
<1>2. CASE UNCHANGED <<cpu, mode, plock>>
  BY <1>1, <1>2 DEF TypeOK, CpuRight, LockRight
<1>3. CASE UNCHANGED vars
  BY <1>2, <1>3 DEF vars, lockVars, cpuVars
<1>4. ASSUME NEW c \in CPUs,
             SchedStep(c) \/ KernelStep(c) \/ TimerYield(c) \/ UserStep(c)
      PROVE  LockRight'
  <2>1. CASE \/ Skip(c) \/ ForkParent(c) \/ ForkReady(c) \/ ExitReparent(c)
             \/ ExitWakeInit(c) \/ ExitWakeParent(c) \/ WaitLock(c)
             \/ WaitGiveUp(c) \/ WaitOn(c) \/ ExitCall(c) \/ WaitCall(c)
             \/ \E z \in Procs : WaitReap(c, z) \/ WaitBadAddress(c, z)
                                 \/ ForkAlloc(c, z) \/ ForkNoMemory(c, z)
             \/ \E k \in KillPids, z \in Procs : Kill(c, k, z)
    BY <1>2, <2>1
    DEF Skip, ForkParent, ForkReady, ExitReparent, ExitWakeInit,
        ExitWakeParent, WaitLock, WaitGiveUp, WaitOn, ExitCall, WaitCall,
        WaitReap, WaitBadAddress, ForkAlloc, ForkNoMemory, Kill, freeproc,
        lockVars, cpuVars
  <2>2. CASE Dispatch(c)
    BY <1>1, <2>2, Constants
    DEF Dispatch, TypeOK, CpuRight, LockRight, procVars, lockVars, cpuVars,
        pidVars
  <2>3. CASE Enter(c)
    BY <1>1, <2>3, Constants
    DEF Enter, TypeOK, CpuRight, LockRight, procVars, lockVars, cpuVars,
        pidVars
  <2>4. CASE Swtch(c)
    BY <1>1, <2>4, Constants
    DEF Swtch, TypeOK, CpuRight, LockRight, procVars, lockVars, cpuVars,
        pidVars
  <2>5. CASE ExitZombie(c)
    BY <1>1, <2>5, Constants
    DEF ExitZombie, At, Leave, TypeOK, CpuRight, LockRight, procVars,
        lockVars, cpuVars, pidVars
  <2>6. CASE WaitSleep(c)
    BY <1>1, <2>6, Constants
    DEF WaitSleep, At, Leave, Goto, TypeOK, CpuRight, LockRight, procVars,
        lockVars, cpuVars, pidVars
  <2>7. CASE TimerYield(c)
    BY <1>1, <2>7, Constants
    DEF TimerYield, Leave, TypeOK, CpuRight, LockRight, procVars, lockVars,
        cpuVars, pidVars
  <2> QED BY <1>4, <2>1, <2>2, <2>3, <2>4, <2>5, <2>6, <2>7 DEF SchedStep,
             KernelStep, UserStep
<1> QED BY <1>3, <1>4 DEF Next

LEMMA CallNext == IInv /\ [Next]_vars => CallRight'
<1> SUFFICES ASSUME IInv, [Next]_vars PROVE CallRight'
  OBVIOUS
<1>1. TypeOK /\ CpuRight /\ LockRight /\ CallRight /\ KidRight
  BY DEF IInv
<1>2. CASE UNCHANGED <<kpc, state, chan>>
  BY <1>1, <1>2
  DEF TypeOK, CpuRight, LockRight, CallRight, KidRight, Alive, Exits
<1>3. CASE UNCHANGED vars
  BY <1>2, <1>3 DEF vars, procVars
<1>4. ASSUME NEW c \in CPUs,
             SchedStep(c) \/ KernelStep(c) \/ TimerYield(c) \/ UserStep(c)
      PROVE  CallRight'
  <2>1. CASE \/ Skip(c) \/ Swtch(c)
    BY <1>2, <2>1 DEF Skip, Swtch, procVars
  <2>2. CASE Dispatch(c)
    BY <1>1, <2>2, Constants
    DEF Dispatch, TypeOK, CpuRight, LockRight, CallRight, KidRight, Alive,
        Exits, procVars, lockVars, cpuVars, pidVars
  <2>3. CASE Enter(c)
    BY <1>1, <2>3, Constants
    DEF Enter, TypeOK, CpuRight, LockRight, CallRight, KidRight, Alive, Exits,
        procVars, lockVars, cpuVars, pidVars
  <2>4. CASE ForkParent(c)
    BY <1>1, <2>4, Constants
    DEF ForkParent, At, Goto, TypeOK, CpuRight, LockRight, CallRight,
        KidRight, Alive, Exits, procVars, lockVars, cpuVars, pidVars
  <2>5. CASE ForkReady(c)
    <3> DEFINE p == cpu[c]
               z == kid[p]
    <3>1. /\ p \in Procs /\ kpc[p] = "fork3" /\ mode[c] = "run"
          /\ state' = [state EXCEPT ![z] = "RUNNABLE"]
          /\ kpc' = [kpc EXCEPT ![p] = "user", ![z] = "user"]
          /\ UNCHANGED <<cpu, mode, plock, chan>>
      BY <1>1, <2>5, Constants
      DEF ForkReady, At, TypeOK, CpuRight, procVars, cpuVars, lockVars
    <3>2. z \in Procs /\ state[z] = "USED"
      BY <1>1, <3>1, Constants DEF KidRight, TypeOK
    <3> HIDE DEF p, z
    <3> QED BY <1>1, <3>1, <3>2, Constants DEF TypeOK, CallRight, Alive, Exits
  <2>6. CASE ExitReparent(c)
    BY <1>1, <2>6, Constants
    DEF ExitReparent, At, Goto, Adopted, Children, TypeOK, CpuRight,
        LockRight, CallRight, KidRight, Alive, Exits, procVars, lockVars,
        cpuVars, pidVars
  <2>7. CASE ExitWakeInit(c)
    BY <1>1, <2>7, Constants
    DEF ExitWakeInit, At, Goto, wakeup, TypeOK, CpuRight, LockRight,
        CallRight, KidRight, Alive, Exits, procVars, lockVars, cpuVars,
        pidVars
  <2>8. CASE ExitWakeParent(c)
    BY <1>1, <2>8, Constants
    DEF ExitWakeParent, At, Goto, wakeup, TypeOK, CpuRight, LockRight,
        CallRight, KidRight, Alive, Exits, procVars, lockVars, cpuVars,
        pidVars
  <2>9. CASE ExitZombie(c)
    BY <1>1, <2>9, Constants
    DEF ExitZombie, At, Leave, TypeOK, CpuRight, LockRight, CallRight,
        KidRight, Alive, Exits, procVars, lockVars, cpuVars, pidVars
  <2>10. CASE WaitLock(c)
    BY <1>1, <2>10, Constants
    DEF WaitLock, At, Goto, TypeOK, CpuRight, LockRight, CallRight, KidRight,
        Alive, Exits, procVars, lockVars, cpuVars, pidVars
  <2>11. CASE WaitGiveUp(c)
    BY <1>1, <2>11, Constants
    DEF WaitGiveUp, At, Goto, Zombies, TypeOK, CpuRight, LockRight, CallRight,
        KidRight, Alive, Exits, procVars, lockVars, cpuVars, pidVars
  <2>12. CASE WaitOn(c)
    BY <1>1, <2>12, Constants
    DEF WaitOn, At, Goto, Zombies, Children, TypeOK, CpuRight, LockRight,
        CallRight, KidRight, Alive, Exits, procVars, lockVars, cpuVars,
        pidVars
  <2>13. CASE WaitSleep(c)
    BY <1>1, <2>13, Constants
    DEF WaitSleep, At, Leave, Goto, TypeOK, CpuRight, LockRight, CallRight,
        KidRight, Alive, Exits, procVars, lockVars, cpuVars, pidVars
  <2>14. CASE TimerYield(c)
    BY <1>1, <2>14, Constants
    DEF TimerYield, Leave, TypeOK, CpuRight, LockRight, CallRight, KidRight,
        Alive, Exits, procVars, lockVars, cpuVars, pidVars
  <2>15. CASE ExitCall(c)
    BY <1>1, <2>15, Constants
    DEF ExitCall, At, Goto, TypeOK, CpuRight, LockRight, CallRight, KidRight,
        Alive, Exits, procVars, lockVars, cpuVars, pidVars
  <2>16. CASE WaitCall(c)
    BY <1>1, <2>16, Constants
    DEF WaitCall, MayCall, Goto, TypeOK, CpuRight, LockRight, CallRight,
        KidRight, Alive, Exits, procVars, lockVars, cpuVars, pidVars
  <2>17. ASSUME NEW z \in Procs, WaitReap(c, z)
        PROVE  CallRight'
    BY <1>1, <2>17, Constants
    DEF WaitReap, FirstZombie, At, Zombies, Children, LockFree, freeproc,
        TypeOK, CpuRight, LockRight, CallRight, KidRight, Alive, Exits,
        procVars, lockVars, cpuVars, pidVars
  <2>18. ASSUME NEW z \in Procs, WaitBadAddress(c, z)
        PROVE  CallRight'
    BY <1>1, <2>18, Constants
    DEF WaitBadAddress, FirstZombie, At, Goto, Zombies, TypeOK, CpuRight,
        LockRight, CallRight, KidRight, Alive, Exits, procVars, lockVars,
        cpuVars, pidVars
  <2>19. ASSUME NEW z \in Procs, ForkAlloc(c, z)
        PROVE  CallRight'
    BY <1>1, <2>19, Constants
    DEF ForkAlloc, MayCall, Goto, TypeOK, CpuRight, LockRight, CallRight,
        KidRight, Alive, Exits, procVars, lockVars, cpuVars, pidVars
  <2>20. ASSUME NEW z \in Procs, ForkNoMemory(c, z)
        PROVE  CallRight'
    BY <1>1, <2>20, Constants
    DEF ForkNoMemory, MayCall, freeproc, TypeOK, CpuRight, LockRight,
        CallRight, KidRight, Alive, Exits, procVars, lockVars, cpuVars,
        pidVars
  <2>21. ASSUME NEW k \in KillPids, NEW z \in Procs, Kill(c, k, z)
        PROVE  CallRight'
    BY <1>1, <2>21, Constants
    DEF Kill, MayCall, TypeOK, CpuRight, LockRight, CallRight, KidRight,
        Alive, Exits, procVars, lockVars, cpuVars, pidVars
  <2> QED BY <1>4, <2>1, <2>2, <2>3, <2>4, <2>5, <2>6, <2>7, <2>8, <2>9,
             <2>10, <2>11, <2>12, <2>13, <2>14, <2>15, <2>16, <2>17, <2>18,
             <2>19, <2>20, <2>21 DEF SchedStep, KernelStep, UserStep
<1> QED BY <1>3, <1>4 DEF Next

LEMMA KidNext == IInv /\ [Next]_vars => KidRight'
<1> SUFFICES ASSUME IInv, [Next]_vars PROVE KidRight'
  OBVIOUS
<1>1. TypeOK /\ CpuRight /\ CallRight /\ KidRight
  BY DEF IInv
<1>2. CASE UNCHANGED <<kid, kpc, state>>
  BY <1>1, <1>2 DEF TypeOK, CpuRight, CallRight, KidRight
<1>3. CASE UNCHANGED vars
  BY <1>2, <1>3 DEF vars, procVars
<1>4. ASSUME NEW c \in CPUs,
             SchedStep(c) \/ KernelStep(c) \/ TimerYield(c) \/ UserStep(c)
      PROVE  KidRight'
  <2>1. CASE \/ Skip(c) \/ Swtch(c)
    BY <1>2, <2>1 DEF Skip, Swtch, procVars
  <2>2. CASE Dispatch(c)
    BY <1>1, <2>2, Constants
    DEF Dispatch, TypeOK, CpuRight, CallRight, KidRight, procVars, lockVars,
        cpuVars, pidVars
  <2>3. CASE Enter(c)
    BY <1>1, <2>3, Constants
    DEF Enter, TypeOK, CpuRight, CallRight, KidRight, procVars, lockVars,
        cpuVars, pidVars
  <2>4. CASE ForkParent(c)
    BY <1>1, <2>4, Constants
    DEF ForkParent, At, Goto, TypeOK, CpuRight, CallRight, KidRight, procVars,
        lockVars, cpuVars, pidVars
  <2>5. CASE ForkReady(c)
    <3> DEFINE p == cpu[c]
               z == kid[p]
    <3>1. /\ p \in Procs /\ kpc[p] = "fork3" /\ mode[c] = "run"
          /\ state' = [state EXCEPT ![z] = "RUNNABLE"]
          /\ kpc' = [kpc EXCEPT ![p] = "user", ![z] = "user"]
          /\ UNCHANGED <<cpu, mode, plock, chan>>
      BY <1>1, <2>5, Constants
      DEF ForkReady, At, TypeOK, CpuRight, procVars, cpuVars, lockVars
    <3>2. z \in Procs /\ state[z] = "USED"
      BY <1>1, <3>1, Constants DEF KidRight, TypeOK
    <3>3. kid' = [kid EXCEPT ![p] = None] /\ kid \in [Procs -> Procs \cup {None}]
      BY <1>1, <2>5 DEF ForkReady, TypeOK
    <3>4. kpc[z] = "user" /\ kid[z] = None /\ z # p
      BY <1>1, <3>1, <3>2, Constants DEF CallRight, KidRight, Alive, TypeOK
    <3> HIDE DEF p, z
    <3>5. \A q \in Procs : q # p => kid'[q] = kid[q]
      BY <3>3
    <3>6. kid'[p] = None
      BY <3>1, <3>3
    <3>7. kid[p] = z /\ z # None
      BY <3>2, Constants DEF p, z
    <3>8. \A q \in Procs : q # p /\ kid[q] # None => kid[q] # z
      BY <1>1, <3>1, <3>7 DEF KidRight
    <3>9. \A q \in Procs : q # p =>
          (kpc'[q] \in {"fork2", "fork3"} <=> kpc[q] \in {"fork2", "fork3"})
      BY <1>1, <3>1, <3>2, <3>4 DEF TypeOK
    <3>10. kpc'[p] = "user"
      BY <1>1, <3>1, <3>2, <3>4 DEF TypeOK
    <3> QED BY <1>1, <3>1, <3>2, <3>5, <3>6, <3>8, <3>9, <3>10, Constants
          DEF KidRight, TypeOK
  <2>6. CASE ExitReparent(c)
    BY <1>1, <2>6, Constants
    DEF ExitReparent, At, Goto, Adopted, Children, TypeOK, CpuRight,
        CallRight, KidRight, procVars, lockVars, cpuVars, pidVars
  <2>7. CASE ExitWakeInit(c)
    BY <1>1, <2>7, Constants
    DEF ExitWakeInit, At, Goto, wakeup, TypeOK, CpuRight, CallRight, KidRight,
        procVars, lockVars, cpuVars, pidVars
  <2>8. CASE ExitWakeParent(c)
    BY <1>1, <2>8, Constants
    DEF ExitWakeParent, At, Goto, wakeup, TypeOK, CpuRight, CallRight,
        KidRight, procVars, lockVars, cpuVars, pidVars
  <2>9. CASE ExitZombie(c)
    BY <1>1, <2>9, Constants
    DEF ExitZombie, At, Leave, TypeOK, CpuRight, CallRight, KidRight,
        procVars, lockVars, cpuVars, pidVars
  <2>10. CASE WaitLock(c)
    BY <1>1, <2>10, Constants
    DEF WaitLock, At, Goto, TypeOK, CpuRight, CallRight, KidRight, procVars,
        lockVars, cpuVars, pidVars
  <2>11. CASE WaitGiveUp(c)
    BY <1>1, <2>11, Constants
    DEF WaitGiveUp, At, Goto, Zombies, TypeOK, CpuRight, CallRight, KidRight,
        procVars, lockVars, cpuVars, pidVars
  <2>12. CASE WaitOn(c)
    BY <1>1, <2>12, Constants
    DEF WaitOn, At, Goto, Zombies, Children, TypeOK, CpuRight, CallRight,
        KidRight, procVars, lockVars, cpuVars, pidVars
  <2>13. CASE WaitSleep(c)
    BY <1>1, <2>13, Constants
    DEF WaitSleep, At, Leave, Goto, TypeOK, CpuRight, CallRight, KidRight,
        procVars, lockVars, cpuVars, pidVars
  <2>14. CASE TimerYield(c)
    BY <1>1, <2>14, Constants
    DEF TimerYield, Leave, TypeOK, CpuRight, CallRight, KidRight, procVars,
        lockVars, cpuVars, pidVars
  <2>15. CASE ExitCall(c)
    BY <1>1, <2>15, Constants
    DEF ExitCall, At, Goto, TypeOK, CpuRight, CallRight, KidRight, procVars,
        lockVars, cpuVars, pidVars
  <2>16. CASE WaitCall(c)
    BY <1>1, <2>16, Constants
    DEF WaitCall, MayCall, Goto, TypeOK, CpuRight, CallRight, KidRight,
        procVars, lockVars, cpuVars, pidVars
  <2>17. ASSUME NEW z \in Procs, WaitReap(c, z)
        PROVE  KidRight'
    BY <1>1, <2>17, Constants
    DEF WaitReap, FirstZombie, At, Zombies, Children, LockFree, freeproc,
        TypeOK, CpuRight, CallRight, KidRight, procVars, lockVars, cpuVars,
        pidVars
  <2>18. ASSUME NEW z \in Procs, WaitBadAddress(c, z)
        PROVE  KidRight'
    BY <1>1, <2>18, Constants
    DEF WaitBadAddress, FirstZombie, At, Goto, Zombies, TypeOK, CpuRight,
        CallRight, KidRight, procVars, lockVars, cpuVars, pidVars
  <2>19. ASSUME NEW z \in Procs, ForkAlloc(c, z)
        PROVE  KidRight'
    BY <1>1, <2>19, Constants
    DEF ForkAlloc, MayCall, Goto, TypeOK, CpuRight, CallRight, KidRight,
        procVars, lockVars, cpuVars, pidVars
  <2>20. ASSUME NEW z \in Procs, ForkNoMemory(c, z)
        PROVE  KidRight'
    BY <1>1, <2>20, Constants
    DEF ForkNoMemory, MayCall, freeproc, TypeOK, CpuRight, CallRight,
        KidRight, procVars, lockVars, cpuVars, pidVars
  <2>21. ASSUME NEW k \in KillPids, NEW z \in Procs, Kill(c, k, z)
        PROVE  KidRight'
    BY <1>1, <2>21, Constants
    DEF Kill, MayCall, TypeOK, CpuRight, CallRight, KidRight, procVars,
        lockVars, cpuVars, pidVars
  <2> QED BY <1>4, <2>1, <2>2, <2>3, <2>4, <2>5, <2>6, <2>7, <2>8, <2>9,
             <2>10, <2>11, <2>12, <2>13, <2>14, <2>15, <2>16, <2>17, <2>18,
             <2>19, <2>20, <2>21 DEF SchedStep, KernelStep, UserStep
<1> QED BY <1>3, <1>4 DEF Next

LEMMA WaitNext == IInv /\ [Next]_vars => WaitRight'
<1> SUFFICES ASSUME IInv, [Next]_vars PROVE WaitRight'
  OBVIOUS
<1>1. TypeOK /\ CpuRight /\ LockRight /\ CallRight /\ WaitRight /\ KidRight
  BY DEF IInv
<1>2. CASE UNCHANGED <<waitLock, mode, kpc, cpu, state>>
  BY <1>1, <1>2
  DEF TypeOK, CpuRight, LockRight, CallRight, WaitRight, Holds, KidRight
<1>3. CASE UNCHANGED vars
  BY <1>2, <1>3 DEF vars, procVars, lockVars, cpuVars
<1>4. ASSUME NEW c \in CPUs,
             SchedStep(c) \/ KernelStep(c) \/ TimerYield(c) \/ UserStep(c)
      PROVE  WaitRight'
  <2>1. CASE \/ Skip(c)
    BY <1>2, <2>1 DEF Skip, procVars, lockVars, cpuVars
  <2>2. CASE Dispatch(c)
    BY <1>1, <2>2, Constants
    DEF Dispatch, TypeOK, CpuRight, LockRight, CallRight, WaitRight, Holds,
        KidRight, procVars, lockVars, cpuVars, pidVars
  <2>3. CASE Enter(c)
    BY <1>1, <2>3, Constants
    DEF Enter, TypeOK, CpuRight, LockRight, CallRight, WaitRight, Holds,
        KidRight, procVars, lockVars, cpuVars, pidVars
  <2>4. CASE Swtch(c)
    BY <1>1, <2>4, Constants
    DEF Swtch, TypeOK, CpuRight, LockRight, CallRight, WaitRight, Holds,
        KidRight, procVars, lockVars, cpuVars, pidVars
  <2>5. CASE ForkParent(c)
    BY <1>1, <2>5, Constants
    DEF ForkParent, At, Goto, TypeOK, CpuRight, LockRight, CallRight,
        WaitRight, Holds, KidRight, procVars, lockVars, cpuVars, pidVars
  <2>6. CASE ForkReady(c)
    BY <1>1, <2>6, Constants
    DEF ForkReady, At, TypeOK, CpuRight, LockRight, CallRight, WaitRight,
        Holds, KidRight, procVars, lockVars, cpuVars, pidVars
  <2>7. CASE ExitReparent(c)
    BY <1>1, <2>7, Constants
    DEF ExitReparent, At, Goto, Adopted, Children, TypeOK, CpuRight,
        LockRight, CallRight, WaitRight, Holds, KidRight, procVars, lockVars,
        cpuVars, pidVars
  <2>8. CASE ExitWakeInit(c)
    BY <1>1, <2>8, Constants
    DEF ExitWakeInit, At, Goto, wakeup, TypeOK, CpuRight, LockRight,
        CallRight, WaitRight, Holds, KidRight, procVars, lockVars, cpuVars,
        pidVars
  <2>9. CASE ExitWakeParent(c)
    BY <1>1, <2>9, Constants
    DEF ExitWakeParent, At, Goto, wakeup, TypeOK, CpuRight, LockRight,
        CallRight, WaitRight, Holds, KidRight, procVars, lockVars, cpuVars,
        pidVars
  <2>10. CASE ExitZombie(c)
    BY <1>1, <2>10, Constants
    DEF ExitZombie, At, Leave, TypeOK, CpuRight, LockRight, CallRight,
        WaitRight, Holds, KidRight, procVars, lockVars, cpuVars, pidVars
  <2>11. CASE WaitLock(c)
    BY <1>1, <2>11, Constants
    DEF WaitLock, At, Goto, TypeOK, CpuRight, LockRight, CallRight, WaitRight,
        Holds, KidRight, procVars, lockVars, cpuVars, pidVars
  <2>12. CASE WaitGiveUp(c)
    BY <1>1, <2>12, Constants
    DEF WaitGiveUp, At, Goto, Zombies, TypeOK, CpuRight, LockRight, CallRight,
        WaitRight, Holds, KidRight, procVars, lockVars, cpuVars, pidVars
  <2>13. CASE WaitOn(c)
    BY <1>1, <2>13, Constants
    DEF WaitOn, At, Goto, Zombies, Children, TypeOK, CpuRight, LockRight,
        CallRight, WaitRight, Holds, KidRight, procVars, lockVars, cpuVars,
        pidVars
  <2>14. CASE WaitSleep(c)
    BY <1>1, <2>14, Constants
    DEF WaitSleep, At, Leave, Goto, TypeOK, CpuRight, LockRight, CallRight,
        WaitRight, Holds, KidRight, procVars, lockVars, cpuVars, pidVars
  <2>15. CASE TimerYield(c)
    BY <1>1, <2>15, Constants
    DEF TimerYield, Leave, TypeOK, CpuRight, LockRight, CallRight, WaitRight,
        Holds, KidRight, procVars, lockVars, cpuVars, pidVars
  <2>16. CASE ExitCall(c)
    BY <1>1, <2>16, Constants
    DEF ExitCall, At, Goto, TypeOK, CpuRight, LockRight, CallRight, WaitRight,
        Holds, KidRight, procVars, lockVars, cpuVars, pidVars
  <2>17. CASE WaitCall(c)
    BY <1>1, <2>17, Constants
    DEF WaitCall, MayCall, Goto, TypeOK, CpuRight, LockRight, CallRight,
        WaitRight, Holds, KidRight, procVars, lockVars, cpuVars, pidVars
  <2>18. ASSUME NEW z \in Procs, WaitReap(c, z)
        PROVE  WaitRight'
    BY <1>1, <2>18, Constants
    DEF WaitReap, FirstZombie, At, Zombies, Children, LockFree, freeproc,
        TypeOK, CpuRight, LockRight, CallRight, WaitRight, Holds, KidRight,
        procVars, lockVars, cpuVars, pidVars
  <2>19. ASSUME NEW z \in Procs, WaitBadAddress(c, z)
        PROVE  WaitRight'
    BY <1>1, <2>19, Constants
    DEF WaitBadAddress, FirstZombie, At, Goto, Zombies, TypeOK, CpuRight,
        LockRight, CallRight, WaitRight, Holds, KidRight, procVars, lockVars,
        cpuVars, pidVars
  <2>20. ASSUME NEW z \in Procs, ForkAlloc(c, z)
        PROVE  WaitRight'
    BY <1>1, <2>20, Constants
    DEF ForkAlloc, MayCall, Goto, TypeOK, CpuRight, LockRight, CallRight,
        WaitRight, Holds, KidRight, procVars, lockVars, cpuVars, pidVars
  <2>21. ASSUME NEW z \in Procs, ForkNoMemory(c, z)
        PROVE  WaitRight'
    BY <1>1, <2>21, Constants
    DEF ForkNoMemory, MayCall, freeproc, TypeOK, CpuRight, LockRight,
        CallRight, WaitRight, Holds, KidRight, procVars, lockVars, cpuVars,
        pidVars
  <2>22. ASSUME NEW k \in KillPids, NEW z \in Procs, Kill(c, k, z)
        PROVE  WaitRight'
    BY <1>1, <2>22, Constants
    DEF Kill, MayCall, TypeOK, CpuRight, LockRight, CallRight, WaitRight,
        Holds, KidRight, procVars, lockVars, cpuVars, pidVars
  <2> QED BY <1>4, <2>1, <2>2, <2>3, <2>4, <2>5, <2>6, <2>7, <2>8, <2>9,
             <2>10, <2>11, <2>12, <2>13, <2>14, <2>15, <2>16, <2>17, <2>18,
             <2>19, <2>20, <2>21, <2>22 DEF SchedStep, KernelStep, UserStep
<1> QED BY <1>3, <1>4 DEF Next

LEMMA BornNext == IInv /\ [Next]_vars => BornAlive'
<1> SUFFICES ASSUME IInv, [Next]_vars PROVE BornAlive'
  OBVIOUS
<1>1. TypeOK /\ BornAlive
  BY DEF IInv
<1>2. CASE UNCHANGED <<strayKill, state, killed>>
  BY <1>1, <1>2 DEF TypeOK, BornAlive
<1>3. CASE UNCHANGED vars
  BY <1>2, <1>3 DEF vars, procVars, pidVars
<1>4. ASSUME NEW c \in CPUs,
             SchedStep(c) \/ KernelStep(c) \/ TimerYield(c) \/ UserStep(c)
      PROVE  BornAlive'
  <2>1. CASE \/ Skip(c) \/ Enter(c) \/ Swtch(c) \/ ForkParent(c)
             \/ ExitReparent(c) \/ WaitLock(c) \/ WaitGiveUp(c)
             \/ WaitOn(c) \/ ExitCall(c) \/ WaitCall(c)
             \/ \E z \in Procs : WaitBadAddress(c, z)
    BY <1>2, <2>1
    DEF Skip, Enter, Swtch, ForkParent, ExitReparent, WaitLock, WaitGiveUp,
        WaitOn, ExitCall, WaitCall, WaitBadAddress, procVars, pidVars
  <2>2. CASE Dispatch(c)
    BY <1>1, <2>2, Constants
    DEF Dispatch, TypeOK, BornAlive, procVars, lockVars, cpuVars, pidVars
  <2>3. CASE ForkReady(c)
    BY <1>1, <2>3, Constants
    DEF ForkReady, At, TypeOK, BornAlive, procVars, lockVars, cpuVars, pidVars
  <2>4. CASE ExitWakeInit(c)
    BY <1>1, <2>4, Constants
    DEF ExitWakeInit, At, Goto, wakeup, TypeOK, BornAlive, procVars, lockVars,
        cpuVars, pidVars
  <2>5. CASE ExitWakeParent(c)
    BY <1>1, <2>5, Constants
    DEF ExitWakeParent, At, Goto, wakeup, TypeOK, BornAlive, procVars,
        lockVars, cpuVars, pidVars
  <2>6. CASE ExitZombie(c)
    BY <1>1, <2>6, Constants
    DEF ExitZombie, At, Leave, TypeOK, BornAlive, procVars, lockVars, cpuVars,
        pidVars
  <2>7. CASE WaitSleep(c)
    BY <1>1, <2>7, Constants
    DEF WaitSleep, At, Leave, Goto, TypeOK, BornAlive, procVars, lockVars,
        cpuVars, pidVars
  <2>8. CASE TimerYield(c)
    BY <1>1, <2>8, Constants
    DEF TimerYield, Leave, TypeOK, BornAlive, procVars, lockVars, cpuVars,
        pidVars
  <2>9. ASSUME NEW z \in Procs, WaitReap(c, z)
        PROVE  BornAlive'
    BY <1>1, <2>9, Constants
    DEF WaitReap, FirstZombie, At, Zombies, Children, LockFree, freeproc,
        TypeOK, BornAlive, procVars, lockVars, cpuVars, pidVars
  <2>10. ASSUME NEW z \in Procs, ForkAlloc(c, z)
        PROVE  BornAlive'
    BY <1>1, <2>10, Constants
    DEF ForkAlloc, MayCall, Goto, TypeOK, BornAlive, procVars, lockVars,
        cpuVars, pidVars
  <2>11. ASSUME NEW z \in Procs, ForkNoMemory(c, z)
        PROVE  BornAlive'
    BY <1>1, <2>11, Constants
    DEF ForkNoMemory, MayCall, freeproc, TypeOK, BornAlive, procVars,
        lockVars, cpuVars, pidVars
  <2>12. ASSUME NEW k \in KillPids, NEW z \in Procs, Kill(c, k, z)
        PROVE  BornAlive'
    BY <1>1, <2>12, Constants
    DEF Kill, MayCall, TypeOK, BornAlive, procVars, lockVars, cpuVars, pidVars
  <2> QED BY <1>4, <2>1, <2>2, <2>3, <2>4, <2>5, <2>6, <2>7, <2>8, <2>9,
             <2>10, <2>11, <2>12 DEF SchedStep, KernelStep, UserStep
<1> QED BY <1>3, <1>4 DEF Next

LEMMA FamilyNext == IInv /\ [Next]_vars => FamilyRight'
<1> SUFFICES ASSUME IInv, [Next]_vars PROVE FamilyRight'
  OBVIOUS
<1>1. TypeOK /\ CpuRight /\ LockRight /\ CallRight /\ KidRight
      /\ WaitRight /\ FamilyRight
  BY DEF IInv
<1>2. CASE UNCHANGED <<parent, state, kpc>>
  BY <1>1, <1>2
  DEF TypeOK, CpuRight, CallRight, KidRight, WaitRight, FamilyRight,
      ParentsAlive, Alive, Exits
<1>3. CASE UNCHANGED vars
  BY <1>2, <1>3 DEF vars, procVars
<1>4. ASSUME NEW c \in CPUs,
             SchedStep(c) \/ KernelStep(c) \/ TimerYield(c) \/ UserStep(c)
      PROVE  FamilyRight'
  <2>1. CASE \/ Skip(c) \/ Swtch(c)
    BY <1>2, <2>1 DEF Skip, Swtch, procVars
  <2>2. CASE Dispatch(c)
    BY <1>1, <2>2, Constants
    DEF Dispatch, TypeOK, CpuRight, CallRight, KidRight, WaitRight,
        FamilyRight, ParentsAlive, Alive, Exits, procVars, lockVars, cpuVars,
        pidVars
  <2>3. CASE Enter(c)
    BY <1>1, <2>3, Constants
    DEF Enter, TypeOK, CpuRight, CallRight, KidRight, WaitRight, FamilyRight,
        ParentsAlive, Alive, Exits, procVars, lockVars, cpuVars, pidVars
  <2>4. CASE ForkParent(c)
    BY <1>1, <2>4, Constants
    DEF ForkParent, At, Goto, TypeOK, CpuRight, CallRight, KidRight,
        WaitRight, FamilyRight, ParentsAlive, Alive, Exits, procVars,
        lockVars, cpuVars, pidVars
  <2>5. CASE ForkReady(c)
    BY <1>1, <2>5, Constants
    DEF ForkReady, At, TypeOK, CpuRight, CallRight, KidRight, WaitRight,
        FamilyRight, ParentsAlive, Alive, Exits, procVars, lockVars, cpuVars,
        pidVars
  <2>6. CASE ExitReparent(c)
    BY <1>1, <2>6, Constants
    DEF ExitReparent, At, Goto, Adopted, Children, TypeOK, CpuRight,
        CallRight, KidRight, WaitRight, FamilyRight, ParentsAlive, Alive,
        Exits, procVars, lockVars, cpuVars, pidVars
  <2>7. CASE ExitWakeInit(c)
    BY <1>1, <2>7, Constants
    DEF ExitWakeInit, At, Goto, wakeup, TypeOK, CpuRight, CallRight, KidRight,
        WaitRight, FamilyRight, ParentsAlive, Alive, Exits, procVars,
        lockVars, cpuVars, pidVars
  <2>8. CASE ExitWakeParent(c)
    BY <1>1, <2>8, Constants
    DEF ExitWakeParent, At, Goto, wakeup, TypeOK, CpuRight, CallRight,
        KidRight, WaitRight, FamilyRight, ParentsAlive, Alive, Exits,
        procVars, lockVars, cpuVars, pidVars
  <2>9. CASE ExitZombie(c)
    BY <1>1, <2>9, Constants
    DEF ExitZombie, At, Leave, TypeOK, CpuRight, CallRight, KidRight,
        WaitRight, FamilyRight, ParentsAlive, Alive, Exits, procVars,
        lockVars, cpuVars, pidVars
  <2>10. CASE WaitLock(c)
    BY <1>1, <2>10, Constants
    DEF WaitLock, At, Goto, TypeOK, CpuRight, CallRight, KidRight, WaitRight,
        FamilyRight, ParentsAlive, Alive, Exits, procVars, lockVars, cpuVars,
        pidVars
  <2>11. CASE WaitGiveUp(c)
    BY <1>1, <2>11, Constants
    DEF WaitGiveUp, At, Goto, Zombies, TypeOK, CpuRight, CallRight, KidRight,
        WaitRight, FamilyRight, ParentsAlive, Alive, Exits, procVars,
        lockVars, cpuVars, pidVars
  <2>12. CASE WaitOn(c)
    BY <1>1, <2>12, Constants
    DEF WaitOn, At, Goto, Zombies, Children, TypeOK, CpuRight, CallRight,
        KidRight, WaitRight, FamilyRight, ParentsAlive, Alive, Exits,
        procVars, lockVars, cpuVars, pidVars
  <2>13. CASE WaitSleep(c)
    BY <1>1, <2>13, Constants
    DEF WaitSleep, At, Leave, Goto, TypeOK, CpuRight, CallRight, KidRight,
        WaitRight, FamilyRight, ParentsAlive, Alive, Exits, procVars,
        lockVars, cpuVars, pidVars
  <2>14. CASE TimerYield(c)
    BY <1>1, <2>14, Constants
    DEF TimerYield, Leave, TypeOK, CpuRight, CallRight, KidRight, WaitRight,
        FamilyRight, ParentsAlive, Alive, Exits, procVars, lockVars, cpuVars,
        pidVars
  <2>15. CASE ExitCall(c)
    BY <1>1, <2>15, Constants
    DEF ExitCall, At, Goto, TypeOK, CpuRight, CallRight, KidRight, WaitRight,
        FamilyRight, ParentsAlive, Alive, Exits, procVars, lockVars, cpuVars,
        pidVars
  <2>16. CASE WaitCall(c)
    BY <1>1, <2>16, Constants
    DEF WaitCall, MayCall, Goto, TypeOK, CpuRight, CallRight, KidRight,
        WaitRight, FamilyRight, ParentsAlive, Alive, Exits, procVars,
        lockVars, cpuVars, pidVars
  <2>17. ASSUME NEW z \in Procs, WaitReap(c, z)
        PROVE  FamilyRight'
    BY <1>1, <2>17, Constants
    DEF WaitReap, FirstZombie, At, Zombies, Children, LockFree, freeproc,
        TypeOK, CpuRight, CallRight, KidRight, WaitRight, FamilyRight,
        ParentsAlive, Alive, Exits, procVars, lockVars, cpuVars, pidVars
  <2>18. ASSUME NEW z \in Procs, WaitBadAddress(c, z)
        PROVE  FamilyRight'
    BY <1>1, <2>18, Constants
    DEF WaitBadAddress, FirstZombie, At, Goto, Zombies, TypeOK, CpuRight,
        CallRight, KidRight, WaitRight, FamilyRight, ParentsAlive, Alive,
        Exits, procVars, lockVars, cpuVars, pidVars
  <2>19. ASSUME NEW z \in Procs, ForkAlloc(c, z)
        PROVE  FamilyRight'
    BY <1>1, <2>19, Constants
    DEF ForkAlloc, MayCall, Goto, TypeOK, CpuRight, CallRight, KidRight,
        WaitRight, FamilyRight, ParentsAlive, Alive, Exits, procVars,
        lockVars, cpuVars, pidVars
  <2>20. ASSUME NEW z \in Procs, ForkNoMemory(c, z)
        PROVE  FamilyRight'
    BY <1>1, <2>20, Constants
    DEF ForkNoMemory, MayCall, freeproc, TypeOK, CpuRight, CallRight,
        KidRight, WaitRight, FamilyRight, ParentsAlive, Alive, Exits,
        procVars, lockVars, cpuVars, pidVars
  <2>21. ASSUME NEW k \in KillPids, NEW z \in Procs, Kill(c, k, z)
        PROVE  FamilyRight'
    BY <1>1, <2>21, Constants
    DEF Kill, MayCall, TypeOK, CpuRight, CallRight, KidRight, WaitRight,
        FamilyRight, ParentsAlive, Alive, Exits, procVars, lockVars, cpuVars,
        pidVars
  <2> QED BY <1>4, <2>1, <2>2, <2>3, <2>4, <2>5, <2>6, <2>7, <2>8, <2>9,
             <2>10, <2>11, <2>12, <2>13, <2>14, <2>15, <2>16, <2>17, <2>18,
             <2>19, <2>20, <2>21 DEF SchedStep, KernelStep, UserStep
<1> QED BY <1>3, <1>4 DEF Next

LEMMA SleepNext == IInv /\ [Next]_vars => SleepRight'
<1> SUFFICES ASSUME IInv, [Next]_vars PROVE SleepRight'
  OBVIOUS
<1>1. TypeOK /\ CpuRight /\ LockRight /\ CallRight /\ KidRight
      /\ WaitRight /\ FamilyRight /\ SleepRight
  BY DEF IInv
<1>2. CASE UNCHANGED <<state, parent, kpc, waitLock, cpu>>
  BY <1>1, <1>2
  DEF TypeOK, CpuRight, CallRight, KidRight, WaitRight, FamilyRight,
      ParentsAlive, SleepRight, Alive, Exits, Holds
<1>3. CASE UNCHANGED vars
  BY <1>2, <1>3 DEF vars, procVars, lockVars, cpuVars
<1>4. ASSUME NEW c \in CPUs,
             SchedStep(c) \/ KernelStep(c) \/ TimerYield(c) \/ UserStep(c)
      PROVE  SleepRight'
  <2>1. CASE \/ Skip(c)
    BY <1>2, <2>1 DEF Skip, procVars, lockVars, cpuVars
  <2>2. CASE Dispatch(c)
    BY <1>1, <2>2, Constants
    DEF Dispatch, TypeOK, CpuRight, CallRight, KidRight, WaitRight,
        FamilyRight, ParentsAlive, SleepRight, Alive, Exits, Holds, procVars,
        lockVars, cpuVars, pidVars
  <2>3. CASE Enter(c)
    BY <1>1, <2>3, Constants
    DEF Enter, TypeOK, CpuRight, CallRight, KidRight, WaitRight, FamilyRight,
        ParentsAlive, SleepRight, Alive, Exits, Holds, procVars, lockVars,
        cpuVars, pidVars
  <2>4. CASE Swtch(c)
    BY <1>1, <2>4, Constants
    DEF Swtch, TypeOK, CpuRight, CallRight, KidRight, WaitRight, FamilyRight,
        ParentsAlive, SleepRight, Alive, Exits, Holds, procVars, lockVars,
        cpuVars, pidVars
  <2>5. CASE ForkParent(c)
    BY <1>1, <2>5, Constants
    DEF ForkParent, At, Goto, TypeOK, CpuRight, CallRight, KidRight,
        WaitRight, FamilyRight, ParentsAlive, SleepRight, Alive, Exits, Holds,
        procVars, lockVars, cpuVars, pidVars
  <2>6. CASE ForkReady(c)
    BY <1>1, <2>6, Constants
    DEF ForkReady, At, TypeOK, CpuRight, CallRight, KidRight, WaitRight,
        FamilyRight, ParentsAlive, SleepRight, Alive, Exits, Holds, procVars,
        lockVars, cpuVars, pidVars
  <2>7. CASE ExitReparent(c)
    BY <1>1, <2>7, Constants
    DEF ExitReparent, At, Goto, Adopted, Children, TypeOK, CpuRight,
        CallRight, KidRight, WaitRight, FamilyRight, ParentsAlive, SleepRight,
        Alive, Exits, Holds, procVars, lockVars, cpuVars, pidVars
  <2>8. CASE ExitWakeInit(c)
    BY <1>1, <2>8, Constants
    DEF ExitWakeInit, At, Goto, wakeup, TypeOK, CpuRight, CallRight, KidRight,
        WaitRight, FamilyRight, ParentsAlive, SleepRight, Alive, Exits, Holds,
        procVars, lockVars, cpuVars, pidVars
  <2>9. CASE ExitWakeParent(c)
    BY <1>1, <2>9, Constants
    DEF ExitWakeParent, At, Goto, wakeup, TypeOK, CpuRight, CallRight,
        KidRight, WaitRight, FamilyRight, ParentsAlive, SleepRight, Alive,
        Exits, Holds, procVars, lockVars, cpuVars, pidVars
  <2>10. CASE ExitZombie(c)
    BY <1>1, <2>10, Constants
    DEF ExitZombie, At, Leave, TypeOK, CpuRight, CallRight, KidRight,
        WaitRight, FamilyRight, ParentsAlive, SleepRight, Alive, Exits, Holds,
        procVars, lockVars, cpuVars, pidVars
  <2>11. CASE WaitLock(c)
    BY <1>1, <2>11, Constants
    DEF WaitLock, At, Goto, TypeOK, CpuRight, CallRight, KidRight, WaitRight,
        FamilyRight, ParentsAlive, SleepRight, Alive, Exits, Holds, procVars,
        lockVars, cpuVars, pidVars
  <2>12. CASE WaitGiveUp(c)
    BY <1>1, <2>12, Constants
    DEF WaitGiveUp, At, Goto, Zombies, TypeOK, CpuRight, CallRight, KidRight,
        WaitRight, FamilyRight, ParentsAlive, SleepRight, Alive, Exits, Holds,
        procVars, lockVars, cpuVars, pidVars
  <2>13. CASE WaitOn(c)
    BY <1>1, <2>13, Constants
    DEF WaitOn, At, Goto, Zombies, Children, TypeOK, CpuRight, CallRight,
        KidRight, WaitRight, FamilyRight, ParentsAlive, SleepRight, Alive,
        Exits, Holds, procVars, lockVars, cpuVars, pidVars
  <2>14. CASE WaitSleep(c)
    BY <1>1, <2>14, Constants
    DEF WaitSleep, At, Leave, Goto, TypeOK, CpuRight, CallRight, KidRight,
        WaitRight, FamilyRight, ParentsAlive, SleepRight, Alive, Exits, Holds,
        procVars, lockVars, cpuVars, pidVars
  <2>15. CASE TimerYield(c)
    BY <1>1, <2>15, Constants
    DEF TimerYield, Leave, TypeOK, CpuRight, CallRight, KidRight, WaitRight,
        FamilyRight, ParentsAlive, SleepRight, Alive, Exits, Holds, procVars,
        lockVars, cpuVars, pidVars
  <2>16. CASE ExitCall(c)
    BY <1>1, <2>16, Constants
    DEF ExitCall, At, Goto, TypeOK, CpuRight, CallRight, KidRight, WaitRight,
        FamilyRight, ParentsAlive, SleepRight, Alive, Exits, Holds, procVars,
        lockVars, cpuVars, pidVars
  <2>17. CASE WaitCall(c)
    BY <1>1, <2>17, Constants
    DEF WaitCall, MayCall, Goto, TypeOK, CpuRight, CallRight, KidRight,
        WaitRight, FamilyRight, ParentsAlive, SleepRight, Alive, Exits, Holds,
        procVars, lockVars, cpuVars, pidVars
  <2>18. ASSUME NEW z \in Procs, WaitReap(c, z)
        PROVE  SleepRight'
    BY <1>1, <2>18, Constants
    DEF WaitReap, FirstZombie, At, Zombies, Children, LockFree, freeproc,
        TypeOK, CpuRight, CallRight, KidRight, WaitRight, FamilyRight,
        ParentsAlive, SleepRight, Alive, Exits, Holds, procVars, lockVars,
        cpuVars, pidVars
  <2>19. ASSUME NEW z \in Procs, WaitBadAddress(c, z)
        PROVE  SleepRight'
    BY <1>1, <2>19, Constants
    DEF WaitBadAddress, FirstZombie, At, Goto, Zombies, TypeOK, CpuRight,
        CallRight, KidRight, WaitRight, FamilyRight, ParentsAlive, SleepRight,
        Alive, Exits, Holds, procVars, lockVars, cpuVars, pidVars
  <2>20. ASSUME NEW z \in Procs, ForkAlloc(c, z)
        PROVE  SleepRight'
    BY <1>1, <2>20, Constants
    DEF ForkAlloc, MayCall, Goto, TypeOK, CpuRight, CallRight, KidRight,
        WaitRight, FamilyRight, ParentsAlive, SleepRight, Alive, Exits, Holds,
        procVars, lockVars, cpuVars, pidVars
  <2>21. ASSUME NEW z \in Procs, ForkNoMemory(c, z)
        PROVE  SleepRight'
    BY <1>1, <2>21, Constants
    DEF ForkNoMemory, MayCall, freeproc, TypeOK, CpuRight, CallRight,
        KidRight, WaitRight, FamilyRight, ParentsAlive, SleepRight, Alive,
        Exits, Holds, procVars, lockVars, cpuVars, pidVars
  <2>22. ASSUME NEW k \in KillPids, NEW z \in Procs, Kill(c, k, z)
        PROVE  SleepRight'
    BY <1>1, <2>22, Constants
    DEF Kill, MayCall, TypeOK, CpuRight, CallRight, KidRight, WaitRight,
        FamilyRight, ParentsAlive, SleepRight, Alive, Exits, Holds, procVars,
        lockVars, cpuVars, pidVars
  <2> QED BY <1>4, <2>1, <2>2, <2>3, <2>4, <2>5, <2>6, <2>7, <2>8, <2>9,
             <2>10, <2>11, <2>12, <2>13, <2>14, <2>15, <2>16, <2>17, <2>18,
             <2>19, <2>20, <2>21, <2>22 DEF SchedStep, KernelStep, UserStep
<1> QED BY <1>3, <1>4 DEF Next

LEMMA TypeNext == IInv /\ [Next]_vars => TypeOK'
<1> SUFFICES ASSUME IInv, [Next]_vars PROVE TypeOK'
  OBVIOUS
<1>1. TypeOK /\ CpuRight /\ KidRight
  BY DEF IInv
<1>3. CASE UNCHANGED vars
  BY <1>1, <1>3
  DEF TypeOK, CpuRight, KidRight, States, Kpcs, Modes, vars, procVars,
      lockVars, cpuVars, pidVars
<1>4. ASSUME NEW c \in CPUs,
             SchedStep(c) \/ KernelStep(c) \/ TimerYield(c) \/ UserStep(c)
      PROVE  TypeOK'
  <2>1. CASE Dispatch(c)
    BY <1>1, <2>1, Constants
    DEF Dispatch, TypeOK, CpuRight, KidRight, States, Kpcs, Modes, procVars,
        lockVars, cpuVars, pidVars
  <2>2. CASE Skip(c)
    BY <1>1, <2>2, Constants
    DEF Skip, TypeOK, CpuRight, KidRight, States, Kpcs, Modes, procVars,
        lockVars, cpuVars, pidVars
  <2>3. CASE Enter(c)
    <3>1. /\ mode' = [mode EXCEPT ![c] = "run"]
          /\ plock' = [plock EXCEPT ![cpu[c]] = None]
          /\ UNCHANGED <<state, parent, killed, pid, waitLock, cpu, idx, kid,
                         pidVars>>
      BY <2>3 DEF Enter
    <3>2. \/ chan' = [chan EXCEPT ![cpu[c]] = None]
             /\ kpc' = [kpc EXCEPT ![cpu[c]] = "wait1"]
          \/ UNCHANGED <<chan, kpc>>
      BY <2>3 DEF Enter
    <3>3. /\ mode' \in [CPUs -> Modes] /\ plock' \in [Procs -> CPUs \cup {None}]
          /\ chan' \in [Procs -> Procs \cup {None}] /\ kpc' \in [Procs -> Kpcs]
      BY <1>1, <3>1, <3>2 DEF TypeOK, Modes, Kpcs
    <3> QED BY <1>1, <3>1, <3>3 DEF TypeOK, pidVars
  <2>4. CASE Swtch(c)
    BY <1>1, <2>4, Constants
    DEF Swtch, TypeOK, CpuRight, KidRight, States, Kpcs, Modes, procVars,
        lockVars, cpuVars, pidVars
  <2>5. CASE ForkParent(c)
    BY <1>1, <2>5, Constants
    DEF ForkParent, At, Goto, TypeOK, CpuRight, KidRight, States, Kpcs, Modes,
        procVars, lockVars, cpuVars, pidVars
  <2>6. CASE ForkReady(c)
    BY <1>1, <2>6, Constants
    DEF ForkReady, At, TypeOK, CpuRight, KidRight, States, Kpcs, Modes,
        procVars, lockVars, cpuVars, pidVars
  <2>7. CASE ExitReparent(c)
    BY <1>1, <2>7, Constants
    DEF ExitReparent, At, Goto, Adopted, Children, TypeOK, CpuRight, KidRight,
        States, Kpcs, Modes, procVars, lockVars, cpuVars, pidVars
  <2>8. CASE ExitWakeInit(c)
    BY <1>1, <2>8, Constants
    DEF ExitWakeInit, At, Goto, wakeup, TypeOK, CpuRight, KidRight, States,
        Kpcs, Modes, procVars, lockVars, cpuVars, pidVars
  <2>9. CASE ExitWakeParent(c)
    BY <1>1, <2>9, Constants
    DEF ExitWakeParent, At, Goto, wakeup, TypeOK, CpuRight, KidRight, States,
        Kpcs, Modes, procVars, lockVars, cpuVars, pidVars
  <2>10. CASE ExitZombie(c)
    BY <1>1, <2>10, Constants
    DEF ExitZombie, At, Leave, TypeOK, CpuRight, KidRight, States, Kpcs,
        Modes, procVars, lockVars, cpuVars, pidVars
  <2>11. CASE WaitLock(c)
    BY <1>1, <2>11, Constants
    DEF WaitLock, At, Goto, TypeOK, CpuRight, KidRight, States, Kpcs, Modes,
        procVars, lockVars, cpuVars, pidVars
  <2>12. CASE WaitGiveUp(c)
    BY <1>1, <2>12, Constants
    DEF WaitGiveUp, At, Goto, Zombies, TypeOK, CpuRight, KidRight, States,
        Kpcs, Modes, procVars, lockVars, cpuVars, pidVars
  <2>13. CASE WaitOn(c)
    BY <1>1, <2>13, Constants
    DEF WaitOn, At, Goto, Zombies, Children, TypeOK, CpuRight, KidRight,
        States, Kpcs, Modes, procVars, lockVars, cpuVars, pidVars
  <2>14. CASE WaitSleep(c)
    BY <1>1, <2>14, Constants
    DEF WaitSleep, At, Leave, Goto, TypeOK, CpuRight, KidRight, States, Kpcs,
        Modes, procVars, lockVars, cpuVars, pidVars
  <2>15. CASE TimerYield(c)
    BY <1>1, <2>15, Constants
    DEF TimerYield, Leave, TypeOK, CpuRight, KidRight, States, Kpcs, Modes,
        procVars, lockVars, cpuVars, pidVars
  <2>16. CASE ExitCall(c)
    BY <1>1, <2>16, Constants
    DEF ExitCall, At, Goto, TypeOK, CpuRight, KidRight, States, Kpcs, Modes,
        procVars, lockVars, cpuVars, pidVars
  <2>17. CASE WaitCall(c)
    BY <1>1, <2>17, Constants
    DEF WaitCall, MayCall, Goto, TypeOK, CpuRight, KidRight, States, Kpcs,
        Modes, procVars, lockVars, cpuVars, pidVars
  <2>18. ASSUME NEW z \in Procs, WaitReap(c, z)
        PROVE  TypeOK'
    BY <1>1, <2>18, Constants, ProcAssumption
    DEF WaitReap, FirstZombie, At, Zombies, Children, LockFree, freeproc,
        TypeOK, CpuRight, KidRight, States, Kpcs, Modes, procVars, lockVars,
        cpuVars, pidVars
  <2>19. ASSUME NEW z \in Procs, WaitBadAddress(c, z)
        PROVE  TypeOK'
    BY <1>1, <2>19, Constants
    DEF WaitBadAddress, FirstZombie, At, Goto, Zombies, TypeOK, CpuRight,
        KidRight, States, Kpcs, Modes, procVars, lockVars, cpuVars, pidVars
  <2>20. ASSUME NEW z \in Procs, ForkAlloc(c, z)
        PROVE  TypeOK'
    BY <1>1, <2>20, Constants, ProcAssumption
    DEF ForkAlloc, MayCall, Goto, TypeOK, CpuRight, KidRight, States, Kpcs,
        Modes, procVars, lockVars, cpuVars, pidVars
  <2>21. ASSUME NEW z \in Procs, ForkNoMemory(c, z)
        PROVE  TypeOK'
    BY <1>1, <2>21, Constants, ProcAssumption
    DEF ForkNoMemory, MayCall, freeproc, TypeOK, CpuRight, KidRight, States,
        Kpcs, Modes, procVars, lockVars, cpuVars, pidVars
  <2>22. ASSUME NEW k \in KillPids, NEW z \in Procs, Kill(c, k, z)
        PROVE  TypeOK'
    BY <1>1, <2>22, Constants
    DEF Kill, MayCall, TypeOK, CpuRight, KidRight, States, Kpcs, Modes,
        procVars, lockVars, cpuVars, pidVars
  <2> QED BY <1>4, <2>1, <2>2, <2>3, <2>4, <2>5, <2>6, <2>7, <2>8, <2>9,
             <2>10, <2>11, <2>12, <2>13, <2>14, <2>15, <2>16, <2>17, <2>18,
             <2>19, <2>20, <2>21, <2>22 DEF SchedStep, KernelStep, UserStep
<1> QED BY <1>3, <1>4 DEF Next

LEMMA InitRight == Init => IInv
<1> SUFFICES ASSUME Init PROVE IInv
  OBVIOUS
<1>1. TypeOK
  <2>1. 1 \in Procs /\ 1 \in 0..MaxPid /\ 2 \in 1..(MaxPid + 1) /\ 0 \in 0..MaxPid
    BY ProcAssumption, Constants DEF InitProc
  <2> QED BY <2>1 DEF Init, TypeOK, States, Kpcs, Modes
<1>2. CpuRight /\ LockRight /\ WaitRight
  BY Constants DEF Init, CpuRight, LockRight, WaitRight, Holds
<1>3. CallRight /\ KidRight
  BY Constants DEF Init, CallRight, KidRight, Alive, Exits
<1>4. FamilyRight /\ SleepRight /\ BornAlive
  BY Constants DEF Init, FamilyRight, ParentsAlive, SleepRight, BornAlive, Exits
<1> QED BY <1>1, <1>2, <1>3, <1>4 DEF IInv

LEMMA IInvHolds == Spec => []IInv
<1>1. IInv /\ [Next]_vars => IInv'
  <2> SUFFICES ASSUME IInv, [Next]_vars PROVE IInv'
    OBVIOUS
  <2>1. TypeOK' /\ CpuRight' /\ LockRight' /\ CallRight' /\ KidRight'
    BY TypeNext, CpuNext, LockNext, CallNext, KidNext
  <2>2. WaitRight' /\ FamilyRight' /\ SleepRight' /\ BornAlive'
    BY WaitNext, FamilyNext, SleepNext, BornNext
  <2> QED BY <2>1, <2>2 DEF IInv
<1> QED BY InitRight, <1>1, PTL DEF Spec

(***************************************************************************)
(* The process table is well typed and whoever is a parent is alive, so    *)
(* that every child can be waited for: reparent() leaves none behind, the  *)
(* first process never exits and a zombie has no children                  *)
(* (proc.c:365-423).                                                       *)
(***************************************************************************)
THEOREM NoOrphans == Spec => []TableSound
<1>1. IInv => TableSound
  BY DEF IInv, FamilyRight, TableSound
<1> QED BY IInvHolds, <1>1, PTL

(***************************************************************************)
(* While wait_lock is free, no process sleeps in wait() whose child is a   *)
(* zombie: between the wake-up of the parent and ZOMBIE the lock keeps the *)
(* parent from sleeping (proc.c:405-418 and 475).                          *)
(***************************************************************************)
THEOREM WakeupsReachWait == Spec => []NoLostChildWakeup
<1>1. IInv => NoLostChildWakeup
  <2> SUFFICES ASSUME IInv, waitLock = None, NEW p \in Procs,
                      state[p] = "SLEEPING"
               PROVE  Zombies(p) = {}
    BY DEF NoLostChildWakeup
  <2> QED BY DEF IInv, SleepRight, Zombies, Children
<1> QED BY IInvHolds, <1>1, PTL

(***************************************************************************)
(* A free slot carries no kill, unless kill() was called with the pid of   *)
(* no process (proc.c:155-171 and 972-990).                                *)
(***************************************************************************)
THEOREM NobodyIsBornKilled == Spec => []BornAlive
<1>1. IInv => BornAlive
  BY DEF IInv
<1> QED BY IInvHolds, <1>1, PTL

-----------------------------------------------------------------------------
(* The life cycle.                                                          *)

LEMMA LCInit == Init => LC!Init
BY Constants DEF Init, LC!Init

\* The steps of ProcLifecycle that the steps of Proc are.
LEMMA LCSteps ==
    /\ UNCHANGED <<state, cpu>> => UNCHANGED LC!vars
    /\ \A p \in Procs, s \in {"RUNNABLE", "SLEEPING", "ZOMBIE"}, c \in CPUs :
          state[p] = "RUNNING" /\ cpu[c] = p /\ p # None
             /\ state' = [state EXCEPT ![p] = s] /\ cpu' = cpu => LC!Next
    /\ \A p \in Procs : cpu' = cpu =>
          /\ state[p] = "UNUSED" /\ state' = [state EXCEPT ![p] = "USED"]
             => LC!Next
          /\ state[p] = "USED" /\ state' = [state EXCEPT ![p] = "RUNNABLE"]
             => LC!Next
          /\ state[p] = "SLEEPING" /\ state' = [state EXCEPT ![p] = "RUNNABLE"]
             => LC!Next
          /\ state[p] = "ZOMBIE" /\ state' = [state EXCEPT ![p] = "UNUSED"]
             /\ (\A c \in CPUs : cpu[c] # p) => LC!Next
    /\ \A p \in Procs, c \in CPUs :
          cpu[c] = None /\ (\A d \in CPUs : cpu[d] # p) /\ state[p] = "RUNNABLE"
             /\ state' = [state EXCEPT ![p] = "RUNNING"]
             /\ cpu' = [cpu EXCEPT ![c] = p] => LC!Next
    /\ \A c \in CPUs :
          cpu[c] # None /\ state[cpu[c]] # "RUNNING"
             /\ cpu' = [cpu EXCEPT ![c] = None] /\ state' = state => LC!Next
<1>1. UNCHANGED <<state, cpu>> => UNCHANGED LC!vars
  BY DEF LC!vars
<1>2. ASSUME NEW p \in Procs, NEW s \in {"RUNNABLE", "SLEEPING", "ZOMBIE"},
             NEW c \in CPUs, state[p] = "RUNNING", cpu[c] = p, p # None,
             state' = [state EXCEPT ![p] = s], cpu' = cpu
      PROVE  LC!Stop(c)
  BY <1>2 DEF LC!Stop, LC!Become
<1>3. ASSUME NEW p \in Procs, cpu' = cpu
      PROVE
          /\ state[p] = "UNUSED" /\ state' = [state EXCEPT ![p] = "USED"]
             => LC!Alloc(p)
          /\ state[p] = "USED" /\ state' = [state EXCEPT ![p] = "RUNNABLE"]
             => LC!Ready(p)
          /\ state[p] = "SLEEPING" /\ state' = [state EXCEPT ![p] = "RUNNABLE"]
             => LC!Wakeup(p)
          /\ state[p] = "ZOMBIE" /\ state' = [state EXCEPT ![p] = "UNUSED"]
             /\ (\A c \in CPUs : cpu[c] # p) => LC!Free(p)
  BY <1>3 DEF LC!Alloc, LC!Ready, LC!Wakeup, LC!Free, LC!OnCpu, LC!Become
<1>4. ASSUME NEW p \in Procs, NEW c \in CPUs, cpu[c] = None,
             \A d \in CPUs : cpu[d] # p, state[p] = "RUNNABLE",
             state' = [state EXCEPT ![p] = "RUNNING"],
             cpu' = [cpu EXCEPT ![c] = p]
      PROVE  LC!Run(c, p)
  BY <1>4 DEF LC!Run, LC!OnCpu, LC!Become
<1>5. ASSUME NEW c \in CPUs, cpu[c] # None, state[cpu[c]] # "RUNNING",
             cpu' = [cpu EXCEPT ![c] = None], state' = state
      PROVE  LC!Switch(c)
  BY <1>5 DEF LC!Switch
<1> QED BY <1>1, <1>2, <1>3, <1>4, <1>5 DEF LC!Next

LEMMA StepMaps == IInv /\ [Next]_vars => [LC!Next]_(LC!vars)
<1> SUFFICES ASSUME IInv, [Next]_vars PROVE [LC!Next]_(LC!vars)
  OBVIOUS
<1>1. TypeOK /\ CpuRight /\ LockRight /\ CallRight /\ KidRight
  BY DEF IInv
<1>2. CASE UNCHANGED <<state, cpu>>
  BY <1>1, <1>2, LCSteps DEF TypeOK
<1>3. CASE UNCHANGED vars
  BY <1>2, <1>3 DEF vars, procVars, cpuVars
<1>4. ASSUME NEW c \in CPUs,
             SchedStep(c) \/ KernelStep(c) \/ TimerYield(c) \/ UserStep(c)
      PROVE  [LC!Next]_(LC!vars)
  <2>1. CASE \/ Skip(c) \/ Enter(c) \/ ForkParent(c) \/ ExitReparent(c)
             \/ WaitLock(c) \/ WaitGiveUp(c) \/ WaitOn(c) \/ ExitCall(c)
             \/ WaitCall(c) \/ \E z \in Procs : WaitBadAddress(c, z)
    BY <1>2, <2>1
    DEF Skip, Enter, ForkParent, ExitReparent, WaitLock, WaitGiveUp, WaitOn,
        ExitCall, WaitCall, WaitBadAddress, procVars, cpuVars
  <2>2. CASE Dispatch(c)
    <3>1. /\ idx[c] \in Procs /\ cpu[c] = None
          /\ plock[idx[c]] = None /\ state[idx[c]] = "RUNNABLE"
          /\ state' = [state EXCEPT ![idx[c]] = "RUNNING"]
          /\ cpu' = [cpu EXCEPT ![c] = idx[c]]
      BY <1>1, <2>2 DEF Dispatch, TypeOK, CpuRight
    <3>2. \A d \in CPUs : cpu[d] # idx[c]
      BY <1>1, <3>1, OnNoCpu
    <3> QED BY <3>1, <3>2, LCSteps
  <2>3. CASE Swtch(c)
    <3>1. /\ cpu[c] # None /\ state[cpu[c]] # "RUNNING"
          /\ cpu' = [cpu EXCEPT ![c] = None] /\ state' = state
      BY <1>1, <2>3, Constants DEF Swtch, TypeOK, CpuRight, procVars
    <3> QED BY <3>1, LCSteps
  <2>4. CASE ForkReady(c)
    <3>1. /\ cpu[c] \in Procs /\ kpc[cpu[c]] = "fork3"
          /\ state' = [state EXCEPT ![kid[cpu[c]]] = "RUNNABLE"] /\ cpu' = cpu
      BY <1>1, <2>4, Constants DEF ForkReady, At, TypeOK, CpuRight, cpuVars
    <3>2. kid[cpu[c]] \in Procs /\ state[kid[cpu[c]]] = "USED"
      BY <1>1, <3>1, Constants DEF KidRight, TypeOK
    <3> QED BY <3>1, <3>2, LCSteps
  <2>5. CASE ExitWakeInit(c)
    <3>1. /\ \/ state' = state
             \/ state[InitProc] = "SLEEPING"
                /\ state' = [state EXCEPT ![InitProc] = "RUNNABLE"]
          /\ cpu' = cpu
      BY <2>5 DEF ExitWakeInit, wakeup, cpuVars
    <3> QED BY <3>1, LCSteps, Constants
  <2>6. CASE ExitWakeParent(c)
    <3> DEFINE q == parent[cpu[c]]
    <3>1. /\ \/ state' = state
             \/ state[q] = "SLEEPING" /\ state' = [state EXCEPT ![q] = "RUNNABLE"]
          /\ cpu' = cpu
      BY <2>6 DEF ExitWakeParent, wakeup, cpuVars
    <3>2. q \in Procs \cup {None} /\ state \in [Procs -> States]
      BY <1>1, <2>6, Constants DEF ExitWakeParent, At, TypeOK, CpuRight
    <3>3. CASE q \notin Procs
      <4>1. state' = state
        BY <3>1, <3>2, <3>3
      <4> QED BY <3>1, <4>1, LCSteps
    <3> HIDE DEF q
    <3> QED BY <3>1, <3>3, LCSteps
  <2>7. CASE ExitZombie(c)
    <3>1. /\ cpu[c] \in Procs /\ cpu[c] # None /\ state[cpu[c]] = "RUNNING"
          /\ state' = [state EXCEPT ![cpu[c]] = "ZOMBIE"] /\ cpu' = cpu
      BY <1>1, <2>7, Constants
      DEF ExitZombie, Leave, At, TypeOK, CpuRight, cpuVars
    <3> QED BY <3>1, LCSteps
  <2>8. CASE WaitSleep(c)
    <3>1. /\ cpu[c] \in Procs /\ cpu[c] # None /\ state[cpu[c]] = "RUNNING"
          /\ state' = [state EXCEPT ![cpu[c]] = "SLEEPING"] /\ cpu' = cpu
      BY <1>1, <2>8, Constants
      DEF WaitSleep, Leave, At, TypeOK, CpuRight, cpuVars
    <3> QED BY <3>1, LCSteps
  <2>9. CASE TimerYield(c)
    <3>1. /\ cpu[c] \in Procs /\ cpu[c] # None /\ state[cpu[c]] = "RUNNING"
          /\ state' = [state EXCEPT ![cpu[c]] = "RUNNABLE"] /\ cpu' = cpu
      BY <1>1, <2>9, Constants
      DEF TimerYield, Leave, At, TypeOK, CpuRight, cpuVars
    <3> QED BY <3>1, LCSteps
  <2>10. ASSUME NEW z \in Procs, WaitReap(c, z)
        PROVE  [LC!Next]_(LC!vars)
    <3>1. /\ state[z] = "ZOMBIE" /\ plock[z] = None
          /\ state' = [state EXCEPT ![z] = "UNUSED"] /\ cpu' = cpu
      BY <2>10
      DEF WaitReap, FirstZombie, Zombies, Children, LockFree, freeproc, cpuVars
    <3>2. \A d \in CPUs : cpu[d] # z
      BY <1>1, <3>1, OnNoCpu
    <3> QED BY <3>1, <3>2, LCSteps
  <2>11. ASSUME NEW z \in Procs, ForkAlloc(c, z)
        PROVE  [LC!Next]_(LC!vars)
    <3>1. /\ state[z] = "UNUSED" /\ state' = [state EXCEPT ![z] = "USED"]
          /\ cpu' = cpu
      BY <2>11 DEF ForkAlloc, cpuVars
    <3> QED BY <3>1, LCSteps
  <2>12. ASSUME NEW z \in Procs, ForkNoMemory(c, z)
        PROVE  [LC!Next]_(LC!vars)
    <3>1. state' = state /\ cpu' = cpu
      BY <1>1, <2>12 DEF ForkNoMemory, freeproc, cpuVars, TypeOK
    <3> QED BY <3>1, LCSteps
  <2>13. ASSUME NEW k \in KillPids, NEW z \in Procs, Kill(c, k, z)
        PROVE  [LC!Next]_(LC!vars)
    <3>1. /\ \/ state' = state
             \/ state[z] = "SLEEPING" /\ state' = [state EXCEPT ![z] = "RUNNABLE"]
          /\ cpu' = cpu
      BY <2>13 DEF Kill, cpuVars
    <3> QED BY <3>1, LCSteps
  <2> QED BY <1>4, <2>1, <2>2, <2>3, <2>4, <2>5, <2>6, <2>7, <2>8, <2>9,
             <2>10, <2>11, <2>12, <2>13 DEF SchedStep, KernelStep, UserStep
<1> QED BY <1>3, <1>4 DEF Next

(***************************************************************************)
(* However many CPUs run the kernel, proc.c implements the life cycle: no  *)
(* process is run by two CPUs, and none is freed while a CPU is on its     *)
(* stack (proc.c:443 and 382-480).                                         *)
(***************************************************************************)
THEOREM ProcImplementsLifecycle == Spec => Lifecycle
<1>1. Spec => [][LC!Next]_(LC!vars)
  BY StepMaps, IInvHolds, PTL DEF Spec
<1>2. Spec => LC!Init
  BY LCInit, PTL DEF Spec
<1> QED BY <1>1, <1>2, PTL DEF Lifecycle, LC!Spec

=============================================================================
