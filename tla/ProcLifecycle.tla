--------------------------- MODULE ProcLifecycle ---------------------------
(***************************************************************************)
(* What kernel/proc.c promises about the life of a process, without locks  *)
(* and without saying who decides: the states of enum procstate, the       *)
(* transitions between them, and the rule that a process whose kernel      *)
(* stack is in use by a CPU is neither run by another CPU nor freed.       *)
(***************************************************************************)
EXTENDS Naturals

CONSTANTS Procs, CPUs, None

VARIABLES state, cpu    \* cpu[c]: the process on whose stack c executes

vars == <<state, cpu>>

Init ==
    /\ \E init \in Procs :
          state = [p \in Procs |-> IF p = init THEN "RUNNABLE" ELSE "UNUSED"]
    /\ cpu = [c \in CPUs |-> None]

OnCpu(p) == \E c \in CPUs : cpu[c] = p

Become(p, from, to) ==
    /\ state[p] \in from
    /\ state' = [state EXCEPT ![p] = to]

Alloc(p) == Become(p, {"UNUSED"}, "USED") /\ UNCHANGED cpu
Ready(p) == Become(p, {"USED"}, "RUNNABLE") /\ UNCHANGED cpu
Wakeup(p) == Become(p, {"SLEEPING"}, "RUNNABLE") /\ UNCHANGED cpu
Free(p)  == ~OnCpu(p) /\ Become(p, {"ZOMBIE"}, "UNUSED") /\ UNCHANGED cpu

Run(c, p) ==
    /\ cpu[c] = None /\ ~OnCpu(p)
    /\ Become(p, {"RUNNABLE"}, "RUNNING")
    /\ cpu' = [cpu EXCEPT ![c] = p]

\* The running process gives up; its stack is in use until the switch.
Stop(c) ==
    /\ cpu[c] # None
    /\ \E s \in {"RUNNABLE", "SLEEPING", "ZOMBIE"} :
          Become(cpu[c], {"RUNNING"}, s)
    /\ UNCHANGED cpu

Switch(c) ==
    /\ cpu[c] # None /\ state[cpu[c]] # "RUNNING"
    /\ cpu' = [cpu EXCEPT ![c] = None]
    /\ UNCHANGED state

Next ==
    \/ \E p \in Procs : Alloc(p) \/ Ready(p) \/ Wakeup(p) \/ Free(p)
    \/ \E c \in CPUs : Stop(c) \/ Switch(c) \/ \E p \in Procs : Run(c, p)

Spec == Init /\ [][Next]_vars

=============================================================================
