------------------------------ MODULE AtomicFS ------------------------------
(***************************************************************************)
(* What kernel/log.c promises the file system: the disk after a crash      *)
(* shows the effect of all the system calls of some commits and of no      *)
(* others, and a commit never holds half of a system call.                 *)
(***************************************************************************)
CONSTANTS Ops, Blocks, Vals, Blank

VARIABLES
    durable,    \* what a crash would leave, once recovered
    visible,    \* what system calls read
    active      \* the system calls that have begun and not ended

vars == <<durable, visible, active>>

Init ==
    /\ durable = [b \in Blocks |-> Blank]
    /\ visible = durable
    /\ active = {}

Begin(p) == p \notin active /\ active' = active \cup {p}
            /\ UNCHANGED <<durable, visible>>
End(p)   == p \in active /\ active' = active \ {p}
            /\ UNCHANGED <<durable, visible>>

Write(p, b, v) ==
    /\ p \in active
    /\ visible' = [visible EXCEPT ![b] = v]
    /\ UNCHANGED <<durable, active>>

Commit ==
    /\ active = {}
    /\ durable' = visible
    /\ UNCHANGED <<visible, active>>

Crash ==
    /\ visible' = durable
    /\ active' = {}
    /\ UNCHANGED durable

Next ==
    \/ \E p \in Ops : Begin(p) \/ End(p)
    \/ \E p \in Ops, b \in Blocks, v \in Vals : Write(p, b, v)
    \/ Commit
    \/ Crash

Spec == Init /\ [][Next]_vars

=============================================================================
