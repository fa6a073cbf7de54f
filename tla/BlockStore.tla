----------------------------- MODULE BlockStore -----------------------------
(***************************************************************************)
(* What bread(), bwrite() and brelse() promise: every block of the disk    *)
(* has one current value, which only the process that holds the block may  *)
(* change, and at most one process holds it (kernel/bio.c:1-16).           *)
(***************************************************************************)
EXTENDS Naturals

CONSTANTS Procs, Blocks, Vals, Blank

VARIABLES value, holders    \* of each block

vars == <<value, holders>>

Init ==
    /\ value = [k \in Blocks |-> Blank]
    /\ holders = [k \in Blocks |-> {}]

Take(p, k) ==
    /\ holders[k] = {}
    /\ holders' = [holders EXCEPT ![k] = {p}]
    /\ UNCHANGED value

Change(p, k) ==
    /\ holders[k] = {p}
    /\ \E v \in Vals : value' = [value EXCEPT ![k] = v]
    /\ UNCHANGED holders

Drop(p, k) ==
    /\ holders[k] = {p}
    /\ holders' = [holders EXCEPT ![k] = {}]
    /\ UNCHANGED value

Next == \E p \in Procs, k \in Blocks : Take(p, k) \/ Change(p, k) \/ Drop(p, k)

Spec == Init /\ [][Next]_vars

=============================================================================
