------------------------------- MODULE MCProc -------------------------------
(* Instances of Proc for TLC. *)
EXTENDS Proc, TLC

CONSTANTS c1, c2
TwoCPUs  == {c1, c2}
Symmetry == Permutations(CPUs)

NoKills  == {}
AnyPid   == {0} \cup 2..MaxPid   \* 0 is no process; 1 is the first

=============================================================================
