------------------------------- MODULE MCPipe -------------------------------
(* Instances of Pipe for TLC. *)
EXTENDS Pipe, TLC

CONSTANTS p1, p2, x, y
TwoProcs == {p1, p2}
TwoBytes == {x, y}
Symmetry == Permutations(Procs \ {First}) \cup Permutations(Bytes)

=============================================================================
