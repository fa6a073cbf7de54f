-------------------------------- MODULE MCLog --------------------------------
(* Instances of Log for TLC. *)
EXTENDS Log, TLC

CONSTANTS p1, p2, p3, b1, b2, b3, b4, v1, v2
ThreeOps   == {p1, p2, p3}
FourBlocks == {b1, b2, b3, b4}
TwoVals    == {v1, v2}
Symmetry   == Permutations(Ops) \cup Permutations(Blocks)

=============================================================================
