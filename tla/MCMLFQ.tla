------------------------------- MODULE MCMLFQ -------------------------------
(* Instances of MLFQ for TLC. *)
EXTENDS MLFQ

\* The calls startMLFQ(m, n) of testsyscall.c, scaled down: two or three
\* levels, up to nine iterations at the bottom before a boost, and a second
\* start.
At(k, l)     == [m |-> k, n |-> l]
NoStart      == << >>
TwoLevels    == << {At(2, 2)} >>
ThreeLevels  == << {At(3, 9)} >>
TwiceStarted == << {At(2, 2)}, {At(2, 2)} >>

\* What the programs of the instance do.
Computing    == {"fork", "start"}
RoundRobin   == {"fork", "exit", "wait", "dev", "pipe", "fault"}
Living       == {"fork", "exit", "wait", "start", "stop"}
Exiting      == {"fork", "exit", "wait", "start"}

=============================================================================
