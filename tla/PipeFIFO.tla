------------------------------ MODULE PipeFIFO ------------------------------
(***************************************************************************)
(* What kernel/pipe.c promises: a bounded FIFO of bytes with two ends,     *)
(* each open until its last holder closes it.                              *)
(***************************************************************************)
EXTENDS Naturals, Sequences

CONSTANTS Bytes, Capacity

VARIABLES q, readopen, writeopen

vars == <<q, readopen, writeopen>>

Init == q = <<>> /\ readopen = TRUE /\ writeopen = TRUE

Put(x) ==
    /\ writeopen /\ readopen /\ Len(q) < Capacity
    /\ q' = Append(q, x)
    /\ UNCHANGED <<readopen, writeopen>>

Take ==
    /\ readopen /\ q # <<>>
    /\ q' = Tail(q)
    /\ UNCHANGED <<readopen, writeopen>>

CloseRead  == readopen /\ readopen' = FALSE /\ UNCHANGED <<q, writeopen>>
CloseWrite == writeopen /\ writeopen' = FALSE /\ UNCHANGED <<q, readopen>>

Next == (\E x \in Bytes : Put(x)) \/ Take \/ CloseRead \/ CloseWrite

Spec == Init /\ [][Next]_vars

=============================================================================
