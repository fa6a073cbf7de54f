----------------------------- MODULE VirtioDisk -----------------------------
(***************************************************************************)
(* The disk driver (kernel/virtio_disk.c) between processes and the        *)
(* device: chains of three descriptors, the two rings, the interrupt.  A   *)
(* section under disk.vdisk_lock is one step, except the interrupt         *)
(* handler, during which the device may finish more requests.              *)
(* Each process has a locked buffer of its own.  The rings hold at most    *)
(* NUM \div 3 entries and are queues here; what is read or written is not  *)
(* told apart, only whether the device has done it.                        *)
(***************************************************************************)
EXTENDS Naturals, FiniteSetsExt, SequencesExt

CONSTANTS Callers,  \* processes
          Nobody,
          NUM       \* descriptors

ASSUME VirtioDiskAssumption == NUM \in Nat /\ Nobody \notin Callers

VARIABLES
    dfree,      \* disk.free
    info,       \* for each head of a chain: whose request it is
    avail,      \* heads that the device has not seen
    seen,       \* heads that the device works on
    used,       \* heads that virtio_disk_intr() has not seen
    irq,        \* the interrupt is raised
    handling,   \* the handler is in its loop, with the lock
    req         \* of each process: its step, b->disk, its chain, and whether
                \* the device has moved its data

diskVars == <<dfree, info, avail, seen, used, irq, handling, req>>
Desc == 0..(NUM - 1)
NoReq == [at |-> "idle", disk |-> FALSE, idx |-> <<>>, moved |-> FALSE]

virtio_disk_init ==
    /\ dfree = [d \in Desc |-> TRUE] /\ info = [d \in Desc |-> Nobody]
    /\ avail = <<>> /\ seen = {} /\ used = <<>>
    /\ irq = FALSE /\ handling = FALSE
    /\ req = [p \in Callers |-> NoReq]

---------------------------------------------------------------------------
Free == {d \in Desc : dfree[d]}
Becomes(p, r) == req' = [req EXCEPT ![p] = r]
\* wakeup(&disk.free[0]), and p becomes r.
WakeAll(p, r) == req' = [q \in Callers |-> IF q = p THEN r
                                         ELSE [req[q] EXCEPT !.at = IF @ = "nodesc" THEN "alloc" ELSE @]]
\* disk.vdisk_lock is free.
Unlocked == ~handling

virtio_disk_rw(p) ==
    /\ req[p].at = "idle"
    /\ Becomes(p, [NoReq EXCEPT !.at = "alloc"])
    /\ UNCHANGED <<dfree, info, avail, seen, used, irq, handling>>

\* alloc3_desc() gives back what it got, which wakes the others that wait.
alloc_fails(p) ==
    /\ Unlocked /\ req[p].at = "alloc" /\ Cardinality(Free) < 3
    /\ LET r == [req[p] EXCEPT !.at = "nodesc"]
       IN  IF Free = {} THEN Becomes(p, r) ELSE WakeAll(p, r)
    /\ UNCHANGED <<dfree, info, avail, seen, used, irq, handling>>

\* The request is put into the available ring; the process sleeps on b.
Submit(p) ==
    /\ Unlocked /\ req[p].at = "alloc" /\ Cardinality(Free) >= 3
    /\ LET a == Min(Free)
           b == Min(Free \ {a})
           idx == <<a, b, Min(Free \ {a, b})>>
       IN  /\ dfree' = [d \in Desc |-> dfree[d] /\ d \notin ToSet(idx)]
           /\ info' = [info EXCEPT ![a] = p]
           /\ avail' = Append(avail, a)
           /\ Becomes(p, [req[p] EXCEPT !.at = "wait", !.disk = TRUE, !.idx = idx])
    /\ UNCHANGED <<seen, used, irq, handling>>

Bug_Ready_AnyWakeup(p) == req[p].at = "woken"
\* while(b->disk == 1)
Ready(p) == req[p].at = "woken" /\ ~req[p].disk

SleepAgain(p) ==
    /\ Unlocked /\ req[p].at = "woken" /\ ~Ready(p)
    /\ Becomes(p, [req[p] EXCEPT !.at = "wait"])
    /\ UNCHANGED <<dfree, info, avail, seen, used, irq, handling>>

\* free_chain(); the caller then has its block.
Finish(p) ==
    /\ Unlocked /\ Ready(p)
    /\ dfree' = [d \in Desc |-> dfree[d] \/ d \in ToSet(req[p].idx)]
    /\ info' = [info EXCEPT ![req[p].idx[1]] = Nobody]
    /\ WakeAll(p, [req[p] EXCEPT !.at = "done", !.idx = <<>>])
    /\ UNCHANGED <<avail, seen, used, irq, handling>>

Release(p) ==
    /\ req[p].at = "done"
    /\ Becomes(p, NoReq)
    /\ UNCHANGED <<dfree, info, avail, seen, used, irq, handling>>

\* kill() wakes any sleeper.
kill(p) ==
    /\ req[p].at \in {"wait", "nodesc"}
    /\ Becomes(p, [req[p] EXCEPT !.at = IF @ = "wait" THEN "woken" ELSE "alloc"])
    /\ UNCHANGED <<dfree, info, avail, seen, used, irq, handling>>

---------------------------------------------------------------------------
(* The device takes requests in order and finishes them in any order.      *)

DeviceTakes ==
    /\ avail # <<>>
    /\ seen' = seen \cup {Head(avail)} /\ avail' = Tail(avail)
    /\ UNCHANGED <<dfree, info, used, irq, handling, req>>

DeviceFinishes(d) ==
    /\ d \in seen
    /\ req' = [p \in Callers |-> [req[p] EXCEPT !.moved = @ \/ p = info[d]]]
    /\ seen' = seen \ {d} /\ used' = Append(used, d)
    /\ irq' = TRUE
    /\ UNCHANGED <<dfree, info, avail, handling>>

\* virtio_disk_intr() acknowledges before it looks at the used ring.
Intr ==
    /\ irq /\ ~handling
    /\ irq' = FALSE /\ handling' = TRUE
    /\ UNCHANGED <<dfree, info, avail, seen, used, req>>

IntrOne ==
    /\ handling /\ used # <<>>
    /\ LET p == info[Head(used)]
       IN  Becomes(p, [req[p] EXCEPT !.disk = FALSE, !.at = IF @ = "wait" THEN "woken" ELSE @])
    /\ used' = Tail(used)
    /\ UNCHANGED <<dfree, info, avail, seen, irq, handling>>

IntrEnd ==
    /\ handling /\ used = <<>>
    /\ handling' = FALSE
    /\ UNCHANGED <<dfree, info, avail, seen, used, irq, req>>

DiskNext ==
    \/ \E p \in Callers :
          \/ virtio_disk_rw(p) \/ alloc_fails(p) \/ Submit(p) \/ SleepAgain(p)
          \/ Finish(p) \/ Release(p) \/ kill(p)
    \/ DeviceTakes \/ (\E d \in Desc : DeviceFinishes(d))
    \/ Intr \/ IntrOne \/ IntrEnd

DiskSpec == virtio_disk_init /\ [][DiskNext]_diskVars

---------------------------------------------------------------------------
\* Every descriptor is free or in the chain of one request that is under way.
ChainsDisjoint ==
    \A d \in Desc : Cardinality({p \in Callers : d \in ToSet(req[p].idx)}) = IF dfree[d] THEN 0 ELSE 1

\* A request that has returned has moved its block.
Transferred == \A p \in Callers : req[p].at = "done" => req[p].moved

\* A chain that the driver waits for is in one place: on its way to the device,
\* in it, or on its way back.
Places(d) == (IF d \in ToSet(avail) THEN 1 ELSE 0) + (IF d \in seen THEN 1 ELSE 0)
             + (IF d \in ToSet(used) THEN 1 ELSE 0)
NoneLost == \A p \in Callers : req[p].disk => Places(req[p].idx[1]) = 1

\* No sleeper is forgotten: one without descriptors has none to take, one
\* whose request is finished has been woken or will be, by the interrupt.
NoneForgotten ==
    /\ \A p \in Callers : req[p].at = "nodesc" => Cardinality(Free) < 3
    /\ \A p \in Callers : req[p].at = "wait" => req[p].disk
    /\ used # <<>> => irq \/ handling

\* The driver loses neither descriptors, nor requests, nor wake-ups, however
\* the device's completions race its handler (virtio_disk.c:210-327).
DiskSound == ChainsDisjoint /\ Transferred /\ NoneLost /\ NoneForgotten
===========================================================================
