------------------------------ MODULE MCParts ------------------------------
(***************************************************************************)
(* Components with few states, each on its own: part says which one moves  *)
(* in a behaviour, the others keep their initial states.                   *)
(***************************************************************************)
EXTENDS Integers, TLC, BufCache, VirtioDisk, Tty, Messages, Umalloc

CONSTANTS p1, p2, p3, p4, u1, u2, buf1, buf2

VARIABLE part

Symmetry == Permutations({p1, p2, p3}) \cup Permutations({buf1, buf2}) \cup Permutations({u1, u2})

Init == /\ part \in {"cache", "messages", "disk", "tty", "heap"}
        /\ CacheInit /\ MessagesInit /\ virtio_disk_init /\ consoleinit /\ HeapInit
        /\ part # "cache" => lru = <<buf1, buf2>>
        /\ part # "messages" => receiverId = All

vars == <<part, cacheVars, messagesVars, diskVars, ttyVars, heapVars>>

CacheStep == /\ part = "cache"
             /\ CacheNext
             /\ UNCHANGED <<part, messagesVars, diskVars, ttyVars, heapVars>>
ChildrenStep == /\ part = "messages"
                /\ MessagesNext \/ (Stopped /\ UNCHANGED messagesVars)
                /\ UNCHANGED <<part, cacheVars, diskVars, ttyVars, heapVars>>
DiskStep == /\ part = "disk"
            /\ DiskNext
            /\ UNCHANGED <<part, cacheVars, messagesVars, ttyVars, heapVars>>
ConsoleStep == /\ part = "tty"
               /\ TtyNext
               /\ UNCHANGED <<part, cacheVars, messagesVars, diskVars, heapVars>>
HeapStep == /\ part = "heap"
            /\ HeapNext
            /\ UNCHANGED <<part, cacheVars, messagesVars, diskVars, ttyVars>>
Next == CacheStep \/ ChildrenStep \/ DiskStep \/ ConsoleStep \/ HeapStep
Spec == Init /\ [][Next]_vars
=============================================================================
