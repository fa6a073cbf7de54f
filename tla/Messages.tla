------------------------------- MODULE Messages -------------------------------
(***************************************************************************)
(* The broadcast program of project1.a (also user/broadcast.c of the       *)
(* kernels) and the unicast program of project1.b, which is made from it.  *)
(* A parent puts one message into a pipe that all its children read.  A    *)
(* child that takes it either answers through a second pipe or puts it     *)
(* back: in broadcast it clears its own flag and answers when all flags    *)
(* are clear, in unicast it answers when the message names it.             *)
(* A message (at most 300 bytes) fits in an empty pipe (512), and at most  *)
(* one is under way, so a read() or a write() moves a whole one.           *)
(***************************************************************************)
EXTENDS Integers, Sequences

CONSTANTS
    numReceiver,
    MAX_NUM_RECEIVERS,
    ReceiverIds,    \* what a user of unicast may give as <receiver_id>
    All,            \* stands for "broadcast" where unicast has a receiver
    Garbage         \* what uninitialised elements of msg.flags may hold

ASSUME MessagesAssumption ==
    /\ MAX_NUM_RECEIVERS \in Nat /\ numReceiver \in 1..MAX_NUM_RECEIVERS
    /\ ReceiverIds \subseteq Int /\ All \notin Int
    /\ Garbage \subseteq Int /\ Garbage # {}

Receivers == 0..(numReceiver - 1)
Flags     == 0..(MAX_NUM_RECEIVERS - 1)

VARIABLES
    receiverId, \* All in broadcast, the addressee in unicast
    parent,     \* where main() is in the parent
    child,      \* where it is in each child
    forked,     \* the children made so far
    toReceivers, fromReceivers,     \* what is in the two pipes
    msg         \* msg.flags of each child, once it has read the message

messagesVars == <<receiverId, parent, child, forked, toReceivers, fromReceivers, msg>>

MessagesInit ==
    /\ receiverId \in ReceiverIds \cup {All}
    /\ parent = "fork"
    /\ child = [r \in Receivers |-> "none"]
    /\ forked = 0
    /\ toReceivers = <<>> /\ fromReceivers = <<>>
    /\ msg = [r \in Receivers |-> <<>>]

(* Definitions named Bug_... are deliberate faults: each is the definition  *)
(* that follows it with one slip, kept to show which property notices it.   *)

-----------------------------------------------------------------------------
(* The parent.                                                              *)

Fork ==
    /\ parent = "fork" /\ forked < numReceiver
    /\ child' = [child EXCEPT ![forked] = "read"]
    /\ forked' = forked + 1
    /\ UNCHANGED <<receiverId, parent, toReceivers, fromReceivers, msg>>

\* fork1() panics: the parent exits, its children stay.
ForkFails ==
    /\ parent = "fork" /\ forked < numReceiver
    /\ parent' = "failed"
    /\ UNCHANGED <<receiverId, child, forked, toReceivers, fromReceivers, msg>>

\* The flags of the receivers are set, the others are never assigned.
Fresh(f) == \A k \in Flags : IF k \in Receivers THEN f[k] = 1 ELSE f[k] \in Garbage

Send ==
    /\ parent = "fork" /\ forked = numReceiver
    /\ \E f \in [Flags -> Garbage \cup {1}] :
          Fresh(f) /\ toReceivers' = Append(toReceivers, f)
    /\ parent' = "read"
    /\ UNCHANGED <<receiverId, child, forked, fromReceivers, msg>>

Hear ==
    /\ parent = "read" /\ fromReceivers # <<>>
    /\ fromReceivers' = Tail(fromReceivers)
    /\ parent' = "done"
    /\ UNCHANGED <<receiverId, child, forked, toReceivers, msg>>

-----------------------------------------------------------------------------
(* A child.                                                                 *)

Marked(r, f) == [f EXCEPT ![r] = 0]

Receive(r) ==
    /\ child[r] = "read" /\ toReceivers # <<>>
    /\ LET f == Head(toReceivers)
       IN  msg' = [msg EXCEPT ![r] = IF receiverId = All THEN Marked(r, f) ELSE f]
    /\ toReceivers' = Tail(toReceivers)
    /\ child' = [child EXCEPT ![r] = "write"]
    /\ UNCHANGED <<receiverId, parent, forked, fromReceivers>>

Bug_AllReceived_Any(f) == \E k \in Receivers : f[k] = 0

\* The sum that the child computes, flag by flag.
Sums(f) == LET sum[j \in 0..MAX_NUM_RECEIVERS] == IF j = 0 THEN 0 ELSE sum[j - 1] + f[j - 1] IN sum
AllReceived(f) == Sums(f)[MAX_NUM_RECEIVERS] = 0

ForMe(r) == receiverId = r

Answers(r) == IF receiverId = All THEN AllReceived(msg[r]) ELSE ForMe(r)

Acknowledge(r) ==
    /\ child[r] = "write" /\ Answers(r)
    /\ fromReceivers' = Append(fromReceivers, r)
    /\ child' = [child EXCEPT ![r] = "done"]
    /\ UNCHANGED <<receiverId, parent, forked, toReceivers, msg>>

Bug_PassOn_Dropped(r) ==
    /\ child[r] = "write" /\ ~Answers(r)
    /\ child' = [child EXCEPT ![r] = "done"]
    /\ UNCHANGED <<receiverId, parent, forked, toReceivers, fromReceivers, msg>>

PassOn(r) ==
    /\ child[r] = "write" /\ ~Answers(r)
    /\ toReceivers' = Append(toReceivers, msg[r])
    /\ child' = [child EXCEPT ![r] = "done"]
    /\ UNCHANGED <<receiverId, parent, forked, fromReceivers, msg>>

Receiver(r) == Receive(r) \/ Acknowledge(r) \/ PassOn(r)
MessagesNext == Fork \/ ForkFails \/ Send \/ Hear \/ \E r \in Receivers : Receiver(r)

MessagesSpec == MessagesInit /\ [][MessagesNext]_messagesVars

-----------------------------------------------------------------------------
(* Properties.                                                              *)

Heard == fromReceivers # <<>> \/ parent = "done"

(***************************************************************************)
(* "if all receivers have received the message, send ack to parent"        *)
(* (broadcast.c:82): the parent hears nothing before every child has the   *)
(* message.                                                                *)
(***************************************************************************)
AckMeansAll ==
    receiverId = All /\ Heard => \A r \in Receivers : child[r] \in {"write", "done"}

(***************************************************************************)
(* An answer in unicast comes from the addressee, after which the message  *)
(* is neither in the pipe nor in the hands of a child (unicast.c:74-92).   *)
(***************************************************************************)
AnswerIsGenuine ==
    receiverId # All /\ Heard =>
        /\ receiverId \in Receivers /\ child[receiverId] = "done"
        /\ toReceivers = <<>> /\ \A r \in Receivers : child[r] # "write"

AnswersRight == AckMeansAll /\ AnswerIsGenuine

(***************************************************************************)
(* Nobody can take another step.  Each child reads once, so every          *)
(* behaviour in which the processes are scheduled gets here.               *)
(***************************************************************************)
Stopped ==
    /\ parent \in {"failed", "done"} \/ (parent = "read" /\ fromReceivers = <<>>)
    /\ \A r \in Receivers : child[r] \in {"none", "done"} \/ (child[r] = "read" /\ toReceivers = <<>>)

(***************************************************************************)
(* In the end, unless fork() has failed, the parent of a broadcast has     *)
(* heard from its children, all of which are done, and the parent of a     *)
(* unicast that names one of them has heard from it, however many others   *)
(* took the message first (broadcast.c:57-116, unicast.c:63-119).          *)
(***************************************************************************)
Completes ==
    Stopped /\ parent # "failed" =>
        /\ receiverId = All => parent = "done" /\ \A r \in Receivers : child[r] = "done"
        /\ receiverId \in Receivers => parent = "done"

=============================================================================
