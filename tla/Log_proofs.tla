----------------------------- MODULE Log_proofs -----------------------------
(* Theorems about Log for every set of processes, blocks and values, every *)
(* size of the log and any number of crashes, checked by TLAPS.            *)
EXTENDS Log, FiniteSetTheorems, SequenceTheorems, TLAPS

Committing == {"write_log", "write_head", "install", "clear", "done"}
NoRepeats(s) == \A i, j \in 1..Len(s) : s[i] = s[j] => i = j

\* There are as many calls as are counted.
Active     == {p \in Ops : pc[p] = "op"}
CountRight == outstanding = Cardinality(Active)

\* The process that commits is alone; after the calls and their commit nothing
\* is left in the list; recovery is alone.
ControlRight ==
    /\ \A p \in Ops : pc[p] \in Committing =>
          committing /\ \A q \in Ops : pc[q] \in Committing => q = p
    /\ committing => \A p \in Ops : pc[p] # "op"
    /\ boot = "up" /\ ~committing /\ outstanding = 0 => lh = <<>>
    /\ boot # "up" => /\ \A p \in Ops : pc[p] = "idle"
                      /\ ~committing /\ pinned = {} /\ cache = home

\* The blocks in the log and those at home that a loop has done, and those
\* that it has not done.
Logged(k)    == \A i \in 1..k : logblk[i] = cache[lh[i]]
Installed(k) == \A i \in 1..k : home[lh[i]] = logblk[i]
InLoop       == tail \in 1..Len(lh)

CommitRight == \A p \in Ops :
    /\ pc[p] = "write_log"  => InLoop /\ Logged(tail - 1)
    /\ pc[p] = "write_head" => tail = 1 /\ lh # <<>> /\ Logged(Len(lh))
    /\ pc[p] = "install"    => /\ InLoop /\ hdr = lh
                               /\ Logged(Len(lh)) /\ Installed(tail - 1)
    /\ pc[p] = "clear"      => hdr = lh /\ Installed(Len(lh))
    /\ pc[p] = "done"       => lh = <<>>

BootRight ==
    /\ boot = "read_head" => tail = 1
    /\ boot = "install"   => InLoop /\ hdr = lh /\ Installed(tail - 1)
    /\ boot = "clear"     => hdr = lh /\ Installed(Len(lh))

\* The header on disk is empty except from the commit to its end.
HeaderRight ==
    /\ NoRepeats(lh) /\ NoRepeats(hdr)
    /\ boot = "up" /\ (\A p \in Ops : pc[p] \notin {"install", "clear"})
         => hdr = <<>>

\* Pinned is what is listed and not yet installed; the rest is as on disk.
PinsRight ==
    /\ boot = "up" /\ (\A p \in Ops : pc[p] \notin {"install", "clear"}) =>
          \A b \in Blocks : b \in pinned <=> Listed(b)
    /\ \A p \in Ops : /\ pc[p] = "install" => \A b \in Blocks :
                            b \in pinned <=> \E i \in tail..Len(lh) : lh[i] = b
                      /\ pc[p] = "clear" => pinned = {}
    /\ DirtyIsPinned

IInv == /\ TypeOK /\ CountRight /\ ControlRight /\ CommitRight /\ BootRight
        /\ HeaderRight /\ PinsRight /\ SleepersHaveAWaker

-----------------------------------------------------------------------------

\* As many calls fit as begin_op() lets in.
LEMMA RoomFor ==
    /\ LOGSIZE \div MAXOPBLOCKS \in Nat
    /\ \A k \in Nat : k * MAXOPBLOCKS <= LOGSIZE => k <= LOGSIZE \div MAXOPBLOCKS
<1> DEFINE d == LOGSIZE \div MAXOPBLOCKS
           r == LOGSIZE % MAXOPBLOCKS
<1>1. /\ MAXOPBLOCKS \in Nat \ {0} /\ LOGSIZE \in Nat
      /\ d \in Int /\ r \in 0..(MAXOPBLOCKS - 1) /\ LOGSIZE = MAXOPBLOCKS * d + r
  BY LogAssumption, Z3
<1> HIDE DEF d, r
<1>2. d >= 0
  <2> SUFFICES ASSUME d <= 0 - 1 PROVE FALSE
    BY <1>1
  <2>1. MAXOPBLOCKS * d <= 0 - MAXOPBLOCKS
    BY <1>1, SMTT(20)
  <2> QED BY <1>1, <2>1
<1>3. ASSUME NEW k \in Nat, k * MAXOPBLOCKS <= LOGSIZE PROVE k <= d
  <2> SUFFICES ASSUME k >= d + 1 PROVE FALSE
    BY <1>1
  <2>1. k * MAXOPBLOCKS >= MAXOPBLOCKS * d + MAXOPBLOCKS
    BY <1>1, SMTT(20)
  <2> QED BY <1>1, <1>3, <2>1
<1> QED BY <1>1, <1>2, <1>3 DEF d

LEMMA ListsAre == BlockLists = {s \in Seq(Blocks) : Len(s) <= LOGSIZE}
<1>1. LOGSIZE \in Nat
  BY LogAssumption
<1>2. ASSUME NEW s \in BlockLists PROVE s \in Seq(Blocks) /\ Len(s) <= LOGSIZE
  <2>1. CASE s = <<>>
    BY <1>1, <2>1
  <2>2. ASSUME NEW n \in 1..LOGSIZE, s \in [1..n -> Blocks]
        PROVE  s \in Seq(Blocks) /\ Len(s) <= LOGSIZE
    BY <1>1, <2>2
  <2> QED BY <1>2, <2>1, <2>2 DEF BlockLists
<1>3. ASSUME NEW s \in Seq(Blocks), Len(s) <= LOGSIZE PROVE s \in BlockLists
  <2>1. Len(s) \in Nat /\ s \in [1..Len(s) -> Blocks]
    BY LenProperties
  <2>2. CASE Len(s) = 0
    BY <2>2 DEF BlockLists
  <2>3. CASE Len(s) # 0
    <3>1. Len(s) \in 1..LOGSIZE
      BY <1>1, <1>3, <2>1, <2>3
    <3> QED BY <2>1, <3>1 DEF BlockLists
  <2> QED BY <2>2, <2>3
<1> QED BY <1>2, <1>3

LEMMA Types ==
    ASSUME TypeOK
    PROVE  /\ lh \in Seq(Blocks) /\ Len(lh) \in 0..LOGSIZE
           /\ hdr \in Seq(Blocks) /\ Len(hdr) \in 0..LOGSIZE
           /\ \A i \in 1..Len(lh) : lh[i] \in Blocks
           /\ \A i \in 1..Len(hdr) : hdr[i] \in Blocks
           /\ LOGSIZE \in Nat /\ outstanding \in Nat /\ tail \in Nat
<1>1. lh \in Seq(Blocks) /\ Len(lh) <= LOGSIZE /\ hdr \in Seq(Blocks)
      /\ Len(hdr) <= LOGSIZE
  BY ListsAre DEF TypeOK
<1>2. LOGSIZE \in Nat /\ LOGSIZE \div MAXOPBLOCKS \in Nat
  BY LogAssumption, RoomFor
<1>3. Len(lh) \in Nat /\ Len(hdr) \in Nat
  BY <1>1, LenProperties
<1> QED BY <1>1, <1>2, <1>3, LenProperties DEF TypeOK

LEMMA InitRight == Init => IInv
<1> SUFFICES ASSUME Init PROVE IInv
  OBVIOUS
<1>1. TypeOK
  <2>1. 1 \in 1..(LOGSIZE + 1) /\ 0 \in 0..MaxCrashes
    BY LogAssumption
  <2>2. 0 \in 0..(LOGSIZE \div MAXOPBLOCKS)
    BY RoomFor, LogAssumption
  <2>3. <<>> \in BlockLists
    BY DEF BlockLists
  <2>4. /\ home \in [Blocks -> Vals] /\ cache \in [Blocks -> Vals]
        /\ logblk \in [1..LOGSIZE -> Vals]
    BY LogAssumption DEF Init
  <2>5. /\ pc \in [Ops -> {"idle"}] /\ wrote \in [Ops -> SUBSET Blocks]
    BY DEF Init
  <2> QED BY <2>1, <2>2, <2>3, <2>4, <2>5 DEF Init, TypeOK
<1>2. CountRight /\ ControlRight
  <2>1. Active = {}
    BY DEF Init, Active
  <2>2. CountRight
    BY <2>1, FS_EmptySet DEF Init, CountRight
  <2> QED BY <2>2 DEF Init, ControlRight, Committing
<1>3. CommitRight /\ BootRight
  BY DEF Init, CommitRight, BootRight
<1>4. HeaderRight
  BY DEF Init, HeaderRight, NoRepeats
<1>5. PinsRight
  BY DEF Init, PinsRight, Listed, DirtyIsPinned
<1>6. SleepersHaveAWaker
  BY DEF Init, SleepersHaveAWaker
<1> QED BY <1>1, <1>2, <1>3, <1>4, <1>5, <1>6 DEF IInv

LEMMA TypeNext == IInv /\ [Next]_vars => TypeOK'
<1> SUFFICES ASSUME IInv, [Next]_vars PROVE TypeOK'
  OBVIOUS
<1>1. TypeOK /\ ControlRight /\ CommitRight /\ BootRight
  BY DEF IInv
<1>2. CASE UNCHANGED vars
  BY <1>1, <1>2, LogAssumption DEF vars, TypeOK, disk, bufs, inlog, control
<1>3. ASSUME NEW p \in Ops,
             \/ begin_op(p) \/ begin_sleep(p) \/ KillWakes(p)
             \/ end_last(p) \/ end_other(p) \/ commit(p)
      PROVE  TypeOK'
  <2>1. CASE begin_op(p)
    <3>1. outstanding + 1 \in 0..(LOGSIZE \div MAXOPBLOCKS)
      <4> DEFINE k == outstanding + 1
      <4>1. k \in Nat /\ Len(lh) \in Nat /\ MAXOPBLOCKS \in Nat /\ LOGSIZE \in Nat
        BY <1>1, Types, LogAssumption
      <4>2. Len(lh) + k * MAXOPBLOCKS <= LOGSIZE
        BY <2>1 DEF begin_op, MayBegin, HasRoom
      <4> HIDE DEF k
      <4>3. k * MAXOPBLOCKS \in Nat
        BY <4>1
      <4>4. k * MAXOPBLOCKS <= LOGSIZE
        BY <4>1, <4>2, <4>3
      <4>5. k <= LOGSIZE \div MAXOPBLOCKS
        BY <4>1, <4>4, RoomFor
      <4> QED BY <4>1, <4>5, RoomFor DEF k
    <3> QED BY <1>1, <2>1, <3>1 DEF begin_op, TypeOK, disk, bufs
  <2>2. CASE begin_sleep(p)
    BY <1>1, <2>2, LogAssumption
    DEF begin_sleep, MayBegin, HasRoom, TypeOK, disk, bufs, inlog, control
  <2>3. CASE KillWakes(p)
    BY <1>1, <2>3, LogAssumption
    DEF KillWakes, TypeOK, disk, bufs, inlog, control
  <2>4. CASE end_last(p)
    BY <1>1, <2>4, LogAssumption
    DEF end_last, CommitStart, TypeOK, disk, bufs, inlog, control
  <2>5. CASE end_other(p)
    BY <1>1, <2>5, LogAssumption
    DEF end_other, Woken, TypeOK, disk, bufs, inlog, control
  <2>6. CASE write_log(p)
    <3>1. tail \in 1..Len(lh) /\ tail \in 1..LOGSIZE /\ lh[tail] \in Blocks
      BY <1>1, <2>6, Types DEF CommitRight, InLoop, write_log
    <3>2. logblk' \in [1..LOGSIZE -> Vals]
      BY <1>1, <2>6, <3>1 DEF write_log, TypeOK
    <3>3. tail' \in 1..(LOGSIZE + 1)
      BY <1>1, <2>6, <3>1, Types DEF write_log
    <3>4. pc' \in [Ops -> {"idle", "asleep", "woken", "op", "write_log",
                           "write_head", "install", "clear", "done"}]
      BY <1>1, <2>6 DEF write_log, TypeOK
    <3> QED BY <1>1, <2>6, <3>2, <3>3, <3>4 DEF write_log, TypeOK, bufs, inlog
  <2>7. CASE write_head(p)
    BY <1>1, <2>7, LogAssumption
    DEF write_head, TypeOK, disk, bufs, inlog, control
  <2>8. CASE install_trans(p)
    <3>1. tail \in 1..Len(lh) /\ tail \in 1..LOGSIZE /\ lh[tail] \in Blocks
      BY <1>1, <2>8, Types DEF CommitRight, InLoop, install_trans
    <3>2. logblk[tail] \in Vals
      BY <1>1, <3>1 DEF TypeOK
    <3>3. home' \in [Blocks -> Vals] /\ cache' \in [Blocks -> Vals]
      BY <1>1, <2>8, <3>2 DEF install_trans, Install, TypeOK
    <3>4. tail' \in 1..(LOGSIZE + 1) /\ UNCHANGED <<logblk, hdr, lh, wrote,
          boot, crashes>>
      BY <1>1, <2>8, <3>1, Types DEF install_trans, inlog
    <3>5. pc' \in [Ops -> {"idle", "asleep", "woken", "op", "write_log",
                           "write_head", "install", "clear", "done"}]
      BY <1>1, <2>8 DEF install_trans, AfterInstall, TypeOK
    <3> QED BY <1>1, <2>8, <3>3, <3>4, <3>5 DEF install_trans, TypeOK, inlog
  <2>9. CASE clear(p)
    <3>1. <<>> \in BlockLists
      BY DEF BlockLists
    <3> QED BY <1>1, <2>9, <3>1 DEF clear, TypeOK, bufs
  <2>10. CASE commit_done(p)
    BY <1>1, <2>10, LogAssumption
    DEF commit_done, AfterCommit, Woken, TypeOK, disk, bufs, inlog, control
  <2> QED BY <1>3, <2>1, <2>2, <2>3, <2>4, <2>5, <2>6, <2>7, <2>8, <2>9,
             <2>10 DEF commit
<1>4. ASSUME NEW p \in Ops, NEW b \in Blocks, NEW v \in Vals, Write(p, b, v)
      PROVE  TypeOK'
  <2>1. Absorb(b) \in BlockLists
    <3>1. CASE Listed(b)
      BY <1>1, <3>1 DEF Absorb, TypeOK
    <3>2. CASE ~Listed(b)
      <4>1. Absorb(b) \in Seq(Blocks) /\ Len(Absorb(b)) = Len(lh) + 1
        BY <1>1, <3>2, Types, AppendProperties DEF Absorb
      <4>2. Len(Absorb(b)) <= LOGSIZE
        BY <1>1, <1>4, <4>1, Types DEF Write, LogHasRoom
      <4> QED BY <4>1, <4>2, ListsAre
    <3> QED BY <3>1, <3>2
  <2>2. cache' \in [Blocks -> Vals] /\ pinned' \subseteq Blocks
    BY <1>1, <1>4 DEF Write, Pin, TypeOK
  <2>3. wrote' \in [Ops -> SUBSET Blocks]
    BY <1>1, <1>4 DEF Write, TypeOK
  <2> QED BY <1>1, <1>4, <2>1, <2>2, <2>3 DEF Write, TypeOK, disk
<1>5. ASSUME NEW b \in Blocks, Recycle(b) PROVE TypeOK'
  BY <1>1, <1>5, LogAssumption DEF Recycle, TypeOK, disk, bufs, inlog, control
<1>6. CASE Crash
  <2>1. /\ 0 \in 0..(LOGSIZE \div MAXOPBLOCKS) /\ <<>> \in BlockLists
        /\ 1 \in 1..(LOGSIZE + 1)
    BY RoomFor, LogAssumption DEF BlockLists
  <2>2. crashes + 1 \in 0..MaxCrashes
    BY <1>1, <1>6, LogAssumption DEF Crash, TypeOK
  <2>3. pc' \in [Ops -> {"idle"}] /\ wrote' \in [Ops -> SUBSET Blocks]
    BY <1>6 DEF Crash
  <2> QED BY <1>1, <1>6, <2>1, <2>2, <2>3 DEF Crash, TypeOK, disk
<1>7. CASE read_head
  BY <1>1, <1>7, LogAssumption
  DEF read_head, TypeOK, disk, bufs, inlog, control
<1>8. CASE recover_install
  <2>1. tail \in 1..Len(lh) /\ tail \in 1..LOGSIZE /\ lh[tail] \in Blocks
    BY <1>1, <1>8, Types DEF BootRight, InLoop, recover_install
  <2>2. logblk[tail] \in Vals
    BY <1>1, <2>1 DEF TypeOK
  <2>3. home' \in [Blocks -> Vals] /\ cache' \in [Blocks -> Vals]
    BY <1>1, <1>8, <2>2 DEF recover_install, Install, TypeOK
  <2>4. tail' \in 1..(LOGSIZE + 1) /\ UNCHANGED <<logblk, hdr, lh, wrote,
        crashes>>
    BY <1>1, <1>8, <2>1, Types DEF recover_install, inlog
  <2>5. pc' = pc /\ boot' \in {"install", "clear"}
    BY <1>8 DEF recover_install
  <2> QED BY <1>1, <1>8, <2>3, <2>4, <2>5 DEF recover_install, TypeOK, inlog
<1>9. CASE recover_clear
  <2>1. <<>> \in BlockLists
    BY DEF BlockLists
  <2> QED BY <1>1, <1>9, <2>1 DEF recover_clear, TypeOK, bufs
<1> QED BY <1>2, <1>3, <1>4, <1>5, <1>6, <1>7, <1>8, <1>9 DEF Next, recover

LEMMA HeaderNext == IInv /\ [Next]_vars => HeaderRight'
<1> SUFFICES ASSUME IInv, [Next]_vars PROVE HeaderRight'
  OBVIOUS
<1>1. TypeOK /\ ControlRight /\ CommitRight /\ BootRight /\ HeaderRight
  BY DEF IInv
<1>2. CASE UNCHANGED vars
  BY <1>1, <1>2, LogAssumption
  DEF vars, TypeOK, ControlRight, CommitRight, BootRight, HeaderRight,
      NoRepeats, Committing, disk, bufs, inlog, control
<1>3. ASSUME NEW p \in Ops,
             \/ begin_op(p) \/ begin_sleep(p) \/ KillWakes(p)
             \/ end_last(p) \/ end_other(p) \/ commit(p)
      PROVE  HeaderRight'
  <2>1. CASE begin_op(p)
    BY <1>1, <2>1, LogAssumption
    DEF begin_op, MayBegin, HasRoom, TypeOK, ControlRight, CommitRight,
        BootRight, HeaderRight, NoRepeats, Committing, disk, bufs, inlog,
        control
  <2>2. CASE begin_sleep(p)
    BY <1>1, <2>2, LogAssumption
    DEF begin_sleep, MayBegin, HasRoom, TypeOK, ControlRight, CommitRight,
        BootRight, HeaderRight, NoRepeats, Committing, disk, bufs, inlog,
        control
  <2>3. CASE KillWakes(p)
    BY <1>1, <2>3, LogAssumption
    DEF KillWakes, TypeOK, ControlRight, CommitRight, BootRight, HeaderRight,
        NoRepeats, Committing, disk, bufs, inlog, control
  <2>4. CASE end_last(p)
    BY <1>1, <2>4, LogAssumption
    DEF end_last, CommitStart, TypeOK, ControlRight, CommitRight, BootRight,
        HeaderRight, NoRepeats, Committing, disk, bufs, inlog, control
  <2>5. CASE end_other(p)
    BY <1>1, <2>5, LogAssumption
    DEF end_other, Woken, TypeOK, ControlRight, CommitRight, BootRight,
        HeaderRight, NoRepeats, Committing, disk, bufs, inlog, control
  <2>6. CASE write_log(p)
    BY <1>1, <2>6, LogAssumption
    DEF write_log, TypeOK, ControlRight, CommitRight, BootRight, HeaderRight,
        NoRepeats, Committing, disk, bufs, inlog, control
  <2>7. CASE write_head(p)
    BY <1>1, <2>7, LogAssumption
    DEF write_head, TypeOK, ControlRight, CommitRight, BootRight, HeaderRight,
        NoRepeats, Committing, disk, bufs, inlog, control
  <2>8. CASE install_trans(p)
    BY <1>1, <2>8, LogAssumption
    DEF install_trans, Install, AfterInstall, TypeOK, ControlRight,
        CommitRight, BootRight, HeaderRight, NoRepeats, Committing, disk,
        bufs, inlog, control
  <2>9. CASE clear(p)
    BY <1>1, <2>9, LogAssumption
    DEF clear, TypeOK, ControlRight, CommitRight, BootRight, HeaderRight,
        NoRepeats, Committing, disk, bufs, inlog, control
  <2>10. CASE commit_done(p)
    BY <1>1, <2>10, LogAssumption
    DEF commit_done, AfterCommit, Woken, TypeOK, ControlRight, CommitRight,
        BootRight, HeaderRight, NoRepeats, Committing, disk, bufs, inlog,
        control
  <2> QED BY <1>3, <2>1, <2>2, <2>3, <2>4, <2>5, <2>6, <2>7, <2>8, <2>9,
             <2>10 DEF commit
<1>4. ASSUME NEW p \in Ops, NEW b \in Blocks, NEW v \in Vals, Write(p, b, v)
      PROVE  HeaderRight'
  <2>1. NoRepeats(Absorb(b))
    <3>1. CASE Listed(b)
      BY <1>1, <3>1 DEF Absorb, HeaderRight
    <3>2. CASE ~Listed(b)
      <4>1. /\ Len(Absorb(b)) = Len(lh) + 1 /\ Absorb(b)[Len(lh) + 1] = b
            /\ \A i \in 1..Len(lh) : Absorb(b)[i] = lh[i]
        BY <1>1, <3>2, Types, AppendProperties DEF Absorb
      <4>2. \A i \in 1..Len(lh) : lh[i] # b
        BY <3>2 DEF Listed
      <4> QED BY <1>1, <4>1, <4>2, Types DEF HeaderRight, NoRepeats
    <3> QED BY <3>1, <3>2
  <2> QED BY <1>1, <1>4, <2>1 DEF Write, HeaderRight, disk
<1>5. ASSUME NEW b \in Blocks, Recycle(b) PROVE HeaderRight'
  BY <1>1, <1>5, LogAssumption
  DEF Recycle, TypeOK, ControlRight, CommitRight, BootRight, HeaderRight,
      NoRepeats, Committing, disk, bufs, inlog, control
<1>6. CASE Crash
  BY <1>1, <1>6, LogAssumption
  DEF Crash, TypeOK, ControlRight, CommitRight, BootRight, HeaderRight,
      NoRepeats, Committing, disk, bufs, inlog, control
<1>7. CASE read_head
  BY <1>1, <1>7, LogAssumption
  DEF read_head, TypeOK, ControlRight, CommitRight, BootRight, HeaderRight,
      NoRepeats, Committing, disk, bufs, inlog, control
<1>8. CASE recover_install
  BY <1>1, <1>8, LogAssumption
  DEF recover_install, Install, TypeOK, ControlRight, CommitRight, BootRight,
      HeaderRight, NoRepeats, Committing, disk, bufs, inlog, control
<1>9. CASE recover_clear
  BY <1>1, <1>9, LogAssumption
  DEF recover_clear, TypeOK, ControlRight, CommitRight, BootRight,
      HeaderRight, NoRepeats, Committing, disk, bufs, inlog, control
<1> QED BY <1>2, <1>3, <1>4, <1>5, <1>6, <1>7, <1>8, <1>9 DEF Next, recover

LEMMA CountNext == IInv /\ [Next]_vars => CountRight'
<1> SUFFICES ASSUME IInv, [Next]_vars PROVE CountRight'
  OBVIOUS
<1>1. TypeOK /\ CountRight
  BY DEF IInv
<1>2. IsFiniteSet(Active)
  BY LogAssumption, FS_Subset DEF Active
<1>3. CASE UNCHANGED vars
  <2>1. Active' = Active /\ outstanding' = outstanding
    BY <1>1, <1>3 DEF vars, TypeOK, Active, disk, bufs, inlog, control
  <2> QED BY <1>1, <2>1 DEF CountRight
<1>4. ASSUME NEW p \in Ops,
             \/ begin_op(p) \/ begin_sleep(p) \/ KillWakes(p)
             \/ end_last(p) \/ end_other(p) \/ commit(p)
      PROVE  CountRight'
  <2>1. CASE begin_op(p)
    <3>1. Active' = Active \cup {p} /\ p \notin Active
      BY <1>1, <2>1 DEF begin_op, TypeOK, Active
    <3>2. Cardinality(Active') = Cardinality(Active) + 1
      BY <1>2, <3>1, FS_AddElement
    <3> QED BY <1>1, <2>1, <3>2 DEF begin_op, CountRight
  <2>2. CASE begin_sleep(p)
    <3>1. Active' = Active /\ outstanding' = outstanding
      BY <1>1, <2>2
      DEF begin_sleep, MayBegin, HasRoom, TypeOK, Active, disk, bufs, inlog,
          control
    <3> QED BY <1>1, <3>1 DEF CountRight
  <2>3. CASE KillWakes(p)
    <3>1. Active' = Active /\ outstanding' = outstanding
      BY <1>1, <2>3 DEF KillWakes, TypeOK, Active, disk, bufs, inlog, control
    <3> QED BY <1>1, <3>1 DEF CountRight
  <2>4. CASE end_last(p)
    <3>1. Active' = Active \ {p} /\ p \in Active
      BY <1>1, <2>4 DEF end_last, CommitStart, TypeOK, Active
    <3>2. Cardinality(Active') = Cardinality(Active) - 1
      BY <1>2, <3>1, FS_RemoveElement
    <3>3. outstanding = 1 /\ outstanding' = 0
      BY <2>4 DEF end_last
    <3> QED BY <1>1, <3>2, <3>3 DEF CountRight
  <2>5. CASE end_other(p)
    <3>1. Active' = Active \ {p} /\ p \in Active
      BY <1>1, <2>5 DEF end_other, Woken, TypeOK, Active
    <3>2. Cardinality(Active') = Cardinality(Active) - 1
      BY <1>2, <3>1, FS_RemoveElement
    <3> QED BY <1>1, <2>5, <3>2 DEF end_other, CountRight
  <2>6. CASE write_log(p)
    <3>1. Active' = Active /\ outstanding' = outstanding
      BY <1>1, <2>6 DEF write_log, TypeOK, Active, disk, bufs, inlog, control
    <3> QED BY <1>1, <3>1 DEF CountRight
  <2>7. CASE write_head(p)
    <3>1. Active' = Active /\ outstanding' = outstanding
      BY <1>1, <2>7 DEF write_head, TypeOK, Active, disk, bufs, inlog, control
    <3> QED BY <1>1, <3>1 DEF CountRight
  <2>8. CASE install_trans(p)
    <3>1. Active' = Active /\ outstanding' = outstanding
      BY <1>1, <2>8
      DEF install_trans, Install, AfterInstall, TypeOK, Active, disk, bufs,
          inlog, control
    <3> QED BY <1>1, <3>1 DEF CountRight
  <2>9. CASE clear(p)
    <3>1. Active' = Active /\ outstanding' = outstanding
      BY <1>1, <2>9 DEF clear, TypeOK, Active, disk, bufs, inlog, control
    <3> QED BY <1>1, <3>1 DEF CountRight
  <2>10. CASE commit_done(p)
    <3>1. Active' = Active /\ outstanding' = outstanding
      BY <1>1, <2>10
      DEF commit_done, AfterCommit, Woken, TypeOK, Active, disk, bufs, inlog,
          control
    <3> QED BY <1>1, <3>1 DEF CountRight
  <2> QED BY <1>4, <2>1, <2>2, <2>3, <2>4, <2>5, <2>6, <2>7, <2>8, <2>9,
             <2>10 DEF commit
<1>5. ASSUME NEW p \in Ops, NEW b \in Blocks, NEW v \in Vals, Write(p, b, v)
      PROVE  CountRight'
  <2>1. Active' = Active /\ outstanding' = outstanding
    BY <1>1, <1>5
    DEF Write, Absorb, Pin, LogHasRoom, TypeOK, Active, disk, bufs, inlog,
        control
  <2> QED BY <1>1, <2>1 DEF CountRight
<1>6. ASSUME NEW b \in Blocks, Recycle(b) PROVE CountRight'
  <2>1. Active' = Active /\ outstanding' = outstanding
    BY <1>1, <1>6 DEF Recycle, TypeOK, Active, disk, bufs, inlog, control
  <2> QED BY <1>1, <2>1 DEF CountRight
<1>7. CASE Crash
  <2>1. Active' = {} /\ outstanding' = 0
    BY <1>7 DEF Crash, Active
  <2> QED BY <2>1, FS_EmptySet DEF CountRight
<1>8. CASE read_head
  <2>1. Active' = Active /\ outstanding' = outstanding
    BY <1>1, <1>8 DEF read_head, TypeOK, Active, disk, bufs, inlog, control
  <2> QED BY <1>1, <2>1 DEF CountRight
<1>9. CASE recover_install
  <2>1. Active' = Active /\ outstanding' = outstanding
    BY <1>1, <1>9
    DEF recover_install, Install, TypeOK, Active, disk, bufs, inlog, control
  <2> QED BY <1>1, <2>1 DEF CountRight
<1>10. CASE recover_clear
  <2>1. Active' = Active /\ outstanding' = outstanding
    BY <1>1, <1>10 DEF recover_clear, TypeOK, Active, disk, bufs, inlog, control
  <2> QED BY <1>1, <2>1 DEF CountRight
<1> QED BY <1>3, <1>4, <1>5, <1>6, <1>7, <1>8, <1>9, <1>10 DEF Next, recover

\* The last call to end leaves nobody in a call.
LEMMA LastIsAlone ==
    ASSUME TypeOK, CountRight, outstanding = 1, NEW p \in Ops, pc[p] = "op"
    PROVE  \A q \in Ops : pc[q] = "op" => q = p
<1>1. IsFiniteSet(Active) /\ p \in Active
  BY LogAssumption, FS_Subset DEF Active
<1>2. IsFiniteSet(Active \ {p})
      /\ Cardinality(Active \ {p}) = Cardinality(Active) - 1
  BY <1>1, FS_RemoveElement
<1>3. Cardinality(Active \ {p}) = 0
  BY <1>2 DEF CountRight
<1>4. Active \ {p} = {}
  BY <1>2, <1>3, FS_EmptySet
<1> QED BY <1>4 DEF Active

LEMMA CallIsCounted ==
    ASSUME TypeOK, CountRight, NEW p \in Ops, pc[p] = "op" PROVE outstanding # 0
<1>1. IsFiniteSet(Active) /\ p \in Active
  BY LogAssumption, FS_Subset DEF Active
<1> QED BY <1>1, FS_EmptySet DEF CountRight

LEMMA ControlNext == IInv /\ [Next]_vars => ControlRight'
<1> SUFFICES ASSUME IInv, [Next]_vars PROVE ControlRight'
  OBVIOUS
<1>1. /\ TypeOK /\ CountRight /\ ControlRight /\ CommitRight
      /\ BootRight
  BY DEF IInv
<1>2. CASE UNCHANGED vars
  BY <1>1, <1>2
  DEF vars, TypeOK, ControlRight, CommitRight, BootRight, Committing, disk,
      bufs, inlog, control
<1>3. ASSUME NEW p \in Ops,
             \/ begin_op(p) \/ begin_sleep(p) \/ KillWakes(p)
             \/ end_last(p) \/ end_other(p) \/ commit(p)
      PROVE  ControlRight'
  <2>1. CASE begin_op(p)
    BY <1>1, <2>1
    DEF begin_op, MayBegin, HasRoom, TypeOK, ControlRight, CommitRight,
        BootRight, Committing, disk, bufs, inlog, control
  <2>2. CASE begin_sleep(p)
    BY <1>1, <2>2
    DEF begin_sleep, MayBegin, HasRoom, TypeOK, ControlRight, CommitRight,
        BootRight, Committing, disk, bufs, inlog, control
  <2>3. CASE KillWakes(p)
    BY <1>1, <2>3
    DEF KillWakes, TypeOK, ControlRight, CommitRight, BootRight, Committing,
        disk, bufs, inlog, control
  <2>4. CASE end_last(p)
    <3>1. \A q \in Ops : pc[q] = "op" => q = p
      BY <1>1, <2>4, LastIsAlone DEF end_last
    <3> QED BY <1>1, <2>4, <3>1
        DEF end_last, CommitStart, TypeOK, ControlRight, Committing
  <2>5. CASE end_other(p)
    BY <1>1, <2>5
    DEF end_other, Woken, TypeOK, ControlRight, CommitRight, BootRight,
        Committing, disk, bufs, inlog, control
  <2>6. CASE write_log(p)
    BY <1>1, <2>6
    DEF write_log, TypeOK, ControlRight, CommitRight, BootRight, Committing,
        disk, bufs, inlog, control
  <2>7. CASE write_head(p)
    BY <1>1, <2>7
    DEF write_head, TypeOK, ControlRight, CommitRight, BootRight, Committing,
        disk, bufs, inlog, control
  <2>8. CASE install_trans(p)
    BY <1>1, <2>8
    DEF install_trans, Install, AfterInstall, TypeOK, ControlRight,
        CommitRight, BootRight, Committing, disk, bufs, inlog, control
  <2>9. CASE clear(p)
    BY <1>1, <2>9
    DEF clear, TypeOK, ControlRight, CommitRight, BootRight, Committing, disk,
        bufs, inlog, control
  <2>10. CASE commit_done(p)
    BY <1>1, <2>10
    DEF commit_done, AfterCommit, Woken, TypeOK, ControlRight, CommitRight,
        BootRight, Committing, disk, bufs, inlog, control
  <2> QED BY <1>3, <2>1, <2>2, <2>3, <2>4, <2>5, <2>6, <2>7, <2>8, <2>9,
             <2>10 DEF commit
<1>4. ASSUME NEW p \in Ops, NEW b \in Blocks, NEW v \in Vals, Write(p, b, v)
      PROVE  ControlRight'
  <2>1. outstanding # 0
    BY <1>1, <1>4, CallIsCounted DEF Write
  <2> QED BY <1>1, <1>4, <2>1 DEF Write, TypeOK, ControlRight, Committing, disk
<1>5. ASSUME NEW b \in Blocks, Recycle(b) PROVE ControlRight'
  BY <1>1, <1>5
  DEF Recycle, TypeOK, ControlRight, CommitRight, BootRight, Committing, disk,
      bufs, inlog, control
<1>6. CASE Crash
  BY <1>1, <1>6
  DEF Crash, TypeOK, ControlRight, CommitRight, BootRight, Committing, disk,
      bufs, inlog, control
<1>7. CASE read_head
  BY <1>1, <1>7
  DEF read_head, TypeOK, ControlRight, CommitRight, BootRight, Committing,
      disk, bufs, inlog, control
<1>8. CASE recover_install
  BY <1>1, <1>8
  DEF recover_install, Install, TypeOK, ControlRight, CommitRight, BootRight,
      Committing, disk, bufs, inlog, control
<1>9. CASE recover_clear
  BY <1>1, <1>9
  DEF recover_clear, TypeOK, ControlRight, CommitRight, BootRight, Committing,
      disk, bufs, inlog, control
<1> QED BY <1>2, <1>3, <1>4, <1>5, <1>6, <1>7, <1>8, <1>9 DEF Next, recover

LEMMA CommitNext == IInv /\ [Next]_vars => CommitRight'
<1> SUFFICES ASSUME IInv, [Next]_vars PROVE CommitRight'
  OBVIOUS
<1>1. /\ TypeOK /\ CountRight /\ ControlRight /\ CommitRight
         /\ BootRight /\ HeaderRight /\ PinsRight
  BY DEF IInv
<1>2. CASE UNCHANGED vars
  BY <1>1, <1>2, Types
  DEF vars, TypeOK, ControlRight, CommitRight, BootRight, HeaderRight,
      NoRepeats, PinsRight, DirtyIsPinned, Committing, Logged, Installed,
      InLoop, Listed, disk, bufs, inlog, control
<1>3. ASSUME NEW p \in Ops,
             \/ begin_op(p) \/ begin_sleep(p) \/ KillWakes(p)
             \/ end_last(p) \/ end_other(p) \/ commit(p)
      PROVE  CommitRight'
  <2>1. CASE begin_op(p)
    BY <1>1, <2>1, Types
    DEF begin_op, MayBegin, HasRoom, TypeOK, ControlRight, CommitRight,
        BootRight, HeaderRight, NoRepeats, PinsRight, DirtyIsPinned,
        Committing, Logged, Installed, InLoop, Listed, disk, bufs, inlog,
        control
  <2>2. CASE begin_sleep(p)
    BY <1>1, <2>2, Types
    DEF begin_sleep, MayBegin, HasRoom, TypeOK, ControlRight, CommitRight,
        BootRight, HeaderRight, NoRepeats, PinsRight, DirtyIsPinned,
        Committing, Logged, Installed, InLoop, Listed, disk, bufs, inlog,
        control
  <2>3. CASE KillWakes(p)
    BY <1>1, <2>3, Types
    DEF KillWakes, TypeOK, ControlRight, CommitRight, BootRight, HeaderRight,
        NoRepeats, PinsRight, DirtyIsPinned, Committing, Logged, Installed,
        InLoop, Listed, disk, bufs, inlog, control
  <2>4. CASE end_last(p)
    BY <1>1, <2>4, Types
    DEF end_last, CommitStart, TypeOK, ControlRight, CommitRight, BootRight,
        HeaderRight, NoRepeats, PinsRight, DirtyIsPinned, Committing, Logged,
        Installed, InLoop, Listed, disk, bufs, inlog, control
  <2>5. CASE end_other(p)
    BY <1>1, <2>5, Types
    DEF end_other, Woken, TypeOK, ControlRight, CommitRight, BootRight,
        HeaderRight, NoRepeats, PinsRight, DirtyIsPinned, Committing, Logged,
        Installed, InLoop, Listed, disk, bufs, inlog, control
  <2>6. CASE write_log(p)
    <3>0. pc[p] = "write_log" /\ InLoop /\ Logged(tail - 1)
      BY <1>1, <2>6 DEF write_log, CommitRight
    <3>1. /\ InLoop /\ Logged(tail - 1) /\ tail \in 1..LOGSIZE
          /\ logblk' = [logblk EXCEPT ![tail] = cache[lh[tail]]]
          /\ UNCHANGED <<home, hdr, cache, lh>>
      <4>1. tail \in 1..LOGSIZE
        BY <1>1, <3>0, Types DEF InLoop
      <4> QED BY <2>6, <3>0, <4>1 DEF write_log, bufs, inlog
    <3>2. \A i \in 1..tail : logblk'[i] = cache[lh[i]]
      BY <1>1, <3>1, Types DEF TypeOK, Logged
    <3>3. /\ \A q \in Ops : q # p => pc'[q] \notin Committing
          /\ \/ tail = Len(lh) /\ tail' = 1 /\ pc'[p] = "write_head"
             \/ tail # Len(lh) /\ tail' = tail + 1 /\ pc'[p] = "write_log"
      BY <1>1, <2>6 DEF write_log, ControlRight, Committing, TypeOK
    <3>4. lh # <<>>
      BY <1>1, <3>1, Types DEF InLoop
    <3>5. pc'[p] = "write_log" => InLoop' /\ Logged(tail - 1)'
      <4>1. tail # Len(lh) => tail + 1 \in 1..Len(lh) /\ (tail + 1) - 1 = tail
        BY <1>1, <3>1, Types DEF InLoop
      <4> QED BY <3>1, <3>2, <3>3, <4>1 DEF InLoop, Logged
    <3>6. pc'[p] = "write_head" => tail' = 1 /\ lh' # <<>> /\ Logged(Len(lh))'
      BY <3>1, <3>2, <3>3, <3>4 DEF Logged
    <3> QED BY <3>3, <3>5, <3>6 DEF CommitRight, Committing
  <2>7. CASE write_head(p)
    BY <1>1, <2>7, Types
    DEF write_head, TypeOK, ControlRight, CommitRight, BootRight, HeaderRight,
        NoRepeats, PinsRight, DirtyIsPinned, Committing, Logged, Installed,
        InLoop, Listed, disk, bufs, inlog, control
  <2>8. CASE install_trans(p)
    BY <1>1, <2>8, Types
    DEF install_trans, Install, AfterInstall, TypeOK, ControlRight,
        CommitRight, BootRight, HeaderRight, NoRepeats, PinsRight,
        DirtyIsPinned, Committing, Logged, Installed, InLoop, Listed, disk,
        bufs, inlog, control
  <2>9. CASE clear(p)
    BY <1>1, <2>9, Types
    DEF clear, TypeOK, ControlRight, CommitRight, BootRight, HeaderRight,
        NoRepeats, PinsRight, DirtyIsPinned, Committing, Logged, Installed,
        InLoop, Listed, disk, bufs, inlog, control
  <2>10. CASE commit_done(p)
    BY <1>1, <2>10, Types
    DEF commit_done, AfterCommit, Woken, TypeOK, ControlRight, CommitRight,
        BootRight, HeaderRight, NoRepeats, PinsRight, DirtyIsPinned,
        Committing, Logged, Installed, InLoop, Listed, disk, bufs, inlog,
        control
  <2> QED BY <1>3, <2>1, <2>2, <2>3, <2>4, <2>5, <2>6, <2>7, <2>8, <2>9,
             <2>10 DEF commit
<1>4. ASSUME NEW p \in Ops, NEW b \in Blocks, NEW v \in Vals, Write(p, b, v)
      PROVE  CommitRight'
  BY <1>1, <1>4, Types
  DEF Write, Absorb, Pin, LogHasRoom, TypeOK, ControlRight, CommitRight,
      BootRight, HeaderRight, NoRepeats, PinsRight, DirtyIsPinned, Committing,
      Logged, Installed, InLoop, Listed, disk, bufs, inlog, control
<1>5. ASSUME NEW b \in Blocks, Recycle(b) PROVE CommitRight'
  BY <1>1, <1>5, Types
  DEF Recycle, TypeOK, ControlRight, CommitRight, BootRight, HeaderRight,
      NoRepeats, PinsRight, DirtyIsPinned, Committing, Logged, Installed,
      InLoop, Listed, disk, bufs, inlog, control
<1>6. CASE Crash
  BY <1>1, <1>6, Types
  DEF Crash, TypeOK, ControlRight, CommitRight, BootRight, HeaderRight,
      NoRepeats, PinsRight, DirtyIsPinned, Committing, Logged, Installed,
      InLoop, Listed, disk, bufs, inlog, control
<1>7. CASE read_head
  BY <1>1, <1>7, Types
  DEF read_head, TypeOK, ControlRight, CommitRight, BootRight, HeaderRight,
      NoRepeats, PinsRight, DirtyIsPinned, Committing, Logged, Installed,
      InLoop, Listed, disk, bufs, inlog, control
<1>8. CASE recover_install
  BY <1>1, <1>8, Types
  DEF recover_install, Install, TypeOK, ControlRight, CommitRight, BootRight,
      HeaderRight, NoRepeats, PinsRight, DirtyIsPinned, Committing, Logged,
      Installed, InLoop, Listed, disk, bufs, inlog, control
<1>9. CASE recover_clear
  BY <1>1, <1>9, Types
  DEF recover_clear, TypeOK, ControlRight, CommitRight, BootRight,
      HeaderRight, NoRepeats, PinsRight, DirtyIsPinned, Committing, Logged,
      Installed, InLoop, Listed, disk, bufs, inlog, control
<1> QED BY <1>2, <1>3, <1>4, <1>5, <1>6, <1>7, <1>8, <1>9 DEF Next, recover

LEMMA BootNext == IInv /\ [Next]_vars => BootRight'
<1> SUFFICES ASSUME IInv, [Next]_vars PROVE BootRight'
  OBVIOUS
<1>1. /\ TypeOK /\ CountRight /\ ControlRight /\ CommitRight
         /\ BootRight /\ HeaderRight /\ PinsRight
  BY DEF IInv
<1>2. CASE UNCHANGED vars
  BY <1>1, <1>2, Types
  DEF vars, TypeOK, ControlRight, CommitRight, BootRight, HeaderRight,
      NoRepeats, PinsRight, DirtyIsPinned, Committing, Logged, Installed,
      InLoop, Listed, disk, bufs, inlog, control
<1>3. ASSUME NEW p \in Ops,
             \/ begin_op(p) \/ begin_sleep(p) \/ KillWakes(p)
             \/ end_last(p) \/ end_other(p) \/ commit(p)
      PROVE  BootRight'
  <2>1. CASE begin_op(p)
    BY <1>1, <2>1, Types
    DEF begin_op, MayBegin, HasRoom, TypeOK, ControlRight, CommitRight,
        BootRight, HeaderRight, NoRepeats, PinsRight, DirtyIsPinned,
        Committing, Logged, Installed, InLoop, Listed, disk, bufs, inlog,
        control
  <2>2. CASE begin_sleep(p)
    BY <1>1, <2>2, Types
    DEF begin_sleep, MayBegin, HasRoom, TypeOK, ControlRight, CommitRight,
        BootRight, HeaderRight, NoRepeats, PinsRight, DirtyIsPinned,
        Committing, Logged, Installed, InLoop, Listed, disk, bufs, inlog,
        control
  <2>3. CASE KillWakes(p)
    BY <1>1, <2>3, Types
    DEF KillWakes, TypeOK, ControlRight, CommitRight, BootRight, HeaderRight,
        NoRepeats, PinsRight, DirtyIsPinned, Committing, Logged, Installed,
        InLoop, Listed, disk, bufs, inlog, control
  <2>4. CASE end_last(p)
    BY <1>1, <2>4, Types
    DEF end_last, CommitStart, TypeOK, ControlRight, CommitRight, BootRight,
        HeaderRight, NoRepeats, PinsRight, DirtyIsPinned, Committing, Logged,
        Installed, InLoop, Listed, disk, bufs, inlog, control
  <2>5. CASE end_other(p)
    BY <1>1, <2>5, Types
    DEF end_other, Woken, TypeOK, ControlRight, CommitRight, BootRight,
        HeaderRight, NoRepeats, PinsRight, DirtyIsPinned, Committing, Logged,
        Installed, InLoop, Listed, disk, bufs, inlog, control
  <2>6. CASE write_log(p)
    BY <1>1, <2>6, Types
    DEF write_log, TypeOK, ControlRight, CommitRight, BootRight, HeaderRight,
        NoRepeats, PinsRight, DirtyIsPinned, Committing, Logged, Installed,
        InLoop, Listed, disk, bufs, inlog, control
  <2>7. CASE write_head(p)
    BY <1>1, <2>7, Types
    DEF write_head, TypeOK, ControlRight, CommitRight, BootRight, HeaderRight,
        NoRepeats, PinsRight, DirtyIsPinned, Committing, Logged, Installed,
        InLoop, Listed, disk, bufs, inlog, control
  <2>8. CASE install_trans(p)
    BY <1>1, <2>8, Types
    DEF install_trans, Install, AfterInstall, TypeOK, ControlRight,
        CommitRight, BootRight, HeaderRight, NoRepeats, PinsRight,
        DirtyIsPinned, Committing, Logged, Installed, InLoop, Listed, disk,
        bufs, inlog, control
  <2>9. CASE clear(p)
    BY <1>1, <2>9, Types
    DEF clear, TypeOK, ControlRight, CommitRight, BootRight, HeaderRight,
        NoRepeats, PinsRight, DirtyIsPinned, Committing, Logged, Installed,
        InLoop, Listed, disk, bufs, inlog, control
  <2>10. CASE commit_done(p)
    BY <1>1, <2>10, Types
    DEF commit_done, AfterCommit, Woken, TypeOK, ControlRight, CommitRight,
        BootRight, HeaderRight, NoRepeats, PinsRight, DirtyIsPinned,
        Committing, Logged, Installed, InLoop, Listed, disk, bufs, inlog,
        control
  <2> QED BY <1>3, <2>1, <2>2, <2>3, <2>4, <2>5, <2>6, <2>7, <2>8, <2>9,
             <2>10 DEF commit
<1>4. ASSUME NEW p \in Ops, NEW b \in Blocks, NEW v \in Vals, Write(p, b, v)
      PROVE  BootRight'
  BY <1>1, <1>4, Types
  DEF Write, Absorb, Pin, LogHasRoom, TypeOK, ControlRight, CommitRight,
      BootRight, HeaderRight, NoRepeats, PinsRight, DirtyIsPinned, Committing,
      Logged, Installed, InLoop, Listed, disk, bufs, inlog, control
<1>5. ASSUME NEW b \in Blocks, Recycle(b) PROVE BootRight'
  BY <1>1, <1>5, Types
  DEF Recycle, TypeOK, ControlRight, CommitRight, BootRight, HeaderRight,
      NoRepeats, PinsRight, DirtyIsPinned, Committing, Logged, Installed,
      InLoop, Listed, disk, bufs, inlog, control
<1>6. CASE Crash
  BY <1>1, <1>6, Types
  DEF Crash, TypeOK, ControlRight, CommitRight, BootRight, HeaderRight,
      NoRepeats, PinsRight, DirtyIsPinned, Committing, Logged, Installed,
      InLoop, Listed, disk, bufs, inlog, control
<1>7. CASE read_head
  BY <1>1, <1>7, Types
  DEF read_head, TypeOK, ControlRight, CommitRight, BootRight, HeaderRight,
      NoRepeats, PinsRight, DirtyIsPinned, Committing, Logged, Installed,
      InLoop, Listed, disk, bufs, inlog, control
<1>8. CASE recover_install
  BY <1>1, <1>8, Types
  DEF recover_install, Install, TypeOK, ControlRight, CommitRight, BootRight,
      HeaderRight, NoRepeats, PinsRight, DirtyIsPinned, Committing, Logged,
      Installed, InLoop, Listed, disk, bufs, inlog, control
<1>9. CASE recover_clear
  BY <1>1, <1>9, Types
  DEF recover_clear, TypeOK, ControlRight, CommitRight, BootRight,
      HeaderRight, NoRepeats, PinsRight, DirtyIsPinned, Committing, Logged,
      Installed, InLoop, Listed, disk, bufs, inlog, control
<1> QED BY <1>2, <1>3, <1>4, <1>5, <1>6, <1>7, <1>8, <1>9 DEF Next, recover

LEMMA PinsNext == IInv /\ [Next]_vars => PinsRight'
<1> SUFFICES ASSUME IInv, [Next]_vars PROVE PinsRight'
  OBVIOUS
<1>1. /\ TypeOK /\ CountRight /\ ControlRight /\ CommitRight
         /\ BootRight /\ HeaderRight /\ PinsRight
  BY DEF IInv
<1>2. CASE UNCHANGED vars
  BY <1>1, <1>2, Types
  DEF vars, TypeOK, ControlRight, CommitRight, BootRight, HeaderRight,
      NoRepeats, PinsRight, DirtyIsPinned, Committing, Logged, Installed,
      InLoop, Listed, disk, bufs, inlog, control
<1>3. ASSUME NEW p \in Ops,
             \/ begin_op(p) \/ begin_sleep(p) \/ KillWakes(p)
             \/ end_last(p) \/ end_other(p) \/ commit(p)
      PROVE  PinsRight'
  <2>1. CASE begin_op(p)
    BY <1>1, <2>1, Types
    DEF begin_op, MayBegin, HasRoom, TypeOK, ControlRight, CommitRight,
        BootRight, HeaderRight, NoRepeats, PinsRight, DirtyIsPinned,
        Committing, Logged, Installed, InLoop, Listed, disk, bufs, inlog,
        control
  <2>2. CASE begin_sleep(p)
    BY <1>1, <2>2, Types
    DEF begin_sleep, MayBegin, HasRoom, TypeOK, ControlRight, CommitRight,
        BootRight, HeaderRight, NoRepeats, PinsRight, DirtyIsPinned,
        Committing, Logged, Installed, InLoop, Listed, disk, bufs, inlog,
        control
  <2>3. CASE KillWakes(p)
    BY <1>1, <2>3, Types
    DEF KillWakes, TypeOK, ControlRight, CommitRight, BootRight, HeaderRight,
        NoRepeats, PinsRight, DirtyIsPinned, Committing, Logged, Installed,
        InLoop, Listed, disk, bufs, inlog, control
  <2>4. CASE end_last(p)
    BY <1>1, <2>4, Types
    DEF end_last, CommitStart, TypeOK, ControlRight, CommitRight, BootRight,
        HeaderRight, NoRepeats, PinsRight, DirtyIsPinned, Committing, Logged,
        Installed, InLoop, Listed, disk, bufs, inlog, control
  <2>5. CASE end_other(p)
    BY <1>1, <2>5, Types
    DEF end_other, Woken, TypeOK, ControlRight, CommitRight, BootRight,
        HeaderRight, NoRepeats, PinsRight, DirtyIsPinned, Committing, Logged,
        Installed, InLoop, Listed, disk, bufs, inlog, control
  <2>6. CASE write_log(p)
    BY <1>1, <2>6, Types
    DEF write_log, TypeOK, ControlRight, CommitRight, BootRight, HeaderRight,
        NoRepeats, PinsRight, DirtyIsPinned, Committing, Logged, Installed,
        InLoop, Listed, disk, bufs, inlog, control
  <2>7. CASE write_head(p)
    BY <1>1, <2>7, Types
    DEF write_head, TypeOK, ControlRight, CommitRight, BootRight, HeaderRight,
        NoRepeats, PinsRight, DirtyIsPinned, Committing, Logged, Installed,
        InLoop, Listed, disk, bufs, inlog, control
  <2>8. CASE install_trans(p)
    BY <1>1, <2>8, Types
    DEF install_trans, Install, AfterInstall, TypeOK, ControlRight,
        CommitRight, BootRight, HeaderRight, NoRepeats, PinsRight,
        DirtyIsPinned, Committing, Logged, Installed, InLoop, Listed, disk,
        bufs, inlog, control
  <2>9. CASE clear(p)
    BY <1>1, <2>9, Types
    DEF clear, TypeOK, ControlRight, CommitRight, BootRight, HeaderRight,
        NoRepeats, PinsRight, DirtyIsPinned, Committing, Logged, Installed,
        InLoop, Listed, disk, bufs, inlog, control
  <2>10. CASE commit_done(p)
    BY <1>1, <2>10, Types
    DEF commit_done, AfterCommit, Woken, TypeOK, ControlRight, CommitRight,
        BootRight, HeaderRight, NoRepeats, PinsRight, DirtyIsPinned,
        Committing, Logged, Installed, InLoop, Listed, disk, bufs, inlog,
        control
  <2> QED BY <1>3, <2>1, <2>2, <2>3, <2>4, <2>5, <2>6, <2>7, <2>8, <2>9,
             <2>10 DEF commit
<1>4. ASSUME NEW p \in Ops, NEW b \in Blocks, NEW v \in Vals, Write(p, b, v)
      PROVE  PinsRight'
  <2>1. /\ lh' = Absorb(b) /\ pinned' = pinned \cup {b}
        /\ cache' = [cache EXCEPT ![b] = v] /\ pc[p] = "op"
        /\ UNCHANGED <<home, hdr, logblk, pc, boot, committing>>
    BY <1>4 DEF Write, Pin, disk
  <2>2. /\ boot = "up"
        /\ \A q \in Ops : pc[q] \notin {"install", "clear"}
    BY <1>1, <2>1 DEF ControlRight, Committing
  <2>3. \A a \in Blocks : Listed(a)' <=> Listed(a) \/ a = b
    <3>1. \A a \in Blocks : (\E i \in 1..Len(Absorb(b)) : Absorb(b)[i] = a)
                               <=> Listed(a) \/ a = b
      <4>1. CASE Listed(b)
        BY <4>1 DEF Absorb, Listed
      <4>2. CASE ~Listed(b)
        <5>1. /\ Len(lh) \in Nat /\ Len(Append(lh, b)) = Len(lh) + 1
              /\ \A i \in 1..Len(lh) : Append(lh, b)[i] = lh[i]
              /\ Append(lh, b)[Len(lh) + 1] = b
          BY <1>1, Types, AppendProperties
        <5>2. Absorb(b) = Append(lh, b)
          BY <4>2 DEF Absorb
        <5> QED BY <5>1, <5>2 DEF Listed
      <4> QED BY <4>1, <4>2
    <3> QED BY <2>1, <3>1 DEF Listed
  <2>4. \A a \in Blocks : a \in pinned' <=> Listed(a)'
    BY <1>1, <2>1, <2>2, <2>3 DEF PinsRight
  <2>5. DirtyIsPinned'
    BY <1>1, <2>1 DEF DirtyIsPinned, PinsRight, TypeOK
  <2> QED BY <2>1, <2>2, <2>4, <2>5 DEF PinsRight
<1>5. ASSUME NEW b \in Blocks, Recycle(b) PROVE PinsRight'
  BY <1>1, <1>5, Types
  DEF Recycle, TypeOK, ControlRight, CommitRight, BootRight, HeaderRight,
      NoRepeats, PinsRight, DirtyIsPinned, Committing, Logged, Installed,
      InLoop, Listed, disk, bufs, inlog, control
<1>6. CASE Crash
  BY <1>1, <1>6, Types
  DEF Crash, TypeOK, ControlRight, CommitRight, BootRight, HeaderRight,
      NoRepeats, PinsRight, DirtyIsPinned, Committing, Logged, Installed,
      InLoop, Listed, disk, bufs, inlog, control
<1>7. CASE read_head
  BY <1>1, <1>7, Types
  DEF read_head, TypeOK, ControlRight, CommitRight, BootRight, HeaderRight,
      NoRepeats, PinsRight, DirtyIsPinned, Committing, Logged, Installed,
      InLoop, Listed, disk, bufs, inlog, control
<1>8. CASE recover_install
  BY <1>1, <1>8, Types
  DEF recover_install, Install, TypeOK, ControlRight, CommitRight, BootRight,
      HeaderRight, NoRepeats, PinsRight, DirtyIsPinned, Committing, Logged,
      Installed, InLoop, Listed, disk, bufs, inlog, control
<1>9. CASE recover_clear
  BY <1>1, <1>9, Types
  DEF recover_clear, TypeOK, ControlRight, CommitRight, BootRight,
      HeaderRight, NoRepeats, PinsRight, DirtyIsPinned, Committing, Logged,
      Installed, InLoop, Listed, disk, bufs, inlog, control
<1> QED BY <1>2, <1>3, <1>4, <1>5, <1>6, <1>7, <1>8, <1>9 DEF Next, recover

LEMMA SleepersNext == IInv /\ [Next]_vars => SleepersHaveAWaker'
<1> SUFFICES ASSUME IInv, [Next]_vars PROVE SleepersHaveAWaker'
  OBVIOUS
<1>1. /\ TypeOK /\ CountRight /\ ControlRight /\ CommitRight
         /\ BootRight /\ SleepersHaveAWaker
  BY DEF IInv
<1>2. CASE UNCHANGED vars
  BY <1>1, <1>2, Types
  DEF vars, TypeOK, ControlRight, CommitRight, SleepersHaveAWaker, Committing,
      disk, bufs, inlog, control
<1>3. ASSUME NEW p \in Ops,
             \/ begin_op(p) \/ begin_sleep(p) \/ KillWakes(p)
             \/ end_last(p) \/ end_other(p) \/ commit(p)
      PROVE  SleepersHaveAWaker'
  <2>1. CASE begin_op(p)
    BY <1>1, <2>1, Types
    DEF begin_op, MayBegin, HasRoom, TypeOK, ControlRight, CommitRight,
        SleepersHaveAWaker, Committing, disk, bufs, inlog, control
  <2>2. CASE begin_sleep(p)
    <3>1. committing \/ outstanding > 0
      <4> SUFFICES ASSUME ~committing, ~(outstanding > 0) PROVE FALSE
        OBVIOUS
      <4>1. outstanding = 0
        BY <1>1, Types
      <4>2. lh = <<>>
        BY <1>1, <2>2, <4>1 DEF begin_sleep, ControlRight
      <4>3. Len(lh) + (outstanding + 1) * MAXOPBLOCKS = MAXOPBLOCKS
        BY <4>1, <4>2, LogAssumption
      <4> QED BY <2>2, <4>3, LogAssumption DEF begin_sleep, MayBegin, HasRoom
    <3> QED BY <1>1, <2>2, <3>1 DEF begin_sleep, inlog, SleepersHaveAWaker
  <2>3. CASE KillWakes(p)
    BY <1>1, <2>3, Types
    DEF KillWakes, TypeOK, ControlRight, CommitRight, SleepersHaveAWaker,
        Committing, disk, bufs, inlog, control
  <2>4. CASE end_last(p)
    BY <1>1, <2>4, Types
    DEF end_last, CommitStart, TypeOK, ControlRight, CommitRight,
        SleepersHaveAWaker, Committing, disk, bufs, inlog, control
  <2>5. CASE end_other(p)
    BY <1>1, <2>5, Types
    DEF end_other, Woken, TypeOK, ControlRight, CommitRight,
        SleepersHaveAWaker, Committing, disk, bufs, inlog, control
  <2>6. CASE write_log(p)
    BY <1>1, <2>6, Types
    DEF write_log, TypeOK, ControlRight, CommitRight, SleepersHaveAWaker,
        Committing, disk, bufs, inlog, control
  <2>7. CASE write_head(p)
    BY <1>1, <2>7, Types
    DEF write_head, TypeOK, ControlRight, CommitRight, SleepersHaveAWaker,
        Committing, disk, bufs, inlog, control
  <2>8. CASE install_trans(p)
    BY <1>1, <2>8, Types
    DEF install_trans, Install, AfterInstall, TypeOK, ControlRight,
        CommitRight, SleepersHaveAWaker, Committing, disk, bufs, inlog,
        control
  <2>9. CASE clear(p)
    BY <1>1, <2>9, Types
    DEF clear, TypeOK, ControlRight, CommitRight, SleepersHaveAWaker,
        Committing, disk, bufs, inlog, control
  <2>10. CASE commit_done(p)
    BY <1>1, <2>10, Types
    DEF commit_done, AfterCommit, Woken, TypeOK, ControlRight, CommitRight,
        SleepersHaveAWaker, Committing, disk, bufs, inlog, control
  <2> QED BY <1>3, <2>1, <2>2, <2>3, <2>4, <2>5, <2>6, <2>7, <2>8, <2>9,
             <2>10 DEF commit
<1>4. ASSUME NEW p \in Ops, NEW b \in Blocks, NEW v \in Vals, Write(p, b, v)
      PROVE  SleepersHaveAWaker'
  BY <1>1, <1>4, Types
  DEF Write, Absorb, Pin, LogHasRoom, TypeOK, ControlRight, CommitRight,
      SleepersHaveAWaker, Committing, disk, bufs, inlog, control
<1>5. ASSUME NEW b \in Blocks, Recycle(b) PROVE SleepersHaveAWaker'
  BY <1>1, <1>5, Types
  DEF Recycle, TypeOK, ControlRight, CommitRight, SleepersHaveAWaker,
      Committing, disk, bufs, inlog, control
<1>6. CASE Crash
  BY <1>1, <1>6, Types
  DEF Crash, TypeOK, ControlRight, CommitRight, SleepersHaveAWaker,
      Committing, disk, bufs, inlog, control
<1>7. CASE read_head
  BY <1>1, <1>7, Types
  DEF read_head, TypeOK, ControlRight, CommitRight, SleepersHaveAWaker,
      Committing, disk, bufs, inlog, control
<1>8. CASE recover_install
  BY <1>1, <1>8, Types
  DEF recover_install, Install, TypeOK, ControlRight, CommitRight,
      SleepersHaveAWaker, Committing, disk, bufs, inlog, control
<1>9. CASE recover_clear
  BY <1>1, <1>9, Types
  DEF recover_clear, TypeOK, ControlRight, CommitRight, SleepersHaveAWaker,
      Committing, disk, bufs, inlog, control
<1> QED BY <1>2, <1>3, <1>4, <1>5, <1>6, <1>7, <1>8, <1>9 DEF Next, recover

LEMMA IInvHolds == Spec => []IInv
<1>1. IInv /\ [Next]_vars => IInv'
  <2> SUFFICES ASSUME IInv, [Next]_vars PROVE IInv'
    OBVIOUS
  <2>1. TypeOK' /\ CountRight' /\ ControlRight' /\ CommitRight' /\ BootRight'
    BY TypeNext, CountNext, ControlNext, CommitNext, BootNext
  <2>2. HeaderRight' /\ PinsRight' /\ SleepersHaveAWaker'
    BY HeaderNext, PinsNext, SleepersNext
  <2> QED BY <2>1, <2>2 DEF IInv
<1> QED BY InitRight, <1>1, PTL DEF Spec

(***************************************************************************)
(* Cache, log and home blocks fit each other (log.c:69-87, 214-235): a     *)
(* block that differs from its home is pinned, and when no call runs and   *)
(* no commit is in progress, what readers see is on disk and the log is    *)
(* empty.                                                                  *)
(***************************************************************************)
THEOREM LogIsSound == Spec => []LogSound
<1>1. IInv => LogSound
  <2> SUFFICES ASSUME IInv PROVE LogSound
    OBVIOUS
  <2>1. TypeOK /\ DirtyIsPinned
    BY DEF IInv, PinsRight, DirtyIsPinned
  <2>2. ASSUME boot = "up", ~committing, outstanding = 0
        PROVE  home = cache /\ hdr = <<>> /\ pinned = {}
    <3>1. lh = <<>> /\ \A p \in Ops : pc[p] \notin {"install", "clear"}
      BY <2>2 DEF IInv, ControlRight, Committing
    <3>2. hdr = <<>>
      BY <2>2, <3>1 DEF IInv, HeaderRight
    <3>3. \A b \in Blocks : b \notin pinned
      BY <2>2, <3>1 DEF IInv, PinsRight, Listed
    <3>4. pinned = {}
      BY <2>1, <3>3 DEF TypeOK
    <3>5. home = cache
      BY <2>1, <2>2, <3>3 DEF TypeOK, DirtyIsPinned
    <3> QED BY <3>2, <3>4, <3>5
  <2> QED BY <2>1, <2>2 DEF LogSound, QuietIsClean
<1> QED BY IInvHolds, <1>1, PTL

(***************************************************************************)
(* Whoever sleeps in begin_op() is woken: a commit is in progress or a     *)
(* call runs that will end (log.c:126-175).                                *)
(***************************************************************************)
THEOREM SleepersAreWoken == Spec => []SleepersHaveAWaker
<1>1. IInv => SleepersHaveAWaker
  BY DEF IInv
<1> QED BY IInvHolds, <1>1, PTL

-----------------------------------------------------------------------------
(* Crash atomicity.                                                         *)

\* What recovery makes of a header h, a log l and home blocks d.
RecoveredFrom(h, l, d) ==
    [b \in Blocks |-> IF \E i \in 1..Len(h) : h[i] = b
                      THEN l[CHOOSE i \in 1..Len(h) : h[i] = b] ELSE d[b]]

LEMMA RecoveredIs ==
    /\ Recovered  = RecoveredFrom(hdr, logblk, home)
    /\ Recovered' = RecoveredFrom(hdr', logblk', home')
BY DEF Recovered, RecoveredFrom

LEMMA NothingToRecover ==
    ASSUME NEW l, NEW d \in [Blocks -> Vals]
    PROVE  RecoveredFrom(<<>>, l, d) = d
BY DEF RecoveredFrom

LEMMA RecoveredLogged ==
    ASSUME NEW h, NEW l, NEW d, NoRepeats(h), NEW i \in 1..Len(h), h[i] \in Blocks
    PROVE  RecoveredFrom(h, l, d)[h[i]] = l[i]
<1> DEFINE j == CHOOSE k \in 1..Len(h) : h[k] = h[i]
<1>1. j \in 1..Len(h) /\ h[j] = h[i]
  OBVIOUS
<1>2. j = i
  BY <1>1 DEF NoRepeats
<1>3. RecoveredFrom(h, l, d)[h[i]] = l[j]
  BY DEF RecoveredFrom
<1> QED BY <1>2, <1>3

LEMMA RecoveredElse ==
    ASSUME NEW h, NEW l, NEW d, NEW b \in Blocks, \A i \in 1..Len(h) : h[i] # b
    PROVE  RecoveredFrom(h, l, d)[b] = d[b]
BY DEF RecoveredFrom

\* Two results of a recovery are the same if they are at every block.
LEMMA RecoveredSame ==
    ASSUME NEW h, NEW l, NEW d, NEW f \in [Blocks -> Vals],
           \A b \in Blocks : RecoveredFrom(h, l, d)[b] = f[b]
    PROVE  RecoveredFrom(h, l, d) = f
BY DEF RecoveredFrom

\* Installing a block again does not change what recovery gives.
LEMMA InstallKeeps ==
    ASSUME TypeOK, NoRepeats(hdr), hdr = lh, InLoop, Install,
           UNCHANGED <<hdr, logblk>>
    PROVE  Recovered' = Recovered
<1> DEFINE new == RecoveredFrom(hdr, logblk, home')
           old == RecoveredFrom(hdr, logblk, home)
<1>1. tail \in 1..Len(hdr) /\ \A i \in 1..Len(hdr) : hdr[i] \in Blocks
  BY Types DEF InLoop
<1>2. \A b \in Blocks : b # hdr[tail] => home'[b] = home[b]
  BY <1>1 DEF Install, TypeOK
<1>3. ASSUME NEW b \in Blocks PROVE new[b] = old[b]
  <2>1. CASE \E i \in 1..Len(hdr) : hdr[i] = b
    BY <2>1 DEF RecoveredFrom
  <2>2. CASE \A i \in 1..Len(hdr) : hdr[i] # b
    <3>1. b # hdr[tail]
      BY <1>1, <2>2
    <3> QED BY <1>2, <2>2, <3>1, RecoveredElse
  <2> QED BY <2>1, <2>2
<1>4. new = old
  BY <1>3 DEF RecoveredFrom
<1> QED BY <1>4, RecoveredIs

\* When all of the log is installed, recovery has nothing to add.
LEMMA AllInstalled ==
    ASSUME TypeOK, NoRepeats(hdr), hdr = lh, Installed(Len(lh))
    PROVE  Recovered = home
<1>1. home \in [Blocks -> Vals] /\ \A i \in 1..Len(hdr) : hdr[i] \in Blocks
  BY Types DEF TypeOK
<1>2. ASSUME NEW b \in Blocks PROVE RecoveredFrom(hdr, logblk, home)[b] = home[b]
  <2>1. ASSUME NEW i \in 1..Len(hdr), hdr[i] = b
        PROVE  RecoveredFrom(hdr, logblk, home)[b] = home[b]
    BY <1>1, <2>1, RecoveredLogged DEF Installed
  <2>2. CASE \A i \in 1..Len(hdr) : hdr[i] # b
    BY <2>2, RecoveredElse
  <2> QED BY <2>1, <2>2
<1> QED BY <1>1, <1>2, RecoveredSame, RecoveredIs

\* The header that makes the log count: what readers see becomes durable.
LEMMA HeaderCommits ==
    ASSUME IInv, NEW p \in Ops, write_head(p)
    PROVE  Recovered' = cache
<1>1. /\ TypeOK /\ CommitRight /\ HeaderRight /\ PinsRight /\ ControlRight
  BY DEF IInv
<1>2. /\ hdr' = lh /\ logblk' = logblk /\ home' = home
      /\ Logged(Len(lh)) /\ NoRepeats(lh)
  BY <1>1 DEF write_head, CommitRight, HeaderRight
<1>3. cache \in [Blocks -> Vals] /\ \A i \in 1..Len(lh) : lh[i] \in Blocks
  BY <1>1, Types DEF TypeOK
<1>4. boot = "up" /\ \A q \in Ops : pc[q] \notin {"install", "clear"}
  <2>1. pc[p] = "write_head"
    BY DEF write_head
  <2>2. boot = "up"
    BY <1>1, <2>1 DEF ControlRight
  <2>3. \A q \in Ops : pc[q] \in Committing => q = p
    BY <1>1, <2>1 DEF ControlRight, Committing
  <2> QED BY <2>1, <2>2, <2>3 DEF Committing
<1>5. ASSUME NEW b \in Blocks PROVE RecoveredFrom(lh, logblk, home)[b] = cache[b]
  <2>1. ASSUME NEW i \in 1..Len(lh), lh[i] = b
        PROVE  RecoveredFrom(lh, logblk, home)[b] = cache[b]
    BY <1>2, <1>3, <2>1, RecoveredLogged DEF Logged
  <2>2. CASE \A i \in 1..Len(lh) : lh[i] # b
    <3>1. b \notin pinned
      BY <1>1, <1>4, <2>2 DEF PinsRight, Listed
    <3>2. cache[b] = home[b]
      BY <1>1, <1>4, <3>1 DEF PinsRight, DirtyIsPinned
    <3> QED BY <2>2, <3>2, RecoveredElse
  <2> QED BY <2>1, <2>2
<1>6. RecoveredFrom(lh, logblk, home) = cache
  BY <1>3, <1>5, RecoveredSame
<1> QED BY <1>2, <1>6, RecoveredIs

-----------------------------------------------------------------------------

Visible == IF boot = "up" THEN cache ELSE Recovered

\* The specification that the log implements, with its state named.
LEMMA AFSIs ==
    /\ Init /\ Recovered = [b \in Blocks |-> Blank] /\ Visible = Recovered
         /\ Active = {}
          => AFS!Init
    /\ UNCHANGED <<Recovered, Visible, Active>> => UNCHANGED AFS!vars
    /\ \A p \in Ops :
          p \notin Active /\ Active' = Active \cup {p}
               /\ UNCHANGED <<Recovered, Visible>>
          => AFS!Next
    /\ \A p \in Ops :
          p \in Active /\ Active' = Active \ {p}
               /\ UNCHANGED <<Recovered, Visible>>
          => AFS!Next
    /\ \A p \in Ops, b \in Blocks, v \in Vals :
          p \in Active /\ Visible' = [Visible EXCEPT ![b] = v]
             /\ UNCHANGED <<Recovered, Active>>
          => AFS!Next
    /\ Active = {} /\ Recovered' = Visible /\ UNCHANGED <<Visible, Active>>
         => AFS!Next
    /\ Visible' = Recovered /\ Active' = {} /\ UNCHANGED Recovered => AFS!Next
<1>1. Init /\ Recovered = [b \in Blocks |-> Blank] /\ Visible = Recovered
      /\ Active = {}
          => AFS!Init
  BY DEF AFS!Init, Visible, Active
<1>2. UNCHANGED <<Recovered, Visible, Active>> => UNCHANGED AFS!vars
  BY DEF AFS!vars, Visible, Active
<1>3. ASSUME NEW p \in Ops, p \notin Active, Active' = Active \cup {p},
             UNCHANGED <<Recovered, Visible>>
      PROVE  AFS!Begin(p)
  BY <1>3 DEF AFS!Begin, Visible, Active
<1>4. ASSUME NEW p \in Ops, p \in Active, Active' = Active \ {p},
             UNCHANGED <<Recovered, Visible>>
      PROVE  AFS!End(p)
  BY <1>4 DEF AFS!End, Visible, Active
<1>5. ASSUME NEW p \in Ops, NEW b \in Blocks, NEW v \in Vals, p \in Active,
             Visible' = [Visible EXCEPT ![b] = v], UNCHANGED <<Recovered, Active>>
      PROVE  AFS!Write(p, b, v)
  BY <1>5 DEF AFS!Write, Visible, Active
<1>6. Active = {} /\ Recovered' = Visible /\ UNCHANGED <<Visible, Active>>
      => AFS!Commit
  BY DEF AFS!Commit, Visible, Active
<1>7. Visible' = Recovered /\ Active' = {} /\ UNCHANGED Recovered => AFS!Crash
  BY DEF AFS!Crash, Visible, Active
<1> QED BY <1>1, <1>2, <1>3, <1>4, <1>5, <1>6, <1>7 DEF AFS!Next

LEMMA AFSInit == Init => AFS!Init
<1> SUFFICES ASSUME Init PROVE AFS!Init
  OBVIOUS
<1>1. home = [b \in Blocks |-> Blank] /\ home \in [Blocks -> Vals]
  BY LogAssumption DEF Init
<1>2. Recovered = home
  BY <1>1, RecoveredIs, NothingToRecover DEF Init
<1> QED BY <1>1, <1>2, AFSIs DEF Init, Visible, Active

\* A step that leaves the disk alone leaves what recovery gives alone.
LEMMA DiskKeeps == UNCHANGED disk => UNCHANGED Recovered
BY DEF disk, Recovered

\* The steps of calls that neither write nor commit.
LEMMA CallMaps ==
    ASSUME IInv, NEW p \in Ops,
           \/ begin_op(p) \/ begin_sleep(p) \/ KillWakes(p)
           \/ end_last(p) \/ end_other(p) \/ commit_done(p)
    PROVE  [AFS!Next]_(AFS!vars)
<1>1. TypeOK
  BY DEF IInv
<1>2. UNCHANGED <<Recovered, Visible>>
  <2>1. UNCHANGED <<disk, cache, boot>>
    BY DEF begin_op, begin_sleep, KillWakes, end_last, end_other, commit_done,
           bufs
  <2> QED BY <2>1, DiskKeeps DEF Visible
<1>3. CASE begin_op(p)
  <2>1. p \notin Active /\ Active' = Active \cup {p}
    BY <1>1, <1>3 DEF begin_op, Active, TypeOK
  <2> QED BY <1>2, <2>1, AFSIs
<1>4. CASE end_last(p) \/ end_other(p)
  <2>1. pc[p] = "op" /\ \A q \in Ops : pc'[q] = "op" <=> q # p /\ pc[q] = "op"
    BY <1>1, <1>4 DEF end_last, end_other, Woken, CommitStart, TypeOK
  <2>2. p \in Active /\ Active' = Active \ {p}
    BY <2>1 DEF Active
  <2> QED BY <1>2, <2>2, AFSIs
<1>5. CASE begin_sleep(p) \/ KillWakes(p) \/ commit_done(p)
  <2>1. \A q \in Ops : pc'[q] = "op" <=> pc[q] = "op"
    BY <1>1, <1>5 DEF begin_sleep, KillWakes, commit_done, AfterCommit, Woken,
                      TypeOK
  <2>2. Active' = Active
    BY <2>1 DEF Active
  <2> QED BY <1>2, <2>2, AFSIs
<1> QED BY <1>3, <1>4, <1>5

\* A commit is one step of AtomicFS, the header's; the rest are stutters.
LEMMA CommitMaps ==
    ASSUME IInv, NEW p \in Ops,
           write_log(p) \/ write_head(p) \/ install_trans(p) \/ clear(p)
    PROVE  [AFS!Next]_(AFS!vars)
<1>1. TypeOK /\ ControlRight /\ CommitRight /\ HeaderRight
  BY DEF IInv
<1>2. /\ pc[p] \in {"write_log", "write_head", "install", "clear"}
      /\ boot' = boot
  BY DEF write_log, write_head, install_trans, clear
<1>3. /\ boot = "up" /\ Active = {}
      /\ \A q \in Ops : pc[q] \in Committing => q = p
  <2>1. pc[p] \in Committing /\ pc[p] # "idle"
    BY <1>2 DEF Committing
  <2> QED BY <1>1, <2>1 DEF ControlRight, Active
<1>4. UNCHANGED Active
  <2>1. \A q \in Ops : pc'[q] = "op" <=> pc[q] = "op"
    BY <1>1 DEF write_log, write_head, install_trans, clear, AfterInstall, TypeOK
  <2> QED BY <2>1 DEF Active
<1>5. Visible = cache /\ Visible' = cache'
  BY <1>2, <1>3 DEF Visible
<1>6. CASE write_log(p)
  <2>1. hdr = <<>> /\ hdr' = <<>> /\ home' = home /\ cache' = cache
    BY <1>1, <1>3, <1>6 DEF write_log, HeaderRight, Committing, bufs
  <2>2. Recovered = home /\ Recovered' = home
    BY <1>1, <2>1, RecoveredIs, NothingToRecover DEF TypeOK
  <2> QED BY <1>4, <1>5, <2>1, <2>2, AFSIs
<1>7. CASE write_head(p)
  <2>1. Recovered' = cache /\ cache' = cache
    BY <1>7, HeaderCommits DEF write_head, bufs
  <2> QED BY <1>3, <1>4, <1>5, <2>1, AFSIs
<1>8. CASE install_trans(p)
  <2>1. InLoop /\ hdr = lh /\ Logged(Len(lh)) /\ Install
    BY <1>1, <1>8 DEF install_trans, CommitRight
  <2>2. UNCHANGED <<hdr, logblk>>
    BY <1>8 DEF install_trans
  <2>3. cache' = cache
    <3>1. cache[lh[tail]] = logblk[tail] /\ cache \in [Blocks -> Vals]
      BY <1>1, <2>1 DEF Logged, InLoop, TypeOK
    <3>2. cache' = [cache EXCEPT ![lh[tail]] = logblk[tail]]
      BY <2>1 DEF Install
    <3> QED BY <3>1, <3>2
  <2>4. Recovered' = Recovered
    BY <1>1, <2>1, <2>2, InstallKeeps DEF HeaderRight
  <2> QED BY <1>4, <1>5, <2>3, <2>4, AFSIs
<1>9. CASE clear(p)
  <2>1. hdr = lh /\ Installed(Len(lh))
    BY <1>1, <1>9 DEF clear, CommitRight
  <2>2. Recovered = home
    BY <1>1, <2>1, AllInstalled DEF HeaderRight
  <2>3. hdr' = <<>> /\ home' = home /\ cache' = cache
    BY <1>9 DEF clear, bufs
  <2>4. Recovered' = home
    BY <1>1, <2>3, RecoveredIs, NothingToRecover DEF TypeOK
  <2> QED BY <1>4, <1>5, <2>2, <2>3, <2>4, AFSIs
<1> QED BY <1>6, <1>7, <1>8, <1>9

LEMMA WriteMaps ==
    ASSUME IInv, NEW p \in Ops, NEW b \in Blocks, NEW v \in Vals, Write(p, b, v)
    PROVE  [AFS!Next]_(AFS!vars)
<1>1. boot = "up" /\ boot' = "up"
  BY DEF IInv, ControlRight, Write
<1>2. Visible' = [Visible EXCEPT ![b] = v]
  BY <1>1 DEF Visible, Write
<1>3. p \in Active /\ UNCHANGED <<Recovered, Active>>
  BY DiskKeeps DEF Write, Active
<1> QED BY <1>2, <1>3, AFSIs

\* A buffer that is recycled was as it is on disk.
LEMMA RecycleMaps ==
    ASSUME IInv, NEW b \in Blocks, Recycle(b)
    PROVE  [AFS!Next]_(AFS!vars)
<1>1. cache' = cache
  BY DEF IInv, PinsRight, DirtyIsPinned, TypeOK, Recycle
<1>2. UNCHANGED <<disk, boot, pc>>
  BY DEF Recycle, control
<1>3. UNCHANGED <<Recovered, Visible, Active>>
  BY <1>1, <1>2, DiskKeeps DEF Visible, Active
<1> QED BY <1>3, AFSIs

\* What recovery does is invisible: it only makes so what counted already.
LEMMA BootMaps ==
    ASSUME IInv, Crash \/ recover
    PROVE  [AFS!Next]_(AFS!vars)
<1>1. TypeOK /\ ControlRight /\ BootRight /\ HeaderRight
  BY DEF IInv
<1>2. CASE Crash
  <2>1. UNCHANGED Recovered /\ Visible' = Recovered' /\ Active' = {}
    BY <1>2, DiskKeeps DEF Crash, Visible, Active
  <2> QED BY <2>1, AFSIs
<1>3. CASE read_head
  <2>1. UNCHANGED <<Recovered, Active>> /\ boot # "up" /\ boot' # "up"
    BY <1>3, DiskKeeps DEF read_head, Active
  <2> QED BY <2>1, AFSIs DEF Visible
<1>4. CASE recover_install
  <2>1. hdr = lh /\ InLoop /\ Install /\ UNCHANGED <<hdr, logblk>>
    BY <1>1, <1>4 DEF recover_install, BootRight
  <2>2. UNCHANGED <<Recovered, Active>> /\ boot # "up" /\ boot' # "up"
    BY <1>1, <1>4, <2>1, InstallKeeps DEF recover_install, HeaderRight, Active
  <2> QED BY <2>2, AFSIs DEF Visible
<1>5. CASE recover_clear
  <2>1. hdr = lh /\ Installed(Len(lh)) /\ cache = home /\ boot # "up"
    BY <1>1, <1>5 DEF recover_clear, BootRight, ControlRight
  <2>2. hdr' = <<>> /\ home' = home /\ cache' = cache /\ boot' = "up"
    BY <1>5 DEF recover_clear, bufs
  <2>3. Recovered = home
    BY <1>1, <2>1, AllInstalled DEF HeaderRight
  <2>4. Recovered' = home
    BY <1>1, <2>2, RecoveredIs, NothingToRecover DEF TypeOK
  <2>5. UNCHANGED Active
    BY <1>5 DEF recover_clear, Active
  <2> QED BY <2>1, <2>2, <2>3, <2>4, <2>5, AFSIs DEF Visible
<1> QED BY <1>2, <1>3, <1>4, <1>5 DEF recover

LEMMA StepMaps == IInv /\ [Next]_vars => [AFS!Next]_(AFS!vars)
<1> SUFFICES ASSUME IInv, [Next]_vars PROVE [AFS!Next]_(AFS!vars)
  OBVIOUS
<1>1. CASE UNCHANGED vars
  BY <1>1, DiskKeeps, AFSIs DEF vars, bufs, control, Visible, Active
<1>2. CASE Next
  BY <1>2, CallMaps, CommitMaps, WriteMaps, RecycleMaps, BootMaps DEF Next, commit
<1> QED BY <1>1, <1>2

(***************************************************************************)
(* Wherever the power fails, and however often, in a call, a commit or a   *)
(* recovery, the disk that recovery leaves is the one that readers saw at  *)
(* the last commit, and no call was running then (log.c:13-16).            *)
(***************************************************************************)
THEOREM LogImplementsAtomicFS == Spec => CrashAtomic
<1>1. Spec => [][AFS!Next]_(AFS!vars)
  BY StepMaps, IInvHolds, PTL DEF Spec
<1>2. Spec => AFS!Init
  BY AFSInit, PTL DEF Spec
<1> QED BY <1>1, <1>2, PTL DEF CrashAtomic, AFS!Spec

-----------------------------------------------------------------------------
(* begin_op() reserves enough.                                              *)

\* One element for each block that a running call may still write.
Reserved == {r \in Ops \X (1..MAXOPBLOCKS) :
                pc[r[1]] = "op" /\ Cardinality(wrote[r[1]]) < r[2]}

WroteRight == \A p \in Ops :
    /\ IsFiniteSet(wrote[p]) /\ \A b \in wrote[p] : Listed(b)
    /\ pc[p] # "op" => wrote[p] = {}

RoomRight == WroteRight /\ Len(lh) + Cardinality(Reserved) <= LOGSIZE

LEMMA ReservedFinite ==
    /\ IsFiniteSet(Reserved) /\ Cardinality(Reserved) \in Nat
    /\ \A R \in SUBSET Reserved :
          Cardinality(R) \in Nat /\ Cardinality(R) <= Cardinality(Reserved)
<1>1. IsFiniteSet(Ops \X (1..MAXOPBLOCKS))
  <2>1. MAXOPBLOCKS \in Int /\ 1 \in Int /\ IsFiniteSet(Ops)
    BY LogAssumption
  <2>2. IsFiniteSet(1..MAXOPBLOCKS)
    BY <2>1, FS_Interval
  <2> QED BY <2>1, <2>2, FS_Product
<1>2. IsFiniteSet(Reserved)
  BY <1>1, FS_Subset DEF Reserved
<1> QED BY <1>2, FS_Subset, FS_CardinalityType

LEMMA RoomInit == Init => RoomRight
<1> SUFFICES ASSUME Init PROVE RoomRight
  OBVIOUS
<1>1. Reserved = {}
  BY DEF Init, Reserved
<1>2. WroteRight
  BY FS_EmptySet DEF Init, WroteRight
<1>3. Len(lh) = 0 /\ LOGSIZE \in Nat
  BY LogAssumption DEF Init
<1> QED BY <1>1, <1>2, <1>3, FS_EmptySet DEF RoomRight

\* A call that begins finds its share free.
LEMMA BeginFits ==
    ASSUME IInv, RoomRight, NEW p \in Ops, begin_op(p)
    PROVE  RoomRight'
<1>1. TypeOK /\ CountRight /\ lh' = lh /\ wrote' = wrote
  BY DEF IInv, begin_op
<1>2. WroteRight'
  BY <1>1 DEF RoomRight, WroteRight, begin_op, Listed, TypeOK
<1>3. /\ IsFiniteSet(Active) /\ p \notin Active
      /\ Cardinality(Active \cup {p}) = outstanding + 1
  <2>1. IsFiniteSet(Active) /\ p \notin Active
    BY LogAssumption, FS_Subset DEF Active, begin_op
  <2> QED BY <1>1, <2>1, FS_AddElement DEF CountRight
<1> DEFINE A == Active \cup {p}
           M == 1..MAXOPBLOCKS
<1>4. IsFiniteSet(A) /\ IsFiniteSet(M) /\ Cardinality(M) = MAXOPBLOCKS
  BY <1>3, FS_AddElement, FS_Interval, LogAssumption
<1>5. IsFiniteSet(A \X M) /\ Cardinality(A \X M) = (outstanding + 1) * MAXOPBLOCKS
  <2>1. Cardinality(A) = outstanding + 1
    BY <1>3
  <2> HIDE DEF A, M
  <2>2. IsFiniteSet(A \X M)
        /\ Cardinality(A \X M) = Cardinality(A) * Cardinality(M)
    BY <1>4, FS_Product
  <2> QED BY <1>4, <2>1, <2>2
<1>6. Reserved' \subseteq A \X M
  BY <1>1 DEF Reserved, Active, begin_op, TypeOK
<1>7. Cardinality(Reserved') <= Cardinality(A \X M)
      /\ Cardinality(Reserved') \in Nat
  BY <1>5, <1>6, FS_Subset, FS_CardinalityType
<1>8. Len(lh) + Cardinality(A \X M) <= LOGSIZE
  BY <1>5 DEF begin_op, MayBegin, HasRoom
<1> HIDE DEF A, M
<1>9. Len(lh) \in Nat /\ LOGSIZE \in Nat /\ Cardinality(A \X M) \in Nat
  BY <1>1, <1>5, Types, FS_CardinalityType
<1>10. Len(lh') + Cardinality(Reserved') <= LOGSIZE
  BY <1>1, <1>7, <1>8, <1>9
<1> QED BY <1>2, <1>10 DEF RoomRight

\* A block listed for the first time uses up one block of the call's share.
LEMMA WriteFits ==
    ASSUME IInv, RoomRight, NEW p \in Ops, NEW b \in Blocks, NEW v \in Vals,
           Write(p, b, v)
    PROVE  RoomRight'
<1>1. /\ TypeOK /\ WroteRight /\ pc' = pc /\ pc[p] = "op"
      /\ wrote' = [wrote EXCEPT ![p] = wrote[p] \cup {b}]
      /\ lh' = Absorb(b)
  BY DEF IInv, Write, RoomRight
<1>2. lh \in Seq(Blocks) /\ Len(lh) \in Nat /\ LOGSIZE \in Nat
  BY <1>1, Types
<1>3. /\ lh' \in Seq(Blocks) /\ Len(lh') \in {Len(lh), Len(lh) + 1}
      /\ b \in wrote[p] => lh' = lh
      /\ \A c \in Blocks : Listed(c) \/ c = b => Listed(c)'
  <2>1. CASE Listed(b)
    BY <1>1, <1>2, <2>1 DEF Absorb, Listed
  <2>2. CASE ~Listed(b)
    <3>1. lh' = Append(lh, b)
      BY <1>1, <2>2 DEF Absorb
    <3>2. /\ lh' \in Seq(Blocks) /\ Len(lh') = Len(lh) + 1
          /\ \A i \in 1..Len(lh) : lh'[i] = lh[i]
          /\ lh'[Len(lh) + 1] = b
      BY <1>2, <3>1
    <3>3. b \notin wrote[p]
      BY <1>1, <2>2 DEF WroteRight
    <3>4. ASSUME NEW i \in 1..Len(lh) PROVE i \in 1..Len(lh') /\ lh'[i] = lh[i]
      BY <1>2, <3>2
    <3>5. Len(lh) + 1 \in 1..Len(lh')
      BY <1>2, <3>2
    <3>6. \A c \in Blocks : Listed(c) \/ c = b => Listed(c)'
      BY <3>2, <3>4, <3>5 DEF Listed
    <3> QED BY <3>2, <3>3, <3>6
  <2> QED BY <2>1, <2>2
<1>4. /\ wrote'[p] = wrote[p] \cup {b} /\ wrote[p] \subseteq Blocks
      /\ \A q \in Ops : q # p => wrote'[q] = wrote[q]
      /\ \A q \in Ops : wrote[q] \subseteq Blocks
  BY <1>1 DEF TypeOK
<1>5. WroteRight'
  <2>1. IsFiniteSet(wrote'[p])
    <3>1. IsFiniteSet(wrote[p])
      BY <1>1 DEF WroteRight
    <3>2. IsFiniteSet(wrote[p] \cup {b})
      BY <3>1, FS_AddElement
    <3> QED BY <1>4, <3>2
  <2>2. ASSUME NEW q \in Ops PROVE
          /\ IsFiniteSet(wrote'[q]) /\ \A c \in wrote'[q] : Listed(c)'
          /\ pc'[q] # "op" => wrote'[q] = {}
    <3>1. CASE q = p
      BY <1>1, <1>3, <1>4, <2>1, <3>1 DEF WroteRight
    <3>2. CASE q # p
      BY <1>1, <1>3, <1>4, <3>2 DEF WroteRight
    <3> QED BY <3>1, <3>2
  <2> QED BY <2>2 DEF WroteRight, Listed
<1>6. Len(lh') + Cardinality(Reserved') <= LOGSIZE
  <2>1. CASE b \in wrote[p]
    <3>1. wrote'[p] = wrote[p]
      BY <1>4, <2>1
    <3>2. Reserved' = Reserved
      BY <1>1, <1>4, <3>1 DEF Reserved
    <3> QED BY <1>3, <2>1, <3>2 DEF RoomRight
  <2>2. CASE b \notin wrote[p]
    <3> DEFINE n == Cardinality(wrote[p])
               r == <<p, n + 1>>
    <3>1. n \in Nat /\ n < MAXOPBLOCKS /\ Cardinality(wrote'[p]) = n + 1
      <4>1. IsFiniteSet(wrote[p])
        BY <1>1 DEF WroteRight
      <4>2. n < MAXOPBLOCKS
        BY <2>2 DEF Write
      <4> QED BY <1>4, <2>2, <4>1, <4>2, FS_AddElement, FS_CardinalityType
    <3>2. r \in Reserved
      BY <1>1, <3>1, LogAssumption DEF Reserved
    <3>3. Cardinality(Reserved \ {r}) = Cardinality(Reserved) - 1
      BY <3>2, ReservedFinite, FS_RemoveElement
    <3>4. Reserved' \subseteq Reserved \ {r}
      <4>1. ASSUME NEW x \in Reserved' PROVE x \in Reserved \ {r}
        <5>1. /\ x \in Ops \X (1..MAXOPBLOCKS) /\ pc[x[1]] = "op"
              /\ Cardinality(wrote'[x[1]]) < x[2]
          BY <1>1, <4>1 DEF Reserved
        <5>2. CASE x[1] = p
          BY <3>1, <5>1, <5>2, LogAssumption DEF Reserved
        <5>3. CASE x[1] # p
          BY <1>4, <5>1, <5>3 DEF Reserved
        <5> QED BY <5>2, <5>3
      <4> QED BY <4>1
    <3>5. IsFiniteSet(Reserved \ {r})
      BY ReservedFinite, FS_RemoveElement
    <3>6. Cardinality(Reserved') \in Nat
          /\ Cardinality(Reserved') <= Cardinality(Reserved) - 1
      BY <3>3, <3>4, <3>5, FS_Subset, FS_CardinalityType
    <3> QED BY <1>2, <1>3, <3>6, ReservedFinite DEF RoomRight
  <2> QED BY <2>1, <2>2
<1> QED BY <1>5, <1>6 DEF RoomRight

\* When no call runs, nothing is reserved.
LEMMA NoneRuns ==
    ASSUME WroteRight', \A p \in Ops : pc'[p] # "op", Len(lh') <= LOGSIZE,
         Len(lh') \in Nat
    PROVE  RoomRight'
<1>1. Reserved' = {}
  BY DEF Reserved
<1> QED BY <1>1, FS_EmptySet DEF RoomRight

\* A step that lists nothing and lets no call begin reserves nothing.
LEMMA NothingNew ==
    ASSUME TypeOK, RoomRight, WroteRight', lh' = lh,
           \A p \in Ops : pc'[p] = "op" => pc[p] = "op" /\ wrote'[p] = wrote[p]
    PROVE  RoomRight'
<1>1. Reserved' \subseteq Reserved
  BY DEF Reserved
<1>2. Cardinality(Reserved') \in Nat
      /\ Cardinality(Reserved') <= Cardinality(Reserved)
  BY <1>1, ReservedFinite
<1>3. Len(lh) \in Nat /\ LOGSIZE \in Nat
  BY Types
<1> QED BY <1>2, <1>3, ReservedFinite DEF RoomRight

LEMMA RoomNext == IInv /\ RoomRight /\ [Next]_vars => RoomRight'
<1> SUFFICES ASSUME IInv, RoomRight, [Next]_vars PROVE RoomRight'
  OBVIOUS
<1>1. TypeOK /\ WroteRight /\ TypeOK'
  BY TypeNext DEF IInv, RoomRight
<1>2. Len(lh) \in 0..LOGSIZE /\ Len(lh') \in 0..LOGSIZE /\ LOGSIZE \in Nat
  BY <1>1, ListsAre, Types, LenProperties DEF TypeOK
<1>3. CASE UNCHANGED <<lh, pc, wrote>>
  BY <1>1, <1>3, NothingNew DEF WroteRight, Listed
<1>4. ASSUME NEW p \in Ops,
             \/ begin_sleep(p) \/ KillWakes(p) \/ end_last(p) \/ end_other(p)
             \/ write_log(p) \/ write_head(p) \/ install_trans(p)
             \/ commit_done(p)
      PROVE  RoomRight'
  <2>1. /\ lh' = lh
        /\ \A q \in Ops : /\ pc'[q] = "op" => pc[q] = "op"
                          /\ IF pc[q] = "op" /\ pc'[q] # "op"
                             THEN wrote'[q] = {} ELSE wrote'[q] = wrote[q]
    <3>1. CASE end_last(p) \/ end_other(p)
      BY <1>1, <3>1 DEF end_last, end_other, CommitStart, Woken, TypeOK
    <3>2. CASE begin_sleep(p) \/ KillWakes(p) \/ commit_done(p)
      BY <1>1, <3>2
      DEF begin_sleep, KillWakes, commit_done, AfterCommit, Woken, TypeOK, inlog
    <3>3. CASE write_log(p) \/ write_head(p) \/ install_trans(p)
      BY <1>1, <3>3
      DEF write_log, write_head, install_trans, AfterInstall, TypeOK, inlog
    <3> QED BY <1>4, <3>1, <3>2, <3>3
  <2>2. WroteRight'
    <3>1. \A b \in Blocks : Listed(b)' <=> Listed(b)
      BY <2>1 DEF Listed
    <3>2. \A q \in Ops : wrote[q] \subseteq Blocks
      BY <1>1 DEF TypeOK
    <3>3. ASSUME NEW q \in Ops PROVE
            /\ IsFiniteSet(wrote'[q]) /\ \A b \in wrote'[q] : Listed(b)'
            /\ pc'[q] # "op" => wrote'[q] = {}
      <4>1. IsFiniteSet(wrote'[q])
        BY <1>1, <2>1, FS_EmptySet DEF WroteRight
      <4>2. wrote'[q] \subseteq wrote[q]
        BY <2>1
      <4>3. \A b \in wrote'[q] : Listed(b)'
        BY <1>1, <3>1, <3>2, <4>2 DEF WroteRight
      <4>4. pc'[q] # "op" => wrote'[q] = {}
        BY <1>1, <2>1 DEF WroteRight
      <4> QED BY <4>1, <4>3, <4>4
    <3> QED BY <3>3 DEF WroteRight, Listed
  <2> QED BY <1>1, <2>1, <2>2, NothingNew
<1>5. ASSUME NEW p \in Ops, clear(p) PROVE RoomRight'
  <2>1. \A q \in Ops : pc[q] # "op" /\ pc'[q] # "op"
    <3>1. pc[p] \in Committing
      BY <1>5 DEF clear, Committing
    <3> QED BY <1>1, <1>5, <3>1 DEF clear, IInv, ControlRight, TypeOK
  <2>2. WroteRight'
    BY <1>1, <1>5, <2>1, FS_EmptySet DEF WroteRight, clear
  <2> QED BY <1>2, <2>1, <2>2, NoneRuns
<1>6. ASSUME Crash \/ recover PROVE RoomRight'
  <2>1. \A q \in Ops : pc'[q] # "op" /\ wrote'[q] = {}
    BY <1>1, <1>6
    DEF Crash, recover, read_head, recover_install, recover_clear, IInv,
        ControlRight, WroteRight
  <2>2. WroteRight'
    BY <2>1, FS_EmptySet DEF WroteRight
  <2> QED BY <1>2, <2>1, <2>2, NoneRuns
<1>7. CASE UNCHANGED vars
  BY <1>3, <1>7 DEF vars, inlog, control
<1>8. ASSUME NEW b \in Blocks, Recycle(b) PROVE RoomRight'
  BY <1>3, <1>8 DEF Recycle, inlog, control
<1> QED BY <1>4, <1>5, <1>6, <1>7, <1>8, BeginFits, WriteFits DEF Next, commit

(***************************************************************************)
(* However many calls run at once, a call that has written fewer than      *)
(* MAXOPBLOCKS blocks finds room for one more, and log_write() does not    *)
(* panic (log.c:126-142 and 219).                                          *)
(***************************************************************************)
THEOREM ReservedIsEnough == Spec => []NeverTooBig
<1>1. IInv /\ RoomRight => NeverTooBig
  <2> SUFFICES ASSUME IInv, RoomRight, NEW p \in Ops, pc[p] = "op",
                      Cardinality(wrote[p]) < MAXOPBLOCKS
               PROVE  LogHasRoom
    BY DEF NeverTooBig
  <2>1. TypeOK /\ WroteRight
    BY DEF IInv, RoomRight
  <2>2. <<p, MAXOPBLOCKS>> \in Reserved
    BY LogAssumption DEF Reserved
  <2>3. Cardinality(Reserved) \in Nat \ {0}
    BY <2>2, ReservedFinite, FS_EmptySet
  <2>4. Len(lh) \in Nat /\ LOGSIZE \in Nat
    BY <2>1, Types
  <2>5. Len(lh) < LOGSIZE
    BY <2>3, <2>4 DEF RoomRight
  <2> QED BY <2>4, <2>5, LogAssumption DEF LogHasRoom
<1>2. Spec => []RoomRight
  BY RoomInit, RoomNext, IInvHolds, PTL DEF Spec
<1> QED BY <1>1, <1>2, IInvHolds, PTL

=============================================================================
