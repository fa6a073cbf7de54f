-------------------------- MODULE InodesWrites_proofs --------------------------
(* What writes to the disk keeps the invariant of Inodes_proofs: links and  *)
(* entries, blocks, the freeing and claiming of inodes, crashes; and the    *)
(* theorems that follow.                                                    *)
EXTENDS Inodes_proofs

-----------------------------------------------------------------------------
(* Steps that write.                                                        *)

LEMMA UnlinkDropKeeps ==
    ASSUME IInv, NEW p \in Procs, unlink_drop(p)
    PROVE  IInv'
<1> DEFINE q == ps[p]  i == q.ip  a == disk.inode[i]  l == ilock(itab, disk, i, p)  t == Linked(l, i, -1)
<1>1. /\ q.pc \in {"drop", "undo"} /\ q.puts = <<>> /\ (q.pc = "undo" => itab[i].lock = 0)
      /\ disk' = iupdate(disk, t, i) /\ itab' = iunlock(t, i)
      /\ Becomes(p, PutThen(p, <<i>>, "end")) /\ Keep
  BY DEF unlink_drop, At, Me, CanLock
<1>2. /\ q \in States /\ StepRight(q) /\ q.freeing = "no" /\ p # 0 /\ p \in inop
      /\ \A j \in Inums : /\ PutN(q.puts, j) = 0 /\ Live(q, j) = Uses(q, j) /\ Uses(q, j) \in 0..6
                          /\ Unread(q, j) \in Nat
      /\ \A j \in Inums : j \in Locks(q) <=> j = PcLock(q)
      /\ \A j \in Inums : itab[j].lock = p <=> j = PcLock(q)
  BY <1>1, AtIs
<1>3. i \in Inums /\ 0 \notin Inums /\ q.op \in Calls /\ (q.new => q.op.do = "link") /\ itab[i].lock \in {0, p}
      /\ PcLock(q) \in {0, i}
  BY <1>1, <1>2, InodesAssumption DEF StepRight, States, HasIp, PcLock
<1>4. Uses(q, i) > 0
  <2>1. I(HasIp(q) /\ q.ip = i) = 1
    BY <1>1 DEF I, HasIp
  <2> QED BY <1>2, <1>3, <2>1 DEF Uses, I
<1>5. PICK Q \in States : Q = PutThen(p, <<i>>, "end")
  BY <1>2, <1>3, PutOne DEF States, Steps, PutThen, Me
<1>6. /\ Q.pc = "end" /\ Q.op = q.op /\ Q.ip = q.ip /\ Q.dp = q.dp /\ Q.puts = <<i>>
      /\ Q.freeing = "no" /\ Q.new = q.new /\ Q.fd = q.fd
  BY <1>1, <1>2, <1>5 DEF States, PutThen, Me
<1>7. Len(Q.puts) <= 2 /\ \A j \in Inums : PutN(Q.puts, j) = I(i = j)
  BY <1>3, <1>6, PutOne
<1>8. StepRight(Q)
  BY <1>3, <1>6, <1>7 DEF StepRight, HasIp, HasDp, PutLock, PcLock
<1>9. \A j \in Inums : Uses(Q, j) = Uses(q, j) /\ Unread(Q, j) = 0 /\ Unread(q, j) = 0
  BY <1>1, <1>2, <1>6, <1>7 DEF Uses, HasIp, HasDp, I, Unread
<1>10. ps' = [ps EXCEPT ![p] = Q]
  BY <1>1, <1>5 DEF Becomes
<1>11. /\ disk \in Disks /\ itab \in [Inums -> Copies] /\ \A j \in Inums : itab[j].ref \in Nat
       /\ a.nlink \in Int /\ -1 \in Int
  BY <1>3 DEF IInv, InodesTypeOK, Disks, InodesOf, Copies
<1>12. /\ l \in [Inums -> Copies] /\ \A j \in Inums : j # i => l[j] = itab[j]
       /\ Holds(l[i], a.type, a.nlink, a.addrs, itab[i].ref, p)
  BY <1>1, <1>3, <1>4, LockedIs
<1> HIDE DEF i, a, l
<1>13. /\ t \in [Inums -> Copies] /\ \A j \in Inums : j # i => t[j] = itab[j]
       /\ Holds(t[i], a.type, a.nlink + -1, a.addrs, itab[i].ref, p)
  <2>1. /\ t \in [Inums -> Copies] /\ \A j \in Inums : j # i => t[j] = l[j]
        /\ Holds(t[i], a.type, a.nlink + -1, a.addrs, itab[i].ref, p)
    BY <1>3, <1>11, <1>12, LinkedIs, ZenonT(60) DEF Written
  <2> QED BY <1>12, <2>1
<1> HIDE DEF t
<1>14. /\ itab' \in [Inums -> Copies] /\ \A j \in Inums : j # i => itab'[j] = itab[j]
       /\ Holds(itab'[i], a.type, a.nlink + -1, a.addrs, itab[i].ref, 0)
  BY <1>1, <1>3, <1>13, OpenIs DEF Written
<1>15. /\ disk' \in Disks /\ disk'.ents = disk.ents /\ disk'.used = disk.used /\ disk'.lost = disk.lost
       /\ \A j \in Inums : j # i => disk'.inode[j] = disk.inode[j]
       /\ disk'.inode[i].type = a.type /\ disk'.inode[i].nlink = a.nlink + -1 /\ disk'.inode[i].addrs = a.addrs
  <2>1. disk' = iupdate(disk, t, i)
    BY <1>1
  <2>2. Updated(iupdate(disk, t, i), disk, i, a.type, a.nlink + -1, a.addrs)
    BY <1>3, <1>11, <1>13, UpdateIs, ZenonT(60)
  <2> QED BY <2>1, <2>2 DEF Updated
<1>16. \A j \in Inums : itab'[j].ref = itab[j].ref + Uses(Q, j) - Uses(q, j)
  <2>1. \A j \in Inums : itab'[j].ref = itab[j].ref
    BY <1>14 DEF Holds
  <2> QED BY <1>2, <1>9, <1>11, <2>1
<1>17. \A j \in Inums : Uses(Q, j) - Uses(q, j) \in {0, 1}
  BY <1>2, <1>9
<1>18. \A j \in Inums : LockStep(p, Q, j)
  <2>1. \A j \in Inums : j \notin Locks(Q)
    BY <1>3, <1>6 DEF Locks, PcLock, PutLock
  <2> QED BY <1>2, <1>3, <1>14, <2>1 DEF LockStep, Holds
<1>19. \A j \in Inums : CopyStep(p, j)
  BY <1>2, <1>4, <1>14, <1>15 DEF CopyStep, Same, Holds, a
<1>20. \A j \in Inums : DiskStep(p, j)
  BY <1>2, <1>4, <1>15 DEF DiskStep, a
<1>21. a.type # "none"
  BY <1>2, <1>3, <1>4 DEF IInv, AllocatedRight, a
<1>22. \A j \in Inums : disk'.inode[j].type = disk.inode[j].type
  BY <1>15 DEF a
<1>23. \A j \in Inums : /\ Cardinality(Owed'[j]) \in Nat /\ Cardinality(Owed[j]) \in Nat
                        /\ Cardinality(Owed'[j]) = Cardinality(Owed[j]) - I(i = j)
  <2> SUFFICES ASSUME NEW j \in Inums
               PROVE  /\ Cardinality(Owed'[j]) \in Nat /\ Cardinality(Owed[j]) \in Nat
                      /\ Cardinality(Owed'[j]) = Cardinality(Owed[j]) - I(i = j)
    OBVIOUS
  <2>1. /\ Cardinality(Owed'[j]) \in Nat /\ Cardinality(Owed[j]) \in Nat
        /\ Cardinality(Owed'[j]) = Cardinality(Owed[j]) + I(Owes(Q, j)) - I(Owes(q, j))
    BY <1>10, OwedIs
  <2>2. ~Owes(Q, j) /\ (Owes(q, j) <=> i = j)
    BY <1>1, <1>6 DEF Owes, i
  <2> QED BY <2>1, <2>2 DEF I
<1>24. \A j \in Inums : Named(disk', j) = Named(disk, j) /\ Kids(disk', j) = Kids(disk, j)
  BY <1>15, <1>22, EntriesStay
<1>25. LinksRight(disk', Owed')
  <2>1. ASSUME NEW j \in Inums
        PROVE  disk'.inode[j].nlink = disk.inode[j].nlink
                                  + (Cardinality(Named(disk', j)) - Cardinality(Named(disk, j)))
                                  + (Cardinality(Kids(disk', j)) - Cardinality(Kids(disk, j)))
                                  + (Cardinality(Owed'[j]) - Cardinality(Owed[j]))
    <3> DEFINE n == disk.inode[j].nlink  n2 == disk'.inode[j].nlink  x == Cardinality(Named(disk, j))
               y == Cardinality(Kids(disk, j))  o == Cardinality(Owed[j])  o2 == Cardinality(Owed'[j])
    <3>1. n2 = (IF j = i THEN n + -1 ELSE n) /\ n \in Int
      BY <1>11, <1>15 DEF a, Disks, InodesOf
    <3>2. x \in Nat /\ y \in Nat /\ o \in Nat /\ o2 = o - I(i = j)
      BY <1>23, NamedFinite
    <3> HIDE DEF n, n2, x, y, o, o2
    <3>3. n2 = n + (x - x) + (y - y) + (o2 - o)
      BY <3>1, <3>2 DEF I
    <3> QED BY <1>24, <3>3 DEF n, n2, x, y, o, o2
  <2>2. \A j \in Inums : disk'.inode[j].type = "none" => disk'.inode[j] = disk.inode[j] /\ disk'.ents[j] = disk.ents[j]
    BY <1>15, <1>21
  <2>3. \A j \in Inums : disk'.inode[j].type = "dir" => \A e, f \in Named(disk', j) : e = f
    BY <1>22, <1>24 DEF IInv, TreesRight, LinksRight
  <2>4. \A j \in Inums : Cardinality(Owed'[j]) \in Nat
    BY <1>23
  <2> QED BY <1>15, <1>22, <2>1, <2>2, <2>3, <2>4, LinksMove
<1>26. BlocksRight(disk')
  <2>1. \A j \in Inums : disk'.inode[j].addrs = disk.inode[j].addrs
    BY <1>15 DEF a
  <2> QED BY <1>15, <2>1, BlocksStay
<1>27. /\ \A j \in Inums : Uses(Q, j) > Uses(q, j) => disk.inode[j].nlink # 0
       /\ \A j \in Inums : Uses(Q, j) > Unread(Q, j) => itab'[j].valid \/ Uses(q, j) > Unread(q, j)
  BY <1>2, <1>9
<1>28. /\ q.pc # "idle" /\ q.pc # "made" /\ Q.freeing = "no"
       /\ Q.pc \notin {"idle", "made", "child", "walk", "dir"}
  BY <1>1, <1>6
<1> QED BY <1>1, <1>8, <1>10, <1>14, <1>15, <1>16, <1>17, <1>18, <1>19, <1>20, <1>25, <1>26, <1>27, <1>28, WriteKeeps


LEMMA WriteDataKeeps ==
    ASSUME IInv, NEW p \in Procs, write(p)
    PROVE  IInv'
<1> DEFINE q == ps[p]  i == q.fd  a == disk.inode[i]  l == ilock(itab, disk, i, p)
           b == balloc(disk)  grows == FreeBlocks(disk) # {} /\ l[i].type = "file"
           t == IF grows THEN [l EXCEPT ![i].addrs = @ \cup (b.used \ disk.used)] ELSE l
           d == IF grows THEN b ELSE disk
<1>1. /\ q.pc = "write" /\ q.puts = <<>> /\ itab[i].lock = 0
      /\ disk' = iupdate(d, t, i) /\ itab' = iunlock(t, i)
      /\ Becomes(p, Goto(p, "end")) /\ Keep
  BY DEF write, At, Me, CanLock
<1>2. /\ q \in States /\ StepRight(q) /\ q.freeing = "no" /\ p # 0 /\ p \in inop
      /\ \A j \in Inums : /\ PutN(q.puts, j) = 0 /\ Live(q, j) = Uses(q, j) /\ Uses(q, j) \in 0..6
                          /\ Unread(q, j) \in Nat
      /\ \A j \in Inums : j \in Locks(q) <=> j = PcLock(q)
      /\ \A j \in Inums : itab[j].lock = p <=> j = PcLock(q)
  BY <1>1, AtIs
<1>3. i \in Inums /\ 0 \notin Inums /\ q.op \in Calls /\ itab[i].lock \in {0, p} /\ PcLock(q) = 0 /\ ~HasIp(q)
  <2>1. ~q.new \/ q.pc \notin {"walk", "dir"}
    BY <1>1
  <2> QED BY <1>1, <1>2, <2>1, InodesAssumption DEF StepRight, States, HasIp, PcLock
<1>4. Uses(q, i) > 0
  <2>1. I(q.fd = i) = 1
    BY DEF I
  <2> QED BY <1>2, <1>3, <2>1 DEF Uses, I
<1>5. PICK Q \in States : Q = Goto(p, "end")
  BY <1>2 DEF States, Steps, Goto, Me
<1>6. /\ Q.pc = "end" /\ Q.op = q.op /\ Q.ip = q.ip /\ Q.dp = q.dp /\ Q.puts = q.puts /\ Q.path = q.path
      /\ Q.freeing = "no" /\ Q.new = q.new /\ Q.fd = q.fd /\ Q.cur = q.cur
  BY <1>2, <1>5 DEF States, Goto, Me
<1>7. StepRight(Q)
  BY <1>1, <1>2, <1>3, <1>6 DEF StepRight, HasIp, HasDp, PutLock, PcLock
<1>8. \A j \in Inums : Uses(Q, j) = Uses(q, j) /\ Unread(Q, j) = 0 /\ Unread(q, j) = 0
  BY <1>1, <1>2, <1>6 DEF Uses, HasIp, HasDp, I, Unread
<1>9. ps' = [ps EXCEPT ![p] = Q]
  BY <1>1, <1>5 DEF Becomes
<1>10. /\ disk \in Disks /\ itab \in [Inums -> Copies] /\ (\A j \in Inums : itab[j].ref \in Nat)
       /\ a.addrs \in SUBSET Blocks
  BY <1>3 DEF IInv, InodesTypeOK, Disks, InodesOf, Copies
<1>11. /\ l \in [Inums -> Copies] /\ \A j \in Inums : j # i => l[j] = itab[j]
       /\ Holds(l[i], a.type, a.nlink, a.addrs, itab[i].ref, p)
  BY <1>1, <1>3, <1>4, LockedIs
<1> HIDE DEF i, a, l
\* The inode gets the block m, or none.
<1>12. \E B \in SUBSET Blocks :
         /\ itab' \in [Inums -> Copies] /\ (\A j \in Inums : j # i => itab'[j] = itab[j])
         /\ Holds(itab'[i], a.type, a.nlink, B, itab[i].ref, 0)
         /\ disk' \in Disks /\ disk'.ents = disk.ents /\ disk'.lost = disk.lost
         /\ (\A j \in Inums : j # i => disk'.inode[j] = disk.inode[j])
         /\ disk'.inode[i].type = a.type /\ disk'.inode[i].nlink = a.nlink /\ disk'.inode[i].addrs = B
         /\ (a.type = "none" => B = a.addrs)
         /\ BlocksRight(disk')
  <2>1. CASE grows
    <3> DEFINE m == Min(FreeBlocks(disk))  B == a.addrs \cup {m}
    <3>1. m \in Blocks /\ m \notin disk.used
      <4>1. FreeBlocks(disk) \in SUBSET Nat /\ FreeBlocks(disk) # {}
        BY <2>1, InodesAssumption DEF FreeBlocks
      <4>2. m \in FreeBlocks(disk)
        BY <4>1, MinIs
      <4> QED BY <4>2 DEF FreeBlocks
    <3> HIDE DEF m
    <3>2. /\ b \in Disks /\ b.inode = disk.inode /\ b.ents = disk.ents /\ b.lost = disk.lost
          /\ b.used = disk.used \cup {m}
      BY <1>10, <3>1 DEF balloc, Disks, m
    <3>3. b.used \ disk.used = {m}
      BY <3>1, <3>2
    <3>4. B \in SUBSET Blocks
      BY <1>10, <3>1
    <3>5. l[i].addrs = a.addrs /\ d = b
      BY <1>11, <2>1 DEF Holds
    <3> HIDE DEF b
    <3>6. t = [l EXCEPT ![i].addrs = B]
      BY <2>1, <3>3, <3>5
    <3> DEFINE T == [l EXCEPT ![i].addrs = B]
    <3>7. /\ T \in [Inums -> Copies] /\ (\A j \in Inums : j # i => T[j] = l[j])
          /\ Holds(T[i], a.type, a.nlink, B, itab[i].ref, p)
      BY <1>3, <1>11, <3>4, GrownIs DEF Written
    <3> HIDE DEF B, T, t, d
    <3>8. /\ iunlock(T, i) \in [Inums -> Copies] /\ (\A j \in Inums : j # i => iunlock(T, i)[j] = T[j])
          /\ Holds(iunlock(T, i)[i], a.type, a.nlink, B, itab[i].ref, 0)
      BY <1>3, <3>7, OpenIs, ZenonT(60) DEF Written
    <3>9. Updated(iupdate(b, T, i), b, i, a.type, a.nlink, B)
      BY <1>3, <3>2, <3>7, UpdateIs, ZenonT(60)
    <3>10. itab' = iunlock(T, i) /\ disk' = iupdate(b, T, i)
      BY <1>1, <3>5, <3>6 DEF T
    <3>11. /\ disk' \in Disks /\ disk'.ents = disk.ents /\ disk'.lost = disk.lost /\ disk'.used = disk.used \cup {m}
           /\ (\A j \in Inums : j # i => disk'.inode[j] = disk.inode[j])
           /\ disk'.inode[i].type = a.type /\ disk'.inode[i].nlink = a.nlink /\ disk'.inode[i].addrs = B
      BY <3>2, <3>9, <3>10 DEF Updated
    <3>12. \A j \in Inums : disk'.inode[j].addrs = IF j = i THEN disk.inode[j].addrs \cup {m} ELSE disk.inode[j].addrs
      BY <3>11 DEF B, a
    <3>13. BlocksRight(disk')
      BY <1>3, <3>1, <3>11, <3>12, BlockTaken
    <3>14. a.type # "none"
      BY <1>11, <2>1 DEF Holds
    <3>15. itab' \in [Inums -> Copies] /\ (\A j \in Inums : j # i => itab'[j] = itab[j])
      BY <1>11, <3>7, <3>8, <3>10
    <3>16. Holds(itab'[i], a.type, a.nlink, B, itab[i].ref, 0)
      BY <3>8, <3>10
    <3> QED BY <3>4, <3>11, <3>13, <3>14, <3>15, <3>16
  <2>2. CASE ~grows
    <3>1. t = l /\ d = disk
      BY <2>2
    <3> HIDE DEF t, d, grows
    <3>2. /\ iunlock(l, i) \in [Inums -> Copies] /\ (\A j \in Inums : j # i => iunlock(l, i)[j] = l[j])
          /\ Holds(iunlock(l, i)[i], a.type, a.nlink, a.addrs, itab[i].ref, 0)
      BY <1>3, <1>11, OpenIs, ZenonT(60) DEF Written
    <3>3. Updated(iupdate(disk, l, i), disk, i, a.type, a.nlink, a.addrs)
      BY <1>3, <1>10, <1>11, UpdateIs, ZenonT(60)
    <3>4. itab' = iunlock(l, i) /\ disk' = iupdate(disk, l, i)
      BY <1>1, <3>1
    <3>5. /\ disk' \in Disks /\ disk'.ents = disk.ents /\ disk'.lost = disk.lost /\ disk'.used = disk.used
          /\ (\A j \in Inums : j # i => disk'.inode[j] = disk.inode[j])
          /\ disk'.inode[i].type = a.type /\ disk'.inode[i].nlink = a.nlink /\ disk'.inode[i].addrs = a.addrs
      BY <3>3, <3>4 DEF Updated
    <3>6. \A j \in Inums : disk'.inode[j].addrs = disk.inode[j].addrs
      BY <3>5 DEF a
    <3>7. BlocksRight(disk')
      BY <3>5, <3>6, BlocksStay
    <3>8. itab' \in [Inums -> Copies] /\ (\A j \in Inums : j # i => itab'[j] = itab[j])
      BY <1>11, <3>2, <3>4
    <3>9. Holds(itab'[i], a.type, a.nlink, a.addrs, itab[i].ref, 0)
      BY <3>2, <3>4
    <3> QED BY <1>10, <3>5, <3>7, <3>8, <3>9
  <2> QED BY <2>1, <2>2
<1>13. PICK B \in SUBSET Blocks :
         /\ itab' \in [Inums -> Copies] /\ (\A j \in Inums : j # i => itab'[j] = itab[j])
         /\ Holds(itab'[i], a.type, a.nlink, B, itab[i].ref, 0)
         /\ disk' \in Disks /\ disk'.ents = disk.ents /\ disk'.lost = disk.lost
         /\ (\A j \in Inums : j # i => disk'.inode[j] = disk.inode[j])
         /\ disk'.inode[i].type = a.type /\ disk'.inode[i].nlink = a.nlink /\ disk'.inode[i].addrs = B
         /\ (a.type = "none" => B = a.addrs)
         /\ BlocksRight(disk')
  BY <1>12
<1>14. \A j \in Inums : itab'[j].ref = itab[j].ref + Uses(Q, j) - Uses(q, j)
  <2>1. \A j \in Inums : itab'[j].ref = itab[j].ref
    BY <1>13 DEF Holds
  <2> QED BY <1>2, <1>8, <1>10, <2>1
<1>15. \A j \in Inums : Uses(Q, j) - Uses(q, j) \in {0, 1}
  BY <1>2, <1>8
<1>16. \A j \in Inums : LockStep(p, Q, j)
  <2>1. \A j \in Inums : j \notin Locks(Q)
    BY <1>3, <1>6 DEF Locks, PcLock, PutLock
  <2> QED BY <1>2, <1>3, <1>13, <2>1 DEF LockStep, Holds
<1>17. \A j \in Inums : CopyStep(p, j)
  BY <1>2, <1>4, <1>13 DEF CopyStep, Same, Holds
<1>18. \A j \in Inums : disk'.inode[j].type = disk.inode[j].type /\ disk'.inode[j].nlink = disk.inode[j].nlink
  BY <1>13 DEF a
<1>19. \A j \in Inums : DiskStep(p, j)
  BY <1>2, <1>4, <1>13, <1>18 DEF DiskStep
<1>20. a.type # "none"
  BY <1>2, <1>3, <1>4 DEF IInv, AllocatedRight, a
<1>21. \A j \in Inums : /\ Cardinality(Owed'[j]) \in Nat /\ Cardinality(Owed[j]) \in Nat
                        /\ Cardinality(Owed'[j]) = Cardinality(Owed[j])
  <2> SUFFICES ASSUME NEW j \in Inums
               PROVE  /\ Cardinality(Owed'[j]) \in Nat /\ Cardinality(Owed[j]) \in Nat
                      /\ Cardinality(Owed'[j]) = Cardinality(Owed[j])
    OBVIOUS
  <2>1. /\ Cardinality(Owed'[j]) \in Nat /\ Cardinality(Owed[j]) \in Nat
        /\ Cardinality(Owed'[j]) = Cardinality(Owed[j]) + I(Owes(Q, j)) - I(Owes(q, j))
    BY <1>9, OwedIs
  <2>2. ~Owes(Q, j) /\ ~Owes(q, j)
    BY <1>1, <1>6 DEF Owes
  <2> QED BY <2>1, <2>2 DEF I
<1>22. \A j \in Inums : Named(disk', j) = Named(disk, j) /\ Kids(disk', j) = Kids(disk, j)
  BY <1>13, <1>18, EntriesStay
<1>23. LinksRight(disk', Owed')
  <2>1. ASSUME NEW j \in Inums
        PROVE  disk'.inode[j].nlink = disk.inode[j].nlink
                                  + (Cardinality(Named(disk', j)) - Cardinality(Named(disk, j)))
                                  + (Cardinality(Kids(disk', j)) - Cardinality(Kids(disk, j)))
                                  + (Cardinality(Owed'[j]) - Cardinality(Owed[j]))
    <3> DEFINE n == disk.inode[j].nlink  n2 == disk'.inode[j].nlink  x == Cardinality(Named(disk, j))
               y == Cardinality(Kids(disk, j))  o == Cardinality(Owed[j])  o2 == Cardinality(Owed'[j])
    <3>1. n2 = n /\ n \in Int
      BY <1>10, <1>18 DEF Disks, InodesOf
    <3>2. x \in Nat /\ y \in Nat /\ o \in Nat /\ o2 = o
      BY <1>21, NamedFinite
    <3> HIDE DEF n, n2, x, y, o, o2
    <3>3. n2 = n + (x - x) + (y - y) + (o2 - o)
      BY <3>1, <3>2
    <3> QED BY <1>22, <3>3 DEF n, n2, x, y, o, o2
  <2>2. \A j \in Inums : disk'.inode[j].type = "none" => disk'.inode[j] = disk.inode[j] /\ disk'.ents[j] = disk.ents[j]
    BY <1>13, <1>20
  <2>3. \A j \in Inums : disk'.inode[j].type = "dir" => \A e, f \in Named(disk', j) : e = f
    BY <1>18, <1>22 DEF IInv, TreesRight, LinksRight
  <2>4. \A j \in Inums : Cardinality(Owed'[j]) \in Nat
    BY <1>21
  <2> QED BY <1>13, <1>18, <2>1, <2>2, <2>3, <2>4, LinksMove
<1>24. /\ \A j \in Inums : Uses(Q, j) > Uses(q, j) => disk.inode[j].nlink # 0
       /\ \A j \in Inums : Uses(Q, j) > Unread(Q, j) => itab'[j].valid \/ Uses(q, j) > Unread(q, j)
  BY <1>2, <1>8
<1>25. /\ q.pc # "idle" /\ q.pc # "made" /\ Q.freeing = "no"
       /\ Q.pc # "idle" /\ Q.pc # "made" /\ Q.pc # "child" /\ Q.pc \notin {"walk", "dir"}
  BY <1>1, <1>6
<1> QED BY <1>1, <1>7, <1>9, <1>13, <1>14, <1>15, <1>16, <1>17, <1>19, <1>23, <1>24, <1>25, WriteKeeps, ZenonT(60)

LEMMA LinkMakes ==
    ASSUME IInv, NEW p \in Procs, link(p), disk.ents[ps[p].dp][Last1(p)] = 0
    PROVE  IInv'
<1> DEFINE q == ps[p]  i == q.ip  dp == q.dp  n == Last1(p)  l == ilock(itab, disk, dp, p)
<1>1. /\ q.pc = "dir" /\ q.new /\ q.puts = <<>> /\ itab[dp].lock = 0
      /\ disk' = [disk EXCEPT !.ents[dp][n] = i] /\ itab' = iunlock(l, dp)
      /\ Becomes(p, PutThen(p, <<dp, i>>, "end")) /\ Keep
  BY DEF link, At, Me, CanLock
<1>2. /\ q \in States /\ StepRight(q) /\ q.freeing = "no" /\ p # 0 /\ p \in inop
      /\ \A j \in Inums : /\ PutN(q.puts, j) = 0 /\ Live(q, j) = Uses(q, j) /\ Uses(q, j) \in 0..6
                          /\ Unread(q, j) \in Nat
      /\ \A j \in Inums : j \in Locks(q) <=> j = PcLock(q)
      /\ \A j \in Inums : itab[j].lock = p <=> j = PcLock(q)
  BY <1>1, AtIs
<1>3. /\ i \in Inums /\ dp \in Inums /\ 0 \notin Inums /\ itab[dp].lock \in {0, p} /\ PcLock(q) = 0
      /\ HasIp(q) /\ HasDp(q) /\ q.op \in Calls /\ q.op.do = "link"
  BY <1>1, <1>2, InodesAssumption DEF StepRight, States, HasIp, HasDp, PcLock
<1>4. n \in Names
  BY <1>1, <1>2, LastIs DEF StepRight, States, Last1, Me
<1>5. Uses(q, dp) > 0 /\ Uses(q, i) > 0
  <2>1. I(HasDp(q) /\ q.dp = dp) = 1 /\ I(HasIp(q) /\ q.ip = i) = 1
    BY <1>3 DEF I
  <2> QED BY <1>2, <1>3, <2>1 DEF Uses, I
<1>6. PICK Q \in States : Q = PutThen(p, <<dp, i>>, "end")
  <2>1. <<dp, i>> \in Seq(Inums)
    BY <1>3, PutsAre
  <2> QED BY ZenonT(60), <1>2, <2>1 DEF States, Steps, PutThen, Me
<1>7. /\ Q.pc = "end" /\ Q.op = q.op /\ Q.ip = q.ip /\ Q.dp = q.dp /\ Q.puts = <<dp, i>>
      /\ Q.freeing = "no" /\ Q.new = q.new /\ Q.fd = q.fd
  BY <1>1, <1>2, <1>6 DEF States, PutThen, Me
<1>8. Len(Q.puts) <= 2 /\ \A j \in Inums : PutN(Q.puts, j) = I(dp = j) + I(i = j)
  <2> HIDE DEF i, dp
  <2>1. Len(<<dp, i>>) = 2 /\ <<dp, i>>[1] = dp /\ <<dp, i>>[2] = i
    OBVIOUS
  <2>2. ASSUME NEW j \in Inums PROVE PutN(<<dp, i>>, j) = I(dp = j) + I(i = j)
    BY <2>1 DEF PutN, I
  <2> QED BY <1>7, <2>1, <2>2
<1>9. StepRight(Q)
  BY <1>3, <1>7, <1>8 DEF StepRight, HasIp, HasDp, PutLock, PcLock
<1>10. \A j \in Inums : Uses(Q, j) = Uses(q, j) /\ Unread(Q, j) = 0 /\ Unread(q, j) = 0
  BY <1>1, <1>2, <1>7, <1>8 DEF Uses, HasIp, HasDp, I, Unread
<1>11. ps' = [ps EXCEPT ![p] = Q]
  BY <1>1, <1>6 DEF Becomes
<1>12. /\ disk \in Disks /\ itab \in [Inums -> Copies] /\ \A j \in Inums : itab[j].ref \in Nat
  BY <1>3 DEF IInv, InodesTypeOK, Disks, InodesOf, Copies
<1> DEFINE a == disk.inode[dp]
<1>13. /\ l \in [Inums -> Copies] /\ \A j \in Inums : j # dp => l[j] = itab[j]
       /\ Holds(l[dp], a.type, a.nlink, a.addrs, itab[dp].ref, p)
  BY <1>1, <1>3, <1>5, LockedIs
<1> HIDE DEF i, a, dp, l, n
<1>14. /\ itab' \in [Inums -> Copies] /\ \A j \in Inums : j # dp => itab'[j] = itab[j]
       /\ Holds(itab'[dp], a.type, a.nlink, a.addrs, itab[dp].ref, 0)
  <2>1. /\ iunlock(l, dp) \in [Inums -> Copies] /\ (\A j \in Inums : j # dp => iunlock(l, dp)[j] = l[j])
        /\ Holds(iunlock(l, dp)[dp], a.type, a.nlink, a.addrs, itab[dp].ref, 0)
    BY <1>3, <1>13, OpenIs, ZenonT(60) DEF Written
  <2>2. itab' = iunlock(l, dp)
    BY <1>1
  <2> QED BY <1>13, <2>1, <2>2
<1>15. /\ disk' \in Disks /\ disk'.inode = disk.inode /\ disk'.used = disk.used /\ disk'.lost = disk.lost
       /\ disk'.ents = [disk.ents EXCEPT ![dp][n] = i]
       /\ \A j \in Inums : j # dp => disk'.ents[j] = disk.ents[j]
  <2> DEFINE E == [disk.ents EXCEPT ![dp][n] = i]
  <2>1. disk.ents \in [Inums -> [Names -> Inums \cup {0}]]
    BY <1>12 DEF Disks
  <2>2. E \in [Inums -> [Names -> Inums \cup {0}]] /\ \A j \in Inums : j # dp => E[j] = disk.ents[j]
    BY <1>3, <1>4, <2>1
  <2>3. disk' = [disk EXCEPT !.ents = E]
    BY <1>1, <1>12 DEF Disks
  <2> HIDE DEF E
  <2>4. /\ disk' \in Disks /\ disk'.inode = disk.inode /\ disk'.used = disk.used /\ disk'.lost = disk.lost
        /\ disk'.ents = E
    BY <1>12, <2>2, <2>3 DEF Disks
  <2> QED BY <2>2, <2>4 DEF E
<1>16. \A j \in Inums : itab'[j].ref = itab[j].ref + Uses(Q, j) - Uses(q, j)
  <2>1. \A j \in Inums : itab'[j].ref = itab[j].ref
    BY <1>14 DEF Holds
  <2> QED BY <1>2, <1>10, <1>12, <2>1
<1>17. \A j \in Inums : Uses(Q, j) - Uses(q, j) \in {0, 1}
  BY <1>2, <1>10
<1>18. \A j \in Inums : LockStep(p, Q, j)
  <2>1. \A j \in Inums : j \notin Locks(Q)
    BY <1>3, <1>7 DEF Locks, PcLock, PutLock
  <2> QED BY <1>2, <1>3, <1>14, <2>1 DEF LockStep, Holds
<1>19. \A j \in Inums : CopyStep(p, j)
  BY <1>2, <1>5, <1>14, <1>15 DEF CopyStep, Same, Holds, a
<1>20. \A j \in Inums : DiskStep(p, j)
  BY <1>3, <1>15 DEF DiskStep
<1>21. a.type # "none" /\ disk.inode[i].type = "file"
  <2>1. a.type # "none"
    BY <1>2, <1>3, <1>5 DEF IInv, AllocatedRight, a
  <2> QED BY <1>1, <2>1 DEF IInv, SeenRight, i
<1>22. \A j \in Inums : /\ Cardinality(Owed'[j]) \in Nat /\ Cardinality(Owed[j]) \in Nat
                        /\ Cardinality(Owed'[j]) = Cardinality(Owed[j]) - I(i = j)
  <2> SUFFICES ASSUME NEW j \in Inums
               PROVE  /\ Cardinality(Owed'[j]) \in Nat /\ Cardinality(Owed[j]) \in Nat
                      /\ Cardinality(Owed'[j]) = Cardinality(Owed[j]) - I(i = j)
    OBVIOUS
  <2>1. /\ Cardinality(Owed'[j]) \in Nat /\ Cardinality(Owed[j]) \in Nat
        /\ Cardinality(Owed'[j]) = Cardinality(Owed[j]) + I(Owes(Q, j)) - I(Owes(q, j))
    BY <1>11, OwedIs
  <2>2. ~Owes(Q, j) /\ (Owes(q, j) <=> i = j)
    BY <1>1, <1>7 DEF Owes, i
  <2> QED BY <2>1, <2>2 DEF I
<1>23. disk.ents[dp][n] = 0 /\ disk'.ents = [disk.ents EXCEPT ![dp][n] = i]
       /\ \A k \in Inums : disk'.inode[k].type = disk.inode[k].type
  BY <1>15 DEF dp, n
<1>24. ASSUME NEW j \in Inums
       PROVE  /\ Named(disk', j) = IF j = i THEN Named(disk, j) \cup {<<dp, n>>} ELSE Named(disk, j)
              /\ Cardinality(Named(disk', j)) = Cardinality(Named(disk, j)) + I(i = j)
              /\ Cardinality(Kids(disk', j)) = Cardinality(Kids(disk, j))
  <2>1. /\ Named(disk', j) = IF j = i THEN Named(disk, j) \cup {<<dp, n>>} ELSE Named(disk, j)
        /\ Cardinality(Named(disk', j)) = Cardinality(Named(disk, j)) + I(i = j)
        /\ Cardinality(Kids(disk', j)) = Cardinality(Kids(disk, j)) + I(dp = j /\ disk.inode[i].type = "dir")
    <3>1. disk' \in Disks /\ dp \in Inums /\ n \in Names /\ i \in Inums
      BY <1>3, <1>4, <1>15
    <3> QED BY <1>23, <3>1, EntryAdded, SMTT(60)
  <2>2. I(dp = j /\ disk.inode[i].type = "dir") = 0
    BY <1>21 DEF I
  <2>3. Cardinality(Kids(disk, j)) \in Nat
    BY NamedFinite
  <2> QED BY <2>1, <2>2, <2>3
<1>25. LinksRight(disk', Owed')
  <2>1. ASSUME NEW j \in Inums
        PROVE  disk'.inode[j].nlink = disk.inode[j].nlink
                                  + (Cardinality(Named(disk', j)) - Cardinality(Named(disk, j)))
                                  + (Cardinality(Kids(disk', j)) - Cardinality(Kids(disk, j)))
                                  + (Cardinality(Owed'[j]) - Cardinality(Owed[j]))
    <3> DEFINE m == disk.inode[j].nlink  m2 == disk'.inode[j].nlink  x == Cardinality(Named(disk, j))
               x2 == Cardinality(Named(disk', j))  y == Cardinality(Kids(disk, j))
               y2 == Cardinality(Kids(disk', j))  o == Cardinality(Owed[j])  o2 == Cardinality(Owed'[j])
    <3>1. m2 = m /\ m \in Int
      BY <1>12, <1>15 DEF Disks, InodesOf
    <3>2. x \in Nat /\ y \in Nat /\ o \in Nat /\ o2 = o - I(i = j) /\ x2 = x + I(i = j) /\ y2 = y
      BY <1>22, <1>24, NamedFinite
    <3> HIDE DEF m, m2, x, y, o, o2, x2, y2
    <3>3. m2 = m + (x2 - x) + (y2 - y) + (o2 - o)
      BY <3>1, <3>2 DEF I
    <3> QED BY <3>3 DEF m, m2, x, y, o, o2, x2, y2
  <2>2. \A j \in Inums : disk'.inode[j].type = "none" => disk'.inode[j] = disk.inode[j] /\ disk'.ents[j] = disk.ents[j]
    BY <1>15, <1>21 DEF a
  <2>3. \A j \in Inums : disk'.inode[j].type = "dir" => \A e, f \in Named(disk', j) : e = f
    BY <1>15, <1>21, <1>24 DEF IInv, TreesRight, LinksRight
  <2>4. \A j \in Inums : Cardinality(Owed'[j]) \in Nat
    BY <1>22
  <2> QED BY <1>15, <1>23, <2>1, <2>2, <2>3, <2>4, LinksMove
<1>26. BlocksRight(disk')
  BY <1>15, BlocksStay
<1>27. /\ \A j \in Inums : Uses(Q, j) > Uses(q, j) => disk.inode[j].nlink # 0
       /\ \A j \in Inums : Uses(Q, j) > Unread(Q, j) => itab'[j].valid \/ Uses(q, j) > Unread(q, j)
  BY <1>2, <1>10
<1>28. /\ q.pc # "idle" /\ q.pc # "made" /\ Q.freeing = "no"
       /\ Q.pc # "idle" /\ Q.pc # "made" /\ Q.pc # "child" /\ Q.pc \notin {"walk", "dir"}
  BY <1>1, <1>7
<1> QED BY <1>1, <1>9, <1>11, <1>14, <1>15, <1>16, <1>17, <1>18, <1>19, <1>20, <1>25, <1>26, <1>27, <1>28, WriteKeeps, ZenonT(60)

LEMMA UnlinkEntryKeeps ==
    ASSUME IInv, NEW p \in Procs, unlink_entry(p),
           ~(ilock(itab, disk, ps[p].ip, p)[ps[p].ip].type = "dir" /\ ~isdirempty(ps[p].ip))
    PROVE  IInv'
<1> DEFINE q == ps[p]  i == q.ip  dp == q.dp  n == Last1(p)  l == ilock(itab, disk, i, p)
           a == disk.inode[i]  b == disk.inode[dp]  dir == l[i].type = "dir"
           t == IF dir THEN Linked(l, dp, -1) ELSE l  d == [disk EXCEPT !.ents[dp][n] = 0]
<1>1. /\ q.pc = "child" /\ q.puts = <<>> /\ itab[i].lock = 0
      /\ disk' = iupdate(d, t, dp) /\ itab' = iunlock(t, dp)
      /\ Becomes(p, PutThen(p, <<dp>>, "drop")) /\ Keep
  BY DEF unlink_entry, At, Me, CanLock
<1>2. /\ q \in States /\ StepRight(q) /\ q.freeing = "no" /\ p # 0 /\ p \in inop
      /\ \A j \in Inums : /\ PutN(q.puts, j) = 0 /\ Live(q, j) = Uses(q, j) /\ Uses(q, j) \in 0..6
                          /\ Unread(q, j) \in Nat
      /\ \A j \in Inums : j \in Locks(q) <=> j = PcLock(q)
      /\ \A j \in Inums : itab[j].lock = p <=> j = PcLock(q)
  BY <1>1, AtIs
<1>3. /\ i \in Inums /\ dp \in Inums /\ 0 \notin Inums /\ itab[i].lock \in {0, p} /\ PcLock(q) = dp
      /\ HasIp(q) /\ HasDp(q) /\ q.op \in Calls /\ itab[dp].lock = p /\ i # dp
  BY <1>1, <1>2, InodesAssumption DEF StepRight, States, HasIp, HasDp, PcLock
<1>4. n \in Names
  BY <1>1, <1>2, LastIs DEF StepRight, States, Last1, Me
<1>5. Uses(q, dp) > 0 /\ Uses(q, i) > 0
  <2>1. I(HasDp(q) /\ q.dp = dp) = 1 /\ I(HasIp(q) /\ q.ip = i) = 1
    BY <1>3 DEF I
  <2> QED BY <1>2, <1>3, <2>1 DEF Uses, I
<1>6. PICK Q \in States : Q = PutThen(p, <<dp>>, "drop")
  BY <1>2, <1>3, PutOne DEF States, Steps, PutThen, Me
<1>7. /\ Q.pc = "drop" /\ Q.op = q.op /\ Q.ip = q.ip /\ Q.dp = q.dp /\ Q.puts = <<dp>>
      /\ Q.freeing = "no" /\ Q.new = q.new /\ Q.fd = q.fd
  BY <1>1, <1>2, <1>6 DEF States, PutThen, Me
<1>8. Len(Q.puts) <= 2 /\ \A j \in Inums : PutN(Q.puts, j) = I(dp = j)
  BY <1>3, <1>7, PutOne
<1>9. StepRight(Q)
  BY <1>2, <1>3, <1>7, <1>8 DEF StepRight, HasIp, HasDp, PutLock, PcLock
<1>10. \A j \in Inums : Uses(Q, j) = Uses(q, j) /\ Unread(Q, j) = 0 /\ Unread(q, j) = I(i = j)
  BY <1>1, <1>2, <1>7, <1>8 DEF Uses, HasIp, HasDp, I, Unread
<1>11. ps' = [ps EXCEPT ![p] = Q]
  BY <1>1, <1>6 DEF Becomes
<1>12. /\ disk \in Disks /\ itab \in [Inums -> Copies] /\ (\A j \in Inums : itab[j].ref \in Nat)
       /\ b.nlink \in Int
  BY <1>3 DEF IInv, InodesTypeOK, Disks, InodesOf, Copies
<1>13. /\ l \in [Inums -> Copies] /\ (\A j \in Inums : j # i => l[j] = itab[j])
       /\ Holds(l[i], a.type, a.nlink, a.addrs, itab[i].ref, p)
  BY <1>1, <1>3, <1>5, LockedIs
<1>14. Holds(itab[dp], b.type, b.nlink, b.addrs, itab[dp].ref, p)
  <2>1. Uses(q, dp) > Unread(q, dp)
    BY <1>2, <1>3, <1>5, <1>10 DEF I
  <2> QED BY <1>1, <1>3, <2>1, HeldIs
<1>15. a.type # "none" /\ b.type # "none" /\ disk.ents[dp][n] = i
  <2>1. a.type # "none" /\ b.type # "none"
    BY <1>2, <1>3, <1>5 DEF IInv, AllocatedRight
  <2> QED BY <1>1, <2>1 DEF IInv, SeenRight
<1> DEFINE m == b.nlink - I(a.type = "dir")
<1> HIDE DEF i, a, b, dp, l, n
<1>16. /\ t \in [Inums -> Copies] /\ (\A j \in Inums : j # dp => t[j] = l[j])
       /\ Holds(t[dp], b.type, m, b.addrs, itab[dp].ref, p)
  <2>1. l[dp] = itab[dp] /\ l[i].type = a.type
    BY <1>3, <1>13 DEF Holds
  <2>2. Holds(l[dp], b.type, b.nlink, b.addrs, itab[dp].ref, p)
    BY <1>14, <2>1
  <2>3. CASE dir
    <3>1. t = Linked(l, dp, -1) /\ m = b.nlink + -1
      BY <1>12, <2>1, <2>3 DEF I
    <3> HIDE DEF t, m
    <3>2. /\ Linked(l, dp, -1) \in [Inums -> Copies]
          /\ (\A j \in Inums : j # dp => Linked(l, dp, -1)[j] = l[j])
          /\ Holds(Linked(l, dp, -1)[dp], b.type, b.nlink + -1, b.addrs, itab[dp].ref, p)
      <4>1. -1 \in Int /\ dp \in Inums /\ l \in [Inums -> Copies]
        BY <1>3, <1>13
      <4> HIDE DEF dir
      <4> QED BY <2>2, <4>1, LinkedIs, ZenonT(60) DEF Written
    <3> QED BY <3>1, <3>2
  <2>4. CASE ~dir
    <3>1. t = l /\ m = b.nlink
      BY <1>12, <2>1, <2>4 DEF I
    <3> HIDE DEF t, m
    <3> QED BY <1>13, <2>2, <3>1
  <2> QED BY <2>3, <2>4
<1> HIDE DEF t, m
<1>17. /\ itab' \in [Inums -> Copies] /\ (\A j \in Inums : j # i /\ j # dp => itab'[j] = itab[j])
       /\ Holds(itab'[i], a.type, a.nlink, a.addrs, itab[i].ref, p)
       /\ Holds(itab'[dp], b.type, m, b.addrs, itab[dp].ref, 0)
  <2>1. /\ iunlock(t, dp) \in [Inums -> Copies] /\ (\A j \in Inums : j # dp => iunlock(t, dp)[j] = t[j])
        /\ Holds(iunlock(t, dp)[dp], b.type, m, b.addrs, itab[dp].ref, 0)
    BY <1>3, <1>16, OpenIs, ZenonT(60) DEF Written
  <2>2. itab' = iunlock(t, dp)
    BY <1>1
  <2> QED BY <1>3, <1>13, <1>16, <2>1, <2>2
<1>18. /\ d \in Disks /\ d.inode = disk.inode /\ d.used = disk.used /\ d.lost = disk.lost
       /\ d.ents = [disk.ents EXCEPT ![dp][n] = 0]
       /\ \A j \in Inums : j # dp => d.ents[j] = disk.ents[j]
  <2> DEFINE E == [disk.ents EXCEPT ![dp][n] = 0]
  <2>1. disk.ents \in [Inums -> [Names -> Inums \cup {0}]]
    BY <1>12 DEF Disks
  <2>2. E \in [Inums -> [Names -> Inums \cup {0}]] /\ \A j \in Inums : j # dp => E[j] = disk.ents[j]
    BY <1>3, <1>4, <2>1
  <2>3. d = [disk EXCEPT !.ents = E]
    BY <1>1, <1>12 DEF Disks
  <2> HIDE DEF E, d
  <2>4. d \in Disks /\ d.inode = disk.inode /\ d.used = disk.used /\ d.lost = disk.lost /\ d.ents = E
    BY <1>12, <2>2, <2>3 DEF Disks
  <2> QED BY <2>2, <2>4 DEF E
<1> HIDE DEF d
<1>19. /\ disk' \in Disks /\ disk'.used = disk.used /\ disk'.lost = disk.lost
       /\ disk'.ents = [disk.ents EXCEPT ![dp][n] = 0]
       /\ (\A j \in Inums : j # dp => disk'.ents[j] = disk.ents[j] /\ disk'.inode[j] = disk.inode[j])
       /\ disk'.inode[dp].type = b.type /\ disk'.inode[dp].nlink = m /\ disk'.inode[dp].addrs = b.addrs
  <2>1. Updated(iupdate(d, t, dp), d, dp, b.type, m, b.addrs)
    BY <1>3, <1>16, <1>18, UpdateIs, ZenonT(60)
  <2>2. disk' = iupdate(d, t, dp)
    BY <1>1
  <2> QED BY <1>18, <2>1, <2>2 DEF Updated
<1>20. \A j \in Inums : itab'[j].ref = itab[j].ref + Uses(Q, j) - Uses(q, j)
  <2>1. \A j \in Inums : itab'[j].ref = itab[j].ref
    BY <1>17 DEF Holds
  <2> QED BY <1>2, <1>10, <1>12, <2>1
<1>21. \A j \in Inums : Uses(Q, j) - Uses(q, j) \in {0, 1}
  BY <1>2, <1>10
<1>22. \A j \in Inums : LockStep(p, Q, j)
  <2>1. \A j \in Inums : j \in Locks(Q) <=> j = i
    BY <1>3, <1>7 DEF Locks, PcLock, PutLock, i
  <2> QED BY <1>2, <1>3, <1>17, <2>1 DEF LockStep, Holds
<1>23. \A j \in Inums : CopyStep(p, j)
  BY <1>2, <1>3, <1>5, <1>17, <1>19 DEF CopyStep, Same, Holds, a, b
<1>24. \A j \in Inums : disk'.inode[j].type = disk.inode[j].type
  BY <1>19 DEF b
<1>25. \A j \in Inums : DiskStep(p, j)
  BY <1>2, <1>3, <1>5, <1>19, <1>24 DEF DiskStep
<1>26. \A j \in Inums : /\ Cardinality(Owed'[j]) \in Nat /\ Cardinality(Owed[j]) \in Nat
                        /\ Cardinality(Owed'[j]) = Cardinality(Owed[j]) + I(i = j)
  <2> SUFFICES ASSUME NEW j \in Inums
               PROVE  /\ Cardinality(Owed'[j]) \in Nat /\ Cardinality(Owed[j]) \in Nat
                      /\ Cardinality(Owed'[j]) = Cardinality(Owed[j]) + I(i = j)
    OBVIOUS
  <2>1. /\ Cardinality(Owed'[j]) \in Nat /\ Cardinality(Owed[j]) \in Nat
        /\ Cardinality(Owed'[j]) = Cardinality(Owed[j]) + I(Owes(Q, j)) - I(Owes(q, j))
    BY <1>11, OwedIs
  <2>2. (Owes(Q, j) <=> i = j) /\ ~Owes(q, j)
    BY <1>1, <1>7 DEF Owes, i
  <2> QED BY <2>1, <2>2 DEF I
<1>27. ASSUME NEW j \in Inums
       PROVE  /\ Named(disk', j) \subseteq Named(disk, j)
              /\ Cardinality(Named(disk', j)) = Cardinality(Named(disk, j)) - I(i = j)
              /\ Cardinality(Kids(disk', j)) = Cardinality(Kids(disk, j)) - I(dp = j /\ disk.inode[i].type = "dir")
  <2>1. /\ disk' \in Disks /\ dp \in Inums /\ n \in Names /\ i \in Inums /\ disk.ents[dp][n] = i
        /\ disk'.ents = [disk.ents EXCEPT ![dp][n] = 0]
    BY <1>3, <1>4, <1>15, <1>19
  <2> QED BY <1>24, <2>1, EntryRemoved, SMTT(60)
<1>28. LinksRight(disk', Owed')
  <2>1. ASSUME NEW j \in Inums
        PROVE  disk'.inode[j].nlink = disk.inode[j].nlink
                                  + (Cardinality(Named(disk', j)) - Cardinality(Named(disk, j)))
                                  + (Cardinality(Kids(disk', j)) - Cardinality(Kids(disk, j)))
                                  + (Cardinality(Owed'[j]) - Cardinality(Owed[j]))
    <3> DEFINE k == disk.inode[j].nlink  k2 == disk'.inode[j].nlink  x == Cardinality(Named(disk, j))
               x2 == Cardinality(Named(disk', j))  y == Cardinality(Kids(disk, j))
               y2 == Cardinality(Kids(disk', j))  o == Cardinality(Owed[j])  o2 == Cardinality(Owed'[j])
               z == I(dp = j /\ disk.inode[i].type = "dir")  w == I(i = j)
    <3>1. k2 = k - z /\ k \in Int /\ z \in Int /\ w \in Int
      BY <1>12, <1>19 DEF Disks, InodesOf, I, m, a, b
    <3>2. x \in Nat /\ y \in Nat /\ o \in Nat /\ o2 = o + w /\ x2 = x - w /\ y2 = y - z
      BY <1>26, <1>27, NamedFinite
    <3> HIDE DEF k, k2, x, y, o, o2, x2, y2, z, w
    <3>3. k2 = k + (x2 - x) + (y2 - y) + (o2 - o)
      BY <3>1, <3>2
    <3> QED BY <3>3 DEF k, k2, x, y, o, o2, x2, y2
  <2>2. \A j \in Inums : disk'.inode[j].type = "none" => disk'.inode[j] = disk.inode[j] /\ disk'.ents[j] = disk.ents[j]
    BY <1>15, <1>19
  <2>3. \A j \in Inums : disk'.inode[j].type = "dir" => \A e, f \in Named(disk', j) : e = f
    BY <1>24, <1>27 DEF IInv, TreesRight, LinksRight
  <2>4. \A j \in Inums : Cardinality(Owed'[j]) \in Nat
    BY <1>26
  <2> QED BY <1>19, <1>24, <2>1, <2>2, <2>3, <2>4, LinksMove
<1>29. BlocksRight(disk')
  <2>1. \A j \in Inums : disk'.inode[j].addrs = disk.inode[j].addrs
    BY <1>19 DEF b
  <2> QED BY <1>19, <2>1, BlocksStay
<1>30. /\ \A j \in Inums : Uses(Q, j) > Uses(q, j) => disk.inode[j].nlink # 0
       /\ \A j \in Inums : Uses(Q, j) > Unread(Q, j) => itab'[j].valid \/ Uses(q, j) > Unread(q, j)
  <2>1. \A j \in Inums : Uses(Q, j) > Uses(q, j) => disk.inode[j].nlink # 0
    BY <1>2, <1>10
  <2>2. ASSUME NEW j \in Inums, Uses(Q, j) > Unread(Q, j)
        PROVE  itab'[j].valid \/ Uses(q, j) > Unread(q, j)
    <3>1. CASE j = i
      BY <1>17, <3>1 DEF Holds
    <3>2. CASE j # i
      BY <1>2, <1>10, <2>2, <3>2 DEF I
    <3> QED BY <3>1, <3>2
  <2> QED BY <2>1, <2>2
<1>31. /\ q.pc # "idle" /\ q.pc # "made" /\ Q.freeing = "no"
       /\ Q.pc # "idle" /\ Q.pc # "made" /\ Q.pc # "child" /\ Q.pc \notin {"walk", "dir"}
  BY <1>1, <1>7
<1> QED BY <1>1, <1>9, <1>11, <1>17, <1>19, <1>20, <1>21, <1>22, <1>23, <1>25, <1>28, <1>29, <1>30, <1>31, WriteKeeps, ZenonT(60)

LEMMA GotIs ==
    ASSUME NEW t \in [Inums -> Copies], NEW i \in Inums
    PROVE  /\ iget(t, i) \in [Inums -> Copies]
           /\ \A j \in Inums : j # i => iget(t, i)[j] = t[j]
           /\ iget(t, i)[i].ref = t[i].ref + 1 /\ iget(t, i)[i].lock = t[i].lock /\ t[i].ref \in Nat
           /\ iget(t, i)[i].valid => t[i].ref > 0 /\ t[i].valid
           /\ t[i].ref > 0 => iget(t, i)[i].valid = t[i].valid /\ Same(iget(t, i)[i], t[i])
<1>1. t[i] \in Copies /\ t[i].ref \in Nat
  <2>1. t[i] \in Copies
    OBVIOUS
  <2> QED BY <2>1 DEF Copies
<1>2. CASE t[i].ref > 0
  <2> DEFINE r == t[i].ref + 1  c == [t[i] EXCEPT !.ref = r]
  <2>1. r \in Nat
    BY <1>1
  <2>2. iget(t, i) = [t EXCEPT ![i] = c]
    BY <1>2 DEF iget
  <2> HIDE DEF r
  <2>3. c \in Copies /\ c.ref = r /\ c.lock = t[i].lock /\ c.valid = t[i].valid /\ Same(c, t[i])
    BY <1>1, <2>1 DEF Copies, Same
  <2> HIDE DEF c
  <2>4. iget(t, i) \in [Inums -> Copies] /\ iget(t, i)[i] = c /\ \A j \in Inums : j # i => iget(t, i)[j] = t[j]
    BY <2>2, <2>3
  <2> QED BY <1>1, <1>2, <2>3, <2>4 DEF r
<1>3. CASE t[i].ref = 0
  <2> DEFINE c == [t[i] EXCEPT !.ref = 1, !.valid = FALSE]
  <2>1. iget(t, i) = [t EXCEPT ![i] = c]
    <3>1. ~(t[i].ref > 0)
      BY <1>3
    <3>2. iget(t, i) = [t EXCEPT ![i].ref = 1, ![i].valid = FALSE]
      BY <3>1 DEF iget
    <3>3. [t EXCEPT ![i].ref = 1, ![i].valid = FALSE] = [t EXCEPT ![i] = c]
      OBVIOUS
    <3> QED BY <3>2, <3>3
  <2>2. c \in Copies /\ c.ref = 1 /\ c.lock = t[i].lock /\ c.valid = FALSE
    BY <1>1 DEF Copies
  <2> HIDE DEF c
  <2>3. iget(t, i) \in [Inums -> Copies] /\ iget(t, i)[i] = c /\ \A j \in Inums : j # i => iget(t, i)[j] = t[j]
    BY <2>1, <2>2
  <2> QED BY <1>1, <1>3, <2>2, <2>3
<1> QED BY <1>1, <1>2, <1>3

\* link() counts the link that it is going to make.
LEMMA FoundLinks ==
    ASSUME IInv, NEW p \in Procs, Found(p),
           Op(p).do = "link" /\ ilock(itab, disk, ps[p].ip, p)[ps[p].ip].type # "dir"
    PROVE  IInv'
<1> DEFINE q == ps[p]  i == q.ip  a == disk.inode[i]  l == ilock(itab, disk, i, p)  t == Linked(l, i, 1)
           u == iunlock(t, i)
<1>1. /\ q.pc = "found" /\ q.puts = <<>> /\ itab[i].lock = 0 /\ q.op.do = "link"
      /\ disk' = iupdate(disk, t, i) /\ itab' = iget(u, ROOTINO)
      /\ Becomes(p, [Goto(p, "walk") EXCEPT !.cur = ROOTINO, !.path = q.op.to, !.new = TRUE]) /\ Keep
  BY DEF Found, At, Me, CanLock, Op
<1>2. /\ q \in States /\ StepRight(q) /\ q.freeing = "no" /\ p # 0 /\ p \in inop
      /\ \A j \in Inums : /\ PutN(q.puts, j) = 0 /\ Live(q, j) = Uses(q, j) /\ Uses(q, j) \in 0..6
                          /\ Unread(q, j) \in Nat
      /\ \A j \in Inums : j \in Locks(q) <=> j = PcLock(q)
      /\ \A j \in Inums : itab[j].lock = p <=> j = PcLock(q)
  BY <1>1, AtIs
<1>3. /\ i \in Inums /\ 0 \notin Inums /\ q.op \in Calls /\ itab[i].lock \in {0, p} /\ PcLock(q) = 0
      /\ HasIp(q) /\ ROOTINO \in Inums
  BY <1>1, <1>2, InodesAssumption DEF StepRight, States, HasIp, PcLock, ROOTINO
<1>4. q.op.to \in Seq(Names) /\ q.op.to # <<>>
  BY <1>1, <1>3, CallIs
<1>5. Uses(q, i) > 0
  <2>1. I(HasIp(q) /\ q.ip = i) = 1
    BY <1>3 DEF I
  <2> QED BY <1>2, <1>3, <2>1 DEF Uses, I
<1>6. PICK Q \in States : Q = [Goto(p, "walk") EXCEPT !.cur = ROOTINO, !.path = q.op.to, !.new = TRUE]
  BY <1>2, <1>3, <1>4 DEF States, Steps, Goto, Me
<1>7. /\ Q.pc = "walk" /\ Q.op = q.op /\ Q.ip = q.ip /\ Q.dp = q.dp /\ Q.puts = <<>> /\ Q.path = q.op.to
      /\ Q.freeing = "no" /\ Q.new = TRUE /\ Q.fd = q.fd /\ Q.cur = ROOTINO
  BY <1>1, <1>2, <1>6 DEF States, Goto, Me
<1>8. StepRight(Q)
  BY <1>1, <1>2, <1>3, <1>4, <1>7, PutNone DEF StepRight, HasIp, HasDp, PutLock, PcLock
<1>9. \A j \in Inums : /\ Uses(Q, j) = Uses(q, j) + I(ROOTINO = j)
                       /\ Unread(Q, j) = I(ROOTINO = j) /\ Unread(q, j) = I(i = j)
  BY <1>1, <1>2, <1>7, PutNone DEF Uses, HasIp, HasDp, I, Unread
<1>10. ps' = [ps EXCEPT ![p] = Q]
  BY <1>1, <1>6 DEF Becomes
<1>11. /\ disk \in Disks /\ itab \in [Inums -> Copies] /\ (\A j \in Inums : itab[j].ref \in Nat)
       /\ a.nlink \in Int /\ disk.inode[ROOTINO].nlink # 0
  <2>1. disk.inode[ROOTINO].nlink # 0
    BY <1>3, Linkeds
  <2> QED BY <1>3, <2>1 DEF IInv, InodesTypeOK, Disks, InodesOf, Copies
<1>12. /\ l \in [Inums -> Copies] /\ (\A j \in Inums : j # i => l[j] = itab[j])
       /\ Holds(l[i], a.type, a.nlink, a.addrs, itab[i].ref, p)
  BY <1>1, <1>3, <1>5, LockedIs
<1> HIDE DEF i, a, l
<1>13. /\ t \in [Inums -> Copies] /\ (\A j \in Inums : j # i => t[j] = l[j])
       /\ Holds(t[i], a.type, a.nlink + 1, a.addrs, itab[i].ref, p)
  <2>1. 1 \in Int /\ i \in Inums /\ l \in [Inums -> Copies]
    BY <1>3, <1>12
  <2>2. Holds(l[i], a.type, a.nlink, a.addrs, itab[i].ref, p)
    BY <1>12
  <2> DEFINE k == 1
  <2>3. t = Linked(l, i, k) /\ k \in Int
    BY <2>1
  <2> HIDE DEF q, t, u, k
  <2>4. Written(Linked(l, i, k), l, i, a.type, a.nlink + k, a.addrs, itab[i].ref, p)
    BY <2>1, <2>2, <2>3, LinkedIs, ZenonT(60)
  <2> QED BY <2>3, <2>4 DEF k, Written
<1> HIDE DEF t
<1>14. /\ u \in [Inums -> Copies] /\ (\A j \in Inums : j # i => u[j] = itab[j])
       /\ Holds(u[i], a.type, a.nlink + 1, a.addrs, itab[i].ref, 0)
  <2>1. /\ iunlock(t, i) \in [Inums -> Copies] /\ (\A j \in Inums : j # i => iunlock(t, i)[j] = t[j])
        /\ Holds(iunlock(t, i)[i], a.type, a.nlink + 1, a.addrs, itab[i].ref, 0)
    BY <1>3, <1>13, OpenIs, ZenonT(60) DEF Written
  <2> QED BY <1>12, <1>13, <2>1
<1> HIDE DEF u
<1>15. /\ disk' \in Disks /\ disk'.ents = disk.ents /\ disk'.used = disk.used /\ disk'.lost = disk.lost
       /\ (\A j \in Inums : j # i => disk'.inode[j] = disk.inode[j])
       /\ disk'.inode[i].type = a.type /\ disk'.inode[i].nlink = a.nlink + 1 /\ disk'.inode[i].addrs = a.addrs
  <2>1. Updated(iupdate(disk, t, i), disk, i, a.type, a.nlink + 1, a.addrs)
    BY <1>3, <1>11, <1>13, UpdateIs, ZenonT(60)
  <2>2. disk' = iupdate(disk, t, i)
    BY <1>1
  <2> QED BY <2>1, <2>2 DEF Updated
<1>16. /\ itab' \in [Inums -> Copies] /\ (\A j \in Inums : j # ROOTINO => itab'[j] = u[j])
       /\ itab'[ROOTINO].ref = u[ROOTINO].ref + 1 /\ itab'[ROOTINO].lock = u[ROOTINO].lock
       /\ u[ROOTINO].ref \in Nat
       /\ (itab'[ROOTINO].valid => u[ROOTINO].ref > 0 /\ u[ROOTINO].valid)
       /\ (u[ROOTINO].ref > 0 => itab'[ROOTINO].valid = u[ROOTINO].valid /\ Same(itab'[ROOTINO], u[ROOTINO]))
  BY <1>1, <1>3, <1>14, GotIs
<1>17. \A j \in Inums : u[j].ref = itab[j].ref /\ u[j].lock = itab[j].lock
  BY <1>1, <1>14 DEF Holds, i
<1>18. \A j \in Inums : itab'[j].ref = itab[j].ref + Uses(Q, j) - Uses(q, j)
  <2>1. \A j \in Inums : itab'[j].ref = itab[j].ref + I(ROOTINO = j)
    BY <1>11, <1>16, <1>17 DEF I
  <2> QED BY <1>2, <1>9, <1>11, <2>1 DEF I
<1>19. \A j \in Inums : Uses(Q, j) - Uses(q, j) \in {0, 1}
  BY <1>2, <1>9 DEF I
<1>20. \A j \in Inums : LockStep(p, Q, j)
  <2>1. \A j \in Inums : j \notin Locks(Q)
    BY <1>3, <1>7 DEF Locks, PcLock, PutLock
  <2>2. \A j \in Inums : itab'[j].lock = itab[j].lock
    BY <1>16, <1>17
  <2> QED BY <1>2, <1>3, <2>1, <2>2 DEF LockStep
<1>21. \A j \in Inums : /\ itab'[j].valid => u[j].valid /\ Same(itab'[j], u[j])
                        /\ u[j].ref > 0 /\ u[j].valid => itab'[j].valid
                        /\ itab'[j].valid /\ j # i => itab[j].ref > 0 \/ itab'[j].ref = itab[j].ref
  BY <1>14, <1>16 DEF Same
<1>22. itab[i].ref > 0
  <2>1. Uses(q, i) <= itab[i].ref
    BY <1>3, Counted
  <2> QED BY <1>2, <1>3, <1>5, <1>11, <2>1
<1>23. \A j \in Inums : CopyStep(p, j)
  <2> SUFFICES ASSUME NEW j \in Inums PROVE CopyStep(p, j)
    OBVIOUS
  <2>1. CASE j = i
    <3>1. itab'[i].valid /\ Same(itab'[i], disk'.inode[i])
      BY <1>3, <1>14, <1>15, <1>17, <1>21, <1>22 DEF Same, Holds
    <3> QED BY <1>2, <1>3, <1>5, <2>1, <3>1 DEF CopyStep
  <2>2. CASE j # i
    <3>1. u[j] = itab[j] /\ disk'.inode[j] = disk.inode[j]
      BY <1>14, <1>15, <2>2
    <3> QED BY <1>21, <2>2, <3>1 DEF CopyStep
  <2> QED BY <2>1, <2>2
<1>24. \A j \in Inums : disk'.inode[j].type = disk.inode[j].type
  BY <1>15 DEF a
<1>25. \A j \in Inums : DiskStep(p, j)
  BY <1>2, <1>5, <1>15, <1>24 DEF DiskStep
<1>26. a.type = "file"
  <2>1. a.type # "none"
    BY <1>2, <1>3, <1>5 DEF IInv, AllocatedRight, a
  <2>2. a.type # "dir"
    BY <1>12 DEF Holds, i, l
  <2>3. a.type \in Types
    BY <1>3, <1>11 DEF Disks, InodesOf, a
  <2> QED BY <2>1, <2>2, <2>3 DEF Types
<1>27. \A j \in Inums : /\ Cardinality(Owed'[j]) \in Nat /\ Cardinality(Owed[j]) \in Nat
                        /\ Cardinality(Owed'[j]) = Cardinality(Owed[j]) + I(i = j)
  <2> SUFFICES ASSUME NEW j \in Inums
               PROVE  /\ Cardinality(Owed'[j]) \in Nat /\ Cardinality(Owed[j]) \in Nat
                      /\ Cardinality(Owed'[j]) = Cardinality(Owed[j]) + I(i = j)
    OBVIOUS
  <2>1. /\ Cardinality(Owed'[j]) \in Nat /\ Cardinality(Owed[j]) \in Nat
        /\ Cardinality(Owed'[j]) = Cardinality(Owed[j]) + I(Owes(Q, j)) - I(Owes(q, j))
    BY <1>10, OwedIs
  <2>2. (Owes(Q, j) <=> i = j) /\ ~Owes(q, j)
    BY <1>1, <1>7 DEF Owes, i
  <2> QED BY <2>1, <2>2 DEF I
<1>28. \A j \in Inums : Named(disk', j) = Named(disk, j) /\ Kids(disk', j) = Kids(disk, j)
  BY <1>15, <1>24, EntriesStay
<1>29. LinksRight(disk', Owed')
  <2>1. ASSUME NEW j \in Inums
        PROVE  disk'.inode[j].nlink = disk.inode[j].nlink
                                  + (Cardinality(Named(disk', j)) - Cardinality(Named(disk, j)))
                                  + (Cardinality(Kids(disk', j)) - Cardinality(Kids(disk, j)))
                                  + (Cardinality(Owed'[j]) - Cardinality(Owed[j]))
    <3> DEFINE n == disk.inode[j].nlink  n2 == disk'.inode[j].nlink  x == Cardinality(Named(disk, j))
               y == Cardinality(Kids(disk, j))  o == Cardinality(Owed[j])  o2 == Cardinality(Owed'[j])
    <3>1. n2 = (IF j = i THEN n + 1 ELSE n) /\ n \in Int
      BY <1>11, <1>15 DEF a, Disks, InodesOf
    <3>2. x \in Nat /\ y \in Nat /\ o \in Nat /\ o2 = o + I(i = j)
      BY <1>27, NamedFinite
    <3> HIDE DEF n, n2, x, y, o, o2
    <3>3. n2 = n + (x - x) + (y - y) + (o2 - o)
      BY <3>1, <3>2 DEF I
    <3> QED BY <1>28, <3>3 DEF n, n2, x, y, o, o2
  <2>2. \A j \in Inums : disk'.inode[j].type = "none" => disk'.inode[j] = disk.inode[j] /\ disk'.ents[j] = disk.ents[j]
    BY <1>15, <1>26
  <2>3. \A j \in Inums : disk'.inode[j].type = "dir" => \A e, f \in Named(disk', j) : e = f
    BY <1>24, <1>28 DEF IInv, TreesRight, LinksRight
  <2>4. \A j \in Inums : Cardinality(Owed'[j]) \in Nat
    BY <1>27
  <2> QED BY <1>15, <1>24, <2>1, <2>2, <2>3, <2>4, LinksMove
<1>30. BlocksRight(disk')
  <2>1. \A j \in Inums : disk'.inode[j].addrs = disk.inode[j].addrs
    BY <1>15 DEF a
  <2> QED BY <1>15, <2>1, BlocksStay
<1>31. \A j \in Inums : Uses(Q, j) > Uses(q, j) => disk.inode[j].nlink # 0
  BY <1>2, <1>9, <1>11 DEF I
<1>32. ASSUME NEW j \in Inums, Uses(Q, j) > Unread(Q, j)
       PROVE  itab'[j].valid \/ Uses(q, j) > Unread(q, j)
  <2>1. CASE j = i
    BY <1>3, <1>14, <1>17, <1>21, <1>22, <2>1 DEF Holds
  <2>2. CASE j # i
    BY <1>2, <1>9, <1>32, <2>2 DEF I
  <2> QED BY <2>1, <2>2
<1>33. Q.new /\ Q.pc \in {"walk", "dir"} => disk'.inode[Q.ip].type = "file"
  BY <1>7, <1>15, <1>26 DEF i
<1>34. /\ q.pc # "idle" /\ q.pc # "made" /\ Q.freeing = "no"
       /\ Q.pc # "idle" /\ Q.pc # "made" /\ Q.pc # "child"
  BY <1>1, <1>7
<1> QED BY <1>1, <1>8, <1>10, <1>15, <1>16, <1>18, <1>19, <1>20, <1>23, <1>25, <1>29, <1>30, <1>31, <1>32, <1>33, <1>34, WriteKeeps, ZenonT(60)

\* create() with the inode that it has claimed.
LEMMA MadeIs ==
    ASSUME IInv, NEW p \in Procs, create_link(p)
    PROVE  LET q == ps[p]  i == q.ip  dp == q.dp  a == disk.inode[i]  e == disk.inode[dp]
               l == ilock(itab, disk, i, p)
           IN  /\ q.pc = "made" /\ q.puts = <<>> /\ itab[i].lock = 0 /\ itab[dp].lock = p /\ Keep
               /\ q \in States /\ StepRight(q) /\ q.freeing = "no" /\ p # 0
               /\ \A j \in Inums : /\ Live(q, j) = Uses(q, j) /\ Uses(q, j) \in 0..6
                                   /\ Unread(q, j) = I(i = j)
               /\ i \in Inums /\ dp \in Inums /\ i # dp /\ 0 \notin Inums /\ q.op \in Calls
               /\ Last1(p) \in Names /\ ~(q.new /\ q.pc \in {"walk", "dir"})
               /\ Uses(q, i) > 0 /\ Uses(q, dp) > 0
               /\ a.type = Type(p) /\ a.nlink = 0 /\ a.addrs = {} /\ disk.ents[dp][Last1(p)] = 0
               /\ l \in [Inums -> Copies] /\ \A j \in Inums : j # i => l[j] = itab[j]
               /\ Holds(l[i], Type(p), 0, {}, itab[i].ref, p)
               /\ Holds(l[dp], e.type, e.nlink, e.addrs, itab[dp].ref, p)
               /\ e.type # "none" /\ Named(disk, i) = {}
<1> DEFINE q == ps[p]  i == q.ip  dp == q.dp  a == disk.inode[i]  e == disk.inode[dp]
           l == ilock(itab, disk, i, p)
<1>1. q.pc = "made" /\ q.puts = <<>> /\ itab[i].lock = 0 /\ Keep
  BY DEF create_link, At, Me, CanLock
<1>2. /\ q \in States /\ StepRight(q) /\ q.freeing = "no" /\ p # 0
      /\ \A j \in Inums : /\ PutN(q.puts, j) = 0 /\ Live(q, j) = Uses(q, j) /\ Uses(q, j) \in 0..6
      /\ \A j \in Inums : itab[j].lock = p <=> j = PcLock(q)
  BY <1>1, AtIs
<1>3. /\ i \in Inums /\ dp \in Inums /\ 0 \notin Inums /\ PcLock(q) = dp
      /\ HasIp(q) /\ HasDp(q) /\ q.op \in Calls /\ itab[dp].lock = p /\ i # dp
  BY <1>1, <1>2, InodesAssumption DEF StepRight, States, HasIp, HasDp, PcLock
<1>4. Last1(p) \in Names
  BY <1>1, <1>2, LastIs DEF StepRight, States, Last1, Me
<1>5. Uses(q, dp) > 0 /\ Uses(q, i) > 0
  <2>1. I(HasDp(q) /\ q.dp = dp) = 1 /\ I(HasIp(q) /\ q.ip = i) = 1
    BY <1>3 DEF I
  <2> QED BY <1>2, <1>3, <2>1 DEF Uses, I
<1>6. \A j \in Inums : Unread(q, j) = I(i = j)
  BY <1>1 DEF Unread, I
<1>7. a.type = Type(p) /\ a.nlink = 0 /\ a.addrs = {} /\ disk.ents[dp][Last1(p)] = 0
  BY <1>1 DEF IInv, MadeRight
<1>8. /\ l \in [Inums -> Copies] /\ (\A j \in Inums : j # i => l[j] = itab[j])
      /\ Holds(l[i], a.type, a.nlink, a.addrs, itab[i].ref, p)
  <2>1. itab[i].lock \in {0, p}
    BY <1>1
  <2> QED BY <1>1, <1>3, <1>5, <2>1, LockedIs
<1>9. Holds(itab[dp], e.type, e.nlink, e.addrs, itab[dp].ref, p)
  <2>1. Uses(q, dp) > Unread(q, dp)
    BY <1>2, <1>3, <1>5, <1>6 DEF I
  <2> QED BY <1>1, <1>3, <2>1, HeldIs
<1>10. e.type # "none"
  BY <1>2, <1>3, <1>5 DEF IInv, AllocatedRight
<1>11. Named(disk, i) = {}
  BY <1>3, <1>7, Linkeds
<1>12. l[dp] = itab[dp]
  BY <1>3, <1>8
<1> HIDE DEF l, e, a, i, dp
<1>13. Holds(l[i], Type(p), 0, {}, itab[i].ref, p) /\ Holds(l[dp], e.type, e.nlink, e.addrs, itab[dp].ref, p)
  BY <1>7, <1>8, <1>9, <1>12
<1>14. ~(q.new /\ q.pc \in {"walk", "dir"})
  BY <1>1
<1> QED BY <1>1, <1>2, <1>3, <1>4, <1>5, <1>6, <1>7, <1>8, <1>10, <1>11, <1>13, <1>14 DEF l, e, a, i, dp

\* mkdir() without a block for the entries of the directory.
LEMMA CreateGivesUp ==
    ASSUME IInv, NEW p \in Procs, create_link(p), Type(p) = "dir", FreeBlocks(disk) = {}
    PROVE  IInv'
<1> DEFINE q == ps[p]  i == q.ip  dp == q.dp  a == disk.inode[i]  l == ilock(itab, disk, i, p)
           t == Linked(l, i, 1)  u == Linked(t, i, -1)
<1>1. /\ disk' = iupdate(disk, u, i) /\ itab' = iunlock(u, i) /\ Becomes(p, PutThen(p, <<i>>, "fail"))
  BY DEF create_link, Me
<1>2. /\ q.pc = "made" /\ q.puts = <<>> /\ itab[i].lock = 0 /\ itab[dp].lock = p /\ Keep
      /\ q \in States /\ StepRight(q) /\ q.freeing = "no" /\ p # 0
      /\ (\A j \in Inums : /\ Live(q, j) = Uses(q, j) /\ Uses(q, j) \in 0..6
                           /\ Unread(q, j) = I(i = j))
      /\ i \in Inums /\ dp \in Inums /\ i # dp /\ 0 \notin Inums /\ q.op \in Calls
      /\ ~(q.new /\ q.pc \in {"walk", "dir"}) /\ Uses(q, i) > 0
      /\ a.type = Type(p) /\ a.nlink = 0 /\ a.addrs = {}
      /\ l \in [Inums -> Copies] /\ (\A j \in Inums : j # i => l[j] = itab[j])
      /\ Holds(l[i], Type(p), 0, {}, itab[i].ref, p)
  BY MadeIs
<1>3. PICK Q \in States : Q = PutThen(p, <<i>>, "fail")
  BY <1>2, PutOne DEF States, Steps, PutThen, Me
<1>4. /\ Q.pc = "fail" /\ Q.op = q.op /\ Q.ip = q.ip /\ Q.dp = q.dp /\ Q.puts = <<i>>
      /\ Q.freeing = "no" /\ Q.new = q.new /\ Q.fd = q.fd
  BY <1>2, <1>3 DEF States, PutThen, Me
<1>5. Len(Q.puts) <= 2 /\ \A j \in Inums : PutN(Q.puts, j) = I(i = j)
  BY <1>2, <1>4, PutOne
<1>6. StepRight(Q)
  BY <1>2, <1>4, <1>5 DEF StepRight, HasIp, HasDp, PutLock, PcLock
<1>7. \A j \in Inums : Uses(Q, j) = Uses(q, j) /\ Unread(Q, j) = 0
  BY <1>2, <1>4, <1>5, PutNone DEF Uses, HasIp, HasDp, I, Unread
<1>8. ps' = [ps EXCEPT ![p] = Q]
  BY <1>1, <1>3 DEF Becomes
<1>9. disk \in Disks /\ itab \in [Inums -> Copies] /\ \A j \in Inums : itab[j].ref \in Nat
  BY DEF IInv, InodesTypeOK, Copies
<1>10. (\A j \in Inums : itab[j].lock = p <=> j = dp) /\ \A j \in Inums : j \in Locks(q) <=> j = dp
  BY <1>2, AtIs DEF PcLock
<1> HIDE DEF i, dp, a, l
<1>11. Written(u, l, i, Type(p), 0, {}, itab[i].ref, p)
  <2> DEFINE k == 1  m == -1
  <2>1. k \in Int /\ m \in Int /\ t = Linked(l, i, k) /\ u = Linked(t, i, m) /\ 0 + k + m = 0
    OBVIOUS
  <2> HIDE DEF k, m, t, u, q
  <2>2. i \in Inums /\ l \in [Inums -> Copies] /\ Holds(l[i], Type(p), 0, {}, itab[i].ref, p)
    BY <1>2
  <2>3. Written(Linked(l, i, k), l, i, Type(p), 0 + k, {}, itab[i].ref, p)
    BY <2>1, <2>2, LinkedIs, ZenonT(60)
  <2>4. t \in [Inums -> Copies] /\ Holds(t[i], Type(p), 0 + k, {}, itab[i].ref, p) /\ \A j \in Inums : j # i => t[j] = l[j]
    BY <2>1, <2>3 DEF Written
  <2>5. Written(Linked(t, i, m), t, i, Type(p), 0 + k + m, {}, itab[i].ref, p)
    BY <2>1, <2>2, <2>4, LinkedIs, ZenonT(60)
  <2> QED BY <2>1, <2>4, <2>5 DEF Written
<1> HIDE DEF t, u
<1>12. /\ u \in [Inums -> Copies] /\ (\A j \in Inums : j # i => u[j] = itab[j])
       /\ Holds(u[i], Type(p), 0, {}, itab[i].ref, p)
  BY <1>2, <1>11 DEF Written
<1>13. /\ itab' \in [Inums -> Copies] /\ (\A j \in Inums : j # i => itab'[j] = itab[j])
       /\ Holds(itab'[i], Type(p), 0, {}, itab[i].ref, 0)
  <2>1. Written(iunlock(u, i), u, i, Type(p), 0, {}, itab[i].ref, 0)
    BY <1>2, <1>12, OpenIs, ZenonT(60)
  <2>2. itab' = iunlock(u, i)
    BY <1>1
  <2> QED BY <1>12, <2>1, <2>2 DEF Written
<1>14. /\ disk' \in Disks /\ disk'.ents = disk.ents /\ disk'.used = disk.used /\ disk'.lost = disk.lost
       /\ (\A j \in Inums : j # i => disk'.inode[j] = disk.inode[j])
       /\ disk'.inode[i].type = a.type /\ disk'.inode[i].nlink = a.nlink /\ disk'.inode[i].addrs = a.addrs
  <2>1. Updated(iupdate(disk, u, i), disk, i, Type(p), 0, {})
    BY <1>2, <1>9, <1>12, UpdateIs, ZenonT(60)
  <2>2. disk' = iupdate(disk, u, i)
    BY <1>1
  <2> QED BY <1>2, <2>1, <2>2 DEF Updated
<1>15. \A j \in Inums : itab'[j].ref = itab[j].ref + Uses(Q, j) - Uses(q, j)
  <2>1. \A j \in Inums : itab'[j].ref = itab[j].ref
    BY <1>13 DEF Holds
  <2> QED BY <1>2, <1>7, <1>9, <2>1
<1>16. \A j \in Inums : Uses(Q, j) - Uses(q, j) \in {0, 1}
  BY <1>2, <1>7
<1>17. \A j \in Inums : LockStep(p, Q, j)
  <2>1. \A j \in Inums : j \in Locks(Q) <=> j = dp
    BY <1>2, <1>4 DEF Locks, PcLock, PutLock, dp
  <2> QED BY <1>2, <1>10, <1>13, <2>1 DEF LockStep, Holds
<1>18. \A j \in Inums : CopyStep(p, j)
  <2>1. itab'[i].valid /\ Same(itab'[i], disk'.inode[i]) /\ Live(q, i) > 0
    BY <1>2, <1>13, <1>14 DEF Same, Holds
  <2>2. \A j \in Inums : j # i => itab'[j] = itab[j] /\ disk'.inode[j] = disk.inode[j]
    BY <1>13, <1>14
  <2> QED BY <2>1, <2>2 DEF CopyStep, Same
<1>19. \A j \in Inums : /\ disk'.inode[j].type = disk.inode[j].type /\ disk'.inode[j].nlink = disk.inode[j].nlink
                        /\ disk'.inode[j].addrs = disk.inode[j].addrs
  BY <1>14 DEF a
<1>20. \A j \in Inums : DiskStep(p, j)
  BY <1>2, <1>14, <1>19 DEF DiskStep
<1>21. \A j \in Inums : /\ Cardinality(Owed'[j]) \in Nat /\ Cardinality(Owed[j]) \in Nat
                        /\ Cardinality(Owed'[j]) = Cardinality(Owed[j])
  <2> SUFFICES ASSUME NEW j \in Inums
               PROVE  /\ Cardinality(Owed'[j]) \in Nat /\ Cardinality(Owed[j]) \in Nat
                      /\ Cardinality(Owed'[j]) = Cardinality(Owed[j])
    OBVIOUS
  <2>1. /\ Cardinality(Owed'[j]) \in Nat /\ Cardinality(Owed[j]) \in Nat
        /\ Cardinality(Owed'[j]) = Cardinality(Owed[j]) + I(Owes(Q, j)) - I(Owes(q, j))
    BY <1>8, OwedIs
  <2>2. ~Owes(Q, j) /\ ~Owes(q, j)
    BY <1>2, <1>4 DEF Owes
  <2> QED BY <2>1, <2>2 DEF I
<1>22. \A j \in Inums : Named(disk', j) = Named(disk, j) /\ Kids(disk', j) = Kids(disk, j)
  BY <1>14, <1>19, EntriesStay
<1>23. LinksRight(disk', Owed')
  <2>1. ASSUME NEW j \in Inums
        PROVE  disk'.inode[j].nlink = disk.inode[j].nlink
                                  + (Cardinality(Named(disk', j)) - Cardinality(Named(disk, j)))
                                  + (Cardinality(Kids(disk', j)) - Cardinality(Kids(disk, j)))
                                  + (Cardinality(Owed'[j]) - Cardinality(Owed[j]))
    <3> DEFINE n == disk.inode[j].nlink  n2 == disk'.inode[j].nlink  x == Cardinality(Named(disk, j))
               y == Cardinality(Kids(disk, j))  o == Cardinality(Owed[j])  o2 == Cardinality(Owed'[j])
    <3>1. n2 = n /\ n \in Int
      BY <1>9, <1>19 DEF Disks, InodesOf
    <3>2. x \in Nat /\ y \in Nat /\ o \in Nat /\ o2 = o
      BY <1>21, NamedFinite
    <3> HIDE DEF n, n2, x, y, o, o2
    <3>3. n2 = n + (x - x) + (y - y) + (o2 - o)
      BY <3>1, <3>2
    <3> QED BY <1>22, <3>3 DEF n, n2, x, y, o, o2
  <2>2. \A j \in Inums : disk'.inode[j].type = "none" => disk'.inode[j] = disk.inode[j] /\ disk'.ents[j] = disk.ents[j]
    BY <1>2, <1>14
  <2>3. \A j \in Inums : disk'.inode[j].type = "dir" => \A e, f \in Named(disk', j) : e = f
    BY <1>19, <1>22 DEF IInv, TreesRight, LinksRight
  <2>4. \A j \in Inums : Cardinality(Owed'[j]) \in Nat
    BY <1>21
  <2> QED BY <1>14, <1>19, <2>1, <2>2, <2>3, <2>4, LinksMove
<1>24. BlocksRight(disk')
  BY <1>14, <1>19, BlocksStay
<1>25. \A j \in Inums : Uses(Q, j) > Uses(q, j) => disk.inode[j].nlink # 0
  BY <1>2, <1>7
<1>26. ASSUME NEW j \in Inums, Uses(Q, j) > Unread(Q, j)
       PROVE  itab'[j].valid \/ Uses(q, j) > Unread(q, j)
  <2>1. CASE j = i
    BY <1>13, <2>1 DEF Holds
  <2>2. CASE j # i
    BY <1>2, <1>7, <1>26, <2>2 DEF I
  <2> QED BY <2>1, <2>2
<1>27. /\ q.pc # "idle" /\ (q.pc = "made" => itab[q.ip].lock = 0) /\ Q.freeing = "no"
       /\ Q.pc # "idle" /\ Q.pc # "made" /\ Q.pc # "child" /\ Q.pc \notin {"walk", "dir"}
  BY <1>2, <1>4 DEF i
<1> QED BY <1>2, <1>6, <1>8, <1>13, <1>14, <1>15, <1>16, <1>17, <1>18, <1>20, <1>23, <1>24, <1>25, <1>26, <1>27, WriteKeeps, ZenonT(60)

\* The new inode gets its entry, and a directory a block for entries of its own.
LEMMA CreateLinks ==
    ASSUME IInv, NEW p \in Procs, create_link(p), ~(Type(p) = "dir" /\ FreeBlocks(disk) = {})
    PROVE  IInv'
<1> DEFINE q == ps[p]  i == q.ip  dp == q.dp  n == Last1(p)  a == disk.inode[i]  e == disk.inode[dp]
           ty == Type(p)  l == ilock(itab, disk, i, p)  t == Linked(l, i, 1)  b == balloc(disk)
           t2 == IF ty = "dir" THEN Linked([t EXCEPT ![i].addrs = b.used \ disk.used], dp, 1) ELSE t
           c == IF ty = "dir" THEN b ELSE disk  d == [c EXCEPT !.ents[dp][n] = i]
           k == I(ty = "dir")
<1>1. /\ disk' = iupdate(iupdate(d, t2, i), t2, dp) /\ itab' = iunlock(t2, dp)
      /\ Becomes(p, PutThen(p, <<dp>>, "made2"))
  BY DEF create_link, Me
<1>2. /\ q.pc = "made" /\ q.puts = <<>> /\ itab[i].lock = 0 /\ itab[dp].lock = p /\ Keep
      /\ q \in States /\ StepRight(q) /\ q.freeing = "no" /\ p # 0
      /\ (\A j \in Inums : /\ Live(q, j) = Uses(q, j) /\ Uses(q, j) \in 0..6
                           /\ Unread(q, j) = I(i = j))
      /\ i \in Inums /\ dp \in Inums /\ i # dp /\ 0 \notin Inums /\ q.op \in Calls
      /\ n \in Names /\ ~(q.new /\ q.pc \in {"walk", "dir"}) /\ Uses(q, i) > 0 /\ Uses(q, dp) > 0
      /\ a.type = ty /\ a.nlink = 0 /\ a.addrs = {} /\ disk.ents[dp][n] = 0
      /\ l \in [Inums -> Copies] /\ (\A j \in Inums : j # i => l[j] = itab[j])
      /\ Holds(l[i], ty, 0, {}, itab[i].ref, p)
      /\ Holds(l[dp], e.type, e.nlink, e.addrs, itab[dp].ref, p)
      /\ e.type # "none" /\ Named(disk, i) = {}
  BY MadeIs
<1>3. PICK Q \in States : Q = PutThen(p, <<dp>>, "made2")
  BY <1>2, PutOne DEF States, Steps, PutThen, Me
<1>4. /\ Q.pc = "made2" /\ Q.op = q.op /\ Q.ip = q.ip /\ Q.dp = q.dp /\ Q.puts = <<dp>>
      /\ Q.freeing = "no" /\ Q.new = q.new /\ Q.fd = q.fd
  BY <1>2, <1>3 DEF States, PutThen, Me
<1>5. Len(Q.puts) <= 2 /\ \A j \in Inums : PutN(Q.puts, j) = I(dp = j)
  BY SMTT(60), <1>2, <1>4, PutOne
<1>6. StepRight(Q)
  BY <1>2, <1>4, <1>5 DEF StepRight, HasIp, HasDp, PutLock, PcLock
<1>7. \A j \in Inums : Uses(Q, j) = Uses(q, j) /\ Unread(Q, j) = 0
  <2> HIDE DEF q, i, dp, n, a, e, ty, l, t, b, t2, c, d, k
  <2>1. q.pc = "made" /\ Q.ip = q.ip /\ Q.dp = q.dp /\ q.ip = i /\ q.dp = dp
    BY <1>2, <1>4 DEF i, dp
  <2> QED BY <1>2, <1>4, <1>5, <2>1, PutNone DEF Uses, HasIp, HasDp, I, Unread
<1>8. ps' = [ps EXCEPT ![p] = Q]
  BY <1>1, <1>3 DEF Becomes
<1>9. /\ disk \in Disks /\ itab \in [Inums -> Copies] /\ (\A j \in Inums : itab[j].ref \in Nat)
      /\ e.nlink \in Int
  BY <1>2 DEF IInv, InodesTypeOK, Copies, Disks, InodesOf
<1>10. (\A j \in Inums : itab[j].lock = p <=> j = dp) /\ \A j \in Inums : j \in Locks(q) <=> j = dp
  BY SMTT(60), <1>2, AtIs DEF PcLock
<1>11. ty \in {"dir", "file"}
  BY DEF Type
<1> HIDE DEF i, dp, n, a, e, ty, l
<1>12. Written(t, l, i, ty, 1, {}, itab[i].ref, p)
  <2> DEFINE x == 1
  <2>1. x \in Int /\ t = Linked(l, i, x) /\ 0 + x = 1
    OBVIOUS
  <2> HIDE DEF x, t, q
  <2>2. i \in Inums /\ l \in [Inums -> Copies] /\ Holds(l[i], ty, 0, {}, itab[i].ref, p)
    BY <1>2
  <2>3. Written(Linked(l, i, x), l, i, ty, 0 + x, {}, itab[i].ref, p)
    BY <2>1, <2>2, LinkedIs, ZenonT(60)
  <2> QED BY <2>1, <2>3
<1> HIDE DEF t
<1>13. /\ t \in [Inums -> Copies] /\ (\A j \in Inums : j # i => t[j] = l[j])
       /\ Holds(t[i], ty, 1, {}, itab[i].ref, p) /\ Holds(t[dp], e.type, e.nlink, e.addrs, itab[dp].ref, p)
  <2>1. t[dp] = l[dp]
    BY <1>2, <1>12 DEF Written
  <2> QED BY <1>2, <1>12, <2>1 DEF Written
\* What the inode gets, what the disk has taken, and what the parent's copy holds.
<1>14. \E B \in SUBSET Blocks :
         /\ t2 \in [Inums -> Copies] /\ (\A j \in Inums : j # i /\ j # dp => t2[j] = itab[j])
         /\ Holds(t2[i], ty, 1, B, itab[i].ref, p)
         /\ Holds(t2[dp], e.type, e.nlink + k, e.addrs, itab[dp].ref, p)
         /\ c \in Disks /\ c.inode = disk.inode /\ c.ents = disk.ents /\ c.lost = disk.lost
         /\ \/ B = {} /\ c.used = disk.used
            \/ \E m \in Blocks : m \notin disk.used /\ B = {m} /\ c.used = disk.used \cup {m}
  <2>1. CASE ty = "dir"
    <3> DEFINE m == Min(FreeBlocks(disk))  B == {m}  x == 1  T == [t EXCEPT ![i].addrs = B]
    <3>1. m \in Blocks /\ m \notin disk.used
      <4>1. FreeBlocks(disk) \in SUBSET Nat /\ FreeBlocks(disk) # {}
        BY <2>1, InodesAssumption DEF FreeBlocks, ty
      <4>2. m \in FreeBlocks(disk)
        BY <4>1, MinIs
      <4> QED BY <4>2 DEF FreeBlocks
    <3>2. /\ b \in Disks /\ b.inode = disk.inode /\ b.ents = disk.ents /\ b.lost = disk.lost
          /\ b.used = disk.used \cup {m}
      <4>1. b = [disk EXCEPT !.used = @ \cup {m}]
        BY DEF balloc
      <4> HIDE DEF m, b
      <4> QED BY <1>9, <3>1, <4>1 DEF Disks
    <3> HIDE DEF m, b
    <3>3. b.used \ disk.used = B
      BY <3>1, <3>2
    <3>4. c = b /\ t2 = Linked(T, dp, x) /\ k = x /\ B \in SUBSET Blocks /\ x \in Int
      <4>1. B \in SUBSET Blocks /\ k = x /\ x \in Int /\ c = b
        BY <2>1, <3>1 DEF I
      <4>2. t2 = Linked([t EXCEPT ![i].addrs = b.used \ disk.used], dp, x)
        BY <2>1
      <4> HIDE DEF B, t2, x, q, c, k, d
      <4>3. [t EXCEPT ![i].addrs = b.used \ disk.used] = T
        BY <3>3
      <4> HIDE DEF T
      <4> QED BY <4>1, <4>2, <4>3
    <3>5. Written([t EXCEPT ![i].addrs = B], t, i, ty, 1, B, itab[i].ref, p)
      <4>1. i \in Inums /\ t \in [Inums -> Copies] /\ Holds(t[i], ty, 1, {}, itab[i].ref, p) /\ B \in SUBSET Blocks
        BY <1>2, <1>13, <3>4
      <4> HIDE DEF B, T, t2, c, d, x, q
      <4> QED BY <4>1, GrownIs, ZenonT(60)
    <3>6. /\ T \in [Inums -> Copies] /\ (\A j \in Inums : j # i => T[j] = t[j])
          /\ Holds(T[i], ty, 1, B, itab[i].ref, p)
      BY <3>5 DEF Written
    <3> HIDE DEF B, T, t2, c, d, x
    <3>7. Holds(T[dp], e.type, e.nlink, e.addrs, itab[dp].ref, p) /\ dp \in Inums
      BY <1>2, <1>13, <3>6
    <3>8. Written(Linked(T, dp, x), T, dp, e.type, e.nlink + x, e.addrs, itab[dp].ref, p)
      BY <3>4, <3>6, <3>7, LinkedIs, ZenonT(60)
    <3>9. Written(t2, T, dp, e.type, e.nlink + k, e.addrs, itab[dp].ref, p)
      BY <3>4, <3>8
    <3>10. /\ t2 \in [Inums -> Copies] /\ (\A j \in Inums : j # i /\ j # dp => t2[j] = itab[j])
           /\ t2[i] = T[i]
           /\ Holds(t2[dp], e.type, e.nlink + k, e.addrs, itab[dp].ref, p)
      BY <1>2, <1>13, <3>6, <3>9 DEF Written
    <3>11. Holds(t2[i], ty, 1, B, itab[i].ref, p)
      BY <3>6, <3>10
    <3>12. c \in Disks /\ c.inode = disk.inode /\ c.ents = disk.ents /\ c.lost = disk.lost
           /\ m \in Blocks /\ m \notin disk.used /\ B = {m} /\ c.used = disk.used \cup {m}
      BY <3>1, <3>2, <3>4 DEF B
    <3> QED BY <3>4, <3>10, <3>11, <3>12
  <2>2. CASE ty # "dir"
    <3>1. t2 = t /\ c = disk /\ e.nlink + k = e.nlink
      BY <1>9, <2>2 DEF I
    <3> HIDE DEF t2, c, d, k
    <3>2. /\ t2 \in [Inums -> Copies] /\ (\A j \in Inums : j # i /\ j # dp => t2[j] = itab[j])
          /\ Holds(t2[i], ty, 1, {}, itab[i].ref, p)
          /\ Holds(t2[dp], e.type, e.nlink + k, e.addrs, itab[dp].ref, p)
      BY <1>2, <1>13, <3>1
    <3> QED BY <1>9, <3>1, <3>2
  <2> QED BY <2>1, <2>2
<1> HIDE DEF t2, c, b
<1>15. PICK B \in SUBSET Blocks :
         /\ t2 \in [Inums -> Copies] /\ (\A j \in Inums : j # i /\ j # dp => t2[j] = itab[j])
         /\ Holds(t2[i], ty, 1, B, itab[i].ref, p)
         /\ Holds(t2[dp], e.type, e.nlink + k, e.addrs, itab[dp].ref, p)
         /\ c \in Disks /\ c.inode = disk.inode /\ c.ents = disk.ents /\ c.lost = disk.lost
         /\ \/ B = {} /\ c.used = disk.used
            \/ \E m \in Blocks : m \notin disk.used /\ B = {m} /\ c.used = disk.used \cup {m}
  BY <1>14
<1> HIDE DEF k
<1>16. /\ itab' \in [Inums -> Copies] /\ (\A j \in Inums : j # i /\ j # dp => itab'[j] = itab[j])
       /\ Holds(itab'[i], ty, 1, B, itab[i].ref, p)
       /\ Holds(itab'[dp], e.type, e.nlink + k, e.addrs, itab[dp].ref, 0)
  <2>1. dp \in Inums /\ t2 \in [Inums -> Copies] /\ Holds(t2[dp], e.type, e.nlink + k, e.addrs, itab[dp].ref, p)
    BY <1>2, <1>15
  <2>2. Written(iunlock(t2, dp), t2, dp, e.type, e.nlink + k, e.addrs, itab[dp].ref, 0)
    <3> HIDE DEF q
    <3> QED BY <2>1, OpenIs, ZenonT(60)
  <2>3. itab' = iunlock(t2, dp)
    BY <1>1
  <2>4. itab'[i] = t2[i]
    BY <1>2, <2>2, <2>3 DEF Written
  <2> QED BY <1>15, <2>2, <2>3, <2>4 DEF Written
<1>17. /\ d \in Disks /\ d.inode = disk.inode /\ d.used = c.used /\ d.lost = disk.lost
       /\ d.ents = [disk.ents EXCEPT ![dp][n] = i]
       /\ \A j \in Inums : j # dp => d.ents[j] = disk.ents[j]
  <2> DEFINE E == [disk.ents EXCEPT ![dp][n] = i]
  <2>1. disk.ents \in [Inums -> [Names -> Inums \cup {0}]]
    BY <1>9 DEF Disks
  <2>2. E \in [Inums -> [Names -> Inums \cup {0}]] /\ \A j \in Inums : j # dp => E[j] = disk.ents[j]
    BY <1>2, <2>1
  <2>3. d = [c EXCEPT !.ents = E]
    BY <1>15 DEF Disks
  <2> HIDE DEF E, d
  <2>4. d \in Disks /\ d.inode = disk.inode /\ d.used = c.used /\ d.lost = disk.lost /\ d.ents = E
    BY <1>15, <2>2, <2>3 DEF Disks
  <2> QED BY <2>2, <2>4 DEF E
<1> HIDE DEF d
<1>18. /\ disk' \in Disks /\ disk'.used = c.used /\ disk'.lost = disk.lost
       /\ disk'.ents = [disk.ents EXCEPT ![dp][n] = i]
       /\ (\A j \in Inums : j # dp => disk'.ents[j] = disk.ents[j])
       /\ (\A j \in Inums : j # dp /\ j # i => disk'.inode[j] = disk.inode[j])
       /\ disk'.inode[i].type = ty /\ disk'.inode[i].nlink = 1 /\ disk'.inode[i].addrs = B
       /\ disk'.inode[dp].type = e.type /\ disk'.inode[dp].nlink = e.nlink + k /\ disk'.inode[dp].addrs = e.addrs
  <2> DEFINE D == iupdate(d, t2, i)
  <2>1. i \in Inums /\ dp \in Inums /\ i # dp /\ t2 \in [Inums -> Copies]
    BY <1>2, <1>15
  <2>2. Updated(D, d, i, ty, 1, B)
    <3> HIDE DEF q
    <3> QED BY <1>15, <1>17, <2>1, UpdateIs, ZenonT(60)
  <2> HIDE DEF D
  <2>3. D \in Disks
    BY <2>2 DEF Updated
  <2>4. Updated(iupdate(D, t2, dp), D, dp, e.type, e.nlink + k, e.addrs)
    <3> HIDE DEF q
    <3> QED BY <1>15, <2>1, <2>3, UpdateIs, ZenonT(60)
  <2>5. disk' = iupdate(D, t2, dp)
    BY <1>1 DEF D
  <2>6. disk'.inode[i] = D.inode[i]
    BY <2>1, <2>4, <2>5 DEF Updated
  <2>7. disk'.ents = d.ents /\ disk'.used = d.used /\ disk'.lost = d.lost /\ disk' \in Disks
    BY <2>2, <2>4, <2>5 DEF Updated
  <2>8. \A j \in Inums : j # dp /\ j # i => disk'.inode[j] = d.inode[j]
    BY <2>2, <2>4, <2>5 DEF Updated
  <2>9. disk'.inode[i].type = ty /\ disk'.inode[i].nlink = 1 /\ disk'.inode[i].addrs = B
    BY <2>2, <2>6 DEF Updated
  <2>10. disk'.inode[dp].type = e.type /\ disk'.inode[dp].nlink = e.nlink + k /\ disk'.inode[dp].addrs = e.addrs
    BY <2>4, <2>5 DEF Updated
  <2> QED BY <1>17, <2>7, <2>8, <2>9, <2>10
<1>19. \A j \in Inums : itab'[j].ref = itab[j].ref + Uses(Q, j) - Uses(q, j)
  <2>1. \A j \in Inums : itab'[j].ref = itab[j].ref
    BY <1>16 DEF Holds
  <2> QED BY <1>2, <1>7, <1>9, <2>1
<1>20. \A j \in Inums : Uses(Q, j) - Uses(q, j) \in {0, 1}
  BY <1>2, <1>7
<1>21. \A j \in Inums : LockStep(p, Q, j)
  <2>1. \A j \in Inums : j \in Locks(Q) <=> j = i
    BY <1>2, <1>4 DEF Locks, PcLock, PutLock, i
  <2> QED BY <1>2, <1>10, <1>16, <2>1 DEF LockStep, Holds
<1>22. \A j \in Inums : CopyStep(p, j)
  <2>1. /\ itab'[i].valid /\ Same(itab'[i], disk'.inode[i]) /\ Live(q, i) > 0
        /\ itab'[dp].valid /\ Same(itab'[dp], disk'.inode[dp]) /\ Live(q, dp) > 0
    BY <1>2, <1>16, <1>18 DEF Same, Holds
  <2>2. \A j \in Inums : j # i /\ j # dp => itab'[j] = itab[j] /\ disk'.inode[j] = disk.inode[j]
    BY <1>16, <1>18
  <2> QED BY <2>1, <2>2 DEF CopyStep, Same
<1>23. \A j \in Inums : disk'.inode[j].type = disk.inode[j].type
  BY <1>2, <1>18 DEF a, e
<1>24. \A j \in Inums : DiskStep(p, j)
  BY <1>2, <1>18, <1>23 DEF DiskStep
<1>25. \A j \in Inums : /\ Cardinality(Owed'[j]) \in Nat /\ Cardinality(Owed[j]) \in Nat
                        /\ Cardinality(Owed'[j]) = Cardinality(Owed[j])
  <2> SUFFICES ASSUME NEW j \in Inums
               PROVE  /\ Cardinality(Owed'[j]) \in Nat /\ Cardinality(Owed[j]) \in Nat
                      /\ Cardinality(Owed'[j]) = Cardinality(Owed[j])
    OBVIOUS
  <2>1. /\ Cardinality(Owed'[j]) \in Nat /\ Cardinality(Owed[j]) \in Nat
        /\ Cardinality(Owed'[j]) = Cardinality(Owed[j]) + I(Owes(Q, j)) - I(Owes(q, j))
    BY <1>8, OwedIs
  <2>2. ~Owes(Q, j) /\ ~Owes(q, j)
    BY <1>2, <1>4 DEF Owes
  <2> QED BY <2>1, <2>2 DEF I
<1>26. ASSUME NEW j \in Inums
       PROVE  /\ Named(disk', j) = IF j = i THEN Named(disk, j) \cup {<<dp, n>>} ELSE Named(disk, j)
              /\ Cardinality(Named(disk', j)) = Cardinality(Named(disk, j)) + I(i = j)
              /\ Cardinality(Kids(disk', j)) = Cardinality(Kids(disk, j)) + I(dp = j /\ disk.inode[i].type = "dir")
  <2>1. /\ disk' \in Disks /\ dp \in Inums /\ n \in Names /\ i \in Inums /\ disk.ents[dp][n] = 0
        /\ disk'.ents = [disk.ents EXCEPT ![dp][n] = i]
    BY <1>2, <1>18
  <2> QED BY <1>23, <2>1, EntryAdded, SMTT(60)
<1>27. LinksRight(disk', Owed')
  <2>1. ASSUME NEW j \in Inums
        PROVE  disk'.inode[j].nlink = disk.inode[j].nlink
                                  + (Cardinality(Named(disk', j)) - Cardinality(Named(disk, j)))
                                  + (Cardinality(Kids(disk', j)) - Cardinality(Kids(disk, j)))
                                  + (Cardinality(Owed'[j]) - Cardinality(Owed[j]))
    <3> DEFINE v == disk.inode[j].nlink  v2 == disk'.inode[j].nlink  x == Cardinality(Named(disk, j))
               x2 == Cardinality(Named(disk', j))  y == Cardinality(Kids(disk, j))
               y2 == Cardinality(Kids(disk', j))  o == Cardinality(Owed[j])  o2 == Cardinality(Owed'[j])
               z == I(dp = j /\ disk.inode[i].type = "dir")  w == I(i = j)
    <3>1. v2 = v + z + w /\ v \in Int /\ z \in Int /\ w \in Int
      <4>1. v \in Int /\ z \in Int /\ w \in Int
        BY <1>9 DEF Disks, InodesOf, I
      <4>2. CASE j = i
        <5>1. disk.inode[i].nlink = 0 /\ disk'.inode[i].nlink = 1 /\ dp # i
          BY <1>2, <1>18 DEF a
        <5> QED BY <4>2, <5>1 DEF I
      <4>3. CASE j = dp
        BY <1>2, <1>9, <1>18, <4>3 DEF a, e, I, k
      <4>4. CASE j # i /\ j # dp
        BY <1>18, <4>1, <4>4 DEF I
      <4> QED BY <4>1, <4>2, <4>3, <4>4
    <3>2. x \in Nat /\ y \in Nat /\ o \in Nat /\ o2 = o /\ x2 = x + w /\ y2 = y + z
      BY <1>25, <1>26, NamedFinite
    <3> HIDE DEF v, v2, x, y, o, o2, x2, y2, z, w
    <3>3. v2 = v + (x2 - x) + (y2 - y) + (o2 - o)
      BY <3>1, <3>2
    <3> QED BY <3>3 DEF v, v2, x, y, o, o2, x2, y2
  <2>2. \A j \in Inums : disk'.inode[j].type = "none" => disk'.inode[j] = disk.inode[j] /\ disk'.ents[j] = disk.ents[j]
    BY <1>2, <1>11, <1>18
  <2>3. ASSUME NEW j \in Inums, disk'.inode[j].type = "dir"
        PROVE  \A f, g \in Named(disk', j) : f = g
    <3>1. CASE j = i
      <4>1. Named(disk', j) = {<<dp, n>>}
        BY <1>2, <1>26, <3>1
      <4> QED BY <4>1
    <3>2. CASE j # i
      <4>1. Named(disk', j) = Named(disk, j)
        BY <1>26, <3>2
      <4> QED BY <1>23, <2>3, <4>1 DEF IInv, TreesRight, LinksRight
    <3> QED BY <3>1, <3>2
  <2>4. \A j \in Inums : Cardinality(Owed'[j]) \in Nat
    BY <1>25
  <2> QED BY <1>18, <1>23, <2>1, <2>2, <2>3, <2>4, LinksMove
<1>28. BlocksRight(disk')
  <2>1. CASE B = {} /\ c.used = disk.used
    <3>1. \A j \in Inums : disk'.inode[j].addrs = disk.inode[j].addrs
      BY ZenonT(60), <1>2, <1>18, <2>1 DEF a, e
    <3> QED BY <1>18, <2>1, <3>1, BlocksStay
  <2>2. ASSUME NEW m \in Blocks, m \notin disk.used, B = {m}, c.used = disk.used \cup {m}
        PROVE  BlocksRight(disk')
    <3>1. \A j \in Inums : disk'.inode[j].addrs = IF j = i THEN disk.inode[j].addrs \cup {m} ELSE disk.inode[j].addrs
      BY <1>2, <1>18, <2>2 DEF a, e
    <3>2. disk' \in Disks /\ i \in Inums /\ disk'.used = disk.used \cup {m}
      BY <1>2, <1>18, <2>2
    <3> QED BY <2>2, <3>1, <3>2, BlockTaken, ZenonT(60)
  <2> QED BY <1>15, <2>1, <2>2
<1>29. \A j \in Inums : Uses(Q, j) > Uses(q, j) => disk.inode[j].nlink # 0
  BY <1>2, <1>7
<1>30. ASSUME NEW j \in Inums, Uses(Q, j) > Unread(Q, j)
       PROVE  itab'[j].valid \/ Uses(q, j) > Unread(q, j)
  <2>1. CASE j = i
    BY <1>16, <2>1 DEF Holds
  <2>2. CASE j # i
    BY <1>2, <1>7, <1>30, <2>2 DEF I
  <2> QED BY <2>1, <2>2
<1>31. /\ q.pc # "idle" /\ (q.pc = "made" => itab[q.ip].lock = 0) /\ Q.freeing = "no"
       /\ Q.pc # "idle" /\ Q.pc # "made" /\ Q.pc # "child" /\ Q.pc \notin {"walk", "dir"}
  BY <1>2, <1>4 DEF i
<1> QED BY <1>2, <1>6, <1>8, <1>16, <1>18, <1>19, <1>20, <1>21, <1>22, <1>24, <1>27, <1>28, <1>29, <1>30, <1>31, WriteKeeps, ZenonT(60)

-----------------------------------------------------------------------------
(* iput() frees an inode, and create() claims one.                          *)

\* What a process names he refers to.
LEMMA NamesUsed ==
    ASSUME IInv, NEW p \in Procs
    PROVE  LET q == ps[p]
           IN  /\ HasIp(q) => q.ip \in Inums /\ Uses(q, q.ip) >= 1
               /\ HasDp(q) => q.dp \in Inums /\ Uses(q, q.dp) >= 1
               /\ q.puts # <<>> => Head(q.puts) \in Inums /\ Uses(q, Head(q.puts)) >= 1
               /\ HasIp(q) /\ q.puts # <<>> /\ q.ip = Head(q.puts) => Uses(q, q.ip) >= 2
               /\ HasDp(q) /\ q.puts # <<>> /\ q.dp = Head(q.puts) => Uses(q, q.dp) >= 2
<1> DEFINE q == ps[p]
<1>1. q \in States /\ StepRight(q) /\ q.puts \in Seq(Inums) /\ Len(q.puts) <= 2 /\ 0 \notin Inums
  BY InodesAssumption DEF IInv, InodesTypeOK, StepsRight, StepRight, States
<1>2. \A j \in Inums : PutN(q.puts, j) \in 0..2
  BY DEF PutN, I
<1>3. (HasIp(q) => q.ip \in Inums) /\ (HasDp(q) => q.dp \in Inums)
  BY <1>1 DEF StepRight, States
<1>4. ASSUME q.puts # <<>> PROVE Head(q.puts) \in Inums /\ PutN(q.puts, Head(q.puts)) >= 1
  <2>1. Head(q.puts) \in Inums /\ \A j \in Inums : PutN(q.puts, j) = I(Head(q.puts) = j) + PutN(Tail(q.puts), j)
    BY <1>1, <1>4, PutsTail
  <2>2. \A j \in Inums : PutN(Tail(q.puts), j) \in 0..2
    BY DEF PutN, I
  <2>3. I(Head(q.puts) = Head(q.puts)) = 1
    BY DEF I
  <2> QED BY <2>1, <2>2, <2>3
<1>5. \A j \in Inums : \E a, b, c, d \in 0..1 :
          /\ Uses(q, j) = a + b + c + d + PutN(q.puts, j)
          /\ (HasIp(q) /\ q.ip = j => b = 1) /\ (HasDp(q) /\ q.dp = j => c = 1)
  <2> SUFFICES ASSUME NEW j \in Inums
               PROVE  \E a, b, c, d \in 0..1 :
                         /\ Uses(q, j) = a + b + c + d + PutN(q.puts, j)
                         /\ (HasIp(q) /\ q.ip = j => b = 1) /\ (HasDp(q) /\ q.dp = j => c = 1)
    OBVIOUS
  <2> DEFINE a == I(q.pc = "walk" /\ q.cur = j)  b == I(HasIp(q) /\ q.ip = j)  c == I(HasDp(q) /\ q.dp = j)
             d == I(q.fd = j)
  <2>1. a \in 0..1 /\ b \in 0..1 /\ c \in 0..1 /\ d \in 0..1
    BY DEF I
  <2>2. Uses(q, j) = a + b + c + d + PutN(q.puts, j)
    BY DEF Uses
  <2>3. (HasIp(q) /\ q.ip = j => b = 1) /\ (HasDp(q) /\ q.dp = j => c = 1)
    BY DEF I
  <2> HIDE DEF a, b, c, d
  <2> QED BY <2>1, <2>2, <2>3
<1> HIDE DEF q
<1>6. ASSUME HasIp(q) PROVE Uses(q, q.ip) >= 1 /\ (q.puts # <<>> /\ q.ip = Head(q.puts) => Uses(q, q.ip) >= 2)
  BY <1>2, <1>3, <1>4, <1>5, <1>6
<1>7. ASSUME HasDp(q) PROVE Uses(q, q.dp) >= 1 /\ (q.puts # <<>> /\ q.dp = Head(q.puts) => Uses(q, q.dp) >= 2)
  BY <1>2, <1>3, <1>4, <1>5, <1>7
<1>8. ASSUME q.puts # <<>> PROVE Uses(q, Head(q.puts)) >= 1
  BY <1>2, <1>4, <1>5, <1>8
<1> QED BY <1>3, <1>4, <1>6, <1>7, <1>8 DEF q

\* The last reference: nobody else refers to the inode.
LEMMA TruncIs ==
    ASSUME IInv, NEW p \in Procs, Putting(p, "trunc")
    PROVE  LET q == ps[p]  i == Head(q.puts)
           IN  /\ q.puts # <<>> /\ q.freeing = "trunc" /\ i \in Inums /\ q \in States /\ q.pc # "made"
               /\ disk.inode[i].nlink = 0 /\ disk.inode[i].type # "none" /\ itab[i].lock = p
               /\ itab[i].ref = 1 /\ itab[i].valid /\ itab[i].addrs = disk.inode[i].addrs
               /\ Uses(q, i) = 1 /\ Live(q, i) = 1
               /\ \A r \in Procs : r # p => Uses(ps[r], i) = 0 /\ Live(ps[r], i) = 0
               /\ \A r \in Procs : HasIp(ps[r]) => ps[r].ip \in Inums /\ ps[r].ip # i
               /\ \A r \in Procs : HasDp(ps[r]) => ps[r].dp \in Inums /\ ps[r].dp # i
               /\ \A r \in Procs : r # p /\ ps[r].puts # <<>> => Head(ps[r].puts) \in Inums /\ Head(ps[r].puts) # i
<1> DEFINE q == ps[p]  i == Head(q.puts)
<1>1. q.puts # <<>> /\ q.freeing = "trunc"
  BY DEF Putting, Me
<1>2. /\ q \in States /\ StepRight(q) /\ i \in Inums /\ Uses(q, i) \in 0..6 /\ Uses(q, i) <= itab[i].ref
      /\ Live(q, i) = Uses(q, i) - I(q.freeing \in {"unlock", "drop"} /\ i = i)
      /\ Uses(q, i) > Unread(q, i) /\ Unread(q, i) \in Nat
  BY <1>1, PutIs
<1>3. itab[i].ref = 1 /\ itab[i].valid /\ disk.inode[i].nlink = 0
  BY <1>1 DEF IInv, FreeingRight
<1>4. Uses(q, i) = 1 /\ Live(q, i) = 1 /\ Unread(q, i) = 0
  <2>1. I(q.freeing \in {"unlock", "drop"} /\ i = i) = 0
    BY <1>1 DEF I
  <2> HIDE DEF q, i
  <2> QED BY <1>2, <1>3, <2>1
<1>5. ASSUME NEW r \in Procs, r # p PROVE Uses(ps[r], i) = 0 /\ Live(ps[r], i) = 0
  <2>1. Uses(q, i) + Uses(ps[r], i) <= itab[i].ref
    BY <1>2, <1>5, Counted
  <2>2. Uses(ps[r], i) \in 0..6 /\ ps[r] \in States /\ StepRight(ps[r])
    BY <1>2, Counted
  <2>3. Live(ps[r], i) \in Nat /\ Live(ps[r], i) <= Uses(ps[r], i)
    BY <1>2, <2>2, UsesType
  <2> HIDE DEF q, i
  <2> QED BY <1>3, <1>4, <2>1, <2>2, <2>3
<1>6. itab[i].lock = p
  <2>1. i \in Locks(q)
    BY <1>1 DEF Locks, PutLock
  <2> QED BY <1>2, <2>1 DEF IInv, LocksRight
<1>7. disk.inode[i].type # "none"
  BY <1>2, <1>4 DEF IInv, AllocatedRight
<1>8. ~Unlocking(i)
  <2> SUFFICES ASSUME NEW r \in Procs, ps[r].freeing = "unlock", Head(ps[r].puts) = i PROVE FALSE
    BY DEF Unlocking
  <2>1. ps[r].puts # <<>>
    BY DEF IInv, StepsRight, StepRight
  <2>2. Uses(ps[r], Head(ps[r].puts)) >= 1
    BY <2>1, NamesUsed
  <2>3. r # p
    BY <1>1
  <2> QED BY <1>5, <2>2, <2>3
<1>9. itab[i].addrs = disk.inode[i].addrs
  BY <1>2, <1>3, <1>8 DEF IInv, CopiesRight, Same
<1>10. ASSUME NEW r \in Procs, HasIp(ps[r]) PROVE ps[r].ip \in Inums /\ ps[r].ip # i
  <2>1. /\ ps[r].ip \in Inums /\ Uses(ps[r], ps[r].ip) >= 1
        /\ ps[r].puts # <<>> /\ ps[r].ip = Head(ps[r].puts) => Uses(ps[r], ps[r].ip) >= 2
    BY <1>10, NamesUsed
  <2> QED BY <1>1, <1>4, <1>5, <2>1
<1>11. ASSUME NEW r \in Procs, HasDp(ps[r]) PROVE ps[r].dp \in Inums /\ ps[r].dp # i
  <2>1. /\ ps[r].dp \in Inums /\ Uses(ps[r], ps[r].dp) >= 1
        /\ ps[r].puts # <<>> /\ ps[r].dp = Head(ps[r].puts) => Uses(ps[r], ps[r].dp) >= 2
    BY <1>11, NamesUsed
  <2> QED BY <1>1, <1>4, <1>5, <2>1
<1>12. ASSUME NEW r \in Procs, r # p, ps[r].puts # <<>> PROVE Head(ps[r].puts) \in Inums /\ Head(ps[r].puts) # i
  <2>1. Head(ps[r].puts) \in Inums /\ Uses(ps[r], Head(ps[r].puts)) >= 1
    BY <1>12, NamesUsed
  <2> QED BY <1>5, <1>12, <2>1
<1>13. q.pc # "made"
  BY <1>1, <1>2 DEF StepRight
<1> QED BY <1>1, <1>2, <1>3, <1>4, <1>5, <1>6, <1>7, <1>9, <1>10, <1>11, <1>12, <1>13

\* What itrunc() leaves: the links that the directory's entries were are lost.
LEMMA TruncLeaves ==
    ASSUME IInv, NEW p \in Procs, Putting(p, "trunc")
    PROVE  LET i == Head(ps[p].puts)  D == itrunc(disk, itab, i)
           IN  /\ D \in Disks /\ D.inode[i] = FreeInode /\ D.ents[i] = NoEntries
               /\ \A j \in Inums : j # i => D.inode[j] = disk.inode[j] /\ D.ents[j] = disk.ents[j]
               /\ LinksRight(D, Owed) /\ BlocksRight(D)
<1> DEFINE i == Head(ps[p].puts)  D == itrunc(disk, itab, i)
           G(j) == {n \in Names : disk.ents[i][n] = j}
           L == [j \in Inums |-> disk.lost[j] + Cardinality(G(j))]
<1>1. /\ i \in Inums /\ disk.inode[i].nlink = 0 /\ itab[i].addrs = disk.inode[i].addrs
  BY TruncIs
<1>2. disk \in Disks
  BY DEF IInv, InodesTypeOK
<1>3. /\ \A e \in Inums, n \in Names : disk.ents[e][n] # i
      /\ i # ROOTINO /\ disk.lost[i] = 0 /\ Kids(disk, i) = {} /\ Named(disk, i) = {} /\ Owed[i] = {}
  BY <1>1, Linkeds
<1> HIDE DEF i
<1>4. ASSUME NEW j \in Inums PROVE IsFiniteSet(G(j)) /\ Cardinality(G(j)) \in Nat
  <2>1. G(j) \subseteq Names /\ IsFiniteSet(Names)
    BY InodesAssumption
  <2> HIDE DEF G
  <2> QED BY <2>1, FS_Subset, FS_CardinalityType
<1>5. FreeInode \in InodesOf /\ NoEntries \in [Names -> Inums \cup {0}]
  BY DEF FreeInode, InodesOf, Types, NoEntries
<1>6. /\ D \in Disks /\ D.used = disk.used \ itab[i].addrs /\ D.inode = [disk.inode EXCEPT ![i] = FreeInode]
      /\ D.ents = [disk.ents EXCEPT ![i] = NoEntries] /\ D.lost = L
  <2>1. D = [disk EXCEPT !.used = @ \ itab[i].addrs, !.inode[i] = FreeInode, !.ents[i] = NoEntries, !.lost = L]
    <3>1. [j \in Inums |-> disk.lost[j] + Cardinality({n \in Names : disk.ents[i][n] = j})] = L
      OBVIOUS
    <3> HIDE DEF L
    <3> QED BY <3>1 DEF itrunc
  <2>2. L \in [Inums -> Nat]
    <3>1. \A j \in Inums : disk.lost[j] \in Nat
      BY <1>2 DEF Disks
    <3>2. \A j \in Inums : disk.lost[j] + Cardinality(G(j)) \in Nat
      BY <1>4, <3>1
    <3> QED BY <3>2
  <2> DEFINE N == [disk.inode EXCEPT ![i] = FreeInode]  E == [disk.ents EXCEPT ![i] = NoEntries]
             U == disk.used \ itab[i].addrs
  <2>3. N \in [Inums -> InodesOf] /\ E \in [Inums -> [Names -> Inums \cup {0}]] /\ U \in SUBSET Blocks
    BY <1>2, <1>5 DEF Disks
  <2> HIDE DEF L
  <2>4. D = [disk EXCEPT !.used = U, !.inode = N, !.ents = E, !.lost = L]
    BY <1>2, <2>1 DEF Disks
  <2> HIDE DEF N, E, U, D
  <2>5. D \in Disks /\ D.used = U /\ D.inode = N /\ D.ents = E /\ D.lost = L
    BY <1>2, <2>2, <2>3, <2>4 DEF Disks
  <2> QED BY <2>5 DEF N, E, U
<1>7. /\ D.inode[i] = FreeInode /\ D.ents[i] = NoEntries
      /\ (\A j \in Inums : j # i => D.inode[j] = disk.inode[j] /\ D.ents[j] = disk.ents[j])
      /\ \A j \in Inums : D.lost[j] = disk.lost[j] + Cardinality(G(j))
  <2>1. disk.inode \in [Inums -> InodesOf] /\ disk.ents \in [Inums -> [Names -> Inums \cup {0}]]
    BY <1>2 DEF Disks
  <2> QED BY <1>1, <1>6, <2>1
<1> HIDE DEF D, G, L
<1>8. \A j \in Inums : Named(D, j) = Named(disk, j) \ ({i} \X G(j)) /\ {i} \X G(j) \subseteq Named(disk, j)
  <2> SUFFICES ASSUME NEW j \in Inums
               PROVE  Named(D, j) = Named(disk, j) \ ({i} \X G(j)) /\ {i} \X G(j) \subseteq Named(disk, j)
    OBVIOUS
  <2>1. \A n \in Names : D.ents[i][n] = 0
    BY <1>7 DEF NoEntries
  <2>2. j # 0
    BY InodesAssumption
  <2> QED BY <1>1, <1>7, <2>1, <2>2 DEF Named, G
<1>9. ASSUME NEW j \in Inums
      PROVE  /\ Cardinality(Named(disk, j)) = Cardinality(Named(D, j)) + Cardinality(G(j))
             /\ Cardinality(Named(D, j)) \in Nat
  <2> DEFINE A == Named(D, j)  B == {i} \X G(j)
  <2>1. IsFiniteSet({i}) /\ Cardinality({i}) = 1
    BY FS_Singleton
  <2>2. IsFiniteSet(B) /\ Cardinality(B) = 1 * Cardinality(G(j))
    BY <1>4, <2>1, FS_Product
  <2>3. IsFiniteSet(A) /\ Cardinality(A) \in Nat
    BY NamedFinite
  <2>4. Named(disk, j) = A \cup B /\ A \cap B = {}
    BY <1>8
  <2> HIDE DEF A, B
  <2>5. Cardinality(A \cup B) = Cardinality(A) + Cardinality(B) - Cardinality(A \cap B)
    BY <2>2, <2>3, FS_Union
  <2>6. Cardinality(A \cap B) = 0
    BY <2>4, FS_EmptySet
  <2>7. Cardinality(G(j)) \in Nat
    BY <1>4
  <2> QED BY <2>2, <2>3, <2>4, <2>5, <2>6, <2>7 DEF A
<1>10. \A j \in Inums : Kids(D, j) = Kids(disk, j)
  <2>1. \A n \in Names : D.ents[i][n] = 0
    BY <1>7 DEF NoEntries
  <2>2. Kids(D, i) = {}
    BY <2>1 DEF Kids
  <2>3. ASSUME NEW j \in Inums, j # i PROVE Kids(D, j) = Kids(disk, j)
    <3>1. ASSUME NEW n \in Names, disk.ents[j][n] # 0
          PROVE  D.inode[disk.ents[j][n]].type = disk.inode[disk.ents[j][n]].type
      <4>1. disk.ents[j][n] \in Inums /\ disk.ents[j][n] # i
        BY <1>2, <1>3, <3>1 DEF Disks
      <4> QED BY <1>7, <4>1
    <3> QED BY <1>7, <2>3, <3>1 DEF Kids
  <2> QED BY <1>3, <2>2, <2>3
<1>11. LinksRight(D, Owed)
  <2>1. ASSUME NEW j \in Inums PROVE D.inode[j].nlink = LinkCount(D, Owed, j)
    <3> DEFINE r == I(j = ROOTINO)  x == Cardinality(Named(disk, j))  x2 == Cardinality(Named(D, j))
               g == Cardinality(G(j))  y == Cardinality(Kids(disk, j))  o == Cardinality(Owed[j])
               l == disk.lost[j]  l2 == D.lost[j]  n == disk.inode[j].nlink  n2 == D.inode[j].nlink
    <3>1. r \in Nat /\ x2 \in Nat /\ g \in Nat /\ y \in Nat /\ o \in Nat /\ l \in Nat
      BY <1>2, <1>4, <1>9, NamedFinite, OwedFinite DEF Disks, I
    <3>2. n = r + x + y + l + o /\ x = x2 + g /\ l2 = l + g
      BY <1>7, <1>9 DEF IInv, TreesRight, LinksRight, LinkCount
    <3>3. n2 = n
      <4>1. CASE j = i
        BY <1>1, <1>7, <4>1 DEF FreeInode
      <4>2. CASE j # i
        BY <1>7, <4>2
      <4> QED BY <4>1, <4>2
    <3>4. LinkCount(D, Owed, j) = r + x2 + y + l2 + o
      BY <1>10 DEF LinkCount
    <3> HIDE DEF r, x, x2, g, y, o, l, l2, n, n2
    <3>5. n2 = r + x2 + y + l2 + o
      BY <3>1, <3>2, <3>3
    <3> QED BY <3>4, <3>5 DEF n2
  <2>2. ASSUME NEW j \in Inums, D.inode[j].type = "none"
        PROVE  D.inode[j].nlink = 0 /\ D.inode[j].addrs = {} /\ D.ents[j] = NoEntries
    <3>1. CASE j = i
      BY <1>7, <3>1 DEF FreeInode
    <3>2. CASE j # i
      BY <1>7, <2>2, <3>2 DEF IInv, TreesRight, LinksRight
    <3> QED BY <3>1, <3>2
  <2>3. ASSUME NEW j \in Inums, D.inode[j].type = "dir" PROVE \A e, f \in Named(D, j) : e = f
    <3>1. j # i
      BY <1>7, <2>3 DEF FreeInode
    <3>2. disk.inode[j].type = "dir"
      BY <1>7, <2>3, <3>1
    <3> QED BY <1>8, <3>2 DEF IInv, TreesRight, LinksRight
  <2> QED BY <2>1, <2>2, <2>3 DEF LinksRight
<1>12. BlocksRight(D)
  <2>1. \A j \in Inums : D.inode[j].addrs = IF j = i THEN {} ELSE disk.inode[j].addrs
    BY <1>7 DEF FreeInode
  <2>2. ASSUME NEW j \in Inums, NEW k \in Inums, j # k PROVE D.inode[j].addrs \cap D.inode[k].addrs = {}
    <3>1. disk.inode[j].addrs \cap disk.inode[k].addrs = {}
      BY <2>2 DEF IInv, TreesRight, BlocksRight
    <3> QED BY <2>1, <3>1
  <2>3. \A b \in Blocks : b \in D.used <=> \E j \in Inums : b \in D.inode[j].addrs
    <3>1. \A b \in Blocks : b \in disk.used <=> \E j \in Inums : b \in disk.inode[j].addrs
      BY DEF IInv, TreesRight, BlocksRight
    <3>2. \A j \in Inums : j # i => disk.inode[j].addrs \cap disk.inode[i].addrs = {}
      BY <1>1 DEF IInv, TreesRight, BlocksRight
    <3>3. \A b \in Blocks : b \in D.used <=> b \in disk.used /\ b \notin disk.inode[i].addrs
      BY <1>1, <1>6
    <3> QED BY <2>1, <3>1, <3>2, <3>3
  <2> QED BY <2>2, <2>3 DEF BlocksRight
<1> QED BY <1>6, <1>7, <1>11, <1>12 DEF i, D

LEMMA FreeKeeps ==
    ASSUME IInv, NEW p \in Procs, iput_free(p)
    PROVE  IInv'
<1> DEFINE q == ps[p]  i == Head(q.puts)
<1>1. /\ Putting(p, "trunc") /\ disk' = itrunc(disk, itab, i)
      /\ itab' = [itab EXCEPT ![i] = Loaded(@, FreeInode)]
      /\ Becomes(p, [q EXCEPT !.freeing = "unlock"]) /\ Keep
  BY DEF iput_free, Me
<1>2. /\ q.puts # <<>> /\ q.freeing = "trunc" /\ i \in Inums /\ q \in States /\ q.pc # "made"
      /\ disk.inode[i].nlink = 0 /\ disk.inode[i].type # "none" /\ itab[i].lock = p
      /\ itab[i].ref = 1 /\ itab[i].valid /\ itab[i].addrs = disk.inode[i].addrs
      /\ Uses(q, i) = 1 /\ Live(q, i) = 1
      /\ (\A r \in Procs : r # p => Uses(ps[r], i) = 0 /\ Live(ps[r], i) = 0)
      /\ (\A r \in Procs : HasIp(ps[r]) => ps[r].ip \in Inums /\ ps[r].ip # i)
      /\ (\A r \in Procs : HasDp(ps[r]) => ps[r].dp \in Inums /\ ps[r].dp # i)
      /\ (\A r \in Procs : r # p /\ ps[r].puts # <<>> => Head(ps[r].puts) \in Inums /\ Head(ps[r].puts) # i)
  BY <1>1, TruncIs
<1>3. /\ disk' \in Disks /\ disk'.inode[i] = FreeInode /\ disk'.ents[i] = NoEntries
      /\ (\A j \in Inums : j # i => disk'.inode[j] = disk.inode[j] /\ disk'.ents[j] = disk.ents[j])
      /\ LinksRight(disk', Owed) /\ BlocksRight(disk')
  BY <1>1, TruncLeaves
<1>4. PICK Q \in States : Q = [q EXCEPT !.freeing = "unlock"]
  BY ZenonT(60), <1>2 DEF States
<1>5. /\ Q.pc = q.pc /\ Q.op = q.op /\ Q.path = q.path /\ Q.cur = q.cur /\ Q.ip = q.ip /\ Q.dp = q.dp
      /\ Q.puts = q.puts /\ Q.freeing = "unlock" /\ Q.new = q.new /\ Q.fd = q.fd
  BY <1>2, <1>4 DEF States
<1>6. /\ ps \in [Procs -> States] /\ itab \in [Inums -> Copies] /\ (\A r \in Procs : StepRight(ps[r]))
      /\ (\A r \in Procs : r # 0) /\ \A j \in Inums : itab[j].ref \in Nat
  BY InodesAssumption DEF IInv, InodesTypeOK, StepsRight, Copies
<1>7. ps' = [ps EXCEPT ![p] = Q] /\ ps' \in [Procs -> States] /\ ps'[p] = Q /\ \A r \in Procs : r # p => ps'[r] = ps[r]
  BY <1>1, <1>4, <1>6 DEF Becomes
<1>8. PcLock(Q) = PcLock(q) /\ PutLock(Q) = PutLock(q) /\ Locks(Q) = Locks(q) /\ HasIp(Q) = HasIp(q) /\ HasDp(Q) = HasDp(q)
  BY <1>2, <1>5 DEF PcLock, PutLock, Locks, HasIp, HasDp
<1>9. StepRight(Q)
  BY <1>2, <1>5, <1>6, <1>8 DEF StepRight
<1>10. /\ \A j \in Inums : /\ Uses(Q, j) = Uses(q, j) /\ Unread(Q, j) = Unread(q, j)
                           /\ Uses(q, j) \in 0..6 /\ Live(q, j) \in Nat /\ Live(Q, j) \in Nat /\ Unread(q, j) \in Nat
                           /\ Live(q, j) = Uses(q, j) /\ Live(Q, j) = Uses(Q, j) - I(i = j)
  <2>1. \A j \in Inums : Uses(Q, j) = Uses(q, j) /\ Unread(Q, j) = Unread(q, j)
    BY <1>5, <1>8 DEF Uses, Unread
  <2>2. ASSUME NEW j \in Inums
        PROVE  /\ Live(q, j) = Uses(q, j) - I(FALSE) /\ Live(Q, j) = Uses(Q, j) - I(i = j)
               /\ Uses(q, j) \in 0..6 /\ Live(q, j) \in Nat /\ Live(Q, j) \in Nat /\ Unread(q, j) \in Nat
    <3>1. /\ Live(q, j) = Uses(q, j) - I(q.freeing \in {"unlock", "drop"} /\ Head(q.puts) = j)
          /\ Uses(q, j) \in 0..6 /\ Live(q, j) \in Nat /\ Unread(q, j) \in Nat
      BY <1>2, <1>6, UsesType
    <3>2. Live(Q, j) = Uses(Q, j) - I(Q.freeing \in {"unlock", "drop"} /\ Head(Q.puts) = j) /\ Live(Q, j) \in Nat
      BY <1>9, UsesType
    <3>3. /\ I(q.freeing \in {"unlock", "drop"} /\ Head(q.puts) = j) = I(FALSE)
          /\ I(Q.freeing \in {"unlock", "drop"} /\ Head(Q.puts) = j) = I(i = j)
      BY <1>2, <1>5 DEF I
    <3> QED BY <3>1, <3>2, <3>3
  <2> QED BY <2>1, <2>2 DEF I
<1> HIDE DEF i
<1>11. /\ itab' \in [Inums -> Copies]
       /\ \A j \in Inums : /\ itab'[j].ref = itab[j].ref /\ itab'[j].valid = itab[j].valid
                           /\ itab'[j].lock = itab[j].lock /\ (j # i => itab'[j] = itab[j])
  <2> DEFINE c == Loaded(itab[i], FreeInode)
  <2>1. c \in Copies /\ c.ref = itab[i].ref /\ c.valid = itab[i].valid /\ c.lock = itab[i].lock
    <3>1. itab[i] \in Copies
      BY <1>2, <1>6
    <3>2. FreeInode.type = "none" /\ FreeInode.nlink = 0 /\ FreeInode.addrs = {}
      BY DEF FreeInode
    <3>3. FreeInode.type \in Types /\ FreeInode.nlink \in Int /\ FreeInode.addrs \in SUBSET Blocks
      BY <3>2 DEF Types
    <3> DEFINE a == FreeInode.type  b == FreeInode.nlink  d == FreeInode.addrs  e == itab[i]
    <3>4. c = [e EXCEPT !.type = a, !.nlink = b, !.addrs = d]
      BY DEF Loaded
    <3> HIDE DEF a, b, c, d, e
    <3>5. e \in Copies /\ a \in Types /\ b \in Int /\ d \in SUBSET Blocks
      BY <3>1, <3>3 DEF a, b, d, e
    <3>6. c \in Copies /\ c.ref = e.ref /\ c.valid = e.valid /\ c.lock = e.lock
      BY <3>4, <3>5 DEF Copies
    <3> QED BY <3>6 DEF e
  <2>2. itab' = [itab EXCEPT ![i] = c]
    BY <1>1, <1>2, <1>6
  <2> HIDE DEF c
  <2> QED BY <1>2, <1>6, <2>1, <2>2
<1>12. InodesTypeOK'
  BY <1>1, <1>3, <1>7, <1>11 DEF IInv, InodesTypeOK, Keep
<1>13. StepsRight'
  BY <1>1, <1>5, <1>7, <1>9 DEF IInv, StepsRight, Keep
<1>14. RefsRight'
  <2> SUFFICES ASSUME NEW j \in Inums PROVE itab'[j].ref = Cardinality(Refs(j)')
    BY DEF RefsRight
  <2>1. itab[j].ref = Cardinality(Refs(j))
    BY DEF IInv, RefsRight
  <2>2. /\ Uses(ps[p], j) \in 0..6 /\ Uses(Q, j) \in 0..6
        /\ itab'[j].ref = itab[j].ref + Uses(Q, j) - Uses(ps[p], j)
        /\ Uses(Q, j) - Uses(ps[p], j) \in {-1, 0, 1}
    BY <1>6, <1>10, <1>11
  <2> QED BY <1>6, <1>7, <2>1, <2>2, RefsStep, ZenonT(60)
<1>15. LocksRight'
  BY <1>7, <1>8, <1>11 DEF IInv, LocksRight, Locks, PcLock, PutLock
<1>16. TreesRight'
  <2>1. \A j \in Inums : Owed'[j] = Owed[j]
    <3>1. \A j \in Inums : Owes(Q, j) <=> Owes(q, j)
      BY <1>5 DEF Owes
    <3> QED BY <1>6, <1>7, <3>1 DEF Owed
  <2>2. Owed' = Owed
    BY <2>1 DEF Owed
  <2>3. LinksRight(home, Nothing)' /\ BlocksRight(home)'
    BY <1>1 DEF Keep, IInv, TreesRight, LinksRight, BlocksRight, LinkCount, Named, Kids, Nothing
  <2>4. LinksRight(disk, Owed)' /\ BlocksRight(disk)'
    BY <1>3, <2>2 DEF LinksRight, BlocksRight, LinkCount, Named, Kids
  <2> QED BY <2>3, <2>4 DEF TreesRight
<1>17. CopiesRight'
  <2> SUFFICES ASSUME NEW j \in Inums, itab'[j].ref > 0, itab'[j].valid, ~Unlocking(j)'
               PROVE  Same(itab'[j], disk'.inode[j]) /\ itab'[j].type # "none"
    BY DEF CopiesRight, Same
  <2>1. j # i
    BY <1>5, <1>7 DEF Unlocking, i
  <2>2. ~Unlocking(j)
    BY <1>2, <1>7 DEF Unlocking
  <2> QED BY <1>3, <1>11, <2>1, <2>2 DEF IInv, CopiesRight
<1>18. \A r \in Procs, j \in Inums : j # i => Live(ps'[r], j) = Live(ps[r], j)
  BY <1>7, <1>10 DEF I
<1>19. \A r \in Procs : Live(ps'[r], i) = 0
  BY <1>2, <1>7, <1>10 DEF I
<1>20. AllocatedRight'
  <2> SUFFICES ASSUME NEW r \in Procs, NEW j \in Inums, Live(ps'[r], j) > 0
               PROVE  disk'.inode[j].type # "none"
    BY DEF AllocatedRight, Live, Uses
  <2>1. j # i
    BY <1>19
  <2> QED BY <1>3, <1>18, <2>1 DEF IInv, AllocatedRight
<1>21. ReadRight'
  <2> SUFFICES ASSUME NEW r \in Procs, NEW j \in Inums, Live(ps'[r], j) > Unread(ps'[r], j)
               PROVE  itab'[j].valid
    BY DEF ReadRight, Live, Uses, Unread
  <2>1. Unread(ps'[r], j) = Unread(ps[r], j)
    BY <1>7, <1>10
  <2>2. CASE j = i
    BY <1>2, <1>11, <2>2
  <2>3. CASE j # i
    BY <1>11, <1>18, <2>1, <2>3 DEF IInv, ReadRight
  <2> QED BY <2>2, <2>3
<1>22. MadeRight'
  <2> SUFFICES ASSUME NEW r \in Procs, ps'[r].pc = "made"
               PROVE  LET k == ps'[r].ip
                      IN  /\ disk'.inode[k].nlink = 0 /\ disk'.inode[k].addrs = {} /\ disk'.inode[k].type = Type(r)'
                          /\ \A s \in Procs : Live(ps'[s], k) = I(r = s)
                          /\ disk'.ents[ps'[r].dp][Last1(r)'] = 0
    BY DEF MadeRight, Live, Uses
  <2>1. r # p /\ ps'[r] = ps[r] /\ ps[r].pc = "made"
    BY <1>2, <1>5, <1>7
  <2> DEFINE k == ps[r].ip
  <2>2. k \in Inums /\ ps[r].dp \in Inums /\ k # i /\ ps[r].dp # i
    BY <1>2, <2>1 DEF HasIp, HasDp
  <2>3. /\ disk.inode[k].nlink = 0 /\ disk.inode[k].addrs = {} /\ disk.inode[k].type = Type(r)
        /\ \A s \in Procs : Live(ps[s], k) = I(r = s)
        /\ disk.ents[ps[r].dp][Last1(r)] = 0
    BY <2>1 DEF IInv, MadeRight
  <2>4. Type(r)' = Type(r) /\ Last1(r)' = Last1(r)
    BY <2>1 DEF Type, Op, Me, Last1
  <2> QED BY <1>3, <1>18, <2>1, <2>2, <2>3, <2>4
<1>23. SeenRight'
  <2> SUFFICES ASSUME NEW r \in Procs
               PROVE  /\ ps'[r].pc = "child" => disk'.ents[ps'[r].dp][Last1(r)'] = ps'[r].ip
                      /\ ps'[r].new /\ ps'[r].pc \in {"walk", "dir"} => disk'.inode[ps'[r].ip].type = "file"
    BY DEF SeenRight
  <2>1. /\ ps'[r].pc = ps[r].pc /\ ps'[r].new = ps[r].new /\ ps'[r].dp = ps[r].dp /\ ps'[r].ip = ps[r].ip
        /\ ps'[r].path = ps[r].path
    BY <1>5, <1>7
  <2>2. Last1(r)' = Last1(r)
    BY <2>1 DEF Last1, Me
  <2>3. ASSUME ps[r].pc = "child" PROVE disk'.ents[ps[r].dp][Last1(r)] = ps[r].ip
    <3>1. ps[r].dp \in Inums /\ ps[r].dp # i
      BY <1>2, <2>3 DEF HasDp
    <3> QED BY <1>3, <2>3, <3>1 DEF IInv, SeenRight
  <2>4. ASSUME ps[r].new, ps[r].pc \in {"walk", "dir"} PROVE disk'.inode[ps[r].ip].type = "file"
    <3>1. ps[r].ip \in Inums /\ ps[r].ip # i
      BY <1>2, <2>4 DEF HasIp
    <3> QED BY <1>3, <2>4, <3>1 DEF IInv, SeenRight
  <2> QED BY <2>1, <2>2, <2>3, <2>4
<1>24. FreeingRight'
  <2> SUFFICES ASSUME NEW r \in Procs
               PROVE  LET k == Head(ps'[r].puts)
                      IN  /\ ps'[r].freeing = "trunc" => itab'[k].ref = 1 /\ itab'[k].valid /\ disk'.inode[k].nlink = 0
                          /\ ps'[r].freeing = "unlock" =>
                                /\ disk'.inode[k].nlink = 0
                                /\ \A s \in Procs : Live(ps'[s], k) = I(ps'[s].pc = "made" /\ ps'[s].ip = k)
                          /\ ps'[r].freeing \in {"unlock", "drop"} /\ disk'.inode[k].type # "none" => k \in orphans'
    BY DEF FreeingRight, Live, Uses
  <2>1. \A s \in Procs : ps'[s].pc = ps[s].pc /\ ps'[s].ip = ps[s].ip
    BY <1>5, <1>7
  <2>2. CASE r = p
    <3>1. Head(ps'[r].puts) = i /\ ps'[r].freeing = "unlock"
      BY <1>5, <1>7, <2>2 DEF i
    <3>2. ASSUME NEW s \in Procs PROVE I(ps'[s].pc = "made" /\ ps'[s].ip = i) = 0
      BY <1>2, <2>1 DEF I, HasIp
    <3>3. disk'.inode[i].nlink = 0 /\ disk'.inode[i].type = "none"
      BY <1>3 DEF FreeInode
    <3> QED BY <1>19, <3>1, <3>2, <3>3
  <2>3. CASE r # p
    <3> DEFINE k == Head(ps[r].puts)
    <3>1. ps'[r] = ps[r]
      BY <1>7, <2>3
    <3>2. ASSUME ps[r].freeing # "no"
          PROVE  /\ k \in Inums /\ k # i /\ disk'.inode[k] = disk.inode[k] /\ itab'[k] = itab[k]
                 /\ \A s \in Procs : Live(ps'[s], k) = Live(ps[s], k)
      <4>1. ps[r].puts # <<>>
        BY <1>6, <3>2 DEF StepRight
      <4>2. k \in Inums /\ k # i
        BY <1>2, <2>3, <4>1
      <4> HIDE DEF k
      <4> QED BY <1>3, <1>11, <1>18, <4>2
    <3>3. /\ ps[r].freeing = "trunc" => itab[k].ref = 1 /\ itab[k].valid /\ disk.inode[k].nlink = 0
          /\ ps[r].freeing = "unlock" =>
                /\ disk.inode[k].nlink = 0
                /\ \A s \in Procs : Live(ps[s], k) = I(ps[s].pc = "made" /\ ps[s].ip = k)
          /\ ps[r].freeing \in {"unlock", "drop"} /\ disk.inode[k].type # "none" => k \in orphans
      BY DEF IInv, FreeingRight
    <3>4. orphans' = orphans
      BY <1>1 DEF Keep
    <3> HIDE DEF k
    <3>5. /\ ps[r].freeing = "trunc" => itab'[k].ref = 1 /\ itab'[k].valid /\ disk'.inode[k].nlink = 0
          /\ ps[r].freeing = "unlock" =>
                /\ disk'.inode[k].nlink = 0
                /\ \A s \in Procs : Live(ps'[s], k) = I(ps'[s].pc = "made" /\ ps'[s].ip = k)
          /\ ps[r].freeing \in {"unlock", "drop"} /\ disk'.inode[k].type # "none" => k \in orphans'
      <4>1. CASE ps[r].freeing = "no"
        BY <4>1
      <4>2. CASE ps[r].freeing # "no"
        BY <2>1, <3>2, <3>3, <3>4, <4>2
      <4> QED BY <4>1, <4>2
    <3> QED BY <3>1, <3>5 DEF k
  <2> QED BY <2>2, <2>3
<1>25. NoneStranded'
  <2> SUFFICES ASSUME NEW j \in Inums, disk'.inode[j].type # "none", disk'.inode[j].nlink = 0, itab'[j].ref = 0
               PROVE  j \in orphans'
    BY DEF NoneStranded, Allocated
  <2>1. j # i
    BY <1>3 DEF FreeInode
  <2> QED BY <1>1, <1>3, <1>11, <2>1 DEF IInv, NoneStranded, Allocated, Keep
<1> QED BY <1>12, <1>13, <1>14, <1>15, <1>16, <1>17, <1>20, <1>21, <1>22, <1>23, <1>24, <1>25 DEF IInv

LEMMA UnlockKeeps ==
    ASSUME IInv, NEW p \in Procs, iput_unlock(p)
    PROVE  IInv'
<1> DEFINE q == ps[p]  i == Head(q.puts)
<1>1. /\ Putting(p, "unlock") /\ disk' = disk
      /\ itab' = [itab EXCEPT ![i] = [@ EXCEPT !.valid = FALSE, !.lock = 0]]
      /\ Becomes(p, [q EXCEPT !.freeing = "drop"]) /\ Keep
  BY DEF iput_unlock, Me
<1>2. /\ ps \in [Procs -> States] /\ itab \in [Inums -> Copies] /\ (\A r \in Procs : StepRight(ps[r]))
      /\ (\A r \in Procs : r # 0) /\ \A j \in Inums : itab[j].ref \in Nat
  BY InodesAssumption DEF IInv, InodesTypeOK, StepsRight, Copies
<1>3. q \in States /\ q.puts # <<>> /\ q.freeing = "unlock" /\ i \in Inums /\ q.pc # "made"
  <2>1. q.puts # <<>> /\ q.freeing = "unlock" /\ q \in States
    BY <1>1, <1>2 DEF Putting, Me
  <2>2. i \in Inums /\ q.pc # "made"
    BY <1>2, <2>1, PutsTail DEF StepRight, States
  <2> QED BY <2>1, <2>2
<1>4. PICK Q \in States : Q = [q EXCEPT !.freeing = "drop"]
  BY <1>3 DEF States
<1>5. /\ Q.pc = q.pc /\ Q.op = q.op /\ Q.path = q.path /\ Q.cur = q.cur /\ Q.ip = q.ip /\ Q.dp = q.dp
      /\ Q.puts = q.puts /\ Q.freeing = "drop" /\ Q.new = q.new /\ Q.fd = q.fd
  BY <1>3, <1>4 DEF States
<1>6. ps' = [ps EXCEPT ![p] = Q] /\ ps' \in [Procs -> States] /\ ps'[p] = Q /\ \A r \in Procs : r # p => ps'[r] = ps[r]
  BY <1>1, <1>2, <1>4 DEF Becomes
<1>7. PcLock(Q) = PcLock(q) /\ PutLock(q) = i /\ PutLock(Q) = 0 /\ PcLock(q) # i /\ HasIp(Q) = HasIp(q) /\ HasDp(Q) = HasDp(q)
  <2>1. PcLock(Q) = PcLock(q) /\ PutLock(q) = i /\ PutLock(Q) = 0 /\ HasIp(Q) = HasIp(q) /\ HasDp(Q) = HasDp(q)
    BY <1>3, <1>5 DEF PcLock, PutLock, HasIp, HasDp
  <2>2. i # 0
    BY <1>3, InodesAssumption
  <2> QED BY <1>2, <2>1, <2>2 DEF StepRight
<1>8. StepRight(Q)
  BY <1>2, <1>3, <1>5, <1>7 DEF StepRight
<1>9. /\ \A r \in Procs, j \in Inums : /\ Uses(ps'[r], j) = Uses(ps[r], j) /\ Unread(ps'[r], j) = Unread(ps[r], j)
                                       /\ Live(ps'[r], j) = Live(ps[r], j)
                                       /\ Uses(ps[r], j) \in 0..6 /\ Live(ps[r], j) \in Nat /\ Unread(ps[r], j) \in Nat
      /\ \A r \in Procs : ps'[r].pc = ps[r].pc /\ ps'[r].ip = ps[r].ip /\ ps'[r].dp = ps[r].dp /\ ps'[r].puts = ps[r].puts
                          /\ ps'[r].new = ps[r].new /\ ps'[r].path = ps[r].path /\ ps'[r].op = ps[r].op
  <2>1. \A j \in Inums : Uses(Q, j) = Uses(q, j) /\ Unread(Q, j) = Unread(q, j)
    BY <1>5, <1>7 DEF Uses, Unread
  <2>2. \A j \in Inums : Live(Q, j) = Live(q, j)
    BY <1>3, <1>5, <2>1 DEF Live
  <2>3. \A r \in Procs, j \in Inums : Uses(ps[r], j) \in 0..6 /\ Live(ps[r], j) \in Nat /\ Unread(ps[r], j) \in Nat
    BY <1>2, UsesType
  <2> QED BY <1>5, <1>6, <2>1, <2>2, <2>3
<1>10. /\ itab[i].lock = p
       /\ \A r \in Procs : r # p => i \notin Locks(ps[r])
  <2>1. itab[i].lock = p
    BY <1>3, <1>7 DEF IInv, LocksRight, Locks
  <2> QED BY <1>3, <2>1 DEF IInv, LocksRight
<1>11. /\ disk.inode[i].nlink = 0 /\ (disk.inode[i].type # "none" => i \in orphans)
       /\ \A r \in Procs : Live(ps[r], i) = I(ps[r].pc = "made" /\ ps[r].ip = i)
  BY <1>3 DEF IInv, FreeingRight
<1> HIDE DEF i
<1>12. /\ itab' \in [Inums -> Copies] /\ itab'[i].lock = 0
       /\ \A j \in Inums : itab'[j].ref = itab[j].ref /\ (j # i => itab'[j] = itab[j])
       /\ ~itab'[i].valid
  <2> DEFINE c == [itab[i] EXCEPT !.valid = FALSE, !.lock = 0]
  <2>1. c \in Copies /\ c.ref = itab[i].ref /\ ~c.valid /\ c.lock = 0
    BY <1>2, <1>3 DEF Copies
  <2>2. itab' = [itab EXCEPT ![i] = c]
    BY <1>1, <1>2, <1>3
  <2> HIDE DEF c
  <2> QED BY <1>2, <1>3, <2>1, <2>2
<1>13. InodesTypeOK'
  BY <1>1, <1>6, <1>12 DEF IInv, InodesTypeOK, Keep
<1>14. StepsRight'
  BY <1>1, <1>6, <1>8, <1>9 DEF IInv, StepsRight, Keep
<1>15. RefsRight'
  <2> SUFFICES ASSUME NEW j \in Inums PROVE itab'[j].ref = Cardinality(Refs(j)')
    BY DEF RefsRight
  <2>1. Refs(j)' = Refs(j)
    BY <1>9 DEF Refs
  <2> QED BY <1>12, <2>1 DEF IInv, RefsRight
<1>16. LocksRight'
  <2> SUFFICES ASSUME NEW j \in Inums, NEW r \in Procs PROVE itab'[j].lock = r <=> j \in Locks(ps'[r])
    BY DEF LocksRight, Locks, PcLock, PutLock
  <2>1. itab[j].lock = r <=> j \in Locks(ps[r])
    BY DEF IInv, LocksRight
  <2>2. CASE r # p
    BY <1>2, <1>6, <1>10, <1>12, <2>1, <2>2
  <2>3. CASE r = p
    <3>1. Locks(ps'[r]) = {PcLock(q), 0} /\ Locks(q) = {PcLock(q), i}
      BY <1>6, <1>7, <2>3 DEF Locks
    <3>2. j # 0
      BY InodesAssumption
    <3> QED BY <1>2, <1>7, <1>12, <2>1, <2>3, <3>1, <3>2
  <2> QED BY <2>2, <2>3
<1>17. TreesRight'
  <2>1. \A r \in Procs, j \in Inums : Owes(ps'[r], j) <=> Owes(ps[r], j)
    BY <1>9 DEF Owes
  <2>2. Owed' = Owed
    BY <2>1 DEF Owed
  <2> QED BY <1>1, <2>2, TreesStay DEF IInv, Keep
<1>18. CopiesRight'
  <2> SUFFICES ASSUME NEW j \in Inums, itab'[j].ref > 0, itab'[j].valid, ~Unlocking(j)'
               PROVE  Same(itab'[j], disk'.inode[j]) /\ itab'[j].type # "none"
    BY DEF CopiesRight, Same
  <2>1. j # i
    BY <1>12
  <2>2. ~Unlocking(j)
    BY <1>6, <2>1 DEF Unlocking, i
  <2> QED BY <1>1, <1>12, <2>1, <2>2 DEF IInv, CopiesRight
<1>19. AllocatedRight'
  <2> SUFFICES ASSUME NEW r \in Procs, NEW j \in Inums, Live(ps'[r], j) > 0
               PROVE  disk'.inode[j].type # "none"
    BY DEF AllocatedRight, Live, Uses
  <2> QED BY <1>1, <1>9 DEF IInv, AllocatedRight
<1>20. ReadRight'
  <2> SUFFICES ASSUME NEW r \in Procs, NEW j \in Inums, Live(ps'[r], j) > Unread(ps'[r], j)
               PROVE  itab'[j].valid
    BY DEF ReadRight, Live, Uses, Unread
  <2>1. Live(ps[r], j) > Unread(ps[r], j)
    BY <1>9
  <2>2. j # i
    <3> SUFFICES ASSUME j = i PROVE FALSE
      OBVIOUS
    <3>1. Live(ps[r], i) = I(ps[r].pc = "made" /\ ps[r].ip = i)
      BY <1>11
    <3>2. CASE ps[r].pc = "made" /\ ps[r].ip = i
      <4>1. Live(ps[r], i) = 1
        BY <3>1, <3>2 DEF I
      <4>2. Unread(ps[r], i) = 1
        BY <3>2 DEF Unread, I
      <4> QED BY <2>1, <4>1, <4>2
    <3>3. CASE ~(ps[r].pc = "made" /\ ps[r].ip = i)
      <4>1. Live(ps[r], i) = 0
        BY <3>1, <3>3 DEF I
      <4>2. Unread(ps[r], i) \in Nat
        BY <1>3, <1>9
      <4> QED BY <2>1, <4>1, <4>2
    <3> QED BY <3>2, <3>3
  <2> QED BY <1>12, <2>1, <2>2 DEF IInv, ReadRight
<1>21. MadeRight'
  <2> SUFFICES ASSUME NEW r \in Procs, ps'[r].pc = "made"
               PROVE  LET k == ps'[r].ip
                      IN  /\ disk'.inode[k].nlink = 0 /\ disk'.inode[k].addrs = {} /\ disk'.inode[k].type = Type(r)'
                          /\ \A s \in Procs : Live(ps'[s], k) = I(r = s)
                          /\ disk'.ents[ps'[r].dp][Last1(r)'] = 0
    BY DEF MadeRight, Live, Uses
  <2>1. ps[r].ip \in Inums /\ ps'[r].ip = ps[r].ip /\ ps'[r].dp = ps[r].dp /\ ps[r].pc = "made"
    BY <1>2, <1>9 DEF StepRight, States, HasIp
  <2>2. Type(r)' = Type(r) /\ Last1(r)' = Last1(r)
    BY <1>9 DEF Type, Op, Me, Last1
  <2> DEFINE k == ps[r].ip
  <2>3. /\ disk.inode[k].nlink = 0 /\ disk.inode[k].addrs = {} /\ disk.inode[k].type = Type(r)
        /\ \A s \in Procs : Live(ps[s], k) = I(r = s)
        /\ disk.ents[ps[r].dp][Last1(r)] = 0
    BY <2>1 DEF IInv, MadeRight
  <2>4. k \in Inums /\ ps'[r].ip = k
    BY <2>1
  <2>5. \A s \in Procs : Live(ps'[s], k) = Live(ps[s], k)
    BY <1>9, <2>4
  <2> HIDE DEF k
  <2> QED BY <1>1, <2>1, <2>2, <2>3, <2>4, <2>5
<1>22. SeenRight'
  <2>1. \A r \in Procs : Last1(r)' = Last1(r)
    BY <1>9 DEF Last1, Me
  <2> QED BY <1>1, <1>9, <2>1 DEF IInv, SeenRight
<1>23. FreeingRight'
  <2> SUFFICES ASSUME NEW r \in Procs
               PROVE  LET k == Head(ps'[r].puts)
                      IN  /\ ps'[r].freeing = "trunc" => itab'[k].ref = 1 /\ itab'[k].valid /\ disk'.inode[k].nlink = 0
                          /\ ps'[r].freeing = "unlock" =>
                                /\ disk'.inode[k].nlink = 0
                                /\ \A s \in Procs : Live(ps'[s], k) = I(ps'[s].pc = "made" /\ ps'[s].ip = k)
                          /\ ps'[r].freeing \in {"unlock", "drop"} /\ disk'.inode[k].type # "none" => k \in orphans'
    BY DEF FreeingRight, Live, Uses
  <2>1. orphans' = orphans
    BY <1>1 DEF Keep
  <2>2. CASE r = p
    <3>1. Head(ps'[r].puts) = i /\ ps'[r].freeing = "drop"
      BY <1>5, <1>6, <2>2 DEF i
    <3> QED BY <1>1, <1>11, <2>1, <3>1
  <2>3. CASE r # p
    <3> DEFINE k == Head(ps[r].puts)
    <3>1. ps'[r] = ps[r]
      BY <1>6, <2>3
    <3>2. ASSUME ps[r].freeing # "no" PROVE k \in Inums
      BY <1>2, <3>2, PutsTail DEF StepRight, States
    <3>3. ASSUME ps[r].freeing = "trunc" PROVE k # i
      BY <1>10, <2>3, <3>3 DEF Locks, PutLock
    <3>4. /\ ps[r].freeing = "trunc" => itab[k].ref = 1 /\ itab[k].valid /\ disk.inode[k].nlink = 0
          /\ ps[r].freeing = "unlock" =>
                /\ disk.inode[k].nlink = 0
                /\ \A s \in Procs : Live(ps[s], k) = I(ps[s].pc = "made" /\ ps[s].ip = k)
          /\ ps[r].freeing \in {"unlock", "drop"} /\ disk.inode[k].type # "none" => k \in orphans
      BY DEF IInv, FreeingRight
    <3> HIDE DEF k
    <3>5. ps[r].freeing = "trunc" => itab'[k].ref = 1 /\ itab'[k].valid /\ disk'.inode[k].nlink = 0
      BY <1>1, <1>12, <3>2, <3>3, <3>4
    <3>6. ASSUME ps[r].freeing = "unlock"
          PROVE  /\ disk'.inode[k].nlink = 0
                 /\ \A s \in Procs : Live(ps'[s], k) = I(ps'[s].pc = "made" /\ ps'[s].ip = k)
      <4>1. k \in Inums
        BY <3>2, <3>6
      <4> QED BY <1>1, <1>9, <3>4, <3>6, <4>1
    <3>7. ps[r].freeing \in {"unlock", "drop"} /\ disk'.inode[k].type # "none" => k \in orphans'
      BY <1>1, <2>1, <3>4
    <3> QED BY <3>1, <3>5, <3>6, <3>7 DEF k
  <2> QED BY <2>2, <2>3
<1>24. NoneStranded'
  BY <1>1, <1>12 DEF IInv, NoneStranded, Allocated, Keep
<1> QED BY <1>13, <1>14, <1>15, <1>16, <1>17, <1>18, <1>19, <1>20, <1>21, <1>22, <1>23, <1>24 DEF IInv

\* create() claims a free inode, which processes that drop it may still refer to.
LEMMA NewKeeps ==
    ASSUME IInv, NEW p \in Procs, create(p), ps'[p].pc = "made"
    PROVE  IInv'
<1> DEFINE q == ps[p]  dp == q.dp  t == ilock(itab, disk, dp, p)  new == Min(FreeInums(disk))
<1>1. /\ q.pc = "dir" /\ q.puts = <<>> /\ itab[dp].lock = 0 /\ q.op.do \in {"create", "mkdir"}
      /\ UNCHANGED <<home, inop, crashes>>
  BY DEF create, At, Me, Op, CanLock
<1>2. /\ ps \in [Procs -> States] /\ itab \in [Inums -> Copies] /\ disk \in Disks /\ home \in Disks
      /\ inop \subseteq Procs /\ orphans \subseteq Inums /\ crashes \in Nat
      /\ (\A r \in Procs : StepRight(ps[r])) /\ (\A r \in Procs : r # 0)
      /\ (\A j \in Inums : itab[j].ref \in Nat) /\ q \in States /\ Inums \subseteq Nat /\ 0 \notin Inums
  BY InodesAssumption DEF IInv, InodesTypeOK, StepsRight, Copies
<1>3. /\ disk.ents[dp][Last1(p)] = 0 /\ FreeInums(disk) # {}
      /\ disk' = [disk EXCEPT !.inode[new].type = Type(p)]
      /\ itab' = iget(t, new)
      /\ orphans' = IF itab[new].ref > 0 THEN orphans \cup {new} ELSE orphans \ {new}
      /\ Becomes(p, [q EXCEPT !.pc = "made", !.ip = new])
  <2>1. ASSUME NEW x, NEW y, Becomes(p, [PutThen(p, y, "exists") EXCEPT !.ip = x]) PROVE FALSE
    <3>1. ps'[p] = [PutThen(p, y, "exists") EXCEPT !.ip = x]
      BY <1>2, <2>1 DEF Becomes
    <3> QED BY <1>2, <3>1 DEF PutThen, Goto, Me, States
  <2>2. ASSUME NEW y, Becomes(p, PutThen(p, y, "end")) PROVE FALSE
    <3>1. ps'[p] = PutThen(p, y, "end")
      BY <1>2, <2>2 DEF Becomes
    <3> QED BY <1>2, <3>1 DEF PutThen, Goto, Me, States
  <2>3. /\ disk.ents[dp][Last1(p)] = 0 /\ FreeInums(disk) # {}
        /\ disk' = [disk EXCEPT !.inode[new].type = Type(p)]
        /\ itab' = iget(t, new)
        /\ orphans' = IF itab[new].ref > 0 THEN orphans \cup {new} ELSE orphans \ {new}
        /\ Becomes(p, [Goto(p, "made") EXCEPT !.ip = new])
    BY <2>1, <2>2 DEF create, Me
  <2>4. [Goto(p, "made") EXCEPT !.ip = new] = [q EXCEPT !.pc = "made", !.ip = new]
    BY DEF Goto, Me
  <2> QED BY <2>3, <2>4
<1>4. /\ dp \in Inums /\ q.freeing = "no" /\ ~q.new /\ q.op \in Calls /\ q.path # <<>>
      /\ \A j \in Inums : PutN(q.puts, j) = 0
  BY <1>1, <1>2, AtIs DEF StepRight, States, HasDp
<1>5. Uses(q, dp) > 0
  <2>1. I(HasDp(q) /\ q.dp = dp) = 1
    BY <1>1 DEF I, HasDp
  <2> QED BY <1>4, <2>1 DEF Uses, I
<1>6. /\ \A r \in Procs, j \in Inums : /\ Uses(ps[r], j) \in 0..6 /\ Live(ps[r], j) \in Nat /\ Unread(ps[r], j) \in Nat
                                       /\ Live(ps[r], j) <= Uses(ps[r], j)
      /\ \A j \in Inums : Live(q, j) = Uses(q, j)
  <2>1. \A j \in Inums : Live(q, j) = Uses(q, j) - I(FALSE)
    BY <1>4 DEF Live, I
  <2> QED BY <1>2, <2>1, UsesType DEF I
<1>7. new \in Inums /\ disk.inode[new].type = "none"
  <2>1. FreeInums(disk) \in SUBSET Nat
    BY <1>2 DEF FreeInums
  <2>2. new \in FreeInums(disk)
    BY <1>3, <2>1, MinIs
  <2> QED BY <2>2 DEF FreeInums
<1>8. t \in [Inums -> Copies] /\ (\A j \in Inums : j # dp => t[j] = itab[j])
      /\ Holds(t[dp], disk.inode[dp].type, disk.inode[dp].nlink, disk.inode[dp].addrs, itab[dp].ref, p)
  BY <1>1, <1>4, <1>5, LockedIs
<1> HIDE DEF t, new
<1>9. /\ disk.inode[new].nlink = 0 /\ disk.inode[new].addrs = {} /\ disk.ents[new] = NoEntries
      /\ (\A r \in Procs : Live(ps[r], new) = 0) /\ new # dp
  <2>1. disk.inode[new].nlink = 0 /\ disk.inode[new].addrs = {} /\ disk.ents[new] = NoEntries
    BY <1>7 DEF IInv, TreesRight, LinksRight
  <2>2. \A r \in Procs : Live(ps[r], new) = 0
    BY <1>6, <1>7 DEF IInv, AllocatedRight
  <2> QED BY <1>4, <1>5, <1>6, <2>1, <2>2
<1>10. (\A e \in Inums, n \in Names : disk.ents[e][n] # new) /\ Named(disk, new) = {}
  BY <1>7, <1>9, Linkeds
<1>11. PICK Q \in States : Q = [q EXCEPT !.pc = "made", !.ip = new]
  BY <1>2, <1>7 DEF States, Steps
<1>12. /\ Q.pc = "made" /\ Q.op = q.op /\ Q.path = q.path /\ Q.cur = q.cur /\ Q.ip = new /\ Q.dp = dp
       /\ Q.puts = <<>> /\ Q.freeing = "no" /\ ~Q.new /\ Q.fd = q.fd
  BY <1>1, <1>2, <1>4, <1>11 DEF States
<1>13. /\ ps' = [ps EXCEPT ![p] = Q] /\ ps' \in [Procs -> States] /\ ps'[p] = Q
       /\ \A r \in Procs : r # p => ps'[r] = ps[r]
  BY <1>2, <1>3, <1>11 DEF Becomes
<1>14. HasIp(Q) /\ HasDp(Q) /\ ~HasIp(q) /\ HasDp(q) /\ PcLock(Q) = dp /\ PutLock(Q) = 0 /\ PcLock(q) = 0 /\ PutLock(q) = 0
  BY <1>1, <1>4, <1>12 DEF HasIp, HasDp, PcLock, PutLock
<1>15. StepRight(Q)
  <2>1. Len(Q.puts) = 0
    BY <1>12
  <2>2. new # 0 /\ dp # 0
    BY <1>2, <1>4, <1>7
  <2> QED BY <1>4, <1>12, <1>14, <2>1, <2>2 DEF StepRight
<1>16. /\ \A j \in Inums : /\ Uses(Q, j) = Uses(q, j) + I(new = j) /\ Live(Q, j) = Live(q, j) + I(new = j)
                           /\ Unread(Q, j) = I(new = j) /\ Unread(q, j) = 0 /\ Uses(Q, j) \in 0..6
  <2> SUFFICES ASSUME NEW j \in Inums
               PROVE  /\ Uses(Q, j) = Uses(q, j) + I(new = j) /\ Live(Q, j) = Live(q, j) + I(new = j)
                      /\ Unread(Q, j) = I(new = j) /\ Unread(q, j) = 0 /\ Uses(Q, j) \in 0..6
    OBVIOUS
  <2>1. Uses(Q, j) = Uses(q, j) + I(new = j)
    BY <1>1, <1>4, <1>12, <1>14 DEF Uses, I
  <2>2. Live(Q, j) = Uses(Q, j) - I(FALSE) /\ Uses(Q, j) \in 0..6
    <3>1. I(Q.freeing \in {"unlock", "drop"} /\ Head(Q.puts) = j) = I(FALSE)
      BY <1>12 DEF I
    <3>2. Live(Q, j) = Uses(Q, j) - I(Q.freeing \in {"unlock", "drop"} /\ Head(Q.puts) = j)
      BY DEF Live
    <3> QED BY <1>15, <3>1, <3>2, UsesType
  <2>3. Unread(Q, j) = I(new = j) /\ Unread(q, j) = 0
    BY <1>1, <1>12 DEF Unread, I
  <2>4. I(FALSE) = 0 /\ Uses(q, j) \in 0..6 /\ Live(q, j) = Uses(q, j)
    BY <1>6 DEF I
  <2> DEFINE a == Uses(q, j)  b == Uses(Q, j)  c == Live(Q, j)  d == I(new = j)  z == I(FALSE)
  <2>5. b = a + d /\ c = b - z /\ z = 0 /\ a \in 0..6 /\ b \in 0..6 /\ Live(q, j) = a
    BY <2>1, <2>2, <2>4
  <2>6. d \in 0..1
    BY DEF I
  <2> HIDE DEF a, b, c, d, z
  <2>7. c = a + d
    BY <2>5, <2>6
  <2> QED BY <2>1, <2>2, <2>3, <2>5, <2>7 DEF a, b, c, d
<1>17. /\ itab' \in [Inums -> Copies]
       /\ \A j \in Inums : j # dp /\ j # new => itab'[j] = itab[j]
       /\ itab'[dp].ref = itab[dp].ref /\ itab'[dp].valid /\ itab'[dp].lock = p
       /\ Same(itab'[dp], disk.inode[dp])
       /\ itab'[new].ref = itab[new].ref + 1 /\ itab'[new].lock = itab[new].lock
       /\ itab'[new].valid => itab[new].ref > 0 /\ itab[new].valid
  <2>1. /\ iget(t, new) \in [Inums -> Copies]
        /\ (\A j \in Inums : j # new => iget(t, new)[j] = t[j])
        /\ iget(t, new)[new].ref = t[new].ref + 1 /\ iget(t, new)[new].lock = t[new].lock
        /\ (iget(t, new)[new].valid => t[new].ref > 0 /\ t[new].valid)
    BY <1>7, <1>8, GotIs
  <2>2. t[new] = itab[new]
    BY <1>7, <1>8, <1>9
  <2>3. t[dp].ref = itab[dp].ref /\ t[dp].valid = TRUE /\ t[dp].lock = p /\ Same(t[dp], disk.inode[dp])
    BY <1>8 DEF Holds, Same
  <2>4. itab' = iget(t, new) /\ itab'[dp] = t[dp]
    BY <1>3, <1>4, <1>9, <2>1
  <2>5. \A j \in Inums : j # dp /\ j # new => itab'[j] = itab[j]
    BY <1>8, <2>1, <2>4
  <2> HIDE DEF dp
  <2> QED BY <2>1, <2>2, <2>3, <2>4, <2>5
<1>18. Type(p) \in {"dir", "file"} /\ Type(p)' = Type(p) /\ Last1(p)' = Last1(p)
  BY <1>12, <1>13 DEF Type, Op, Me, Last1
<1>19. /\ disk' \in Disks /\ disk'.ents = disk.ents /\ disk'.used = disk.used /\ disk'.lost = disk.lost
       /\ (\A j \in Inums : j # new => disk'.inode[j] = disk.inode[j])
       /\ disk'.inode[new].type = Type(p) /\ disk'.inode[new].nlink = 0 /\ disk'.inode[new].addrs = {}
  <2> DEFINE T == Type(p)  c == [disk.inode[new] EXCEPT !.type = T]  F == [disk.inode EXCEPT ![new] = c]
  <2>1. T \in Types /\ disk.inode[new] \in InodesOf /\ disk.inode \in [Inums -> InodesOf]
    BY <1>2, <1>7, <1>18 DEF Types, Disks
  <2>2. disk' = [disk EXCEPT !.inode = F]
    BY <1>3
  <2> HIDE DEF T
  <2>3. c \in InodesOf /\ c.type = T /\ c.nlink = disk.inode[new].nlink /\ c.addrs = disk.inode[new].addrs
    BY <2>1 DEF InodesOf
  <2> HIDE DEF c
  <2>4. F \in [Inums -> InodesOf] /\ F[new] = c /\ \A j \in Inums : j # new => F[j] = disk.inode[j]
    BY <1>7, <2>1, <2>3
  <2> HIDE DEF F
  <2>5. disk' \in Disks /\ disk'.inode = F /\ disk'.ents = disk.ents /\ disk'.used = disk.used /\ disk'.lost = disk.lost
    BY <1>2, <2>2, <2>4 DEF Disks
  <2> QED BY <1>9, <2>3, <2>4, <2>5 DEF T
<1> HIDE DEF q, dp
<1>20. \A r \in Procs, j \in Inums : /\ r # p => Live(ps'[r], j) = Live(ps[r], j) /\ Unread(ps'[r], j) = Unread(ps[r], j)
                                     /\ j # new => Live(ps'[r], j) = Live(ps[r], j)
  BY <1>6, <1>13, <1>16 DEF I, q
<1>21. Live(ps'[p], new) = 1 /\ Unread(ps'[p], new) = 1 /\ \A j \in Inums : j # new => Unread(ps'[p], j) = 0 /\ Unread(ps[p], j) = 0
  <2>1. Live(ps[p], new) = 0
    BY <1>9
  <2> QED BY <1>7, <1>13, <1>16, <2>1 DEF I, q
<1>22. InodesTypeOK'
  <2>1. orphans' \subseteq Inums
    BY <1>2, <1>3, <1>7
  <2> QED BY <1>1, <1>2, <1>13, <1>17, <1>19, <2>1 DEF InodesTypeOK
<1>23. StepsRight'
  <2>1. p \in inop
    BY <1>1 DEF IInv, StepsRight, q
  <2> QED BY <1>1, <1>13, <1>15, <2>1 DEF IInv, StepsRight
<1>24. RefsRight'
  <2> SUFFICES ASSUME NEW j \in Inums PROVE itab'[j].ref = Cardinality(Refs(j)')
    BY DEF RefsRight
  <2>1. itab[j].ref = Cardinality(Refs(j))
    BY DEF IInv, RefsRight
  <2>2. /\ Uses(ps[p], j) \in 0..6 /\ Uses(Q, j) \in 0..6
        /\ itab'[j].ref = itab[j].ref + Uses(Q, j) - Uses(ps[p], j)
        /\ Uses(Q, j) - Uses(ps[p], j) \in {-1, 0, 1}
    <3>1. itab'[j].ref = itab[j].ref + I(new = j)
      BY <1>2, <1>17 DEF I
    <3>2. Uses(Q, j) = Uses(ps[p], j) + I(new = j) /\ Uses(Q, j) \in 0..6 /\ Uses(ps[p], j) \in 0..6
      BY <1>6, <1>16 DEF q
    <3>3. I(new = j) \in {0, 1} /\ itab[j].ref \in Nat
      BY <1>2 DEF I
    <3> QED BY <3>1, <3>2, <3>3
  <2> QED BY <1>2, <1>13, <2>1, <2>2, RefsStep, ZenonT(60)
<1>25. LocksRight'
  <2> SUFFICES ASSUME NEW j \in Inums, NEW r \in Procs PROVE itab'[j].lock = r <=> j \in Locks(ps'[r])
    BY DEF LocksRight, Locks, PcLock, PutLock
  <2>1. itab[j].lock = r <=> j \in Locks(ps[r])
    BY DEF IInv, LocksRight
  <2>2. itab'[j].lock = IF j = dp THEN p ELSE itab[j].lock
    BY <1>17
  <2>3. Locks(Q) = {dp, 0} /\ Locks(q) = {0} /\ j # 0
    BY <1>2, <1>14 DEF Locks
  <2>4. CASE r = p
    <3>1. itab[j].lock # p
      BY <2>1, <2>3, <2>4 DEF q
    <3> QED BY <1>13, <2>2, <2>3, <2>4, <3>1
  <2>5. CASE r # p
    <3>1. j = dp => itab[j].lock # r
      BY <1>1, <1>2
    <3> QED BY <1>13, <2>1, <2>2, <2>5, <3>1
  <2> QED BY <2>4, <2>5
<1>26. TreesRight'
  <2>1. \A j \in Inums : Owed'[j] = Owed[j]
    <3>1. \A j \in Inums : ~Owes(Q, j) /\ ~Owes(q, j)
      BY <1>1, <1>4, <1>12 DEF Owes
    <3> QED BY <1>2, <1>13, <3>1 DEF Owed, q
  <2>2. Owed' = Owed
    BY <2>1 DEF Owed
  <2>3. LinksRight(home, Nothing)' /\ BlocksRight(home)'
    BY <1>1 DEF IInv, TreesRight, LinksRight, BlocksRight, LinkCount, Named, Kids, Nothing
  <2>4. \A j \in Inums : Named(disk', j) = Named(disk, j)
    BY <1>19 DEF Named
  <2>5. ASSUME NEW j \in Inums PROVE Kids(disk', j) = Kids(disk, j)
    <3>1. ASSUME NEW n \in Names, disk.ents[j][n] # 0
          PROVE  disk'.inode[disk.ents[j][n]] = disk.inode[disk.ents[j][n]]
      <4>1. disk.ents[j][n] \in Inums /\ disk.ents[j][n] # new
        BY <1>2, <1>10, <3>1 DEF Disks
      <4> QED BY <1>19, <4>1
    <3> QED BY <1>19, <3>1 DEF Kids
  <2>6. LinksRight(disk', Owed)
    <3>1. ASSUME NEW j \in Inums PROVE disk'.inode[j].nlink = LinkCount(disk', Owed, j)
      <4>1. disk'.inode[j].nlink = disk.inode[j].nlink
        BY <1>9, <1>19
      <4>2. LinkCount(disk', Owed, j) = LinkCount(disk, Owed, j)
        BY <1>19, <2>4, <2>5 DEF LinkCount
      <4> QED BY <4>1, <4>2 DEF IInv, TreesRight, LinksRight
    <3>2. ASSUME NEW j \in Inums, disk'.inode[j].type = "none"
          PROVE  disk'.inode[j].nlink = 0 /\ disk'.inode[j].addrs = {} /\ disk'.ents[j] = NoEntries
      <4>1. j # new
        BY <1>18, <1>19, <3>2
      <4> QED BY <1>19, <3>2, <4>1 DEF IInv, TreesRight, LinksRight
    <3>3. ASSUME NEW j \in Inums, disk'.inode[j].type = "dir" PROVE \A e, f \in Named(disk', j) : e = f
      <4>1. CASE j = new
        BY <1>10, <2>4, <4>1
      <4>2. CASE j # new
        BY <1>19, <2>4, <3>3, <4>2 DEF IInv, TreesRight, LinksRight
      <4> QED BY <4>1, <4>2
    <3> QED BY <3>1, <3>2, <3>3 DEF LinksRight
  <2>7. BlocksRight(disk')
    <3>1. \A j \in Inums : disk'.inode[j].addrs = disk.inode[j].addrs
      BY <1>9, <1>19
    <3> QED BY <1>19, <3>1 DEF IInv, TreesRight, BlocksRight
  <2>8. LinksRight(disk, Owed)' /\ BlocksRight(disk)'
    BY <2>2, <2>6, <2>7 DEF LinksRight, BlocksRight, LinkCount, Named, Kids
  <2> QED BY <2>3, <2>8 DEF TreesRight
<1>27. CopiesRight'
  <2> SUFFICES ASSUME NEW j \in Inums, itab'[j].ref > 0, itab'[j].valid, ~Unlocking(j)'
               PROVE  Same(itab'[j], disk'.inode[j]) /\ itab'[j].type # "none"
    BY DEF CopiesRight, Same
  <2>1. ~Unlocking(j)
    <3> SUFFICES ASSUME NEW r \in Procs, ps[r].freeing = "unlock", Head(ps[r].puts) = j PROVE FALSE
      BY DEF Unlocking
    <3>1. r # p
      BY <1>4 DEF q
    <3> QED BY <1>13, <3>1 DEF Unlocking
  <2>2. CASE j = new
    <3>1. itab[new].ref > 0 /\ itab[new].valid
      BY <1>17, <2>2
    <3>2. Same(itab[new], disk.inode[new]) /\ itab[new].type # "none"
      BY <1>7, <2>1, <2>2, <3>1 DEF IInv, CopiesRight
    <3> QED BY <1>7, <3>2 DEF Same
  <2>3. CASE j = dp
    <3>1. Live(ps[p], dp) > 0
      BY <1>4, <1>5, <1>6 DEF q
    <3>2. disk.inode[dp].type # "none"
      BY <1>4, <3>1 DEF IInv, AllocatedRight
    <3>3. disk'.inode[dp] = disk.inode[dp]
      BY <1>4, <1>9, <1>19
    <3> QED BY <1>17, <2>3, <3>2, <3>3 DEF Same
  <2>4. CASE j # new /\ j # dp
    BY <1>17, <1>19, <2>1, <2>4 DEF IInv, CopiesRight
  <2> QED BY <2>2, <2>3, <2>4
<1>28. AllocatedRight'
  <2> SUFFICES ASSUME NEW r \in Procs, NEW j \in Inums, Live(ps'[r], j) > 0
               PROVE  disk'.inode[j].type # "none"
    BY DEF AllocatedRight, Live, Uses
  <2>1. CASE j = new
    BY <1>18, <1>19, <2>1
  <2>2. CASE j # new
    BY <1>19, <1>20, <2>2 DEF IInv, AllocatedRight
  <2> QED BY <2>1, <2>2
<1>29. ReadRight'
  <2> SUFFICES ASSUME NEW r \in Procs, NEW j \in Inums, Live(ps'[r], j) > Unread(ps'[r], j)
               PROVE  itab'[j].valid
    BY DEF ReadRight, Live, Uses, Unread
  <2>1. j # new
    <3>1. CASE r = p
      BY <1>21, <3>1
    <3>2. CASE r # p
      <4>1. ASSUME j = new PROVE FALSE
        <5>1. Live(ps'[r], new) = 0 /\ Unread(ps'[r], new) = Unread(ps[r], new) /\ Unread(ps[r], new) \in Nat
          BY <1>6, <1>7, <1>9, <1>20, <3>2
        <5> QED BY <4>1, <5>1
      <4> QED BY <4>1
    <3> QED BY <3>1, <3>2
  <2>2. Live(ps[r], j) > Unread(ps[r], j)
    BY <1>20, <1>21, <2>1
  <2>3. itab[j].valid
    BY <2>2 DEF IInv, ReadRight
  <2> QED BY <1>17, <2>1, <2>3
<1>30. MadeRight'
  <2> SUFFICES ASSUME NEW r \in Procs, ps'[r].pc = "made"
               PROVE  LET k == ps'[r].ip
                      IN  /\ disk'.inode[k].nlink = 0 /\ disk'.inode[k].addrs = {} /\ disk'.inode[k].type = Type(r)'
                          /\ \A s \in Procs : Live(ps'[s], k) = I(r = s)
                          /\ disk'.ents[ps'[r].dp][Last1(r)'] = 0
    BY DEF MadeRight, Live, Uses
  <2>1. CASE r = p
    <3>1. ps'[r].ip = new /\ ps'[r].dp = dp
      BY <1>12, <1>13, <2>1
    <3>2. \A s \in Procs : Live(ps'[s], new) = I(r = s)
      BY <1>7, <1>9, <1>20, <1>21, <2>1 DEF I
    <3> QED BY <1>3, <1>18, <1>19, <2>1, <3>1, <3>2
  <2>2. CASE r # p
    <3> DEFINE k == ps[r].ip
    <3>1. ps'[r] = ps[r] /\ ps[r].pc = "made"
      BY <1>13, <2>2
    <3>2. /\ disk.inode[k].nlink = 0 /\ disk.inode[k].addrs = {} /\ disk.inode[k].type = Type(r)
          /\ \A s \in Procs : Live(ps[s], k) = I(r = s)
          /\ disk.ents[ps[r].dp][Last1(r)] = 0
      BY <3>1 DEF IInv, MadeRight
    <3>3. k \in Inums /\ k # new
      <4>1. k \in Inums
        BY <1>2, <3>1 DEF StepRight, HasIp, States
      <4>2. Live(ps[r], k) = 1
        BY <3>2 DEF I
      <4> QED BY <1>9, <4>1, <4>2
    <3>4. Type(r)' = Type(r) /\ Last1(r)' = Last1(r)
      BY <3>1 DEF Type, Op, Me, Last1
    <3>5. \A s \in Procs : Live(ps'[s], k) = Live(ps[s], k)
      BY <1>20, <3>3
    <3> HIDE DEF k
    <3>6. ps'[r].ip = k /\ ps'[r].dp = ps[r].dp
      BY <3>1 DEF k
    <3> QED BY <1>19, <3>2, <3>3, <3>4, <3>5, <3>6
  <2> QED BY <2>1, <2>2
<1>31. SeenRight'
  <2> SUFFICES ASSUME NEW r \in Procs
               PROVE  /\ ps'[r].pc = "child" => disk'.ents[ps'[r].dp][Last1(r)'] = ps'[r].ip
                      /\ ps'[r].new /\ ps'[r].pc \in {"walk", "dir"} => disk'.inode[ps'[r].ip].type = "file"
    BY DEF SeenRight
  <2>1. CASE r = p
    BY <1>12, <1>13, <2>1
  <2>2. CASE r # p
    <3>1. ps'[r] = ps[r]
      BY <1>13, <2>2
    <3>2. Last1(r)' = Last1(r)
      BY <3>1 DEF Last1, Me
    <3>3. ASSUME ps[r].new, ps[r].pc \in {"walk", "dir"} PROVE disk'.inode[ps[r].ip].type = "file"
      <4>1. disk.inode[ps[r].ip].type = "file"
        BY <3>3 DEF IInv, SeenRight
      <4>2. ps[r].ip \in Inums
        BY <1>2, <3>3 DEF StepRight, HasIp, States
      <4> QED BY <1>7, <1>19, <4>1, <4>2
    <3>4. ps[r].pc = "child" => disk.ents[ps[r].dp][Last1(r)] = ps[r].ip
      BY DEF IInv, SeenRight
    <3> QED BY <1>19, <3>1, <3>2, <3>3, <3>4
  <2> QED BY <2>1, <2>2
<1>32. FreeingRight'
  <2> SUFFICES ASSUME NEW r \in Procs
               PROVE  LET k == Head(ps'[r].puts)
                      IN  /\ ps'[r].freeing = "trunc" => itab'[k].ref = 1 /\ itab'[k].valid /\ disk'.inode[k].nlink = 0
                          /\ ps'[r].freeing = "unlock" =>
                                /\ disk'.inode[k].nlink = 0
                                /\ \A s \in Procs : Live(ps'[s], k) = I(ps'[s].pc = "made" /\ ps'[s].ip = k)
                          /\ ps'[r].freeing \in {"unlock", "drop"} /\ disk'.inode[k].type # "none" => k \in orphans'
    BY DEF FreeingRight, Live, Uses
  <2>1. CASE r = p
    BY <1>12, <1>13, <2>1
  <2>2. CASE r # p /\ ps[r].freeing = "no"
    BY <1>13, <2>2
  <2>3. CASE r # p /\ ps[r].freeing # "no"
    <3> DEFINE k == Head(ps[r].puts)
    <3>1. ps'[r] = ps[r] /\ ps[r] \in States /\ ps[r].puts # <<>>
      BY <1>2, <1>13, <2>3 DEF StepRight
    <3>2. k \in Inums /\ Uses(ps[r], k) >= 1
      BY <3>1, NamesUsed
    <3>3. /\ ps[r].freeing = "trunc" => itab[k].ref = 1 /\ itab[k].valid /\ disk.inode[k].nlink = 0
          /\ ps[r].freeing = "unlock" =>
                /\ disk.inode[k].nlink = 0
                /\ \A s \in Procs : Live(ps[s], k) = I(ps[s].pc = "made" /\ ps[s].ip = k)
          /\ ps[r].freeing \in {"unlock", "drop"} /\ disk.inode[k].type # "none" => k \in orphans
      BY DEF IInv, FreeingRight
    <3>4. ASSUME ps[r].freeing = "trunc" PROVE k # new
      <4>1. Live(ps[r], k) = Uses(ps[r], k) - I(ps[r].freeing \in {"unlock", "drop"} /\ Head(ps[r].puts) = k)
        BY DEF Live
      <4>2. I(ps[r].freeing \in {"unlock", "drop"} /\ Head(ps[r].puts) = k) = 0
        BY <3>4 DEF I
      <4>3. Uses(ps[r], k) \in 0..6
        BY <1>6, <3>2
      <4> HIDE DEF k
      <4>4. Live(ps[r], k) >= 1
        BY <3>2, <4>1, <4>2, <4>3
      <4> QED BY <1>9, <4>4
    <3>5. k = new => itab[new].ref > 0
      <4>1. Uses(ps[r], k) \in 0..6 /\ Uses(ps[r], k) <= itab[k].ref /\ itab[k].ref \in Nat
        BY <3>2, Counted
      <4> HIDE DEF k
      <4> QED BY <3>2, <4>1
    <3>6. Head(ps'[r].puts) = k /\ ps'[r].freeing = ps[r].freeing
      BY <3>1
    <3> HIDE DEF k
    <3>7. ASSUME ps[r].freeing = "trunc" PROVE itab'[k].ref = 1 /\ itab'[k].valid /\ disk'.inode[k].nlink = 0
      <4>1. itab'[k].ref = itab[k].ref /\ (itab[k].valid => itab'[k].valid)
        BY <1>17, <3>2, <3>4, <3>7
      <4>2. disk'.inode[k] = disk.inode[k]
        BY <1>19, <3>2, <3>4, <3>7
      <4> QED BY <3>3, <3>7, <4>1, <4>2
    <3>8. ASSUME ps[r].freeing = "unlock"
          PROVE  /\ disk'.inode[k].nlink = 0
                 /\ \A s \in Procs : Live(ps'[s], k) = I(ps'[s].pc = "made" /\ ps'[s].ip = k)
      <4>1. disk'.inode[k].nlink = 0
        BY <1>19, <3>2, <3>3, <3>8
      <4>2. ASSUME NEW s \in Procs, s # p PROVE Live(ps'[s], k) = I(ps'[s].pc = "made" /\ ps'[s].ip = k)
        BY <1>13, <1>20, <3>2, <3>3, <3>8, <4>2
      <4>3. Live(ps'[p], k) = I(ps'[p].pc = "made" /\ ps'[p].ip = k)
        <5>1. I(ps'[p].pc = "made" /\ ps'[p].ip = k) = IF k = new THEN 1 ELSE 0
          BY <1>12, <1>13 DEF I
        <5>2. CASE k = new
          BY <1>21, <5>1, <5>2
        <5>3. CASE k # new
          <6>1. Live(ps[p], k) = I(ps[p].pc = "made" /\ ps[p].ip = k)
            BY <3>3, <3>8
          <6>2. I(ps[p].pc = "made" /\ ps[p].ip = k) = 0
            BY <1>1 DEF I, q
          <6> QED BY <1>20, <3>2, <5>1, <5>3, <6>1, <6>2
        <5> QED BY <5>2, <5>3
      <4> QED BY <4>1, <4>2, <4>3
    <3>9. ASSUME ps[r].freeing \in {"unlock", "drop"}, disk'.inode[k].type # "none" PROVE k \in orphans'
      <4>1. CASE k = new
        BY <1>3, <3>5, <4>1
      <4>2. CASE k # new
        BY <1>3, <1>19, <3>2, <3>3, <3>9, <4>2
      <4> QED BY <4>1, <4>2
    <3> QED BY <3>6, <3>7, <3>8, <3>9
  <2> QED BY <2>1, <2>2, <2>3
<1>33. NoneStranded'
  <2> SUFFICES ASSUME NEW j \in Inums, disk'.inode[j].type # "none", disk'.inode[j].nlink = 0, itab'[j].ref = 0
               PROVE  j \in orphans'
    BY DEF NoneStranded, Allocated
  <2>1. j # new
    BY <1>2, <1>7, <1>17
  <2>2. itab[j].ref = 0
    BY <1>17, <2>1
  <2>3. j \in orphans
    BY <1>19, <2>1, <2>2 DEF IInv, NoneStranded, Allocated
  <2> QED BY <1>3, <2>1, <2>3
<1> QED BY <1>22, <1>23, <1>24, <1>25, <1>26, <1>27, <1>28, <1>29, <1>30, <1>31, <1>32, <1>33 DEF IInv

-----------------------------------------------------------------------------
(* The start, and a new one after a crash.                                  *)

Started ==
    /\ disk = home /\ home \in Disks /\ LinksRight(home, Nothing) /\ BlocksRight(home)
    /\ itab = [i \in Inums |-> NoCopy]
    /\ inop \subseteq Procs
    /\ ps \in [Procs -> {Idle(jobs) : jobs \in Seq(Calls)}]
    /\ orphans = {i \in Inums : disk.inode[i].type # "none" /\ disk.inode[i].nlink = 0}
    /\ crashes \in Nat

LEMMA StartIs == Started => IInv
<1> SUFFICES ASSUME Started PROVE IInv
  OBVIOUS
<1>1. ASSUME NEW r \in Procs
      PROVE  /\ ps[r] \in States /\ StepRight(ps[r]) /\ ps[r].pc = "idle" /\ ps[r].freeing = "no" /\ ~ps[r].new
             /\ (\A i \in Inums : Uses(ps[r], i) = 0 /\ Live(ps[r], i) = 0 /\ Unread(ps[r], i) = 0)
             /\ (\A i \in Inums : ~Owes(ps[r], i) /\ i \notin Locks(ps[r]))
  <2>1. PICK jobs \in Seq(Calls) : ps[r] = Idle(jobs)
    BY DEF Started
  <2>2. ps[r] \in States /\ StepRight(ps[r])
    BY <2>1, IdleIs
  <2>3. /\ ps[r].pc = "idle" /\ ps[r].freeing = "no" /\ ps[r].new = FALSE /\ ps[r].puts = <<>> /\ ps[r].fd = 0
    BY <2>1 DEF Idle
  <2>4. \A i \in Inums : PutN(ps[r].puts, i) = 0 /\ i # 0
    BY <2>3, PutNone, InodesAssumption
  <2>5. ASSUME NEW i \in Inums PROVE Uses(ps[r], i) = 0 /\ Live(ps[r], i) = 0 /\ Unread(ps[r], i) = 0
    <3>1. Uses(ps[r], i) = 0
      BY <2>3, <2>4 DEF Uses, HasIp, HasDp, I
    <3>2. Live(ps[r], i) = 0
      <4>1. I(ps[r].freeing \in {"unlock", "drop"} /\ Head(ps[r].puts) = i) = 0
        BY <2>3 DEF I
      <4> QED BY <3>1, <4>1 DEF Live
    <3>3. Unread(ps[r], i) = 0
      BY <2>3 DEF Unread, I
    <3> QED BY <3>1, <3>2, <3>3
  <2>6. \A i \in Inums : ~Owes(ps[r], i) /\ i \notin Locks(ps[r])
    BY <2>3, <2>4 DEF Owes, Locks, PcLock, PutLock
  <2> QED BY <2>2, <2>3, <2>5, <2>6
<1>2. NoCopy \in Copies /\ NoCopy.ref = 0 /\ NoCopy.lock = 0
  BY DEF NoCopy, Copies, Types
<1>3. InodesTypeOK
  <2>1. ps \in [Procs -> States]
    BY <1>1 DEF Started
  <2> QED BY <1>2, <2>1 DEF Started, InodesTypeOK
<1>4. StepsRight
  BY <1>1 DEF StepsRight
<1>5. RefsRight
  <2> SUFFICES ASSUME NEW i \in Inums PROVE itab[i].ref = Cardinality(Refs(i))
    BY DEF RefsRight
  <2>1. ASSUME NEW pk \in Procs \X (1..6) PROVE ~(pk[2] <= Uses(ps[pk[1]], i))
    <3>1. pk[1] \in Procs /\ pk[2] \in 1..6
      OBVIOUS
    <3>2. Uses(ps[pk[1]], i) = 0
      BY <1>1, <3>1
    <3> QED BY <3>1, <3>2
  <2>2. Refs(i) = {}
    BY <2>1 DEF Refs
  <2> QED BY <1>2, <2>2, FS_EmptySet DEF Started
<1>6. LocksRight
  BY <1>1, <1>2, InodesAssumption DEF LocksRight, Started
<1>7. TreesRight
  <2>1. Owed = Nothing
    BY <1>1 DEF Owed, Nothing
  <2> QED BY <2>1 DEF Started, TreesRight
<1>8. CopiesRight
  BY <1>2 DEF CopiesRight, Started
<1>9. AllocatedRight /\ ReadRight
  BY <1>1 DEF AllocatedRight, ReadRight
<1>10. MadeRight /\ SeenRight /\ FreeingRight
  BY <1>1 DEF MadeRight, SeenRight, FreeingRight
<1>11. NoneStranded
  BY DEF NoneStranded, Allocated, Started
<1> QED BY <1>3, <1>4, <1>5, <1>6, <1>7, <1>8, <1>9, <1>10, <1>11 DEF IInv

LEMMA CrashKeeps ==
    ASSUME IInv, Crash
    PROVE  IInv'
<1>1. Started'
  <2>1. ps' \in [Procs -> {Idle(jobs) : jobs \in Seq(Calls)}]
    BY DEF Crash, IInv, InodesTypeOK, States
  <2>2. LinksRight(home, Nothing)' /\ BlocksRight(home)'
    BY DEF Crash, IInv, TreesRight, LinksRight, BlocksRight, LinkCount, Named, Kids, Nothing
  <2>3. crashes' \in Nat
    BY DEF Crash, IInv, InodesTypeOK
  <2> QED BY <2>1, <2>2, <2>3 DEF Crash, Started, IInv, InodesTypeOK
<1>2. Started' => IInv'
  BY StartIs, PTL
<1> QED BY <1>1, <1>2

\* The file system of mkfs.
LEMMA FreshTree ==
    Fresh \in Disks /\ LinksRight(Fresh, Nothing) /\ BlocksRight(Fresh)
    /\ \A i \in Inums : Fresh.inode[i].type # "none" => Fresh.inode[i].nlink # 0
<1>1. 1 \in Inums /\ 2 \in Inums /\ 3 \in Inums /\ "a" \in Names /\ "d" \in Names /\ 1 \in Blocks /\ 2 \in Blocks
      /\ Inums \subseteq Nat \ {0} /\ "a" # "d"
  BY InodesAssumption
<1>2. /\ Fresh.inode[1] = [type |-> "dir", nlink |-> 2, addrs |-> {1}]
      /\ Fresh.inode[2] = [type |-> "dir", nlink |-> 1, addrs |-> {2}]
      /\ Fresh.inode[3] = [type |-> "file", nlink |-> 1, addrs |-> {}]
      /\ \A i \in Inums : i \notin {1, 2, 3} => Fresh.inode[i] = FreeInode
  BY <1>1 DEF Fresh
<1>3. /\ Fresh.ents = [i \in Inums |-> IF i = 1 THEN [NoEntries EXCEPT !["d"] = 2, !["a"] = 3] ELSE NoEntries]
      /\ Fresh.used = {1, 2} /\ Fresh.lost = [i \in Inums |-> 0]
  BY DEF Fresh
<1>4. /\ Fresh.ents[1]["d"] = 2 /\ Fresh.ents[1]["a"] = 3
      /\ \A n \in Names : n # "a" /\ n # "d" => Fresh.ents[1][n] = 0
      /\ \A i \in Inums, n \in Names : i # 1 => Fresh.ents[i][n] = 0
      /\ \A i \in Inums : i # 1 => Fresh.ents[i] = NoEntries
      /\ Fresh.lost = [i \in Inums |-> 0]
      /\ Fresh.ents \in [Inums -> [Names -> Inums \cup {0}]]
  BY <1>1, <1>3 DEF NoEntries
<1>5. /\ FreeInode.type = "none" /\ FreeInode.nlink = 0 /\ FreeInode.addrs = {} /\ FreeInode \in InodesOf
      /\ Fresh.inode[1] \in InodesOf /\ Fresh.inode[2] \in InodesOf /\ Fresh.inode[3] \in InodesOf
  BY <1>1, <1>2 DEF FreeInode, InodesOf, Types
<1>6. Fresh \in Disks
  <2>1. DOMAIN Fresh.inode = Inums /\ Fresh.inode = [i \in Inums |-> Fresh.inode[i]]
    BY DEF Fresh
  <2>2. \A i \in Inums : Fresh.inode[i] \in InodesOf
    BY <1>2, <1>5
  <2>3. Fresh.inode \in [Inums -> InodesOf]
    BY <2>1, <2>2
  <2>4. Fresh.used \in SUBSET Blocks /\ Fresh.lost \in [Inums -> Nat]
    BY <1>1, <1>3
  <2>5. Fresh = [inode |-> Fresh.inode, ents |-> Fresh.ents, used |-> Fresh.used, lost |-> Fresh.lost]
    BY DEF Fresh
  <2> QED BY <1>4, <2>3, <2>4, <2>5 DEF Disks
<1>7. /\ Named(Fresh, 2) = {<<1, "d">>} /\ Named(Fresh, 3) = {<<1, "a">>}
      /\ \A i \in Inums : i \notin {2, 3} => Named(Fresh, i) = {}
  <2>1. \A e \in Inums \X Names : Fresh.ents[e[1]][e[2]] =
            IF e = <<1, "d">> THEN 2 ELSE IF e = <<1, "a">> THEN 3 ELSE 0
    <3> SUFFICES ASSUME NEW i \in Inums, NEW n \in Names
                 PROVE  Fresh.ents[i][n] = IF <<i, n>> = <<1, "d">> THEN 2 ELSE IF <<i, n>> = <<1, "a">> THEN 3 ELSE 0
      OBVIOUS
    <3> QED BY <1>1, <1>4
  <2>2. \A i \in Inums : i # 0
    BY <1>1
  <2> QED BY <1>1, <2>1, <2>2 DEF Named
<1>8. Kids(Fresh, 1) = {"d"} /\ \A i \in Inums : i # 1 => Kids(Fresh, i) = {}
  <2>1. Fresh.inode[2].type = "dir" /\ Fresh.inode[3].type = "file"
    BY <1>2
  <2> QED BY <1>1, <1>4, <2>1 DEF Kids
<1>9. Cardinality({}) = 0 /\ \A x : Cardinality({x}) = 1
  BY FS_EmptySet, FS_Singleton
<1>10. ASSUME NEW i \in Inums PROVE Fresh.inode[i].nlink = LinkCount(Fresh, Nothing, i)
  <2>1. LinkCount(Fresh, Nothing, i) = I(i = ROOTINO) + Cardinality(Named(Fresh, i)) + Cardinality(Kids(Fresh, i)) + 0 + 0
    BY <1>4, <1>9 DEF LinkCount, Nothing
  <2>2. CASE i = 1
    <3>1. I(i = ROOTINO) = 1 /\ Cardinality(Named(Fresh, i)) = 0 /\ Cardinality(Kids(Fresh, i)) = 1
      BY <1>7, <1>8, <1>9, <2>2 DEF I, ROOTINO
    <3> QED BY <1>2, <2>1, <2>2, <3>1
  <2>3. CASE i \in {2, 3}
    <3>1. i # 1 /\ (i = 2 \/ i = 3)
      BY <2>3
    <3>2. Cardinality(Named(Fresh, i)) = 1
      BY <1>7, <1>9, <3>1
    <3>3. Cardinality(Kids(Fresh, i)) = 0
      BY <1>8, <1>9, <3>1
    <3>4. I(i = ROOTINO) = 0
      BY <3>1 DEF I, ROOTINO
    <3>5. I(i = ROOTINO) = 0 /\ Cardinality(Named(Fresh, i)) = 1 /\ Cardinality(Kids(Fresh, i)) = 0
      BY <3>2, <3>3, <3>4
    <3> QED BY <1>2, <2>1, <2>3, <3>5
  <2>4. CASE i \notin {1, 2, 3}
    <3>1. I(i = ROOTINO) = 0 /\ Cardinality(Named(Fresh, i)) = 0 /\ Cardinality(Kids(Fresh, i)) = 0
      BY <1>7, <1>8, <1>9, <2>4 DEF I, ROOTINO
    <3> QED BY <1>2, <1>5, <2>1, <2>4, <3>1
  <2> QED BY <2>2, <2>3, <2>4
<1>11. LinksRight(Fresh, Nothing)
  <2>1. ASSUME NEW i \in Inums, Fresh.inode[i].type = "none"
        PROVE  Fresh.inode[i].nlink = 0 /\ Fresh.inode[i].addrs = {} /\ Fresh.ents[i] = NoEntries
    <3>1. i \notin {1, 2, 3}
      BY <1>2, <2>1
    <3> QED BY <1>2, <1>4, <1>5, <3>1
  <2>2. \A i \in Inums : \A e, f \in Named(Fresh, i) : e = f
    BY <1>7
  <2> QED BY <1>10, <2>1, <2>2 DEF LinksRight
<1>12. BlocksRight(Fresh)
  <2>1. \A i \in Inums : Fresh.inode[i].addrs = IF i = 1 THEN {1} ELSE IF i = 2 THEN {2} ELSE {}
    BY <1>2, <1>5
  <2> QED BY <1>1, <1>3, <2>1 DEF BlocksRight
<1>13. \A i \in Inums : Fresh.inode[i].type # "none" => Fresh.inode[i].nlink # 0
  BY <1>2, <1>5
<1> QED BY <1>6, <1>11, <1>12, <1>13

LEMMA InitIs == Init => IInv
<1> SUFFICES ASSUME Init PROVE IInv
  OBVIOUS
<1>1. PICK jobs \in Jobs : ps = [p \in Procs |-> Idle(jobs[p])]
  BY DEF Init
<1>2. ps \in [Procs -> {Idle(j) : j \in Seq(Calls)}]
  BY <1>1, InodesAssumption
<1>3. disk = Fresh /\ home = Fresh /\ itab = [i \in Inums |-> NoCopy] /\ inop = {} /\ orphans = {} /\ crashes = 0
  BY DEF Init
<1>4. Started
  BY <1>2, <1>3, FreshTree DEF Started
<1> QED BY <1>4, StartIs

LEMMA StepKeepsAll ==
    ASSUME IInv, [Next]_vars
    PROVE  IInv'
<1>1. CASE UNCHANGED vars
  <2>1. UNCHANGED <<disk, home, itab, inop, ps, orphans, crashes>>
    BY <1>1 DEF vars
  <2>2. (InodesTypeOK /\ StepsRight /\ RefsRight)'
    BY <2>1 DEF IInv, InodesTypeOK, StepsRight, RefsRight, Refs
  <2>3. (LocksRight /\ TreesRight /\ CopiesRight)'
    BY <2>1 DEF IInv, LocksRight, TreesRight, CopiesRight, LinksRight, BlocksRight, LinkCount, Named, Kids, Owed,
                Nothing, Same, Unlocking
  <2>4. (AllocatedRight /\ ReadRight /\ FreeingRight /\ NoneStranded)'
    BY <2>1 DEF IInv, AllocatedRight, ReadRight, FreeingRight, NoneStranded, Allocated
  <2>5. (MadeRight /\ SeenRight)'
    BY <2>1 DEF IInv, MadeRight, SeenRight, Type, Op, Me, Last1
  <2> QED BY <2>2, <2>3, <2>4, <2>5 DEF IInv
<1>2. CASE Crash
  BY <1>2, CrashKeeps
<1>3. ASSUME NEW p \in Procs, Step(p) PROVE IInv'
  <2>1. CASE begin_op(p)
    BY <2>1, BeginKeeps
  <2>2. CASE end_op(p)
    BY <2>2, EndKeeps
  <2>3. CASE Walk(p)
    BY <2>3, WalkKeeps
  <2>4. CASE iput(p)
    BY <2>4, PutKeeps, PutFreesKeeps
  <2>5. CASE iput_free(p)
    BY <2>5, FreeKeeps
  <2>6. CASE iput_unlock(p)
    BY <2>6, UnlockKeeps
  <2>7. CASE iput_drop(p)
    BY <2>7, PutDropKeeps
  <2>8. CASE create(p)
    <3>1. ps'[p].pc # "made" => UNCHANGED <<disk, orphans>>
      <4>1. ASSUME NEW x, Becomes(p, [Goto(p, "made") EXCEPT !.ip = x]) PROVE ps'[p].pc = "made"
        <5>1. ps \in [Procs -> States] /\ ps[p] \in States
          BY DEF IInv, InodesTypeOK
        <5>2. ps'[p] = [Goto(p, "made") EXCEPT !.ip = x]
          BY <4>1, <5>1 DEF Becomes
        <5> QED BY <5>1, <5>2 DEF Goto, Me, States
      <4> QED BY <2>8, <4>1 DEF create
    <3> QED BY <2>8, <3>1, CreateSees, NewKeeps
  <2>9. CASE create_open(p)
    BY <2>9, CreateOpenKeeps
  <2>10. CASE create_link(p)
    BY <2>10, CreateGivesUp, CreateLinks
  <2>11. CASE created(p)
    BY <2>11, CreatedKeeps
  <2>12. CASE unlock_dp(p)
    BY <2>12, UnlockDpKeeps
  <2>13. CASE unlink(p)
    BY <2>13, UnlinkKeeps
  <2>14. CASE unlink_entry(p)
    BY <2>14, UnlinkFails, UnlinkEntryKeeps
  <2>15. CASE unlink_drop(p)
    BY <2>15, UnlinkDropKeeps
  <2>16. CASE Found(p)
    BY <2>16, FoundKeeps, FoundLinks
  <2>17. CASE link(p)
    BY <2>17, LinkSees, LinkMakes
  <2>18. CASE write(p)
    BY <2>18, WriteDataKeeps
  <2> QED BY <1>3, <2>1, <2>2, <2>3, <2>4, <2>5, <2>6, <2>7, <2>8, <2>9, <2>10, <2>11, <2>12, <2>13,
             <2>14, <2>15, <2>16, <2>17, <2>18 DEF Step
<1> QED BY <1>1, <1>2, <1>3 DEF Next, Done

\* Reference counts, locks, copies and the trees of every reachable state are right.
THEOREM InodesInv == Spec => []IInv
<1>1. Init => IInv
  BY InitIs
<1>2. IInv /\ [Next]_vars => IInv'
  BY StepKeepsAll
<1> QED BY <1>1, <1>2, PTL DEF Spec

-----------------------------------------------------------------------------
(* What the invariant means.                                               *)

LEMMA LastRefUnlocked == IInv => PutNeverBlocks
<1> SUFFICES ASSUME IInv, NEW p \in Procs, Putting(p, "no"), MustFree(Head(ps[p].puts)),
                    itab[Head(ps[p].puts)].lock # 0
             PROVE  FALSE
  BY DEF PutNeverBlocks, CanLock, Me
<1> DEFINE q == ps[p]  i == Head(q.puts)
<1>1. itab[i].ref = 1 /\ q.puts # <<>> /\ q.freeing = "no"
  BY DEF MustFree, Putting, Me
<1>2. i \in Inums /\ Live(q, i) = 1 /\ \A r \in Procs : r # p => Uses(ps[r], i) = 0
  BY <1>1, LastPutIs
<1>3. PICK r \in Procs : itab[i].lock = r
  BY <1>2 DEF IInv, InodesTypeOK, Copies
<1>4. i = PcLock(ps[r]) \/ i = PutLock(ps[r])
  BY <1>2, <1>3 DEF IInv, LocksRight, Locks
<1>5. i # 0
  BY <1>2, InodesAssumption
<1>6. CASE r # p
  <2>1. Uses(ps[r], i) = 0
    BY <1>2, <1>6
  <2>2. CASE i = PcLock(ps[r])
    BY <1>5, <2>1, <2>2, NamesUsed DEF PcLock, HasIp, HasDp
  <2>3. CASE i = PutLock(ps[r])
    <3>1. ps[r].freeing # "no" /\ i = Head(ps[r].puts)
      BY <1>5, <2>3 DEF PutLock
    <3>2. ps[r].puts # <<>>
      BY <3>1 DEF IInv, StepsRight, StepRight
    <3>3. Uses(ps[r], i) >= 1
      BY <3>1, <3>2, NamesUsed
    <3> QED BY <2>1, <3>3
  <2> QED BY <1>4, <2>2, <2>3
<1>7. CASE r = p
  <2>1. PutLock(q) = 0
    BY <1>1 DEF PutLock
  <2>2. i = PcLock(q)
    BY <1>4, <1>5, <1>7, <2>1
  <2>3. Uses(q, i) >= 2
    <3>1. (HasIp(q) /\ i = q.ip) \/ (HasDp(q) /\ i = q.dp)
      BY <1>5, <2>2 DEF PcLock, HasIp, HasDp
    <3> QED BY <1>1, <3>1, NamesUsed
  <2>4. Live(q, i) = Uses(q, i) - I(FALSE) /\ Uses(q, i) \in 0..6
    <3>1. I(q.freeing \in {"unlock", "drop"} /\ Head(q.puts) = i) = I(FALSE)
      BY <1>1 DEF I
    <3>2. Live(q, i) = Uses(q, i) - I(q.freeing \in {"unlock", "drop"} /\ Head(q.puts) = i)
      BY DEF Live
    <3>3. Uses(q, i) \in 0..6
      BY <1>2, Counted
    <3> QED BY <3>1, <3>2, <3>3
  <2>5. I(FALSE) = 0
    BY DEF I
  <2> DEFINE u == Uses(q, i)  z == I(FALSE)
  <2>6. u >= 2 /\ 1 = u - z /\ z = 0 /\ u \in 0..6
    BY <1>2, <2>3, <2>4, <2>5
  <2> HIDE DEF u, z
  <2> QED BY <2>6
<1> QED BY <1>6, <1>7

LEMMA CopiesAreFresh == IInv => CopiesFresh
<1> SUFFICES ASSUME IInv PROVE CopiesFresh
  OBVIOUS
<1>1. ASSUME NEW i \in Inums, itab[i].ref > 0, itab[i].valid, itab[i].lock = 0
      PROVE  Same(itab[i], disk.inode[i])
  <2>1. ~Unlocking(i)
    <3> SUFFICES ASSUME NEW r \in Procs, ps[r].freeing = "unlock", Head(ps[r].puts) = i PROVE FALSE
      BY DEF Unlocking
    <3>1. i \in Locks(ps[r]) /\ r # 0
      BY InodesAssumption DEF Locks, PutLock
    <3> QED BY <1>1, <3>1 DEF IInv, LocksRight
  <2> QED BY <1>1, <2>1 DEF IInv, CopiesRight
<1>2. ASSUME NEW p \in Procs, At(p, "found") \/ At(p, "child") \/ At(p, "exists") \/ At(p, "undo")
      PROVE  disk.inode[ps[p].ip].type # "none"
  <2> DEFINE q == ps[p]
  <2>1. q.puts = <<>> /\ HasIp(q)
    BY <1>2 DEF At, Me, HasIp
  <2>2. q.ip \in Inums /\ Uses(q, q.ip) >= 1
    BY <2>1, NamesUsed
  <2>3. Live(q, q.ip) = Uses(q, q.ip) /\ Uses(q, q.ip) \in 0..6
    BY <2>1, <2>2, AtIs
  <2>4. Live(q, q.ip) > 0
    BY <2>2, <2>3
  <2> QED BY <2>2, <2>4 DEF IInv, AllocatedRight
<1> QED BY <1>1, <1>2 DEF CopiesFresh, Same, Me

LEMMA TreesAreConsistent ==
    ASSUME NEW fs \in Disks, LinksRight(fs, Nothing), BlocksRight(fs)
    PROVE  Consistent(fs)
<1>1. ASSUME NEW i \in Inums
      PROVE  fs.inode[i].nlink = Cardinality(Named(fs, i)) + Cardinality(Kids(fs, i)) + fs.lost[i] + I(i = ROOTINO)
  <2> DEFINE r == I(i = ROOTINO)  x == Cardinality(Named(fs, i))  y == Cardinality(Kids(fs, i))  l == fs.lost[i]
  <2>1. fs.inode[i].nlink = r + x + y + l + Cardinality({})
    BY DEF LinksRight, LinkCount, Nothing
  <2>2. Cardinality({}) = 0 /\ r \in Nat /\ x \in Nat /\ y \in Nat /\ l \in Nat
    BY NamedFinite, FS_EmptySet DEF I, Disks
  <2> HIDE DEF r, x, y, l
  <2>3. fs.inode[i].nlink = x + y + l + r
    BY <2>1, <2>2
  <2> QED BY <2>3 DEF r, x, y, l
<1>2. ASSUME NEW dp \in Inums, NEW n \in Names, fs.ents[dp][n] # 0
      PROVE  fs.ents[dp][n] \in Inums /\ fs.inode[fs.ents[dp][n]].type # "none"
  <2> DEFINE i == fs.ents[dp][n]
  <2>1. i \in Inums
    BY <1>2 DEF Disks
  <2>2. <<dp, n>> \in Named(fs, i)
    BY DEF Named
  <2> DEFINE x == Cardinality(Named(fs, i))  y == Cardinality(Kids(fs, i))  l == fs.lost[i]  r == I(i = ROOTINO)
  <2>3. x \in Nat /\ x # 0 /\ y \in Nat /\ l \in Nat /\ r \in Nat
    BY <2>1, <2>2, NamedFinite, FS_EmptySet DEF I, Disks
  <2>4. fs.inode[i].nlink = x + y + l + r
    BY <1>1, <2>1
  <2> HIDE DEF x, y, l, r
  <2>5. fs.inode[i].nlink # 0
    BY <2>3, <2>4
  <2> QED BY <2>1, <2>5 DEF LinksRight
<1>3. \A i \in Inums : Entries(fs, i) = Named(fs, i)
  <2> SUFFICES ASSUME NEW i \in Inums PROVE Entries(fs, i) = Named(fs, i)
    OBVIOUS
  <2>1. i # 0
    BY InodesAssumption
  <2>2. ASSUME NEW e \in Inums \X Names, fs.ents[e[1]][e[2]] = i PROVE e[1] \in Allocated(fs)
    <3> SUFFICES ASSUME fs.inode[e[1]].type = "none" PROVE FALSE
      BY DEF Allocated
    <3>1. fs.ents[e[1]] = NoEntries
      BY DEF LinksRight
    <3> QED BY <2>1, <2>2, <3>1 DEF NoEntries
  <2>3. Allocated(fs) \subseteq Inums
    BY DEF Allocated
  <2> QED BY <2>2, <2>3 DEF Entries, Named
<1>4. \A i \in Inums : Subdirs(fs, i) = Kids(fs, i)
  <2>1. 0 \notin Inums
    BY InodesAssumption
  <2> QED BY <1>2, <2>1 DEF Subdirs, Kids, Allocated
<1>5. ASSUME NEW i \in Allocated(fs)
      PROVE  fs.inode[i].nlink = Cardinality(Entries(fs, i)) + Cardinality(Subdirs(fs, i)) + fs.lost[i]
                                 + (IF i = ROOTINO THEN 1 ELSE 0)
  <2>1. i \in Inums
    BY DEF Allocated
  <2> QED BY <1>1, <1>3, <1>4, <2>1 DEF I
<1>6. ASSUME NEW b \in Blocks PROVE Cardinality(Owners(fs, b)) = IF b \in fs.used THEN 1 ELSE 0
  <2>1. CASE b \in fs.used
    <3>1. PICK i \in Inums : b \in fs.inode[i].addrs
      BY <2>1 DEF BlocksRight
    <3>2. \A j \in Inums : b \in fs.inode[j].addrs => j = i
      BY <3>1 DEF BlocksRight
    <3>3. Owners(fs, b) = {i}
      BY <3>1, <3>2 DEF Owners
    <3> QED BY <2>1, <3>3, FS_Singleton
  <2>2. CASE b \notin fs.used
    <3>1. Owners(fs, b) = {}
      BY <2>2 DEF BlocksRight, Owners
    <3> QED BY <2>2, <3>1, FS_EmptySet
  <2> QED BY <2>1, <2>2
<1> QED BY <1>2, <1>5, <1>6 DEF Consistent, Allocated

\* The comment in iput(): with one reference left nobody else has the inode
\* locked, so that acquiresleep() with itable.lock held does not wait.
THEOREM LastReferenceUnlocked == Spec => []PutNeverBlocks
BY InodesInv, LastRefUnlocked, PTL

\* ilock() and iupdate(): an unlocked copy in memory is what the disk has,
\* and ilock() never meets an inode that was freed.
THEOREM CopiesAreCurrent == Spec => []CopiesFresh
BY InodesInv, CopiesAreFresh, PTL

\* iput(): an inode without links goes with its last reference, except those
\* that a crash or a put overtaken by ialloc() left behind.
THEOREM NothingIsStranded == Spec => []NoneStranded
<1>1. IInv => NoneStranded
  BY DEF IInv
<1> QED BY InodesInv, <1>1, PTL

\* The system calls and end_op(): what a crash leaves has entries that name
\* allocated inodes, right link counts and one owner for every used block.
THEOREM CrashLeavesTree == Spec => []TreeSound
<1>1. IInv => TreeSound
  BY TreesAreConsistent DEF IInv, InodesTypeOK, TreesRight, TreeSound
<1> QED BY InodesInv, <1>1, PTL
=============================================================================
