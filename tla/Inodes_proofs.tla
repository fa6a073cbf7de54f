---------------------------- MODULE Inodes_proofs ----------------------------
(* The invariant of Inodes for any processes, calls, inodes, blocks, names  *)
(* and crashes: reference counts, locks, copies in memory, and the tree;    *)
(* and the steps that neither link, unlink, free nor claim an inode.        *)
EXTENDS Inodes, SequenceTheorems, FiniteSetTheorems, WellFoundedInduction, TLAPS

Types == {"none", "dir", "file"}
InodesOf == [type : Types, nlink : Int, addrs : SUBSET Blocks]
Copies == [type : Types, nlink : Int, addrs : SUBSET Blocks,
           ref : Nat, valid : BOOLEAN, lock : Procs \cup {0}]
Disks == [inode : [Inums -> InodesOf], ents : [Inums -> [Names -> Inums \cup {0}]],
          used : SUBSET Blocks, lost : [Inums -> Nat]]
Steps == {"idle", "walk", "dir", "found", "exists", "made", "made2", "child",
          "fail", "drop", "undo", "write", "end"}
States == [pc : Steps, jobs : Seq(Calls), op : Calls \cup {<<>>}, path : Seq(Names),
           cur : Inums \cup {0}, ip : Inums \cup {0}, dp : Inums \cup {0}, puts : Seq(Inums),
           freeing : {"no", "trunc", "unlock", "drop"}, new : BOOLEAN, fd : Inums \cup {0}]

InodesTypeOK ==
    /\ disk \in Disks /\ home \in Disks /\ itab \in [Inums -> Copies]
    /\ inop \subseteq Procs /\ ps \in [Procs -> States]
    /\ orphans \subseteq Inums /\ crashes \in Nat

-----------------------------------------------------------------------------
(* What a process refers to.                                               *)

HasIp(q) == \/ q.pc \in {"found", "exists", "made", "made2", "child", "drop", "undo"}
            \/ q.new /\ q.pc \in {"walk", "dir"}
HasDp(q) == q.pc \in {"dir", "made", "child", "fail"}

I(b) == IF b THEN 1 ELSE 0
PutN(s, i) == I(Len(s) >= 1 /\ s[1] = i) + I(Len(s) >= 2 /\ s[2] = i)
\* How many of the references to i are q's, those he may use, and those to
\* inodes that he has not locked yet.
Uses(q, i) == I(q.pc = "walk" /\ q.cur = i) + I(HasIp(q) /\ q.ip = i) + I(HasDp(q) /\ q.dp = i)
              + I(q.fd = i) + PutN(q.puts, i)
Live(q, i) == Uses(q, i) - I(q.freeing \in {"unlock", "drop"} /\ Head(q.puts) = i)
Unread(q, i) == I(q.pc = "walk" /\ q.cur = i)
                + I(q.pc \in {"found", "exists", "made", "child"} /\ q.ip = i)

\* The locks that q has between two steps.
PcLock(q) == IF q.pc \in {"made", "child", "fail"} THEN q.dp
             ELSE IF q.pc \in {"made2", "drop"} THEN q.ip ELSE 0
PutLock(q) == IF q.freeing \in {"trunc", "unlock"} THEN Head(q.puts) ELSE 0
Locks(q) == {PcLock(q), PutLock(q)}

\* A link of i that q has counted and not made, or unmade and not counted.
Owes(q, i) == q.ip = i /\ (q.pc \in {"drop", "undo"} \/ (q.new /\ q.pc \in {"walk", "dir"}))

StepRight(q) ==
    /\ Len(q.puts) <= 2
    /\ q.freeing # "no" => q.puts # <<>>
    /\ q.pc # "idle" => q.op \in Calls
    /\ q.pc \in {"idle", "made"} => q.puts = <<>>
    /\ q.pc = "idle" => ~q.new
    /\ q.pc \in {"walk", "dir", "made", "child"} => q.path # <<>>
    /\ q.pc = "walk" => q.cur # 0 /\ q.op.do \in {"create", "mkdir", "unlink", "open", "link"}
    /\ HasIp(q) => q.ip # 0
    /\ HasDp(q) => q.dp # 0
    /\ q.pc = "write" => q.fd # 0
    /\ q.new => q.op.do = "link"
    /\ PutLock(q) # 0 => PutLock(q) # PcLock(q)

-----------------------------------------------------------------------------
(* The invariant.                                                          *)

StepsRight == \A p \in Procs : StepRight(ps[p]) /\ (ps[p].pc # "idle" => p \in inop)

Refs(i) == {pk \in Procs \X (1..6) : pk[2] <= Uses(ps[pk[1]], i)}
RefsRight == \A i \in Inums : itab[i].ref = Cardinality(Refs(i))
LocksRight == \A i \in Inums, p \in Procs : itab[i].lock = p <=> i \in Locks(ps[p])

\* Links, entries and blocks of a file system.
Owed == [i \in Inums |-> {p \in Procs : Owes(ps[p], i)}]
Nothing == [i \in Inums |-> {}]
Named(fs, i) == {e \in Inums \X Names : fs.ents[e[1]][e[2]] = i}
Kids(fs, i) == {n \in Names : fs.ents[i][n] # 0 /\ fs.inode[fs.ents[i][n]].type = "dir"}
LinkCount(fs, owed, i) == I(i = ROOTINO) + Cardinality(Named(fs, i)) + Cardinality(Kids(fs, i))
                          + fs.lost[i] + Cardinality(owed[i])
LinksRight(fs, owed) ==
    /\ \A i \in Inums : fs.inode[i].nlink = LinkCount(fs, owed, i)
    /\ \A i \in Inums : fs.inode[i].type = "none" =>
          fs.inode[i].nlink = 0 /\ fs.inode[i].addrs = {} /\ fs.ents[i] = NoEntries
    /\ \A i \in Inums : fs.inode[i].type = "dir" => \A e, f \in Named(fs, i) : e = f
BlocksRight(fs) ==
    /\ \A i, j \in Inums : i # j => fs.inode[i].addrs \cap fs.inode[j].addrs = {}
    /\ \A b \in Blocks : b \in fs.used <=> \E i \in Inums : b \in fs.inode[i].addrs
TreesRight == LinksRight(disk, Owed) /\ LinksRight(home, Nothing) /\ BlocksRight(disk) /\ BlocksRight(home)

\* Copies in memory and who may rely on them.
Same(copy, from) == copy.type = from.type /\ copy.nlink = from.nlink /\ copy.addrs = from.addrs
Unlocking(i) == \E p \in Procs : ps[p].freeing = "unlock" /\ Head(ps[p].puts) = i
CopiesRight == \A i \in Inums : itab[i].ref > 0 /\ itab[i].valid /\ ~Unlocking(i) =>
                   Same(itab[i], disk.inode[i]) /\ itab[i].type # "none"
AllocatedRight == \A p \in Procs, i \in Inums : Live(ps[p], i) > 0 => disk.inode[i].type # "none"
ReadRight == \A p \in Procs, i \in Inums : Live(ps[p], i) > Unread(ps[p], i) => itab[i].valid

\* What a process has seen stays so until he uses it.
MadeRight ==
    \A p \in Procs : ps[p].pc = "made" =>
        LET i == ps[p].ip
        IN  /\ disk.inode[i].nlink = 0 /\ disk.inode[i].addrs = {} /\ disk.inode[i].type = Type(p)
            /\ \A r \in Procs : Live(ps[r], i) = I(p = r)
            /\ disk.ents[ps[p].dp][Last1(p)] = 0
SeenRight ==
    \A p \in Procs :
        /\ ps[p].pc = "child" => disk.ents[ps[p].dp][Last1(p)] = ps[p].ip
        /\ ps[p].new /\ ps[p].pc \in {"walk", "dir"} => disk.inode[ps[p].ip].type = "file"
FreeingRight ==
    \A p \in Procs :
        LET i == Head(ps[p].puts)
        IN  /\ ps[p].freeing = "trunc" => itab[i].ref = 1 /\ itab[i].valid /\ disk.inode[i].nlink = 0
            /\ ps[p].freeing = "unlock" =>
                  /\ disk.inode[i].nlink = 0
                  /\ \A r \in Procs : Live(ps[r], i) = I(ps[r].pc = "made" /\ ps[r].ip = i)
            /\ ps[p].freeing \in {"unlock", "drop"} /\ disk.inode[i].type # "none" => i \in orphans

IInv ==
    /\ InodesTypeOK /\ StepsRight /\ RefsRight /\ LocksRight /\ TreesRight
    /\ CopiesRight /\ AllocatedRight /\ ReadRight /\ MadeRight /\ SeenRight /\ FreeingRight
    /\ NoneStranded

-----------------------------------------------------------------------------
(* Counting references.                                                    *)

LEMMA PutsAre ==
    ASSUME NEW a \in Inums, NEW b \in Inums, NEW i \in Inums
    PROVE  /\ PutN(<<>>, i) = 0
           /\ PutN(<<a>>, i) = I(a = i)
           /\ PutN(<<a, b>>, i) = I(a = i) + I(b = i)
           /\ <<>> \in Seq(Inums) /\ <<a>> \in Seq(Inums) /\ <<a, b>> \in Seq(Inums)
           /\ Len(<<>>) = 0 /\ Len(<<a>>) = 1 /\ Len(<<a, b>>) = 2
           /\ Head(<<a>>) = a /\ Head(<<a, b>>) = a /\ <<a>> # <<>> /\ <<a, b>> # <<>>
<1>1. /\ Len(<<>>) = 0 /\ Len(<<a>>) = 1 /\ Len(<<a, b>>) = 2
      /\ <<a>>[1] = a /\ <<a, b>>[1] = a /\ <<a, b>>[2] = b
      /\ Head(<<a>>) = a /\ Head(<<a, b>>) = a
      /\ <<>> \in Seq(Inums) /\ <<a>> \in Seq(Inums) /\ <<a, b>> \in Seq(Inums)
  OBVIOUS
<1>2. <<a>> # <<>> /\ <<a, b>> # <<>>
  BY <1>1
<1>3. PutN(<<>>, i) = 0
  BY <1>1 DEF PutN, I
<1>4. PutN(<<a>>, i) = I(a = i)
  BY <1>1 DEF PutN, I
<1>5. PutN(<<a, b>>, i) = I(a = i) + I(b = i)
  BY <1>1 DEF PutN, I
<1> QED BY <1>1, <1>2, <1>3, <1>4, <1>5

LEMMA PutOne ==
    ASSUME NEW a \in Inums
    PROVE  /\ <<a>> \in Seq(Inums) /\ Len(<<a>>) = 1 /\ <<a>> # <<>> /\ Head(<<a>>) = a
           /\ \A i \in Inums : PutN(<<a>>, i) = I(a = i)
<1>1. a \in Inums
  OBVIOUS
<1>2. ASSUME NEW i \in Inums PROVE PutN(<<a>>, i) = I(a = i)
  <2>1. Len(<<a>>) = 1 /\ <<a>>[1] = a
    OBVIOUS
  <2> QED BY <2>1 DEF PutN, I
<1>3. <<a>> \in Seq(Inums) /\ Len(<<a>>) = 1 /\ <<a>> # <<>> /\ Head(<<a>>) = a
  BY <1>1, PutsAre
<1> QED BY <1>2, <1>3

LEMMA PutNone ==
    /\ <<>> \in Seq(Inums) /\ Len(<<>>) = 0 /\ \A i \in Inums : PutN(<<>>, i) = 0
<1>1. 1 \in Inums
  BY InodesAssumption
<1>2. <<>> \in Seq(Inums) /\ Len(<<>>) = 0
  OBVIOUS
<1>3. \A i \in Inums : PutN(<<>>, i) = 0
  BY <1>1, PutsAre
<1> QED BY <1>2, <1>3

\* The next to be put.
LEMMA PutsTail ==
    ASSUME NEW s \in Seq(Inums), s # <<>>, Len(s) <= 2, NEW i \in Inums
    PROVE  /\ Head(s) \in Inums /\ Tail(s) \in Seq(Inums) /\ Len(Tail(s)) <= 1
           /\ PutN(s, i) = I(Head(s) = i) + PutN(Tail(s), i)
<1>1. /\ Len(s) \in Nat /\ Len(s) # 0 /\ Head(s) = s[1] /\ Head(s) \in Inums
      /\ Tail(s) \in Seq(Inums) /\ Len(Tail(s)) = Len(s) - 1
      /\ \A k \in 1..Len(Tail(s)) : Tail(s)[k] = s[k + 1]
  BY HeadTailProperties, LenProperties, EmptySeq
<1>2. CASE Len(s) = 1
  <2>1. Len(Tail(s)) = 0
    BY <1>1, <1>2
  <2>2. PutN(Tail(s), i) = 0
    <3>1. ASSUME NEW u, Len(u) = 0 PROVE PutN(u, i) = 0
      BY <3>1 DEF PutN, I
    <3> QED BY <2>1, <3>1
  <2>3. PutN(s, i) = I(s[1] = i)
    BY <1>2 DEF PutN, I
  <2>4. I(s[1] = i) \in Nat
    BY DEF I
  <2> QED BY <1>1, <2>1, <2>2, <2>3, <2>4
<1>3. CASE Len(s) = 2
  <2>1. Tail(s)[1] = s[2]
    BY <1>1, <1>3
  <2> QED BY <1>1, <1>3, <2>1 DEF PutN, I
<1> QED BY <1>1, <1>2, <1>3

LEMMA UsesType ==
    ASSUME NEW q \in States, StepRight(q), NEW i \in Inums
    PROVE  /\ Uses(q, i) \in 0..6 /\ Unread(q, i) \in Nat /\ Live(q, i) \in Nat
           /\ Live(q, i) <= Uses(q, i)
           /\ Live(q, i) = Uses(q, i) - I(q.freeing \in {"unlock", "drop"} /\ Head(q.puts) = i)
<1> DEFINE P == PutN(q.puts, i)  f == I(q.freeing \in {"unlock", "drop"} /\ Head(q.puts) = i)
<1>1. q.puts \in Seq(Inums) /\ Len(q.puts) <= 2 /\ (q.freeing # "no" => q.puts # <<>>)
  BY DEF States, StepRight
<1>2. P \in 0..2
  BY DEF PutN, I
<1>3. f \in 0..1 /\ f <= P
  <2>1. CASE q.freeing \in {"unlock", "drop"} /\ Head(q.puts) = i
    <3>1. q.puts # <<>>
      BY <1>1, <2>1
    <3>2. P = I(Head(q.puts) = i) + PutN(Tail(q.puts), i)
      BY <1>1, <3>1, PutsTail
    <3>3. PutN(Tail(q.puts), i) \in Nat
      BY DEF PutN, I
    <3> QED BY <2>1, <3>2, <3>3 DEF I
  <2>2. CASE ~(q.freeing \in {"unlock", "drop"} /\ Head(q.puts) = i)
    BY <1>2, <2>2 DEF I
  <2> QED BY <2>1, <2>2
<1>4. Unread(q, i) \in Nat
  BY DEF Unread, I
<1> DEFINE rest == I(q.pc = "walk" /\ q.cur = i) + I(HasIp(q) /\ q.ip = i) + I(HasDp(q) /\ q.dp = i)
              + I(q.fd = i)
<1>5. rest \in 0..4
  BY DEF I
<1>6. Uses(q, i) = rest + P /\ Live(q, i) = Uses(q, i) - f
  BY DEF Uses, Live
<1> HIDE DEF rest, P, f
<1>7. Uses(q, i) \in 0..6 /\ Live(q, i) \in Nat /\ Live(q, i) <= Uses(q, i)
  BY <1>2, <1>3, <1>5, <1>6
<1> QED BY <1>4, <1>6, <1>7 DEF f

LEMMA RefsFinite ==
    ASSUME NEW i \in Inums
    PROVE  IsFiniteSet(Refs(i)) /\ Cardinality(Refs(i)) \in Nat
<1>1. IsFiniteSet(Procs) /\ IsFiniteSet(1..6)
  <2>1. 1 \in Int /\ 6 \in Int
    OBVIOUS
  <2>2. IsFiniteSet(1..6)
    BY <2>1, FS_Interval
  <2> QED BY <2>2, InodesAssumption
<1>2. IsFiniteSet(Procs \X (1..6))
  BY <1>1, FS_Product
<1>3. Refs(i) \subseteq Procs \X (1..6)
  BY DEF Refs
<1> QED BY <1>2, <1>3, FS_Subset, FS_CardinalityType

\* One process gets or loses a reference.
LEMMA RefsStep ==
    ASSUME ps \in [Procs -> States], NEW p \in Procs, NEW Q, ps' = [ps EXCEPT ![p] = Q],
           NEW i \in Inums, Uses(ps[p], i) \in 0..6, Uses(Q, i) \in 0..6,
           itab[i].ref = Cardinality(Refs(i)),
           itab'[i].ref = itab[i].ref + Uses(Q, i) - Uses(ps[p], i),
           Uses(Q, i) - Uses(ps[p], i) \in {-1, 0, 1}
    PROVE  itab'[i].ref = Cardinality(Refs(i)')
<1> DEFINE n == Uses(ps[p], i)  m == Uses(Q, i)
<1>1. \A r \in Procs : Uses(ps'[r], i) = IF r = p THEN m ELSE Uses(ps[r], i)
  OBVIOUS
<1>2. Refs(i)' = {pk \in Procs \X (1..6) : pk[2] <= (IF pk[1] = p THEN m ELSE Uses(ps[pk[1]], i))}
  BY <1>1 DEF Refs
<1>3. Refs(i) = {pk \in Procs \X (1..6) : pk[2] <= (IF pk[1] = p THEN n ELSE Uses(ps[pk[1]], i))}
  BY DEF Refs
<1> DEFINE A == Refs(i)  B == Refs(i)'
<1>4. n \in 0..6 /\ m \in 0..6 /\ m - n \in {-1, 0, 1}
  OBVIOUS
<1>5. IsFiniteSet(A) /\ Cardinality(A) \in Nat
  BY RefsFinite
<1> HIDE DEF n, m, A, B
<1>6. CASE m = n
  <2>1. A = B
    BY <1>2, <1>3, <1>6 DEF A, B
  <2> QED BY <1>4, <1>5, <1>6, <2>1 DEF A, B, n, m
<1>7. CASE m = n + 1
  <2>1. B = A \cup {<<p, m>>}
    BY <1>2, <1>3, <1>4, <1>7 DEF A, B
  <2>2. <<p, m>> \notin A
    BY <1>3, <1>4, <1>7 DEF A
  <2>3. Cardinality(B) = Cardinality(A) + 1
    BY <1>5, <2>1, <2>2, FS_AddElement
  <2> QED BY <1>4, <1>5, <1>7, <2>3 DEF A, B, n, m
<1>8. CASE m = n - 1
  <2>1. B = A \ {<<p, n>>}
    BY <1>2, <1>3, <1>4, <1>8 DEF A, B
  <2>2. <<p, n>> \in A
    BY <1>3, <1>4, <1>8 DEF A
  <2>3. Cardinality(B) = Cardinality(A) - 1
    BY <1>5, <2>1, <2>2, FS_RemoveElement
  <2> QED BY <1>4, <1>5, <1>8, <2>3 DEF A, B, n, m
<1> QED BY <1>4, <1>6, <1>7, <1>8

\* Who uses an inode is counted.
LEMMA Counted ==
    ASSUME IInv, NEW p \in Procs, NEW i \in Inums
    PROVE  /\ ps[p] \in States /\ StepRight(ps[p]) /\ itab[i].ref \in Nat
           /\ Uses(ps[p], i) \in 0..6 /\ Uses(ps[p], i) <= itab[i].ref
           /\ \A r \in Procs : r # p => Uses(ps[p], i) + Uses(ps[r], i) <= itab[i].ref
<1>1. ps \in [Procs -> States] /\ (\A r \in Procs : ps[r] \in States /\ StepRight(ps[r]))
      /\ itab[i].ref = Cardinality(Refs(i))
  BY DEF IInv, InodesTypeOK, StepsRight, RefsRight
<1>2. \A r \in Procs : Uses(ps[r], i) \in 0..6
  BY <1>1, UsesType
<1>3. IsFiniteSet(Refs(i)) /\ Cardinality(Refs(i)) \in Nat
  BY RefsFinite
<1> DEFINE Mine(r) == {r} \X (1..Uses(ps[r], i))
<1>4. ASSUME NEW r \in Procs
      PROVE  IsFiniteSet(Mine(r)) /\ Cardinality(Mine(r)) = Uses(ps[r], i) /\ Mine(r) \subseteq Refs(i)
  <2>1. IsFiniteSet({r}) /\ Cardinality({r}) = 1
    BY FS_Singleton
  <2>2. Uses(ps[r], i) \in 0..6
    BY <1>2
  <2>3. IsFiniteSet(1..Uses(ps[r], i)) /\ Cardinality(1..Uses(ps[r], i)) = Uses(ps[r], i)
    <3>1. 1 \in Int /\ Uses(ps[r], i) \in Int
      BY <2>2
    <3>2. /\ IsFiniteSet(1..Uses(ps[r], i))
          /\ Cardinality(1..Uses(ps[r], i)) = IF 1 > Uses(ps[r], i) THEN 0 ELSE Uses(ps[r], i) - 1 + 1
      BY <3>1, FS_Interval
    <3> QED BY <2>2, <3>2
  <2>4. /\ IsFiniteSet({r} \X (1..Uses(ps[r], i)))
        /\ Cardinality({r} \X (1..Uses(ps[r], i))) = Cardinality({r}) * Cardinality(1..Uses(ps[r], i))
    BY <2>1, <2>3, FS_Product
  <2>5. \A k \in 1..Uses(ps[r], i) : k \in 1..6 /\ k <= Uses(ps[r], i)
    BY <2>2
  <2>6. \A pk \in Mine(r) : pk \in Refs(i)
    BY <2>5 DEF Refs
  <2> QED BY <2>1, <2>2, <2>3, <2>4, <2>6
<1>5. Uses(ps[p], i) <= itab[i].ref
  <2>1. Cardinality(Mine(p)) <= Cardinality(Refs(i))
    BY <1>3, <1>4, FS_Subset
  <2> QED BY <1>1, <1>4, <2>1
<1>6. ASSUME NEW r \in Procs, r # p
      PROVE  Uses(ps[p], i) + Uses(ps[r], i) <= itab[i].ref
  <2>1. Mine(p) \cap Mine(r) = {}
    BY <1>6
  <2> HIDE DEF Mine
  <2>2. /\ IsFiniteSet(Mine(p)) /\ IsFiniteSet(Mine(r))
        /\ Mine(p) \cup Mine(r) \subseteq Refs(i)
    BY <1>4
  <2>3. Cardinality(Mine(p) \cup Mine(r)) = Cardinality(Mine(p)) + Cardinality(Mine(r)) - Cardinality(Mine(p) \cap Mine(r))
    BY <2>2, FS_Union
  <2>4. Cardinality(Mine(p) \cap Mine(r)) = 0
    BY <2>1, FS_EmptySet
  <2>5. Cardinality(Mine(p) \cup Mine(r)) <= Cardinality(Refs(i))
    BY <1>3, <2>2, FS_Subset
  <2>6. Cardinality(Mine(p)) = Uses(ps[p], i) /\ Cardinality(Mine(r)) = Uses(ps[r], i)
    BY <1>4
  <2> QED BY <1>1, <1>2, <2>3, <2>4, <2>5, <2>6
<1> QED BY <1>1, <1>2, <1>3, <1>5, <1>6

-----------------------------------------------------------------------------
(* A step that neither claims nor frees an inode.                          *)

\* What the process locked or unlocked is what it has locked now.
LockStep(p, Q, i) ==
    \/ itab'[i].lock = itab[i].lock /\ (i \in Locks(Q) <=> i \in Locks(ps[p]))
    \/ itab[i].lock \in {0, p} /\ itab'[i].lock = IF i \in Locks(Q) THEN p ELSE 0

\* A copy stays, or is read or written by its holder.
CopyStep(p, i) ==
    /\ itab[i].ref > 0 /\ itab[i].valid => itab'[i].valid
    /\ itab'[i].ref > 0 /\ itab'[i].valid =>
          \/ itab[i].ref > 0 /\ itab[i].valid /\ Same(itab'[i], itab[i]) /\ disk'.inode[i] = disk.inode[i]
          \/ Same(itab'[i], disk'.inode[i]) /\ Live(ps[p], i) > 0

DiskStep(p, i) ==
    /\ disk'.inode[i].type = disk.inode[i].type
    /\ disk'.inode[i] = disk.inode[i] \/ Live(ps[p], i) > 0
    /\ disk'.ents[i] = disk.ents[i] \/ itab[i].lock \in {0, p}

LEMMA StepKeeps ==
    ASSUME IInv, NEW p \in Procs, NEW Q \in States, ps' = [ps EXCEPT ![p] = Q],
           StepRight(Q), Q.pc # "idle" => p \in inop', inop' \subseteq Procs, inop \ {p} \subseteq inop',
           itab' \in [Inums -> Copies], disk' \in Disks, home' \in Disks, UNCHANGED <<orphans, crashes>>,
           \A i \in Inums : /\ itab'[i].ref = itab[i].ref + Uses(Q, i) - Uses(ps[p], i)
                            /\ Uses(Q, i) - Uses(ps[p], i) \in {-1, 0, 1},
           \A i \in Inums : LockStep(p, Q, i) /\ CopyStep(p, i) /\ DiskStep(p, i),
           TreesRight',
           \A i \in Inums : Live(Q, i) > Live(ps[p], i) => disk.inode[i].nlink # 0,
           \A i \in Inums : Live(Q, i) > Unread(Q, i) =>
                               itab'[i].valid \/ Live(ps[p], i) > Unread(ps[p], i),
           ps[p].freeing \in {"no", "drop"}, Q.freeing \in {"no", "trunc"},
           Q.freeing = "trunc" => LET i == Head(Q.puts)
                                  IN  itab'[i].ref = 1 /\ itab'[i].valid /\ disk'.inode[i].nlink = 0,
           Q.pc # "made", ps[p].pc = "made" => itab[ps[p].ip].lock = 0,
           Q.pc = "child" => disk'.ents[Q.dp][Last(Q.path)] = Q.ip,
           Q.new /\ Q.pc \in {"walk", "dir"} => disk'.inode[Q.ip].type = "file",
           \A i \in Inums : disk'.inode[i].type # "none" /\ disk'.inode[i].nlink = 0 /\ itab'[i].ref = 0 => i \in orphans
    PROVE  IInv'
<1> DEFINE q == ps[p]
<1>1. /\ ps \in [Procs -> States] /\ itab \in [Inums -> Copies] /\ disk \in Disks
      /\ ps' \in [Procs -> States]
      /\ ps'[p] = Q /\ \A r \in Procs : r # p => ps'[r] = ps[r]
  BY DEF IInv, InodesTypeOK
<1>2. InodesTypeOK'
  BY <1>1 DEF IInv, InodesTypeOK
<1>3. StepsRight'
  BY <1>1 DEF IInv, StepsRight
<1>4. /\ \A r \in Procs : StepRight(ps[r]) /\ ps[r] \in States /\ ps[r].puts \in Seq(Inums)
      /\ \A r \in Procs, i \in Inums :
            /\ Uses(ps[r], i) \in 0..6 /\ Live(ps[r], i) \in Nat /\ Unread(ps[r], i) \in Nat
            /\ Live(ps[r], i) <= Uses(ps[r], i)
  BY SMTT(60), <1>1, UsesType DEF IInv, StepsRight, States
<1>5. \A i \in Inums : /\ Uses(Q, i) \in 0..6 /\ Live(Q, i) \in Nat /\ Unread(Q, i) \in Nat
                       /\ Uses(Q, i) = Live(Q, i)
  BY UsesType DEF I
<1>6. RefsRight'
  <2> SUFFICES ASSUME NEW i \in Inums PROVE itab'[i].ref = Cardinality(Refs(i)')
    BY DEF RefsRight
  <2>1. itab[i].ref = Cardinality(Refs(i))
    BY DEF IInv, RefsRight
  <2>2. /\ Uses(ps[p], i) \in 0..6 /\ Uses(Q, i) \in 0..6
        /\ itab'[i].ref = itab[i].ref + Uses(Q, i) - Uses(ps[p], i)
        /\ Uses(Q, i) - Uses(ps[p], i) \in {-1, 0, 1}
    BY <1>4, <1>5
  <2>3. ps \in [Procs -> States] /\ ps' = [ps EXCEPT ![p] = Q]
    BY <1>1
  <2> QED BY <2>1, <2>2, <2>3, RefsStep, ZenonT(60)
<1>7. LocksRight'
  <2> SUFFICES ASSUME NEW i \in Inums, NEW r \in Procs PROVE itab'[i].lock = r <=> i \in Locks(ps'[r])
    BY <1>1 DEF LocksRight, Locks, PcLock, PutLock
  <2>1. /\ LockStep(p, Q, i) /\ (itab[i].lock = r <=> i \in Locks(ps[r]))
        /\ (itab[i].lock = p <=> i \in Locks(ps[p]))
    BY DEF IInv, LocksRight
  <2>2. p # 0 /\ r # 0
    BY InodesAssumption
  <2>3. CASE r = p
    BY <1>1, <2>1, <2>2, <2>3 DEF LockStep
  <2>4. CASE r # p
    BY <1>1, <2>1, <2>2, <2>4 DEF LockStep
  <2> QED BY <2>3, <2>4
<1>8. \A i \in Inums : Unlocking(i)' <=> Unlocking(i)
  BY <1>1 DEF Unlocking
<1>9. CopiesRight'
  <2> SUFFICES ASSUME NEW i \in Inums, itab'[i].ref > 0, itab'[i].valid, ~Unlocking(i)
               PROVE  Same(itab'[i], disk'.inode[i]) /\ itab'[i].type # "none"
    BY <1>8 DEF CopiesRight
  <2>1. CopyStep(p, i) /\ DiskStep(p, i)
    OBVIOUS
  <2>2. CASE itab[i].ref > 0 /\ itab[i].valid /\ Same(itab'[i], itab[i]) /\ disk'.inode[i] = disk.inode[i]
    BY <2>2 DEF IInv, CopiesRight, Same
  <2>3. CASE Same(itab'[i], disk'.inode[i]) /\ Live(q, i) > 0
    BY <2>1, <2>3 DEF IInv, AllocatedRight, Same, DiskStep
  <2> QED BY <2>1, <2>2, <2>3 DEF CopyStep
<1>10. ASSUME NEW i \in Inums, disk.inode[i].nlink = 0, Live(q, i) = 0
       PROVE  Live(Q, i) = 0 /\ Uses(Q, i) = 0 /\ disk'.inode[i] = disk.inode[i]
  BY <1>4, <1>5, <1>10 DEF DiskStep
<1>11. AllocatedRight'
  <2> SUFFICES ASSUME NEW r \in Procs, NEW i \in Inums, Live(ps'[r], i) > 0
               PROVE  disk'.inode[i].type # "none"
    BY DEF AllocatedRight, Live, Uses
  <2>1. disk'.inode[i].type = disk.inode[i].type
    BY DEF DiskStep
  <2>2. CASE Live(ps[r], i) > 0
    BY <2>1, <2>2 DEF IInv, AllocatedRight
  <2>3. CASE ~(Live(ps[r], i) > 0)
    <3>1. r = p /\ Live(Q, i) > Live(q, i)
      BY <1>1, <1>4, <1>5, <2>3
    <3>2. disk.inode[i].nlink # 0
      BY <3>1
    <3> QED BY <2>1, <3>2 DEF IInv, TreesRight, LinksRight
  <2> QED BY <2>2, <2>3
<1>12. ASSUME NEW r \in Procs, NEW i \in Inums, Live(ps[r], i) > Unread(ps[r], i)
       PROVE  itab'[i].valid
  <2>1. itab[i].valid /\ Uses(ps[r], i) > 0
    BY SMTT(60), <1>4, <1>12 DEF IInv, ReadRight
  <2>2. itab[i].ref \in Nat /\ Uses(ps[r], i) <= itab[i].ref
    BY Counted
  <2>3. itab[i].ref > 0
    BY SMTT(60), <1>4, <2>1, <2>2
  <2> QED BY <2>1, <2>3 DEF CopyStep
<1>13. ReadRight'
  <2> SUFFICES ASSUME NEW r \in Procs, NEW i \in Inums, Live(ps'[r], i) > Unread(ps'[r], i)
               PROVE  itab'[i].valid
    BY DEF ReadRight, Live, Uses, Unread
  <2>1. CASE r = p
    BY <1>1, <1>12, <2>1
  <2>2. CASE r # p
    BY <1>1, <1>12, <2>2
  <2> QED BY <2>1, <2>2
<1>14. MadeRight'
  <2> SUFFICES ASSUME NEW r \in Procs, ps'[r].pc = "made"
               PROVE  LET i == ps'[r].ip
                      IN  /\ disk'.inode[i].nlink = 0 /\ disk'.inode[i].addrs = {} /\ disk'.inode[i].type = Type(r)'
                          /\ \A s \in Procs : Live(ps'[s], i) = I(r = s)
                          /\ disk'.ents[ps'[r].dp][Last1(r)'] = 0
    BY DEF MadeRight, Live, Uses
  <2>1. r # p /\ ps'[r] = ps[r] /\ ps[r].pc = "made"
    BY <1>1
  <2> DEFINE i == ps[r].ip
  <2>2. i \in Inums /\ ps[r].dp \in Inums
    <3>1. HasIp(ps[r]) /\ HasDp(ps[r])
      BY <2>1 DEF HasIp, HasDp
    <3> QED BY <1>1, <1>4, <3>1 DEF StepRight, States
  <2>3. /\ disk.inode[i].nlink = 0 /\ disk.inode[i].addrs = {} /\ disk.inode[i].type = Type(r)
        /\ \A s \in Procs : Live(ps[s], i) = I(r = s)
        /\ disk.ents[ps[r].dp][Last1(r)] = 0
    BY <2>1 DEF IInv, MadeRight
  <2>4. Live(q, i) = 0
    BY <2>1, <2>3 DEF I
  <2>5. Live(Q, i) = 0 /\ disk'.inode[i] = disk.inode[i]
    BY <1>10, <2>2, <2>3, <2>4
  <2>6. \A s \in Procs : Live(ps'[s], i) = I(r = s)
    BY <1>1, <2>3, <2>4, <2>5
  <2>7. itab[ps[r].dp].lock = r
    BY <2>1, <2>2 DEF IInv, LocksRight, Locks, PcLock
  <2>8. disk'.ents[ps[r].dp] = disk.ents[ps[r].dp]
    BY <2>1, <2>2, <2>7, InodesAssumption DEF DiskStep
  <2>9. Type(r)' = Type(r) /\ Last1(r)' = Last1(r)
    BY <2>1 DEF Type, Op, Me, Last1
  <2> QED BY <2>1, <2>3, <2>5, <2>6, <2>8, <2>9
<1>15. SeenRight'
  <2> SUFFICES ASSUME NEW r \in Procs
               PROVE  /\ ps'[r].pc = "child" => disk'.ents[ps'[r].dp][Last1(r)'] = ps'[r].ip
                      /\ ps'[r].new /\ ps'[r].pc \in {"walk", "dir"} => disk'.inode[ps'[r].ip].type = "file"
    BY DEF SeenRight
  <2>1. CASE r = p
    BY <1>1, <2>1 DEF Last1, Me
  <2>2. CASE r # p
    <3>1. ps'[r] = ps[r] /\ Last1(r)' = Last1(r)
      BY <1>1, <2>2 DEF Last1, Me
    <3>2. ASSUME ps[r].pc = "child" PROVE disk'.ents[ps[r].dp][Last1(r)] = ps[r].ip
      <4>1. ps[r].dp \in Inums
        BY <1>1, <1>4, <3>2 DEF StepRight, HasDp, States
      <4>2. itab[ps[r].dp].lock = r
        BY <3>2, <4>1 DEF IInv, LocksRight, Locks, PcLock
      <4>3. disk'.ents[ps[r].dp] = disk.ents[ps[r].dp]
        BY <2>2, <4>1, <4>2, InodesAssumption DEF DiskStep
      <4> QED BY <3>2, <4>3 DEF IInv, SeenRight
    <3>3. ASSUME ps[r].new, ps[r].pc \in {"walk", "dir"} PROVE disk'.inode[ps[r].ip].type = "file"
      <4>1. ps[r].ip \in Inums
        BY <1>1, <1>4, <3>3 DEF StepRight, HasIp, States
      <4> QED BY <3>3, <4>1 DEF IInv, SeenRight, DiskStep
    <3> QED BY <3>1, <3>2, <3>3
  <2> QED BY <2>1, <2>2
<1>16. FreeingRight'
  <2> SUFFICES ASSUME NEW r \in Procs
               PROVE  LET i == Head(ps'[r].puts)
                      IN  /\ ps'[r].freeing = "trunc" => itab'[i].ref = 1 /\ itab'[i].valid /\ disk'.inode[i].nlink = 0
                          /\ ps'[r].freeing = "unlock" =>
                                /\ disk'.inode[i].nlink = 0
                                /\ \A s \in Procs : Live(ps'[s], i) = I(ps'[s].pc = "made" /\ ps'[s].ip = i)
                          /\ ps'[r].freeing \in {"unlock", "drop"} /\ disk'.inode[i].type # "none" => i \in orphans
    BY SMTT(60) DEF FreeingRight, Live, Uses
  <2>1. CASE r = p
    BY <1>1, <2>1
  <2>2. CASE r # p
    <3> DEFINE i == Head(ps[r].puts)
    <3>1. ps'[r] = ps[r]
      BY <1>1, <2>2
    <3>2. ASSUME ps[r].freeing # "no"
          PROVE  i \in Inums /\ Uses(ps[r], i) >= 1
      <4>1. ps[r].puts # <<>> /\ Len(ps[r].puts) <= 2
        BY <1>4, <3>2 DEF StepRight
      <4>2. i \in Inums
        BY <1>4, <4>1, HeadTailProperties
      <4>3. PutN(ps[r].puts, i) = I(i = i) + PutN(Tail(ps[r].puts), i)
        BY <1>4, <4>1, <4>2, PutsTail
      <4> QED BY <4>2, <4>3 DEF Uses, I, PutN
    <3>3. ASSUME ps[r].freeing = "trunc"
          PROVE  itab'[i].ref = 1 /\ itab'[i].valid /\ disk'.inode[i].nlink = 0
      <4>1. itab[i].ref = 1 /\ itab[i].valid /\ disk.inode[i].nlink = 0 /\ i \in Inums /\ Uses(ps[r], i) >= 1
        BY <3>2, <3>3 DEF IInv, FreeingRight
      <4>2. Uses(q, i) + Uses(ps[r], i) <= itab[i].ref
        BY <2>2, <4>1, Counted
      <4>3. Uses(q, i) = 0 /\ Live(q, i) = 0
        <5>1. Uses(q, i) \in 0..6 /\ Uses(ps[r], i) \in 0..6 /\ Live(q, i) \in Nat /\ Live(q, i) <= Uses(q, i)
          BY <1>4, <4>1
        <5> QED BY <4>1, <4>2, <5>1
      <4>4. Uses(Q, i) = 0 /\ disk'.inode[i] = disk.inode[i]
        BY <1>10, <4>1, <4>3
      <4>5. itab'[i].ref = 1
        BY <4>1, <4>3, <4>4
      <4> QED BY <4>1, <4>4, <4>5 DEF CopyStep
    <3>4. ASSUME ps[r].freeing = "unlock"
          PROVE  /\ disk'.inode[i].nlink = 0
                 /\ \A s \in Procs : Live(ps'[s], i) = I(ps'[s].pc = "made" /\ ps'[s].ip = i)
      <4>1. /\ i \in Inums /\ disk.inode[i].nlink = 0
            /\ \A s \in Procs : Live(ps[s], i) = I(ps[s].pc = "made" /\ ps[s].ip = i)
        BY <3>2, <3>4 DEF IInv, FreeingRight
      <4>2. itab[i].lock = r /\ r # 0
        BY <3>4, <4>1, InodesAssumption DEF IInv, LocksRight, Locks, PutLock
      <4>3. Live(q, i) = 0
        BY <4>1, <4>2 DEF I
      <4>4. Live(Q, i) = 0 /\ disk'.inode[i] = disk.inode[i]
        BY <1>10, <4>1, <4>3
      <4>5. I(Q.pc = "made" /\ Q.ip = i) = 0
        BY DEF I
      <4> QED BY <1>1, <4>1, <4>4, <4>5
    <3>5. ASSUME ps[r].freeing \in {"unlock", "drop"}, disk'.inode[i].type # "none"
          PROVE  i \in orphans
      BY <3>2, <3>5 DEF IInv, FreeingRight, DiskStep
    <3> QED BY <3>1, <3>3, <3>4, <3>5
  <2> QED BY <2>1, <2>2
<1>17. NoneStranded'
  BY DEF NoneStranded, Allocated
<1> QED BY <1>2, <1>3, <1>6, <1>7, <1>9, <1>11, <1>13, <1>14, <1>15, <1>16, <1>17 DEF IInv

-----------------------------------------------------------------------------
(* Links, and the operations on the table of inodes.                       *)

LEMMA NamedFinite ==
    ASSUME NEW fs, NEW i \in Inums
    PROVE  /\ IsFiniteSet(Named(fs, i)) /\ Cardinality(Named(fs, i)) \in Nat
           /\ IsFiniteSet(Kids(fs, i)) /\ Cardinality(Kids(fs, i)) \in Nat
<1>1. IsFiniteSet(Inums \X Names) /\ IsFiniteSet(Names)
  BY InodesAssumption, FS_Product
<1>2. Named(fs, i) \subseteq Inums \X Names /\ Kids(fs, i) \subseteq Names
  BY DEF Named, Kids
<1> QED BY <1>1, <1>2, FS_Subset, FS_CardinalityType

LEMMA OwedFinite ==
    ASSUME NEW i \in Inums
    PROVE  IsFiniteSet(Owed[i]) /\ Cardinality(Owed[i]) \in Nat
<1>1. IsFiniteSet(Procs) /\ Owed[i] \subseteq Procs
  BY InodesAssumption DEF Owed
<1> QED BY <1>1, FS_Subset, FS_CardinalityType

\* What has a name, and the root, has links.
LEMMA Linkeds ==
    ASSUME IInv, NEW i \in Inums, disk.inode[i].nlink = 0
    PROVE  /\ i # ROOTINO /\ Named(disk, i) = {} /\ Kids(disk, i) = {} /\ disk.lost[i] = 0
           /\ Owed[i] = {}
           /\ \A e \in Inums, n \in Names : disk.ents[e][n] # i
<1>1. LinkCount(disk, Owed, i) = 0 /\ disk.lost[i] \in Nat
  BY DEF IInv, TreesRight, LinksRight, InodesTypeOK, Disks
<1>2. /\ I(i = ROOTINO) \in Nat /\ Cardinality(Named(disk, i)) \in Nat
      /\ Cardinality(Kids(disk, i)) \in Nat /\ Cardinality(Owed[i]) \in Nat
  BY NamedFinite, OwedFinite DEF I
<1>3. /\ I(i = ROOTINO) = 0 /\ Cardinality(Named(disk, i)) = 0 /\ Cardinality(Kids(disk, i)) = 0
      /\ disk.lost[i] = 0 /\ Cardinality(Owed[i]) = 0
  <2> DEFINE x1 == I(i = ROOTINO)  x2 == Cardinality(Named(disk, i))  x3 == Cardinality(Kids(disk, i))
             x4 == disk.lost[i]  x5 == Cardinality(Owed[i])
  <2>1. x1 \in Nat /\ x2 \in Nat /\ x3 \in Nat /\ x4 \in Nat /\ x5 \in Nat
    BY <1>1, <1>2
  <2>2. x1 + x2 + x3 + x4 + x5 = 0
    BY <1>1 DEF LinkCount
  <2> HIDE DEF x1, x2, x3, x4, x5
  <2>3. x1 = 0 /\ x2 = 0 /\ x3 = 0 /\ x4 = 0 /\ x5 = 0
    BY <2>1, <2>2
  <2> QED BY <2>3 DEF x1, x2, x3, x4, x5
<1>4. Named(disk, i) = {} /\ Kids(disk, i) = {} /\ Owed[i] = {}
  BY <1>3, NamedFinite, OwedFinite, FS_EmptySet
<1>5. i # ROOTINO
  BY <1>3 DEF I
<1>6. ASSUME NEW e \in Inums, NEW n \in Names, disk.ents[e][n] = i PROVE FALSE
  <2>1. <<e, n>> \in Named(disk, i)
    BY <1>6 DEF Named
  <2> QED BY <1>4, <2>1
<1> QED BY <1>3, <1>4, <1>5, <1>6

\* A table that differs from itab by what p may do without writing.
CopyOK(p, c, j) ==
    /\ itab[j].ref > 0 /\ itab[j].valid => c.valid
    /\ c.ref > 0 /\ c.valid => \/ itab[j].ref > 0 /\ itab[j].valid /\ Same(c, itab[j])
                               \/ Same(c, disk.inode[j]) /\ Live(ps[p], j) > 0
TableOK(p, t) == /\ t \in [Inums -> Copies]
                 /\ \A j \in Inums : t[j].ref >= itab[j].ref /\ CopyOK(p, t[j], j)

LEMMA TableIs ==
    ASSUME IInv, NEW p \in Procs
    PROVE  TableOK(p, itab)
<1>1. itab \in [Inums -> Copies] /\ \A j \in Inums : itab[j].ref \in Nat
  BY DEF IInv, InodesTypeOK, Copies
<1> QED BY <1>1 DEF TableOK, CopyOK, Same

LEMMA GetIs ==
    ASSUME IInv, NEW p \in Procs, NEW t, TableOK(p, t), NEW i \in Inums
    PROVE  /\ TableOK(p, iget(t, i))
           /\ \A j \in Inums : /\ iget(t, i)[j].ref = t[j].ref + I(i = j)
                               /\ iget(t, i)[j].lock = t[j].lock
                               /\ t[j].ref > 0 /\ t[j].valid => iget(t, i)[j].valid
<1>1. t \in [Inums -> Copies] /\ itab \in [Inums -> Copies]
  BY DEF TableOK, IInv, InodesTypeOK
<1> DEFINE x == IF t[i].ref > 0 THEN t[i].valid ELSE FALSE
           c == [t[i] EXCEPT !.ref = t[i].ref + 1, !.valid = x]
<1>11. x \in BOOLEAN /\ t[i].ref \in Nat /\ t[i] \in Copies
  BY <1>1 DEF Copies
<1> HIDE DEF x
<1>2. c \in Copies /\ c.ref = t[i].ref + 1 /\ c.lock = t[i].lock /\ Same(c, t[i])
      /\ c.valid = x
  <2> DEFINE y == t[i].ref + 1
  <2>1. y \in Nat /\ x \in BOOLEAN
    BY <1>11
  <2>2. c = [t[i] EXCEPT !.ref = y, !.valid = x]
    OBVIOUS
  <2> HIDE DEF y, c
  <2>3. c \in Copies
    BY <1>11, <2>1, <2>2 DEF Copies
  <2>4. c.ref = y /\ c.lock = t[i].lock
    BY <1>11, <2>2 DEF Copies
  <2>5. c.valid = x
    BY <1>11, <2>2 DEF Copies
  <2>6. Same(c, t[i])
    BY <1>11, <2>2 DEF Copies, Same
  <2> QED BY <2>3, <2>4, <2>5, <2>6 DEF y
<1>3. iget(t, i) = [t EXCEPT ![i] = c]
  <2>1. t[i] \in Copies /\ t[i].ref \in Nat /\ t[i].valid \in BOOLEAN
    BY <1>1 DEF Copies
  <2>2. CASE t[i].ref > 0
    <3>1. [t[i] EXCEPT !.ref = @ + 1] = c
      <4>1. x = t[i].valid
        BY <2>2 DEF x
      <4> QED BY <2>1, <4>1 DEF Copies
    <3> QED BY <1>1, <2>2, <3>1 DEF iget
  <2>3. CASE ~(t[i].ref > 0)
    <3>1. [[t[i] EXCEPT !.ref = 1] EXCEPT !.valid = FALSE] = c
      <4>1. x = FALSE /\ t[i].ref + 1 = 1
        BY <2>1, <2>3 DEF x
      <4> QED BY <2>1, <4>1 DEF Copies
    <3>2. [t EXCEPT ![i].ref = 1, ![i].valid = FALSE] = [t EXCEPT ![i] = [[t[i] EXCEPT !.ref = 1] EXCEPT !.valid = FALSE]]
      BY <1>1
    <3> QED BY <2>3, <3>1, <3>2 DEF iget
  <2> QED BY <2>2, <2>3
<1> HIDE DEF c
<1>4. \A j \in Inums : iget(t, i)[j] = IF j = i THEN c ELSE t[j]
  BY <1>1, <1>3
<1>5. iget(t, i) \in [Inums -> Copies]
  BY <1>1, <1>2, <1>3
<1>6. t[i].ref \in Nat /\ itab[i].ref \in Nat /\ t[i].ref >= itab[i].ref /\ CopyOK(p, t[i], i)
  BY <1>1 DEF Copies, TableOK
<1>7. CopyOK(p, c, i) /\ c.ref >= itab[i].ref
  BY <1>2, <1>6 DEF CopyOK, Same, x
<1>8. TableOK(p, iget(t, i))
  BY <1>4, <1>5, <1>7 DEF TableOK
<1>9. \A j \in Inums : t[j].ref \in Nat
  BY <1>1 DEF Copies
<1>10. t[i].ref > 0 /\ t[i].valid => c.valid
  BY <1>2 DEF x
<1> QED BY <1>2, <1>4, <1>8, <1>9, <1>10 DEF I

LEMMA UnlockIs ==
    ASSUME IInv, NEW p \in Procs, NEW t, TableOK(p, t), NEW i \in Inums
    PROVE  /\ TableOK(p, iunlock(t, i))
           /\ \A j \in Inums : /\ iunlock(t, i)[j].ref = t[j].ref /\ iunlock(t, i)[j].valid = t[j].valid
                               /\ iunlock(t, i)[j].lock = IF j = i THEN 0 ELSE t[j].lock
<1>1. t \in [Inums -> Copies]
  BY DEF TableOK
<1> DEFINE c == [t[i] EXCEPT !.lock = 0]
<1>2. /\ c \in Copies /\ c.ref = t[i].ref /\ c.valid = t[i].valid /\ c.lock = 0 /\ Same(c, t[i])
  BY <1>1 DEF Copies, Same
<1>3. iunlock(t, i) = [t EXCEPT ![i] = c]
  BY <1>1 DEF iunlock
<1> HIDE DEF c
<1>4. \A j \in Inums : iunlock(t, i)[j] = IF j = i THEN c ELSE t[j]
  BY <1>1, <1>3
<1>5. iunlock(t, i) \in [Inums -> Copies]
  BY <1>1, <1>2, <1>3
<1>6. CopyOK(p, c, i) /\ c.ref >= itab[i].ref
  BY <1>2 DEF TableOK, CopyOK, Same
<1>7. TableOK(p, iunlock(t, i))
  BY <1>4, <1>5, <1>6 DEF TableOK
<1> QED BY <1>2, <1>4, <1>7

LEMMA LockIs ==
    ASSUME IInv, NEW p \in Procs, NEW t, TableOK(p, t), NEW i \in Inums, Live(ps[p], i) > 0
    PROVE  /\ TableOK(p, ilock(t, disk, i, p))
           /\ \A j \in Inums : /\ ilock(t, disk, i, p)[j].ref = t[j].ref
                               /\ ilock(t, disk, i, p)[j].lock = IF j = i THEN p ELSE t[j].lock
                               /\ t[j].valid => ilock(t, disk, i, p)[j].valid
           /\ ilock(t, disk, i, p)[i].valid
<1>1. t \in [Inums -> Copies] /\ disk.inode[i] \in InodesOf
  BY DEF TableOK, IInv, InodesTypeOK, Disks
<1> DEFINE from == IF t[i].valid THEN t[i] ELSE disk.inode[i]
           c == [Loaded(t[i], IF t[i].valid THEN t[i] ELSE disk.inode[i]) EXCEPT !.valid = TRUE, !.lock = p]
<1>2. t[i] \in Copies /\ from.type \in Types /\ from.nlink \in Int /\ from.addrs \in SUBSET Blocks
  BY <1>1 DEF Copies, InodesOf
<1>3. c = [Loaded(t[i], from) EXCEPT !.valid = TRUE, !.lock = p]
  OBVIOUS
<1>4. /\ c \in Copies /\ c.ref = t[i].ref /\ c.valid = TRUE /\ c.lock = p /\ Same(c, from)
  <2> HIDE DEF from, c
  <2> QED BY <1>2, <1>3 DEF Copies, Loaded, Same
<1>5. ilock(t, disk, i, p) = [t EXCEPT ![i] = c]
  BY <1>1 DEF ilock
<1>6. CopyOK(p, c, i)
  <2>1. CASE t[i].valid
    <3>1. Same(c, t[i])
      BY <1>4, <2>1
    <3> HIDE DEF c, from
    <3> QED BY <1>4, <2>1, <3>1 DEF TableOK, CopyOK, Same
  <2>2. CASE ~t[i].valid
    <3>1. Same(c, disk.inode[i])
      BY <1>4, <2>2
    <3> HIDE DEF c, from
    <3> QED BY <1>4, <3>1 DEF CopyOK
  <2> QED BY <2>1, <2>2
<1> HIDE DEF c, from
<1>7. \A j \in Inums : ilock(t, disk, i, p)[j] = IF j = i THEN c ELSE t[j]
  BY <1>1, <1>5
<1>8. ilock(t, disk, i, p) \in [Inums -> Copies]
  BY <1>1, <1>4, <1>5
<1>9. TableOK(p, ilock(t, disk, i, p))
  BY <1>4, <1>6, <1>7, <1>8 DEF TableOK
<1> QED BY <1>4, <1>7, <1>9

\* A step that only reads the disk.
LEMMA QuietKeeps ==
    ASSUME IInv, NEW p \in Procs, NEW Q \in States, ps' = [ps EXCEPT ![p] = Q],
           StepRight(Q), Q.pc # "idle", inop' = inop \cup {p}, UNCHANGED <<disk, home, orphans, crashes>>,
           TableOK(p, itab'),
           \A i \in Inums : /\ itab'[i].ref = itab[i].ref + Uses(Q, i) - Uses(ps[p], i)
                            /\ Uses(Q, i) - Uses(ps[p], i) \in {-1, 0, 1},
           \A i \in Inums : LockStep(p, Q, i),
           \A i \in Inums : Owes(Q, i) <=> Owes(ps[p], i),
           \A i \in Inums : Live(Q, i) > Live(ps[p], i) => disk.inode[i].nlink # 0,
           \A i \in Inums : Live(Q, i) > Unread(Q, i) =>
                               itab'[i].valid \/ Live(ps[p], i) > Unread(ps[p], i),
           ps[p].freeing = "no", Q.freeing = "no", Q.pc # "made", ps[p].pc # "made",
           Q.pc = "child" => disk.ents[Q.dp][Last(Q.path)] = Q.ip,
           Q.new /\ Q.pc \in {"walk", "dir"} => disk.inode[Q.ip].type = "file"
    PROVE  IInv'
<1>1. /\ ps \in [Procs -> States] /\ itab \in [Inums -> Copies] /\ disk \in Disks
      /\ home \in Disks /\ inop \subseteq Procs
  BY DEF IInv, InodesTypeOK
<1>2. itab' \in [Inums -> Copies]
  BY DEF TableOK
<1>3. ASSUME NEW i \in Inums PROVE CopyStep(p, i) /\ DiskStep(p, i)
  BY DEF TableOK, CopyOK, CopyStep, DiskStep
<1>4. \A i \in Inums : Owed'[i] = Owed[i]
  BY <1>1 DEF Owed
<1>5. Owed' = Owed
  BY <1>4 DEF Owed
<1>6. TreesRight'
  BY <1>5 DEF IInv, TreesRight, LinksRight, BlocksRight, LinkCount, Named, Kids
<1>7. ASSUME NEW i \in Inums, disk'.inode[i].type # "none", disk'.inode[i].nlink = 0, itab'[i].ref = 0
      PROVE  i \in orphans
  <2>1. itab[i].ref = 0
    <3>1. itab[i].ref \in Nat /\ itab'[i].ref >= itab[i].ref
      BY <1>1 DEF TableOK, Copies
    <3> QED BY <1>7, <3>1
  <2> QED BY <1>7, <2>1 DEF IInv, NoneStranded, Allocated
<1> QED BY <1>1, <1>2, <1>3, <1>6, <1>7, StepKeeps

-----------------------------------------------------------------------------
(* Steps that only read the disk.                                           *)

LEMMA CallIs ==
    ASSUME NEW c \in Calls
    PROVE  /\ c.do \in {"create", "mkdir", "unlink", "open", "link", "close", "write"}
           /\ c.do \notin {"close", "write"} => c.path \in Seq(Names) /\ c.path # <<>>
           /\ c.do = "link" => c.to \in Seq(Names) /\ c.to # <<>>
BY DEF Calls, Paths

LEMMA AtIs ==
    ASSUME IInv, NEW p \in Procs, ps[p].puts = <<>>
    PROVE  /\ ps[p] \in States /\ StepRight(ps[p]) /\ ps[p].freeing = "no" /\ p # 0
           /\ ps[p].pc # "idle" => p \in inop
           /\ \A i \in Inums : /\ PutN(ps[p].puts, i) = 0 /\ Live(ps[p], i) = Uses(ps[p], i)
                               /\ Uses(ps[p], i) \in 0..6 /\ Unread(ps[p], i) \in Nat
           /\ \A i \in Inums : i \in Locks(ps[p]) <=> i = PcLock(ps[p])
           /\ \A i \in Inums : itab[i].lock = p <=> i = PcLock(ps[p])
<1>1. ps[p] \in States /\ StepRight(ps[p]) /\ (ps[p].pc # "idle" => p \in inop)
  BY DEF IInv, InodesTypeOK, StepsRight
<1>2. ps[p].freeing = "no"
  BY <1>1 DEF StepRight
<1>3. \A i \in Inums : PutN(ps[p].puts, i) = 0
  BY PutsAre
<1>4. \A i \in Inums : Live(ps[p], i) = Uses(ps[p], i) /\ Uses(ps[p], i) \in 0..6 /\ Unread(ps[p], i) \in Nat
  BY <1>1, <1>2, UsesType DEF I
<1>5. p # 0 /\ 0 \notin Inums
  BY InodesAssumption
<1>6. \A i \in Inums : i \in Locks(ps[p]) <=> i = PcLock(ps[p])
  BY <1>2, <1>5 DEF Locks, PutLock
<1>7. \A i \in Inums : itab[i].lock = p <=> i \in Locks(ps[p])
  BY DEF IInv, LocksRight
<1> QED BY <1>1, <1>2, <1>3, <1>4, <1>5, <1>6, <1>7

\* What is used is allocated, and what has a name has links.
LEMMA NamesAre ==
    ASSUME IInv, NEW d \in Inums, NEW n \in Names
    PROVE  /\ disk.ents[d][n] \in Inums \cup {0}
           /\ disk.ents[d][n] # 0 => disk.inode[disk.ents[d][n]].nlink # 0
<1>1. disk.ents[d][n] \in Inums \cup {0}
  BY DEF IInv, InodesTypeOK, Disks
<1> QED BY <1>1, Linkeds

\* p locks i, reads it and unlocks it, and may get a reference to n meanwhile.
Visit(p, i, n) == iunlock(IF n = 0 THEN ilock(itab, disk, i, p) ELSE iget(ilock(itab, disk, i, p), n), i)

LEMMA VisitIs ==
    ASSUME IInv, NEW p \in Procs, NEW i \in Inums, NEW n \in Inums \cup {0},
           CanLock(i), Live(ps[p], i) > 0
    PROVE  /\ TableOK(p, Visit(p, i, n))
           /\ \A j \in Inums : /\ Visit(p, i, n)[j].ref = itab[j].ref + I(n = j)
                               /\ Visit(p, i, n)[j].lock = itab[j].lock
           /\ Visit(p, i, n)[i].valid
<1> DEFINE t == ilock(itab, disk, i, p)  u == iget(t, n)
<1>1. 0 \notin Inums /\ itab[i].lock = 0 /\ \A j \in Inums : itab[j].ref \in Nat
  BY InodesAssumption DEF CanLock, IInv, InodesTypeOK, Copies
<1>2. /\ TableOK(p, t)
      /\ \A j \in Inums : t[j].ref = itab[j].ref /\ t[j].lock = IF j = i THEN p ELSE itab[j].lock
      /\ t[i].valid
  BY TableIs, LockIs
<1>3. i \in Inums /\ p \in Procs
  OBVIOUS
<1>4. CASE n = 0
  <2>1. Visit(p, i, n) = iunlock(t, i)
    BY <1>4 DEF Visit
  <2> HIDE DEF t
  <2>2. /\ TableOK(p, iunlock(t, i))
        /\ \A j \in Inums : /\ iunlock(t, i)[j].ref = t[j].ref /\ iunlock(t, i)[j].valid = t[j].valid
                            /\ iunlock(t, i)[j].lock = IF j = i THEN 0 ELSE t[j].lock
    BY <1>2, UnlockIs
  <2>3. \A j \in Inums : I(n = j) = 0
    BY <1>1, <1>4 DEF I
  <2> QED BY <1>1, <1>2, <2>1, <2>2, <2>3
<1>5. CASE n # 0
  <2>1. Visit(p, i, n) = iunlock(u, i) /\ n \in Inums
    BY <1>5 DEF Visit
  <2> HIDE DEF t
  <2>2. /\ TableOK(p, u)
        /\ \A j \in Inums : /\ u[j].ref = t[j].ref + I(n = j) /\ u[j].lock = t[j].lock
                            /\ t[j].ref > 0 /\ t[j].valid => u[j].valid
    BY <1>2, <2>1, GetIs
  <2> HIDE DEF u
  <2>3. /\ TableOK(p, iunlock(u, i))
        /\ \A j \in Inums : /\ iunlock(u, i)[j].ref = u[j].ref /\ iunlock(u, i)[j].valid = u[j].valid
                            /\ iunlock(u, i)[j].lock = IF j = i THEN 0 ELSE u[j].lock
    BY <2>2, UnlockIs
  <2>4. t[i].ref > 0
    <3>1. Uses(ps[p], i) \in 0..6 /\ Live(ps[p], i) \in Nat /\ Live(ps[p], i) <= Uses(ps[p], i)
      BY UsesType DEF IInv, InodesTypeOK, StepsRight
    <3>2. itab[i].ref >= Uses(ps[p], i)
      BY Counted
    <3> QED BY <1>1, <1>2, <3>1, <3>2
  <2>5. Visit(p, i, n)[i].valid
    BY <1>2, <2>1, <2>2, <2>3, <2>4
  <2> QED BY <1>1, <1>2, <2>1, <2>2, <2>3, <2>5
<1> QED BY <1>4, <1>5

LEMMA VisitKeeps ==
    ASSUME IInv, NEW p \in Procs, NEW Q \in States, ps' = [ps EXCEPT ![p] = Q],
           ps[p].puts = <<>>, ps[p].pc \notin {"idle", "made"},
           NEW i \in Inums, NEW n \in Inums \cup {0}, CanLock(i), Uses(ps[p], i) > 0,
           itab' = Visit(p, i, n), n # 0 => disk.inode[n].nlink # 0, UNCHANGED disk, Keep,
           StepRight(Q), Q.pc \notin {"idle", "made", "child"}, Q.freeing = "no",
           PcLock(Q) = PcLock(ps[p]),
           Q.new /\ Q.pc \in {"walk", "dir"} =>
               ps[p].new /\ ps[p].pc \in {"walk", "dir"} /\ Q.ip = ps[p].ip,
           \A j \in Inums : Uses(Q, j) = Uses(ps[p], j) + I(n = j),
           \A j \in Inums : Owes(Q, j) <=> Owes(ps[p], j),
           \A j \in Inums : Uses(Q, j) > Unread(Q, j) => j = i \/ Uses(ps[p], j) > Unread(ps[p], j)
    PROVE  IInv'
<1>1. /\ ps[p] \in States /\ StepRight(ps[p]) /\ ps[p].freeing = "no" /\ p # 0 /\ p \in inop
      /\ \A j \in Inums : Live(ps[p], j) = Uses(ps[p], j) /\ Uses(ps[p], j) \in 0..6
      /\ \A j \in Inums : j \in Locks(ps[p]) <=> j = PcLock(ps[p])
  BY AtIs
<1>2. /\ TableOK(p, itab')
      /\ \A j \in Inums : itab'[j].ref = itab[j].ref + I(n = j) /\ itab'[j].lock = itab[j].lock
      /\ itab'[i].valid
  BY <1>1, VisitIs
<1>3. inop' = inop \cup {p} /\ UNCHANGED <<disk, home, orphans, crashes>>
  BY <1>1 DEF Keep
<1>4. \A j \in Inums : Live(Q, j) = Uses(Q, j) /\ itab[j].ref \in Nat
  <2>1. \A j \in Inums : Uses(Q, j) \in 0..6 /\ Live(Q, j) = Uses(Q, j) - I(FALSE)
    BY UsesType
  <2>2. \A j \in Inums : itab[j].ref \in Nat
    BY DEF IInv, InodesTypeOK, Copies
  <2> QED BY <2>1, <2>2 DEF I
<1>5. \A j \in Inums : /\ itab'[j].ref = itab[j].ref + Uses(Q, j) - Uses(ps[p], j)
                       /\ Uses(Q, j) - Uses(ps[p], j) \in {-1, 0, 1}
  BY <1>1, <1>2, <1>4 DEF I
<1>6. \A j \in Inums : LockStep(p, Q, j)
  <2>1. PutLock(Q) = 0 /\ 0 \notin Inums
    BY InodesAssumption DEF PutLock
  <2> QED BY <1>1, <1>2, <2>1 DEF LockStep, Locks
<1>7. \A j \in Inums : Live(Q, j) > Live(ps[p], j) => disk.inode[j].nlink # 0
  <2> SUFFICES ASSUME NEW j \in Inums, Live(Q, j) > Live(ps[p], j) PROVE disk.inode[j].nlink # 0
    OBVIOUS
  <2>1. Uses(ps[p], j) \in 0..6 /\ Uses(ps[p], j) + I(n = j) > Uses(ps[p], j)
    BY <1>1, <1>4
  <2>2. n = j
    BY <2>1 DEF I
  <2> QED BY <2>2, InodesAssumption
<1>8. \A j \in Inums : Live(Q, j) > Unread(Q, j) => itab'[j].valid \/ Live(ps[p], j) > Unread(ps[p], j)
  BY <1>1, <1>2, <1>4
<1>9. Q.new /\ Q.pc \in {"walk", "dir"} => disk.inode[Q.ip].type = "file"
  BY DEF IInv, SeenRight
<1>10. Q.pc = "child" => disk.ents[Q.dp][Last(Q.path)] = Q.ip
  OBVIOUS
<1>11. Q.pc # "idle" /\ Q.pc # "made" /\ ps[p].pc # "made"
  OBVIOUS
<1> QED BY <1>1, <1>2, <1>3, <1>5, <1>6, <1>7, <1>8, <1>9, <1>10, <1>11, QuietKeeps, ZenonT(60)

LEMMA WalkKeeps ==
    ASSUME IInv, NEW p \in Procs, Walk(p)
    PROVE  IInv'
<1> DEFINE q == ps[p]  i == q.cur  next == disk.ents[i][Head(q.path)]
<1>1. q.pc = "walk" /\ q.puts = <<>> /\ CanLock(i) /\ UNCHANGED disk /\ Keep
  BY DEF Walk, At, Me
<1>2. /\ q \in States /\ StepRight(q) /\ q.freeing = "no"
      /\ \A j \in Inums : PutN(q.puts, j) = 0
  BY <1>1, AtIs
<1>3. /\ i \in Inums /\ q.path \in Seq(Names) /\ q.path # <<>>
      /\ q.op.do \in {"create", "mkdir", "unlink", "open", "link"} /\ q.op \in Calls
      /\ q.new => q.ip # 0 /\ q.op.do = "link"
  BY <1>1, <1>2 DEF StepRight, States, HasIp
<1>4. /\ Head(q.path) \in Names /\ Tail(q.path) \in Seq(Names)
      /\ Len(q.path) # 1 => Tail(q.path) # <<>>
  <2>1. /\ Len(q.path) \in Nat /\ Head(q.path) \in Names /\ Tail(q.path) \in Seq(Names)
        /\ Len(Tail(q.path)) = Len(q.path) - 1 /\ Len(q.path) # 0
    BY <1>3, HeadTailProperties, LenProperties, EmptySeq
  <2>2. ASSUME Tail(q.path) = <<>> PROVE Len(Tail(q.path)) = 0
    BY <2>1, <2>2, EmptySeq
  <2>3. Len(q.path) # 1 => Tail(q.path) # <<>>
    BY <2>1, <2>2
  <2> QED BY <2>1, <2>3
<1>5. Uses(q, i) > 0
  <2>1. I(q.pc = "walk" /\ q.cur = i) = 1
    BY <1>1 DEF I
  <2> QED BY <1>2, <1>3, <2>1 DEF Uses, I
<1>6. next \in Inums \cup {0} /\ (next # 0 => disk.inode[next].nlink # 0) /\ 0 \notin Inums
  BY <1>3, <1>4, NamesAre, InodesAssumption
<1>7. ASSUME itab' = Visit(p, i, 0),
             Becomes(p, PutThen(p, <<i>>, IF q.new THEN "undo" ELSE "end"))
      PROVE  IInv'
  <2>1. PICK Q \in States : Q = PutThen(p, <<i>>, IF q.new THEN "undo" ELSE "end")
    BY <1>2, <1>3, PutOne DEF States, Steps, PutThen, Me
  <2>2. /\ Q.pc = (IF q.new THEN "undo" ELSE "end") /\ Q.puts = <<i>> /\ Q.freeing = "no"
        /\ Q.op = q.op /\ Q.path = q.path /\ Q.cur = q.cur /\ Q.ip = q.ip /\ Q.dp = q.dp
        /\ Q.new = q.new /\ Q.fd = q.fd
    BY <1>2, <2>1 DEF States, PutThen, Me
  <2>3. Len(Q.puts) = 1 /\ Q.puts # <<>> /\ \A j \in Inums : PutN(Q.puts, j) = I(i = j)
    BY <1>3, <2>2, PutOne
  <2>4. StepRight(Q)
    BY <1>3, <2>2, <2>3 DEF StepRight, HasIp, HasDp, PutLock
  <2>5. \A j \in Inums : Uses(Q, j) = Uses(q, j) + I(0 = j)
    <3>1. q.pc = "walk"
      BY <1>1
    <3> HIDE DEF q, next
    <3> QED BY <1>2, <1>6, <2>2, <2>3, <3>1 DEF Uses, HasIp, HasDp, I
  <2>6. \A j \in Inums : Owes(Q, j) <=> Owes(q, j)
    BY <1>1, <2>2 DEF Owes
  <2>7. \A j \in Inums : Uses(Q, j) > Unread(Q, j) => j = i \/ Uses(q, j) > Unread(q, j)
    <3>1. \A j \in Inums : Uses(q, j) \in Nat
      BY <1>2, UsesType
    <3>2. q.pc = "walk"
      BY <1>1
    <3> HIDE DEF q, next
    <3> QED BY <1>6, <2>2, <2>5, <3>1, <3>2 DEF Unread, I
  <2>8. PcLock(Q) = PcLock(q) /\ Q.pc \notin {"idle", "made", "child", "walk", "dir"}
    BY <1>1, <2>2 DEF PcLock
  <2>9. ps' = [ps EXCEPT ![p] = Q] /\ 0 \in Inums \cup {0}
    BY <1>7, <2>1 DEF Becomes
  <2> QED BY <1>1, <1>2, <1>3, <1>5, <1>6, <1>7, <2>9, <2>2, <2>4, <2>5, <2>6, <2>7, <2>8, VisitKeeps DEF Becomes
<1>8. ASSUME itab' = Visit(p, i, 0), Becomes(p, [q EXCEPT !.pc = "dir", !.dp = i])
      PROVE  IInv'
  <2>1. PICK Q \in States : Q = [q EXCEPT !.pc = "dir", !.dp = i]
    BY <1>2, <1>3 DEF States, Steps
  <2>2. /\ Q.pc = "dir" /\ Q.dp = i /\ Q.puts = <<>> /\ Q.freeing = "no"
        /\ Q.op = q.op /\ Q.path = q.path /\ Q.cur = q.cur /\ Q.ip = q.ip
        /\ Q.new = q.new /\ Q.fd = q.fd
    BY <1>1, <1>2, <2>1 DEF States
  <2>3. Len(Q.puts) = 0 /\ \A j \in Inums : PutN(Q.puts, j) = 0
    BY <2>2, PutNone
  <2>4. StepRight(Q)
    <3>1. q.new => q.ip # 0 /\ q.op.do = "link"
      BY <1>3
    <3> HIDE DEF q, next
    <3> QED BY <1>3, <1>6, <2>2, <2>3, <3>1 DEF StepRight, HasIp, HasDp, PutLock
  <2>5. \A j \in Inums : Uses(Q, j) = Uses(q, j) + I(0 = j)
    <3>1. q.pc = "walk"
      BY <1>1
    <3> HIDE DEF q, next
    <3> QED BY <1>2, <1>6, <2>2, <2>3, <3>1 DEF Uses, HasIp, HasDp, I
  <2>6. \A j \in Inums : Owes(Q, j) <=> Owes(q, j)
    BY <1>1, <2>2 DEF Owes
  <2>7. \A j \in Inums : Uses(Q, j) > Unread(Q, j) => j = i \/ Uses(q, j) > Unread(q, j)
    <3>1. \A j \in Inums : Uses(q, j) \in Nat
      BY <1>2, UsesType
    <3>2. q.pc = "walk"
      BY <1>1
    <3> HIDE DEF q, next
    <3> QED BY <1>6, <2>2, <2>5, <3>1, <3>2 DEF Unread, I
  <2>8. PcLock(Q) = PcLock(q) /\ Q.pc \notin {"idle", "made", "child"}
    BY <1>1, <2>2 DEF PcLock
  <2>9. ps' = [ps EXCEPT ![p] = Q] /\ 0 \in Inums \cup {0}
    BY <1>8, <2>1 DEF Becomes
  <2>10. Q.new /\ Q.pc \in {"walk", "dir"} => q.new /\ q.pc \in {"walk", "dir"} /\ Q.ip = q.ip
    BY <1>1, <2>2
  <2> QED BY <1>1, <1>2, <1>3, <1>5, <1>6, <1>8, <2>10, <2>9, <2>2, <2>4, <2>5, <2>6, <2>7, <2>8, VisitKeeps DEF Becomes
<1>9. ASSUME itab' = Visit(p, i, next), next # 0, ~q.new,
             Becomes(p, [PutThen(p, <<i>>, "found") EXCEPT !.ip = next])
      PROVE  IInv'
  <2>1. PICK Q \in States : Q = [PutThen(p, <<i>>, "found") EXCEPT !.ip = next]
    BY <1>2, <1>3, <1>6, PutOne DEF States, Steps, PutThen, Me
  <2>2. /\ Q.pc = "found" /\ Q.puts = <<i>> /\ Q.freeing = "no" /\ Q.ip = next
        /\ Q.op = q.op /\ Q.path = q.path /\ Q.cur = q.cur /\ Q.dp = q.dp
        /\ Q.new = q.new /\ Q.fd = q.fd
    BY <1>2, <2>1 DEF States, PutThen, Me
  <2>3. Len(Q.puts) = 1 /\ Q.puts # <<>> /\ \A j \in Inums : PutN(Q.puts, j) = I(i = j)
    BY <1>3, <2>2, PutOne
  <2>4. StepRight(Q)
    <3>1. next # 0 /\ ~q.new
      BY <1>9
    <3> HIDE DEF q, i, next
    <3> QED BY <1>3, <2>2, <2>3, <3>1 DEF StepRight, HasIp, HasDp, PutLock
  <2>5. \A j \in Inums : Uses(Q, j) = Uses(q, j) + I(next = j)
    <3>1. q.pc = "walk" /\ next # 0 /\ ~q.new
      BY <1>1, <1>9
    <3> HIDE DEF q, next
    <3> QED BY <1>2, <2>2, <2>3, <3>1 DEF Uses, HasIp, HasDp, I
  <2>6. \A j \in Inums : Owes(Q, j) <=> Owes(q, j)
    BY <1>1, <1>9, <2>2 DEF Owes
  <2>7. \A j \in Inums : Uses(Q, j) > Unread(Q, j) => j = i \/ Uses(q, j) > Unread(q, j)
    <3>1. \A j \in Inums : Uses(q, j) \in Nat
      BY <1>2, UsesType
    <3> QED BY SMTT(60), <1>1, <2>2, <2>5, <3>1 DEF Unread, I
  <2>8. PcLock(Q) = PcLock(q) /\ Q.pc \notin {"idle", "made", "child"}
    BY <1>1, <2>2 DEF PcLock
  <2> QED BY <1>1, <1>2, <1>3, <1>5, <1>6, <1>9, <2>1, <2>2, <2>4, <2>5, <2>6, <2>7, <2>8, VisitKeeps DEF Becomes
<1>10. ASSUME itab' = Visit(p, i, next), next # 0, Len(q.path) # 1,
              Becomes(p, [PutThen(p, <<i>>, "walk") EXCEPT !.cur = next, !.path = Tail(q.path)])
       PROVE  IInv'
  <2>1. PICK Q \in States : Q = [PutThen(p, <<i>>, "walk") EXCEPT !.cur = next, !.path = Tail(q.path)]
    BY <1>2, <1>3, <1>4, <1>6, PutOne DEF States, Steps, PutThen, Me
  <2>2. /\ Q.pc = "walk" /\ Q.puts = <<i>> /\ Q.freeing = "no" /\ Q.cur = next
        /\ Q.op = q.op /\ Q.path = Tail(q.path) /\ Q.dp = q.dp /\ Q.ip = q.ip
        /\ Q.new = q.new /\ Q.fd = q.fd
    BY <1>2, <2>1 DEF States, PutThen, Me
  <2>3. Len(Q.puts) = 1 /\ Q.puts # <<>> /\ \A j \in Inums : PutN(Q.puts, j) = I(i = j)
    BY <1>3, <2>2, PutOne
  <2>4. StepRight(Q)
    <3>1. next # 0 /\ Tail(q.path) # <<>>
      BY <1>4, <1>10
    <3> HIDE DEF q, i, next
    <3> QED BY <1>3, <2>2, <2>3, <3>1 DEF StepRight, HasIp, HasDp, PutLock
  <2>5. \A j \in Inums : Uses(Q, j) = Uses(q, j) + I(next = j)
    <3>1. q.pc = "walk"
      BY <1>1
    <3> HIDE DEF q, next
    <3> QED BY <1>2, <2>2, <2>3, <3>1 DEF Uses, HasIp, HasDp, I
  <2>6. \A j \in Inums : Owes(Q, j) <=> Owes(q, j)
    BY <1>1, <1>10, <2>2 DEF Owes
  <2>7. \A j \in Inums : Uses(Q, j) > Unread(Q, j) => j = i \/ Uses(q, j) > Unread(q, j)
    <3>1. \A j \in Inums : Uses(q, j) \in Nat
      BY <1>2, UsesType
    <3> QED BY <1>1, <2>2, <2>5, <3>1 DEF Unread, I
  <2>8. PcLock(Q) = PcLock(q) /\ Q.pc \notin {"idle", "made", "child"}
    BY <1>1, <2>2 DEF PcLock
  <2>9. ps' = [ps EXCEPT ![p] = Q] /\ 0 \in Inums \cup {0}
    BY <1>10, <2>1 DEF Becomes
  <2>10. Q.new /\ Q.pc \in {"walk", "dir"} => q.new /\ q.pc \in {"walk", "dir"} /\ Q.ip = q.ip
    BY <1>1, <2>2
  <2> QED BY <1>1, <1>2, <1>3, <1>5, <1>6, <1>10, <2>10, <2>9, <2>2, <2>4, <2>5, <2>6, <2>7, <2>8, VisitKeeps DEF Becomes
<1>11. Visit(p, i, 0) = iunlock(ilock(itab, disk, i, p), i)
       /\ (next # 0 => Visit(p, i, next) = iunlock(iget(ilock(itab, disk, i, p), next), i))
  BY DEF Visit
<1>12. CASE ilock(itab, disk, i, p)[i].type # "dir"
  BY <1>7, <1>11, <1>12 DEF Walk, Me
<1>13. CASE ilock(itab, disk, i, p)[i].type = "dir" /\ WantsParent(p) /\ Len(q.path) = 1
  BY <1>8, <1>11, <1>13 DEF Walk, Me
<1>14. CASE ilock(itab, disk, i, p)[i].type = "dir" /\ ~(WantsParent(p) /\ Len(q.path) = 1)
  <2>1. CASE next = 0
    BY <1>7, <1>11, <1>14, <2>1 DEF Walk, Me
  <2>2. CASE next # 0 /\ Len(q.path) = 1
    BY <1>9, <1>11, <1>14, <2>2 DEF Walk, Me, WantsParent
  <2>3. CASE next # 0 /\ Len(q.path) # 1
    BY <1>10, <1>11, <1>14, <2>3 DEF Walk, Me, PutThen
  <2> QED BY <2>1, <2>2, <2>3
<1> QED BY <1>12, <1>13, <1>14

LEMMA LastIs ==
    ASSUME NEW S, NEW s \in Seq(S), s # <<>>
    PROVE  Last(s) \in S
<1>1. Len(s) \in Nat /\ Len(s) # 0 /\ \A k \in 1..Len(s) : s[k] \in S
  BY LenProperties, ElementOfSeq, EmptySeq
<1> QED BY <1>1 DEF Last

\* create() when the name is there, or no inode is free.
LEMMA CreateSees ==
    ASSUME IInv, NEW p \in Procs, create(p), UNCHANGED <<disk, orphans>>, ps'[p].pc # "made"
    PROVE  IInv'
<1> DEFINE q == ps[p]  i == q.dp  ip == disk.ents[i][Last(q.path)]
<1>1. /\ q.pc = "dir" /\ q.puts = <<>> /\ CanLock(i) /\ q.op.do \in {"create", "mkdir"}
      /\ UNCHANGED disk /\ Keep
  BY DEF create, At, Me, Op, Keep
<1>2. /\ q \in States /\ StepRight(q) /\ q.freeing = "no"
      /\ \A j \in Inums : PutN(q.puts, j) = 0
  BY <1>1, AtIs
<1>3. i \in Inums /\ q.path \in Seq(Names) /\ q.path # <<>> /\ ~q.new /\ q.op \in Calls
  BY <1>1, <1>2 DEF StepRight, States, HasDp
<1>4. ip \in Inums \cup {0} /\ (ip # 0 => disk.inode[ip].nlink # 0) /\ 0 \notin Inums
  BY <1>3, LastIs, NamesAre, InodesAssumption
<1>5. Uses(q, i) > 0 /\ 0 \in Inums \cup {0}
  <2>1. I(HasDp(q) /\ q.dp = i) = 1
    BY <1>1 DEF I, HasDp
  <2> QED BY <1>2, <1>3, <2>1 DEF Uses, I
<1>6. ASSUME ip # 0,
             itab' = Visit(p, i, ip),
             Becomes(p, [PutThen(p, <<i>>, "exists") EXCEPT !.ip = ip])
      PROVE  IInv'
  <2>1. PICK Q \in States : Q = [PutThen(p, <<i>>, "exists") EXCEPT !.ip = ip]
    BY <1>1, <1>2, <1>3, <1>4, PutOne DEF States, Steps, PutThen, Goto, Me
  <2>2. /\ Q.pc = "exists" /\ Q.op = q.op /\ Q.path = q.path /\ Q.cur = q.cur /\ Q.ip = ip
        /\ Q.dp = q.dp /\ Q.puts = <<i>> /\ Q.freeing = "no" /\ Q.new = q.new /\ Q.fd = q.fd
    BY <1>1, <1>2, <2>1 DEF States, PutThen, Goto, Me
  <2>3. Len(Q.puts) = 1 /\ Q.puts # <<>> /\ \A j \in Inums : PutN(Q.puts, j) = I(i = j)
    BY <1>3, <2>2, PutOne
  <2>4. StepRight(Q)
    <3>1. ip # 0
      BY <1>6
    <3> HIDE DEF q, i, ip
    <3> QED BY <1>3, <2>2, <2>3, <3>1 DEF StepRight, HasIp, HasDp, PutLock
  <2>5. \A j \in Inums : Uses(Q, j) = Uses(q, j) + I(ip = j)
    <3>1. q.pc = "dir" /\ ip # 0
      BY <1>1, <1>6
    <3> HIDE DEF q, ip
    <3> QED BY <1>2, <1>3, <2>2, <2>3, <3>1 DEF Uses, HasIp, HasDp, I
  <2>6. \A j \in Inums : Owes(Q, j) <=> Owes(q, j)
    BY <1>1, <1>2, <1>3, <1>4, <1>5, <1>6, <2>2 DEF Owes
  <2>7. \A j \in Inums : Uses(Q, j) > Unread(Q, j) => j = i \/ Uses(q, j) > Unread(q, j)
    <3>1. \A j \in Inums : Uses(q, j) \in Nat
      BY <1>2, UsesType
    <3> QED BY SMTT(60), <1>1, <1>2, <1>3, <1>4, <1>5, <2>2, <2>5, <3>1 DEF Unread, I
  <2>8. PcLock(Q) = PcLock(q) /\ Q.pc \notin {"idle", "made", "child"}
    BY <1>1, <2>2 DEF PcLock
  <2>9. ps' = [ps EXCEPT ![p] = Q] /\ ip \in Inums \cup {0} /\ (ip # 0 => disk.inode[ip].nlink # 0)
    BY <1>1, <1>2, <1>3, <1>4, <1>5, <1>6, <2>1 DEF Becomes
  <2>10. Q.new /\ Q.pc \in {"walk", "dir"} => q.new /\ q.pc \in {"walk", "dir"} /\ Q.ip = q.ip
    BY <1>1, <2>2
  <2> QED BY <1>1, <1>2, <1>3, <1>4, <1>5, <1>6, <2>2, <2>4, <2>5, <2>6, <2>7, <2>8, <2>9, <2>10, VisitKeeps
<1>7. ASSUME itab' = Visit(p, i, 0),
             Becomes(p, PutThen(p, <<i>>, "end"))
      PROVE  IInv'
  <2>1. PICK Q \in States : Q = PutThen(p, <<i>>, "end")
    BY <1>1, <1>2, <1>3, PutOne DEF States, Steps, PutThen, Goto, Me
  <2>2. /\ Q.pc = "end" /\ Q.op = q.op /\ Q.path = q.path /\ Q.cur = q.cur /\ Q.ip = q.ip
        /\ Q.dp = q.dp /\ Q.puts = <<i>> /\ Q.freeing = "no" /\ Q.new = q.new /\ Q.fd = q.fd
    BY <1>1, <1>2, <2>1 DEF States, PutThen, Goto, Me
  <2>3. Len(Q.puts) = 1 /\ Q.puts # <<>> /\ \A j \in Inums : PutN(Q.puts, j) = I(i = j)
    BY <1>3, <2>2, PutOne
  <2>4. StepRight(Q)
    <3> HIDE DEF q, i, ip
    <3> QED BY <1>3, <2>2, <2>3 DEF StepRight, HasIp, HasDp, PutLock
  <2>5. \A j \in Inums : Uses(Q, j) = Uses(q, j) + I(0 = j)
    <3>1. q.pc = "dir" /\ 0 \notin Inums
      BY <1>1, <1>4
    <3> HIDE DEF q, ip
    <3> QED BY <1>2, <1>3, <2>2, <2>3, <3>1 DEF Uses, HasIp, HasDp, I
  <2>6. \A j \in Inums : Owes(Q, j) <=> Owes(q, j)
    BY <1>1, <1>2, <1>3, <1>4, <1>5, <1>7, <2>2 DEF Owes
  <2>7. \A j \in Inums : Uses(Q, j) > Unread(Q, j) => j = i \/ Uses(q, j) > Unread(q, j)
    <3>1. \A j \in Inums : Uses(q, j) \in Nat
      BY <1>2, UsesType
    <3> QED BY SMTT(60), <1>1, <1>2, <1>3, <1>4, <1>5, <2>2, <2>5, <3>1 DEF Unread, I
  <2>8. PcLock(Q) = PcLock(q) /\ Q.pc \notin {"idle", "made", "child"}
    BY <1>1, <2>2 DEF PcLock
  <2>9. ps' = [ps EXCEPT ![p] = Q] /\ 0 \in Inums \cup {0} /\ (0 # 0 => disk.inode[0].nlink # 0)
    BY <1>1, <1>2, <1>3, <1>4, <1>5, <1>7, <2>1 DEF Becomes
  <2>10. Q.new /\ Q.pc \in {"walk", "dir"} => q.new /\ q.pc \in {"walk", "dir"} /\ Q.ip = q.ip
    BY <1>1, <2>2
  <2> QED BY <1>1, <1>2, <1>3, <1>4, <1>5, <1>7, <2>2, <2>4, <2>5, <2>6, <2>7, <2>8, <2>9, <2>10, VisitKeeps
<1>8. Visit(p, i, 0) = iunlock(ilock(itab, disk, i, p), i)
      /\ (ip # 0 => Visit(p, i, ip) = iunlock(iget(ilock(itab, disk, i, p), ip), i))
  BY DEF Visit
<1>9. \/ /\ ip # 0 /\ itab' = iunlock(iget(ilock(itab, disk, i, p), ip), i)
         /\ Becomes(p, [PutThen(p, <<i>>, "exists") EXCEPT !.ip = ip])
      \/ /\ itab' = iunlock(ilock(itab, disk, i, p), i)
         /\ Becomes(p, PutThen(p, <<i>>, "end"))
  <2>1. CASE \E x : Becomes(p, [Goto(p, "made") EXCEPT !.ip = x])
    <3>1. PICK x : Becomes(p, [Goto(p, "made") EXCEPT !.ip = x])
      BY <2>1
    <3>2. ps' = [ps EXCEPT ![p] = [Goto(p, "made") EXCEPT !.ip = x]] /\ ps \in [Procs -> States]
      BY <3>1 DEF Becomes, IInv, InodesTypeOK
    <3>3. ps'[p] = [Goto(p, "made") EXCEPT !.ip = x]
      BY <3>2
    <3> QED BY <1>2, <3>3 DEF Goto, Me, States
  <2>2. CASE ~ \E x : Becomes(p, [Goto(p, "made") EXCEPT !.ip = x])
    BY <2>2 DEF create, Me, Last1
  <2> QED BY <2>1, <2>2
<1> QED BY <1>6, <1>7, <1>8, <1>9

LEMMA CreateOpenKeeps ==
    ASSUME IInv, NEW p \in Procs, create_open(p)
    PROVE  IInv'
<1> DEFINE q == ps[p]  i == q.ip
<1>1. q.pc = "exists" /\ q.puts = <<>> /\ CanLock(i) /\ UNCHANGED disk /\ Keep
  BY DEF create_open, At, Me
<1>2. /\ q \in States /\ StepRight(q) /\ q.freeing = "no"
      /\ \A j \in Inums : PutN(q.puts, j) = 0
  BY <1>1, AtIs
<1>3. i \in Inums /\ q.op \in Calls /\ (q.new => q.op.do = "link")
  BY <1>1, <1>2 DEF StepRight, States, HasIp
<1>4. 0 \notin Inums
  BY InodesAssumption
<1>5. Uses(q, i) > 0
  <2>1. I(HasIp(q) /\ q.ip = i) = 1
    BY <1>1 DEF I, HasIp
  <2> QED BY <1>2, <1>3, <2>1 DEF Uses, I
<1>6. ASSUME q.fd = 0,
             itab' = Visit(p, i, 0),
             Becomes(p, [Goto(p, "end") EXCEPT !.fd = i])
      PROVE  IInv'
  <2>1. PICK Q \in States : Q = [Goto(p, "end") EXCEPT !.fd = i]
    BY <1>1, <1>2, <1>3, PutOne DEF States, Steps, PutThen, Goto, Me
  <2>2. /\ Q.pc = "end" /\ Q.op = q.op /\ Q.path = q.path /\ Q.cur = q.cur /\ Q.ip = q.ip
        /\ Q.dp = q.dp /\ Q.puts = <<>> /\ Q.freeing = "no" /\ Q.new = q.new /\ Q.fd = i
    BY <1>1, <1>2, <2>1 DEF States, PutThen, Goto, Me
  <2>3. Len(Q.puts) = 0 /\ \A j \in Inums : PutN(Q.puts, j) = 0
    BY <2>2, PutNone
  <2>4. StepRight(Q)
    BY <1>1, <1>2, <1>3, <1>4, <1>5, <1>6, <2>2, <2>3 DEF StepRight, HasIp, HasDp, PutLock, PcLock
  <2>5. \A j \in Inums : Uses(Q, j) = Uses(q, j) + I(0 = j)
    BY <1>1, <1>2, <1>3, <1>4, <1>5, <1>6, <2>2, <2>3 DEF Uses, HasIp, HasDp, I
  <2>6. \A j \in Inums : Owes(Q, j) <=> Owes(q, j)
    BY <1>1, <1>2, <1>3, <1>4, <1>5, <1>6, <2>2 DEF Owes
  <2>7. \A j \in Inums : Uses(Q, j) > Unread(Q, j) => j = i \/ Uses(q, j) > Unread(q, j)
    <3>1. \A j \in Inums : Uses(q, j) \in Nat
      BY <1>2, UsesType
    <3> QED BY <1>1, <1>2, <1>3, <1>4, <1>5, <2>2, <2>5, <3>1 DEF Unread, I
  <2>8. PcLock(Q) = PcLock(q) /\ Q.pc \notin {"idle", "made", "child"}
    BY <1>1, <2>2 DEF PcLock
  <2>9. ps' = [ps EXCEPT ![p] = Q] /\ 0 \in Inums \cup {0} /\ (0 # 0 => disk.inode[0].nlink # 0)
    BY <1>1, <1>2, <1>3, <1>4, <1>5, <1>6, <2>1 DEF Becomes
  <2>10. Q.new /\ Q.pc \in {"walk", "dir"} => q.new /\ q.pc \in {"walk", "dir"} /\ Q.ip = q.ip
    BY <1>1, <2>2
  <2> QED BY <1>1, <1>2, <1>3, <1>4, <1>5, <1>6, <2>2, <2>4, <2>5, <2>6, <2>7, <2>8, <2>9, <2>10, VisitKeeps
<1>7. ASSUME itab' = Visit(p, i, 0),
             Becomes(p, PutThen(p, <<i>>, "end"))
      PROVE  IInv'
  <2>1. PICK Q \in States : Q = PutThen(p, <<i>>, "end")
    BY <1>1, <1>2, <1>3, PutOne DEF States, Steps, PutThen, Goto, Me
  <2>2. /\ Q.pc = "end" /\ Q.op = q.op /\ Q.path = q.path /\ Q.cur = q.cur /\ Q.ip = q.ip
        /\ Q.dp = q.dp /\ Q.puts = <<i>> /\ Q.freeing = "no" /\ Q.new = q.new /\ Q.fd = q.fd
    BY <1>1, <1>2, <2>1 DEF States, PutThen, Goto, Me
  <2>3. Len(Q.puts) = 1 /\ Q.puts # <<>> /\ \A j \in Inums : PutN(Q.puts, j) = I(i = j)
    BY <1>3, <2>2, PutOne
  <2>4. StepRight(Q)
    BY <1>1, <1>2, <1>3, <1>4, <1>5, <1>7, <2>2, <2>3 DEF StepRight, HasIp, HasDp, PutLock, PcLock
  <2>5. \A j \in Inums : Uses(Q, j) = Uses(q, j) + I(0 = j)
    BY <1>1, <1>2, <1>3, <1>4, <1>5, <1>7, <2>2, <2>3 DEF Uses, HasIp, HasDp, I
  <2>6. \A j \in Inums : Owes(Q, j) <=> Owes(q, j)
    BY <1>1, <1>2, <1>3, <1>4, <1>5, <1>7, <2>2 DEF Owes
  <2>7. \A j \in Inums : Uses(Q, j) > Unread(Q, j) => j = i \/ Uses(q, j) > Unread(q, j)
    <3>1. \A j \in Inums : Uses(q, j) \in Nat
      BY <1>2, UsesType
    <3> QED BY <1>1, <1>2, <1>3, <1>4, <1>5, <2>2, <2>5, <3>1 DEF Unread, I
  <2>8. PcLock(Q) = PcLock(q) /\ Q.pc \notin {"idle", "made", "child"}
    BY <1>1, <2>2 DEF PcLock
  <2>9. ps' = [ps EXCEPT ![p] = Q] /\ 0 \in Inums \cup {0} /\ (0 # 0 => disk.inode[0].nlink # 0)
    BY <1>1, <1>2, <1>3, <1>4, <1>5, <1>7, <2>1 DEF Becomes
  <2>10. Q.new /\ Q.pc \in {"walk", "dir"} => q.new /\ q.pc \in {"walk", "dir"} /\ Q.ip = q.ip
    BY <1>1, <2>2
  <2> QED BY <1>1, <1>2, <1>3, <1>4, <1>5, <1>7, <2>2, <2>4, <2>5, <2>6, <2>7, <2>8, <2>9, <2>10, VisitKeeps
<1>8. Visit(p, i, 0) = iunlock(ilock(itab, disk, i, p), i)
  BY DEF Visit
<1> QED BY <1>6, <1>7, <1>8 DEF create_open, Me

\* namei() has found an inode that gets no link.
LEMMA FoundKeeps ==
    ASSUME IInv, NEW p \in Procs, Found(p),
           ~(Op(p).do = "link" /\ ilock(itab, disk, ps[p].ip, p)[ps[p].ip].type # "dir")
    PROVE  IInv'
<1> DEFINE q == ps[p]  i == q.ip
<1>1. q.pc = "found" /\ q.puts = <<>> /\ CanLock(i) /\ UNCHANGED disk /\ Keep
  BY DEF Found, At, Me
<1>2. /\ q \in States /\ StepRight(q) /\ q.freeing = "no"
      /\ \A j \in Inums : PutN(q.puts, j) = 0
  BY <1>1, AtIs
<1>3. i \in Inums /\ q.op \in Calls /\ (q.new => q.op.do = "link")
  BY <1>1, <1>2 DEF StepRight, States, HasIp
<1>4. 0 \notin Inums
  BY InodesAssumption
<1>5. Uses(q, i) > 0
  <2>1. I(HasIp(q) /\ q.ip = i) = 1
    BY <1>1 DEF I, HasIp
  <2> QED BY <1>2, <1>3, <2>1 DEF Uses, I
<1>6. ASSUME q.fd = 0,
             itab' = Visit(p, i, 0),
             Becomes(p, [Goto(p, "end") EXCEPT !.fd = i])
      PROVE  IInv'
  <2>1. PICK Q \in States : Q = [Goto(p, "end") EXCEPT !.fd = i]
    BY <1>1, <1>2, <1>3, PutOne DEF States, Steps, PutThen, Goto, Me
  <2>2. /\ Q.pc = "end" /\ Q.op = q.op /\ Q.path = q.path /\ Q.cur = q.cur /\ Q.ip = q.ip
        /\ Q.dp = q.dp /\ Q.puts = <<>> /\ Q.freeing = "no" /\ Q.new = q.new /\ Q.fd = i
    BY <1>1, <1>2, <2>1 DEF States, PutThen, Goto, Me
  <2>3. Len(Q.puts) = 0 /\ \A j \in Inums : PutN(Q.puts, j) = 0
    BY <2>2, PutNone
  <2>4. StepRight(Q)
    BY <1>1, <1>2, <1>3, <1>4, <1>5, <1>6, <2>2, <2>3 DEF StepRight, HasIp, HasDp, PutLock, PcLock
  <2>5. \A j \in Inums : Uses(Q, j) = Uses(q, j) + I(0 = j)
    BY <1>1, <1>2, <1>3, <1>4, <1>5, <1>6, <2>2, <2>3 DEF Uses, HasIp, HasDp, I
  <2>6. \A j \in Inums : Owes(Q, j) <=> Owes(q, j)
    BY <1>1, <1>2, <1>3, <1>4, <1>5, <1>6, <2>2 DEF Owes
  <2>7. \A j \in Inums : Uses(Q, j) > Unread(Q, j) => j = i \/ Uses(q, j) > Unread(q, j)
    <3>1. \A j \in Inums : Uses(q, j) \in Nat
      BY <1>2, UsesType
    <3> QED BY <1>1, <1>2, <1>3, <1>4, <1>5, <2>2, <2>5, <3>1 DEF Unread, I
  <2>8. PcLock(Q) = PcLock(q) /\ Q.pc \notin {"idle", "made", "child"}
    BY <1>1, <2>2 DEF PcLock
  <2>9. ps' = [ps EXCEPT ![p] = Q] /\ 0 \in Inums \cup {0} /\ (0 # 0 => disk.inode[0].nlink # 0)
    BY <1>1, <1>2, <1>3, <1>4, <1>5, <1>6, <2>1 DEF Becomes
  <2>10. Q.new /\ Q.pc \in {"walk", "dir"} => q.new /\ q.pc \in {"walk", "dir"} /\ Q.ip = q.ip
    BY <1>1, <2>2
  <2> QED BY <1>1, <1>2, <1>3, <1>4, <1>5, <1>6, <2>2, <2>4, <2>5, <2>6, <2>7, <2>8, <2>9, <2>10, VisitKeeps
<1>7. ASSUME itab' = Visit(p, i, 0),
             Becomes(p, PutThen(p, <<i>>, "end"))
      PROVE  IInv'
  <2>1. PICK Q \in States : Q = PutThen(p, <<i>>, "end")
    BY <1>1, <1>2, <1>3, PutOne DEF States, Steps, PutThen, Goto, Me
  <2>2. /\ Q.pc = "end" /\ Q.op = q.op /\ Q.path = q.path /\ Q.cur = q.cur /\ Q.ip = q.ip
        /\ Q.dp = q.dp /\ Q.puts = <<i>> /\ Q.freeing = "no" /\ Q.new = q.new /\ Q.fd = q.fd
    BY <1>1, <1>2, <2>1 DEF States, PutThen, Goto, Me
  <2>3. Len(Q.puts) = 1 /\ Q.puts # <<>> /\ \A j \in Inums : PutN(Q.puts, j) = I(i = j)
    BY <1>3, <2>2, PutOne
  <2>4. StepRight(Q)
    BY <1>1, <1>2, <1>3, <1>4, <1>5, <1>7, <2>2, <2>3 DEF StepRight, HasIp, HasDp, PutLock, PcLock
  <2>5. \A j \in Inums : Uses(Q, j) = Uses(q, j) + I(0 = j)
    BY <1>1, <1>2, <1>3, <1>4, <1>5, <1>7, <2>2, <2>3 DEF Uses, HasIp, HasDp, I
  <2>6. \A j \in Inums : Owes(Q, j) <=> Owes(q, j)
    BY <1>1, <1>2, <1>3, <1>4, <1>5, <1>7, <2>2 DEF Owes
  <2>7. \A j \in Inums : Uses(Q, j) > Unread(Q, j) => j = i \/ Uses(q, j) > Unread(q, j)
    <3>1. \A j \in Inums : Uses(q, j) \in Nat
      BY <1>2, UsesType
    <3> QED BY <1>1, <1>2, <1>3, <1>4, <1>5, <2>2, <2>5, <3>1 DEF Unread, I
  <2>8. PcLock(Q) = PcLock(q) /\ Q.pc \notin {"idle", "made", "child"}
    BY <1>1, <2>2 DEF PcLock
  <2>9. ps' = [ps EXCEPT ![p] = Q] /\ 0 \in Inums \cup {0} /\ (0 # 0 => disk.inode[0].nlink # 0)
    BY <1>1, <1>2, <1>3, <1>4, <1>5, <1>7, <2>1 DEF Becomes
  <2>10. Q.new /\ Q.pc \in {"walk", "dir"} => q.new /\ q.pc \in {"walk", "dir"} /\ Q.ip = q.ip
    BY <1>1, <2>2
  <2> QED BY <1>1, <1>2, <1>3, <1>4, <1>5, <1>7, <2>2, <2>4, <2>5, <2>6, <2>7, <2>8, <2>9, <2>10, VisitKeeps
<1>8. Visit(p, i, 0) = iunlock(ilock(itab, disk, i, p), i)
  BY DEF Visit
<1>9. CASE Op(p).do = "open" /\ q.fd = 0
  BY <1>6, <1>8, <1>9 DEF Found, Me
<1>10. CASE ~(Op(p).do = "open" /\ q.fd = 0)
  BY <1>7, <1>8, <1>10 DEF Found, Me
<1> QED BY <1>9, <1>10

\* link() when the new name is there already.
LEMMA LinkSees ==
    ASSUME IInv, NEW p \in Procs, link(p), disk.ents[ps[p].dp][Last1(p)] # 0
    PROVE  IInv'
<1> DEFINE q == ps[p]  i == q.dp
<1>1. q.pc = "dir" /\ q.puts = <<>> /\ CanLock(i) /\ q.new /\ UNCHANGED disk /\ Keep
  BY DEF link, At, Me, Op
<1>2. /\ q \in States /\ StepRight(q) /\ q.freeing = "no"
      /\ \A j \in Inums : PutN(q.puts, j) = 0
  BY <1>1, AtIs
<1>3. i \in Inums /\ q.op \in Calls /\ q.new /\ q.ip # 0 /\ q.op.do = "link"
  BY <1>1, <1>2 DEF StepRight, States, HasDp, HasIp
<1>4. 0 \notin Inums
  BY InodesAssumption
<1>5. Uses(q, i) > 0
  <2>1. I(HasDp(q) /\ q.dp = i) = 1
    BY <1>1 DEF I, HasDp
  <2> QED BY <1>2, <1>3, <2>1 DEF Uses, I
<1>6. ASSUME itab' = Visit(p, i, 0),
             Becomes(p, PutThen(p, <<i>>, "undo"))
      PROVE  IInv'
  <2>1. PICK Q \in States : Q = PutThen(p, <<i>>, "undo")
    BY <1>1, <1>2, <1>3, PutOne DEF States, Steps, PutThen, Goto, Me
  <2>2. /\ Q.pc = "undo" /\ Q.op = q.op /\ Q.path = q.path /\ Q.cur = q.cur /\ Q.ip = q.ip
        /\ Q.dp = q.dp /\ Q.puts = <<i>> /\ Q.freeing = "no" /\ Q.new = q.new /\ Q.fd = q.fd
    BY <1>1, <1>2, <2>1 DEF States, PutThen, Goto, Me
  <2>3. Len(Q.puts) = 1 /\ Q.puts # <<>> /\ \A j \in Inums : PutN(Q.puts, j) = I(i = j)
    BY <1>3, <2>2, PutOne
  <2>4. StepRight(Q)
    BY <1>1, <1>2, <1>3, <1>4, <1>5, <1>6, <2>2, <2>3 DEF StepRight, HasIp, HasDp, PutLock, PcLock
  <2>5. \A j \in Inums : Uses(Q, j) = Uses(q, j) + I(0 = j)
    BY <1>1, <1>2, <1>3, <1>4, <1>5, <1>6, <2>2, <2>3 DEF Uses, HasIp, HasDp, I
  <2>6. \A j \in Inums : Owes(Q, j) <=> Owes(q, j)
    BY <1>1, <1>2, <1>3, <1>4, <1>5, <1>6, <2>2 DEF Owes
  <2>7. \A j \in Inums : Uses(Q, j) > Unread(Q, j) => j = i \/ Uses(q, j) > Unread(q, j)
    <3>1. \A j \in Inums : Uses(q, j) \in Nat
      BY <1>2, UsesType
    <3> QED BY <1>1, <1>2, <1>3, <1>4, <1>5, <2>2, <2>5, <3>1 DEF Unread, I
  <2>8. PcLock(Q) = PcLock(q) /\ Q.pc \notin {"idle", "made", "child"}
    BY <1>1, <2>2 DEF PcLock
  <2>9. ps' = [ps EXCEPT ![p] = Q] /\ 0 \in Inums \cup {0} /\ (0 # 0 => disk.inode[0].nlink # 0)
    BY <1>1, <1>2, <1>3, <1>4, <1>5, <1>6, <2>1 DEF Becomes
  <2>10. Q.new /\ Q.pc \in {"walk", "dir"} => q.new /\ q.pc \in {"walk", "dir"} /\ Q.ip = q.ip
    BY <1>1, <2>2
  <2> QED BY <1>1, <1>2, <1>3, <1>4, <1>5, <1>6, <2>2, <2>4, <2>5, <2>6, <2>7, <2>8, <2>9, <2>10, VisitKeeps
<1>7. Visit(p, i, 0) = iunlock(ilock(itab, disk, i, p), i)
  BY DEF Visit
<1> QED BY <1>6, <1>7 DEF link, Me

\* unlink() of a name that is not there.
LEMMA UnlinkSees ==
    ASSUME IInv, NEW p \in Procs, unlink(p), disk.ents[ps[p].dp][Last1(p)] = 0
    PROVE  IInv'
<1> DEFINE q == ps[p]  i == q.dp
<1>1. q.pc = "dir" /\ q.puts = <<>> /\ CanLock(i) /\ q.op.do = "unlink" /\ UNCHANGED disk /\ Keep
  BY DEF unlink, At, Me, Op
<1>2. /\ q \in States /\ StepRight(q) /\ q.freeing = "no"
      /\ \A j \in Inums : PutN(q.puts, j) = 0
  BY <1>1, AtIs
<1>3. i \in Inums /\ q.op \in Calls /\ ~q.new
  BY <1>1, <1>2 DEF StepRight, States, HasDp, HasIp
<1>4. 0 \notin Inums
  BY InodesAssumption
<1>5. Uses(q, i) > 0
  <2>1. I(HasDp(q) /\ q.dp = i) = 1
    BY <1>1 DEF I, HasDp
  <2> QED BY <1>2, <1>3, <2>1 DEF Uses, I
<1>6. ASSUME itab' = Visit(p, i, 0),
             Becomes(p, PutThen(p, <<i>>, "end"))
      PROVE  IInv'
  <2>1. PICK Q \in States : Q = PutThen(p, <<i>>, "end")
    BY ZenonT(60), <1>1, <1>2, <1>3, PutOne DEF States, Steps, PutThen, Goto, Me
  <2>2. /\ Q.pc = "end" /\ Q.op = q.op /\ Q.path = q.path /\ Q.cur = q.cur /\ Q.ip = q.ip
        /\ Q.dp = q.dp /\ Q.puts = <<i>> /\ Q.freeing = "no" /\ Q.new = q.new /\ Q.fd = q.fd
    BY <1>1, <1>2, <2>1 DEF States, PutThen, Goto, Me
  <2>3. Len(Q.puts) = 1 /\ Q.puts # <<>> /\ \A j \in Inums : PutN(Q.puts, j) = I(i = j)
    BY <1>3, <2>2, PutOne
  <2>4. StepRight(Q)
    BY <1>1, <1>2, <1>3, <1>4, <1>5, <1>6, <2>2, <2>3 DEF StepRight, HasIp, HasDp, PutLock, PcLock
  <2>5. \A j \in Inums : Uses(Q, j) = Uses(q, j) + I(0 = j)
    BY <1>1, <1>2, <1>3, <1>4, <1>5, <1>6, <2>2, <2>3 DEF Uses, HasIp, HasDp, I
  <2>6. \A j \in Inums : Owes(Q, j) <=> Owes(q, j)
    BY <1>1, <1>2, <1>3, <1>4, <1>5, <1>6, <2>2 DEF Owes
  <2>7. \A j \in Inums : Uses(Q, j) > Unread(Q, j) => j = i \/ Uses(q, j) > Unread(q, j)
    <3>1. \A j \in Inums : Uses(q, j) \in Nat
      BY <1>2, UsesType
    <3> QED BY <1>1, <1>2, <1>3, <1>4, <1>5, <2>2, <2>5, <3>1 DEF Unread, I
  <2>8. PcLock(Q) = PcLock(q) /\ Q.pc \notin {"idle", "made", "child"}
    BY <1>1, <2>2 DEF PcLock
  <2>9. ps' = [ps EXCEPT ![p] = Q] /\ 0 \in Inums \cup {0} /\ (0 # 0 => disk.inode[0].nlink # 0)
    BY <1>1, <1>2, <1>3, <1>4, <1>5, <1>6, <2>1 DEF Becomes
  <2>10. Q.new /\ Q.pc \in {"walk", "dir"} => q.new /\ q.pc \in {"walk", "dir"} /\ Q.ip = q.ip
    BY <1>1, <2>2
  <2> QED BY <1>1, <1>2, <1>3, <1>4, <1>5, <1>6, <2>2, <2>4, <2>5, <2>6, <2>7, <2>8, <2>9, <2>10, VisitKeeps
<1>7. Visit(p, i, 0) = iunlock(ilock(itab, disk, i, p), i)
  BY DEF Visit
<1> QED BY <1>6, <1>7 DEF unlink, Me

\* unlink() of a directory that is not empty.
LEMMA UnlinkFails ==
    ASSUME IInv, NEW p \in Procs, unlink_entry(p),
           ilock(itab, disk, ps[p].ip, p)[ps[p].ip].type = "dir", ~isdirempty(ps[p].ip)
    PROVE  IInv'
<1> DEFINE q == ps[p]  i == q.ip
<1>1. q.pc = "child" /\ q.puts = <<>> /\ CanLock(i) /\ UNCHANGED disk /\ Keep
  BY DEF unlink_entry, At, Me
<1>2. /\ q \in States /\ StepRight(q) /\ q.freeing = "no"
      /\ \A j \in Inums : PutN(q.puts, j) = 0
  BY <1>1, AtIs
<1>3. i \in Inums /\ q.dp # 0 /\ q.op \in Calls /\ (q.new => q.op.do = "link")
  BY <1>1, <1>2 DEF StepRight, States, HasIp, HasDp
<1>4. 0 \notin Inums
  BY InodesAssumption
<1>5. Uses(q, i) > 0
  <2>1. I(HasIp(q) /\ q.ip = i) = 1
    BY <1>1 DEF I, HasIp
  <2> QED BY <1>2, <1>3, <2>1 DEF Uses, I
<1>6. ASSUME itab' = Visit(p, i, 0),
             Becomes(p, PutThen(p, <<i>>, "fail"))
      PROVE  IInv'
  <2>1. PICK Q \in States : Q = PutThen(p, <<i>>, "fail")
    BY <1>1, <1>2, <1>3, PutOne DEF States, Steps, PutThen, Goto, Me
  <2>2. /\ Q.pc = "fail" /\ Q.op = q.op /\ Q.path = q.path /\ Q.cur = q.cur /\ Q.ip = q.ip
        /\ Q.dp = q.dp /\ Q.puts = <<i>> /\ Q.freeing = "no" /\ Q.new = q.new /\ Q.fd = q.fd
    BY <1>1, <1>2, <2>1 DEF States, PutThen, Goto, Me
  <2>3. Len(Q.puts) = 1 /\ Q.puts # <<>> /\ \A j \in Inums : PutN(Q.puts, j) = I(i = j)
    BY <1>3, <2>2, PutOne
  <2>4. StepRight(Q)
    BY <1>1, <1>2, <1>3, <1>4, <1>5, <1>6, <2>2, <2>3 DEF StepRight, HasIp, HasDp, PutLock, PcLock
  <2>5. \A j \in Inums : Uses(Q, j) = Uses(q, j) + I(0 = j)
    BY <1>1, <1>2, <1>3, <1>4, <1>5, <1>6, <2>2, <2>3 DEF Uses, HasIp, HasDp, I
  <2>6. \A j \in Inums : Owes(Q, j) <=> Owes(q, j)
    BY <1>1, <1>2, <1>3, <1>4, <1>5, <1>6, <2>2 DEF Owes
  <2>7. \A j \in Inums : Uses(Q, j) > Unread(Q, j) => j = i \/ Uses(q, j) > Unread(q, j)
    <3>1. \A j \in Inums : Uses(q, j) \in Nat
      BY <1>2, UsesType
    <3> QED BY <1>1, <1>2, <1>3, <1>4, <1>5, <2>2, <2>5, <3>1 DEF Unread, I
  <2>8. PcLock(Q) = PcLock(q) /\ Q.pc \notin {"idle", "made", "child"}
    BY <1>1, <2>2 DEF PcLock
  <2>9. ps' = [ps EXCEPT ![p] = Q] /\ 0 \in Inums \cup {0} /\ (0 # 0 => disk.inode[0].nlink # 0)
    BY <1>1, <1>2, <1>3, <1>4, <1>5, <1>6, <2>1 DEF Becomes
  <2>10. Q.new /\ Q.pc \in {"walk", "dir"} => q.new /\ q.pc \in {"walk", "dir"} /\ Q.ip = q.ip
    BY <1>1, <2>2
  <2> QED BY <1>1, <1>2, <1>3, <1>4, <1>5, <1>6, <2>2, <2>4, <2>5, <2>6, <2>7, <2>8, <2>9, <2>10, VisitKeeps
<1>7. Visit(p, i, 0) = iunlock(ilock(itab, disk, i, p), i)
  BY DEF Visit
<1> QED BY <1>6, <1>7 DEF unlink_entry, Me

LEMMA CreatedKeeps ==
    ASSUME IInv, NEW p \in Procs, created(p)
    PROVE  IInv'
<1> DEFINE q == ps[p]  i == q.ip
<1>1. q.pc = "made2" /\ q.puts = <<>> /\ itab' = iunlock(itab, i) /\ UNCHANGED disk /\ Keep
  BY DEF created, At, Me
<1>2. /\ q \in States /\ StepRight(q) /\ q.freeing = "no" /\ p # 0 /\ p \in inop
      /\ \A j \in Inums : PutN(q.puts, j) = 0 /\ Live(q, j) = Uses(q, j) /\ Uses(q, j) \in 0..6
      /\ \A j \in Inums : j \in Locks(q) <=> j = PcLock(q)
      /\ \A j \in Inums : itab[j].lock = p <=> j = PcLock(q)
  BY <1>1, AtIs
<1>3. i \in Inums /\ 0 \notin Inums /\ q.op \in Calls /\ PcLock(q) = i /\ (q.new => q.op.do = "link")
  BY <1>1, <1>2, InodesAssumption DEF StepRight, States, HasIp, HasDp, PcLock
<1>4. /\ TableOK(p, itab')
      /\ \A j \in Inums : /\ itab'[j].ref = itab[j].ref /\ itab'[j].valid = itab[j].valid
                          /\ itab'[j].lock = IF j = i THEN 0 ELSE itab[j].lock
  BY <1>1, <1>3, TableIs, UnlockIs
<1>5. \A j \in Inums : itab[j].ref \in Nat
  BY DEF IInv, InodesTypeOK, Copies
<1>6. ASSUME Becomes(p, PutThen(p, <<i>>, "end"))
     PROVE  IInv'
  <2>1. PICK Q \in States : Q = PutThen(p, <<i>>, "end")
    BY <1>2, <1>3, PutOne DEF States, Steps, PutThen, Goto, Me
  <2>2. /\ Q.pc = "end" /\ Q.op = q.op /\ Q.ip = q.ip /\ Q.dp = q.dp /\ Q.puts = <<i>>
        /\ Q.freeing = "no" /\ Q.new = q.new /\ Q.fd = q.fd
    BY <1>1, <1>2, <2>1 DEF States, PutThen, Goto, Me
  <2>3. Len(Q.puts) <= 2 /\ \A j \in Inums : PutN(Q.puts, j) = I(i = j)
    BY <1>3, <2>2, PutOne
  <2>4. StepRight(Q)
    BY <1>3, <2>2, <2>3 DEF StepRight, HasIp, HasDp, PutLock, PcLock
  <2>5. \A j \in Inums : Uses(Q, j) = Uses(q, j)
    BY <1>1, <1>2, <1>3, <1>6, <2>2, <2>3 DEF Uses, HasIp, HasDp, I
  <2>6. \A j \in Inums : Live(Q, j) = Uses(Q, j) /\ Unread(Q, j) = 0 /\ Unread(q, j) = 0
    <3>1. \A j \in Inums : Live(Q, j) = Uses(Q, j) - I(FALSE) /\ Uses(Q, j) \in 0..6
      BY <2>2, <2>4, UsesType
    <3> QED BY <1>1, <2>2, <3>1 DEF I, Unread
  <2>7. \A j \in Inums : j \notin Locks(Q)
    BY <1>3, <2>2 DEF Locks, PcLock, PutLock
  <2>8. \A j \in Inums : LockStep(p, Q, j)
    BY <1>2, <1>3, <1>4, <2>7 DEF LockStep
  <2>9. \A j \in Inums : Owes(Q, j) <=> Owes(q, j)
    BY <1>1, <2>2 DEF Owes
  <2>10. /\ inop' = inop \cup {p} /\ UNCHANGED <<disk, home, orphans, crashes>>
         /\ ps' = [ps EXCEPT ![p] = Q]
    BY <1>1, <1>2, <1>6, <2>1 DEF Keep, Becomes
  <2>11. \A j \in Inums : /\ itab'[j].ref = itab[j].ref + Uses(Q, j) - Uses(q, j)
                          /\ Uses(Q, j) - Uses(q, j) \in {-1, 0, 1}
    BY <1>2, <1>4, <1>5, <2>5
  <2>12. /\ \A j \in Inums : Live(Q, j) > Live(q, j) => disk.inode[j].nlink # 0
         /\ \A j \in Inums : Live(Q, j) > Unread(Q, j) => itab'[j].valid \/ Live(q, j) > Unread(q, j)
    BY <1>2, <2>5, <2>6
  <2>13. Q.pc \notin {"idle", "made", "child", "walk", "dir"} /\ q.pc # "made" /\ q.freeing = "no" /\ Q.freeing = "no"
    BY <1>1, <1>2, <2>2
  <2> QED BY <1>4, <2>4, <2>8, <2>9, <2>10, <2>11, <2>12, <2>13, QuietKeeps
<1>7. ASSUME q.fd = 0, Becomes(p, [Goto(p, "end") EXCEPT !.fd = i])
     PROVE  IInv'
  <2>1. PICK Q \in States : Q = [Goto(p, "end") EXCEPT !.fd = i]
    BY <1>2, <1>3, PutOne DEF States, Steps, PutThen, Goto, Me
  <2>2. /\ Q.pc = "end" /\ Q.op = q.op /\ Q.ip = q.ip /\ Q.dp = q.dp /\ Q.puts = <<>>
        /\ Q.freeing = "no" /\ Q.new = q.new /\ Q.fd = i
    BY <1>1, <1>2, <2>1 DEF States, PutThen, Goto, Me
  <2>3. Len(Q.puts) <= 2 /\ \A j \in Inums : PutN(Q.puts, j) = 0
    BY <1>3, <2>2, PutNone
  <2>4. StepRight(Q)
    BY <1>3, <2>2, <2>3 DEF StepRight, HasIp, HasDp, PutLock, PcLock
  <2>5. \A j \in Inums : Uses(Q, j) = Uses(q, j)
    BY <1>1, <1>2, <1>3, <1>7, <2>2, <2>3 DEF Uses, HasIp, HasDp, I
  <2>6. \A j \in Inums : Live(Q, j) = Uses(Q, j) /\ Unread(Q, j) = 0 /\ Unread(q, j) = 0
    <3>1. \A j \in Inums : Live(Q, j) = Uses(Q, j) - I(FALSE) /\ Uses(Q, j) \in 0..6
      BY <2>2, <2>4, UsesType
    <3> QED BY <1>1, <2>2, <3>1 DEF I, Unread
  <2>7. \A j \in Inums : j \notin Locks(Q)
    BY <1>3, <2>2 DEF Locks, PcLock, PutLock
  <2>8. \A j \in Inums : LockStep(p, Q, j)
    BY <1>2, <1>3, <1>4, <2>7 DEF LockStep
  <2>9. \A j \in Inums : Owes(Q, j) <=> Owes(q, j)
    BY <1>1, <2>2 DEF Owes
  <2>10. /\ inop' = inop \cup {p} /\ UNCHANGED <<disk, home, orphans, crashes>>
         /\ ps' = [ps EXCEPT ![p] = Q]
    BY <1>1, <1>2, <1>7, <2>1 DEF Keep, Becomes
  <2>11. \A j \in Inums : /\ itab'[j].ref = itab[j].ref + Uses(Q, j) - Uses(q, j)
                          /\ Uses(Q, j) - Uses(q, j) \in {-1, 0, 1}
    BY <1>2, <1>4, <1>5, <2>5
  <2>12. /\ \A j \in Inums : Live(Q, j) > Live(q, j) => disk.inode[j].nlink # 0
         /\ \A j \in Inums : Live(Q, j) > Unread(Q, j) => itab'[j].valid \/ Live(q, j) > Unread(q, j)
    BY <1>2, <2>5, <2>6
  <2>13. Q.pc \notin {"idle", "made", "child", "walk", "dir"} /\ q.pc # "made" /\ q.freeing = "no" /\ Q.freeing = "no"
    BY <1>1, <1>2, <2>2
  <2> QED BY <1>4, <2>4, <2>8, <2>9, <2>10, <2>11, <2>12, <2>13, QuietKeeps
<1> QED BY <1>1, <1>6, <1>7 DEF created, Me

LEMMA UnlockDpKeeps ==
    ASSUME IInv, NEW p \in Procs, unlock_dp(p)
    PROVE  IInv'
<1> DEFINE q == ps[p]  i == q.dp
<1>1. q.pc = "fail" /\ q.puts = <<>> /\ itab' = iunlock(itab, i) /\ UNCHANGED disk /\ Keep
  BY DEF unlock_dp, At, Me
<1>2. /\ q \in States /\ StepRight(q) /\ q.freeing = "no" /\ p # 0 /\ p \in inop
      /\ \A j \in Inums : PutN(q.puts, j) = 0 /\ Live(q, j) = Uses(q, j) /\ Uses(q, j) \in 0..6
      /\ \A j \in Inums : j \in Locks(q) <=> j = PcLock(q)
      /\ \A j \in Inums : itab[j].lock = p <=> j = PcLock(q)
  BY <1>1, AtIs
<1>3. i \in Inums /\ 0 \notin Inums /\ q.op \in Calls /\ PcLock(q) = i /\ (q.new => q.op.do = "link")
  BY <1>1, <1>2, InodesAssumption DEF StepRight, States, HasIp, HasDp, PcLock
<1>4. /\ TableOK(p, itab')
      /\ \A j \in Inums : /\ itab'[j].ref = itab[j].ref /\ itab'[j].valid = itab[j].valid
                          /\ itab'[j].lock = IF j = i THEN 0 ELSE itab[j].lock
  BY <1>1, <1>3, TableIs, UnlockIs
<1>5. \A j \in Inums : itab[j].ref \in Nat
  BY DEF IInv, InodesTypeOK, Copies
<1>6. ASSUME Becomes(p, PutThen(p, <<i>>, "end"))
     PROVE  IInv'
  <2>1. PICK Q \in States : Q = PutThen(p, <<i>>, "end")
    BY <1>2, <1>3, PutOne DEF States, Steps, PutThen, Goto, Me
  <2>2. /\ Q.pc = "end" /\ Q.op = q.op /\ Q.ip = q.ip /\ Q.dp = q.dp /\ Q.puts = <<i>>
        /\ Q.freeing = "no" /\ Q.new = q.new /\ Q.fd = q.fd
    BY <1>1, <1>2, <2>1 DEF States, PutThen, Goto, Me
  <2>3. Len(Q.puts) <= 2 /\ \A j \in Inums : PutN(Q.puts, j) = I(i = j)
    BY <1>3, <2>2, PutOne
  <2>4. StepRight(Q)
    BY <1>3, <2>2, <2>3 DEF StepRight, HasIp, HasDp, PutLock, PcLock
  <2>5. \A j \in Inums : Uses(Q, j) = Uses(q, j)
    BY <1>1, <1>2, <1>3, <1>6, <2>2, <2>3 DEF Uses, HasIp, HasDp, I
  <2>6. \A j \in Inums : Live(Q, j) = Uses(Q, j) /\ Unread(Q, j) = 0 /\ Unread(q, j) = 0
    <3>1. \A j \in Inums : Live(Q, j) = Uses(Q, j) - I(FALSE) /\ Uses(Q, j) \in 0..6
      BY <2>2, <2>4, UsesType
    <3> QED BY <1>1, <2>2, <3>1 DEF I, Unread
  <2>7. \A j \in Inums : j \notin Locks(Q)
    BY <1>3, <2>2 DEF Locks, PcLock, PutLock
  <2>8. \A j \in Inums : LockStep(p, Q, j)
    BY <1>2, <1>3, <1>4, <2>7 DEF LockStep
  <2>9. \A j \in Inums : Owes(Q, j) <=> Owes(q, j)
    BY <1>1, <2>2 DEF Owes
  <2>10. /\ inop' = inop \cup {p} /\ UNCHANGED <<disk, home, orphans, crashes>>
         /\ ps' = [ps EXCEPT ![p] = Q]
    BY <1>1, <1>2, <1>6, <2>1 DEF Keep, Becomes
  <2>11. \A j \in Inums : /\ itab'[j].ref = itab[j].ref + Uses(Q, j) - Uses(q, j)
                          /\ Uses(Q, j) - Uses(q, j) \in {-1, 0, 1}
    BY <1>2, <1>4, <1>5, <2>5
  <2>12. /\ \A j \in Inums : Live(Q, j) > Live(q, j) => disk.inode[j].nlink # 0
         /\ \A j \in Inums : Live(Q, j) > Unread(Q, j) => itab'[j].valid \/ Live(q, j) > Unread(q, j)
    BY <1>2, <2>5, <2>6
  <2>13. Q.pc \notin {"idle", "made", "child", "walk", "dir"} /\ q.pc # "made" /\ q.freeing = "no" /\ Q.freeing = "no"
    BY <1>1, <1>2, <2>2
  <2> QED BY <1>4, <2>4, <2>8, <2>9, <2>10, <2>11, <2>12, <2>13, QuietKeeps
<1> QED BY <1>1, <1>6 DEF unlock_dp, Me

\* unlink() has found the name and keeps dp locked.
LEMMA UnlinkKeeps ==
    ASSUME IInv, NEW p \in Procs, unlink(p)
    PROVE  IInv'
<1> DEFINE q == ps[p]  i == q.dp  ip == disk.ents[i][Last(q.path)]  t == ilock(itab, disk, i, p)
           ex == [Goto(p, "child") EXCEPT !.ip = ip]
<1>1. CASE ip = 0
  BY <1>1, UnlinkSees DEF Last1, Me
<1>2. CASE ip # 0
  <2>1. /\ q.pc = "dir" /\ q.puts = <<>> /\ CanLock(i) /\ q.op.do = "unlink"
        /\ itab' = iget(t, ip) /\ Becomes(p, ex) /\ UNCHANGED disk /\ Keep
    BY <1>2 DEF unlink, At, Me, Op, Last1
  <2>2. /\ q \in States /\ StepRight(q) /\ q.freeing = "no" /\ p # 0 /\ p \in inop
        /\ \A j \in Inums : PutN(q.puts, j) = 0 /\ Live(q, j) = Uses(q, j) /\ Uses(q, j) \in 0..6
        /\ \A j \in Inums : j \in Locks(q) <=> j = PcLock(q)
        /\ \A j \in Inums : itab[j].lock = p <=> j = PcLock(q)
    BY <2>1, AtIs
  <2>3. i \in Inums /\ 0 \notin Inums /\ q.op \in Calls /\ PcLock(q) = 0 /\ ~q.new /\ q.path \in Seq(Names) /\ q.path # <<>>
    BY <2>1, <2>2, InodesAssumption DEF StepRight, States, HasDp, PcLock
  <2>4. ip \in Inums /\ disk.inode[ip].nlink # 0 /\ itab[i].lock = 0
    BY <1>2, <2>1, <2>3, LastIs, NamesAre DEF CanLock
  <2>5. Uses(q, i) > 0
    <3>1. I(HasDp(q) /\ q.dp = i) = 1
      BY <2>1 DEF I, HasDp
    <3> QED BY <2>2, <2>3, <3>1 DEF Uses, I
  <2>6. /\ TableOK(p, t)
        /\ \A j \in Inums : t[j].ref = itab[j].ref /\ t[j].lock = IF j = i THEN p ELSE itab[j].lock
        /\ t[i].valid
    BY <2>2, <2>3, <2>5, TableIs, LockIs
  <2>7. \A j \in Inums : itab[j].ref \in Nat
    BY DEF IInv, InodesTypeOK, Copies
  <2>8. itab[i].ref > 0
    <3>1. Uses(q, i) <= itab[i].ref
      BY <2>3, Counted
    <3> QED BY <2>2, <2>3, <2>5, <2>7, <3>1
  <2> HIDE DEF t, ip
  <2>9. /\ TableOK(p, itab')
        /\ \A j \in Inums : itab'[j].ref = itab[j].ref + I(ip = j) /\ itab'[j].lock = IF j = i THEN p ELSE itab[j].lock
        /\ itab'[i].valid
    <3>1. /\ TableOK(p, iget(t, ip))
          /\ \A j \in Inums : /\ iget(t, ip)[j].ref = t[j].ref + I(ip = j) /\ iget(t, ip)[j].lock = t[j].lock
                              /\ t[j].ref > 0 /\ t[j].valid => iget(t, ip)[j].valid
      BY <2>4, <2>6, GetIs
    <3> QED BY <2>1, <2>3, <2>6, <2>8, <3>1
  <2>10. PICK Q \in States : Q = ex
    BY ZenonT(60), <2>2, <2>4 DEF States, Steps, Goto, Me
  <2>11. /\ Q.pc = "child" /\ Q.op = q.op /\ Q.ip = ip /\ Q.dp = q.dp /\ Q.puts = <<>> /\ Q.path = q.path
         /\ Q.freeing = "no" /\ Q.new = q.new /\ Q.fd = q.fd
    BY <2>1, <2>2, <2>10 DEF States, Goto, Me
  <2>12. Len(Q.puts) <= 2 /\ \A j \in Inums : PutN(Q.puts, j) = 0
    BY <2>11, PutNone
  <2>13. StepRight(Q)
    BY <2>3, <2>4, <2>11, <2>12 DEF StepRight, HasIp, HasDp, PutLock, PcLock
  <2>14. \A j \in Inums : Uses(Q, j) = Uses(q, j) + I(ip = j)
    BY <2>1, <2>2, <2>3, <2>11, <2>12 DEF Uses, HasIp, HasDp, I
  <2>15. \A j \in Inums : Live(Q, j) = Uses(Q, j) /\ Unread(Q, j) = I(ip = j) /\ Unread(q, j) = 0
    <3>1. \A j \in Inums : Live(Q, j) = Uses(Q, j) - I(FALSE) /\ Uses(Q, j) \in 0..6
      BY <2>11, <2>13, UsesType
    <3> QED BY <2>1, <2>11, <3>1 DEF I, Unread
  <2>16. \A j \in Inums : j \in Locks(Q) <=> j = i
    BY <2>3, <2>11 DEF Locks, PcLock, PutLock
  <2>17. \A j \in Inums : LockStep(p, Q, j)
    BY <2>2, <2>3, <2>4, <2>9, <2>16 DEF LockStep
  <2>18. \A j \in Inums : Owes(Q, j) <=> Owes(q, j)
    BY <2>1, <2>3, <2>11 DEF Owes
  <2>19. /\ inop' = inop \cup {p} /\ UNCHANGED <<disk, home, orphans, crashes>>
         /\ ps' = [ps EXCEPT ![p] = Q]
    BY <2>1, <2>2, <2>10 DEF Keep, Becomes
  <2>20. \A j \in Inums : /\ itab'[j].ref = itab[j].ref + Uses(Q, j) - Uses(q, j)
                          /\ Uses(Q, j) - Uses(q, j) \in {-1, 0, 1}
    BY <2>2, <2>7, <2>9, <2>14 DEF I
  <2>21. /\ \A j \in Inums : Live(Q, j) > Live(q, j) => disk.inode[j].nlink # 0
         /\ \A j \in Inums : Live(Q, j) > Unread(Q, j) => itab'[j].valid \/ Live(q, j) > Unread(q, j)
    BY <2>2, <2>4, <2>14, <2>15 DEF I
  <2>22. /\ Q.pc # "idle" /\ Q.pc # "made" /\ q.pc # "made" /\ q.freeing = "no" /\ Q.freeing = "no"
         /\ disk.ents[Q.dp][Last(Q.path)] = Q.ip /\ ~Q.new
    BY <2>1, <2>2, <2>3, <2>11 DEF ip
  <2> QED BY <2>9, <2>13, <2>17, <2>18, <2>19, <2>20, <2>21, <2>22, QuietKeeps
<1> QED BY <1>1, <1>2

LEMMA BeginKeeps ==
    ASSUME IInv, NEW p \in Procs, begin_op(p)
    PROVE  IInv'
<1> DEFINE q == ps[p]  c == Head(q.jobs)
           q2 == [Goto(p, "walk") EXCEPT !.op = Head(q.jobs), !.jobs = Tail(q.jobs)]
<1>1. q.pc = "idle" /\ q.puts = <<>> /\ q.jobs # <<>> /\ inop' = inop \cup {p}
      /\ UNCHANGED <<disk, home, orphans, crashes>>
  BY DEF begin_op, At, Me
<1>2. /\ q \in States /\ StepRight(q) /\ q.freeing = "no" /\ p # 0
      /\ \A j \in Inums : PutN(q.puts, j) = 0 /\ Live(q, j) = Uses(q, j) /\ Uses(q, j) \in 0..6
      /\ \A j \in Inums : j \in Locks(q) <=> j = PcLock(q)
  BY <1>1, AtIs
<1>3. /\ c \in Calls /\ Tail(q.jobs) \in Seq(Calls) /\ ~q.new /\ 0 \notin Inums /\ ROOTINO \in Inums
      /\ q.fd \in Inums \cup {0}
  BY <1>1, <1>2, HeadTailProperties, InodesAssumption DEF StepRight, States, ROOTINO
<1>4. /\ c.do \in {"create", "mkdir", "unlink", "open", "link", "close", "write"}
      /\ c.do \notin {"close", "write"} => c.path \in Seq(Names) /\ c.path # <<>>
  BY <1>3, CallIs
<1>5. \A j \in Inums : itab[j].ref \in Nat
  BY DEF IInv, InodesTypeOK, Copies
<1>6. /\ q2 \in States /\ q2.op = c /\ q2.pc = "walk" /\ q2.jobs = Tail(q.jobs) /\ q2.path = q.path
      /\ q2.cur = q.cur /\ q2.ip = q.ip /\ q2.dp = q.dp /\ q2.puts = <<>> /\ q2.freeing = "no"
      /\ q2.new = q.new /\ q2.fd = q.fd
  BY <1>1, <1>2, <1>3 DEF States, Steps, Goto, Me
<1>7. /\ TableOK(p, itab) /\ TableOK(p, iget(itab, ROOTINO))
      /\ \A j \in Inums : /\ iget(itab, ROOTINO)[j].ref = itab[j].ref + I(ROOTINO = j)
                          /\ iget(itab, ROOTINO)[j].lock = itab[j].lock
                          /\ itab[j].ref > 0 /\ itab[j].valid => iget(itab, ROOTINO)[j].valid
  BY <1>3, TableIs, GetIs
<1>8. disk.inode[ROOTINO].nlink # 0
  BY <1>3, Linkeds
<1>9. \A j \in Inums : Uses(q, j) = I(q.fd = j) /\ Unread(q, j) = 0 /\ j \notin Locks(q)
  <2>1. PcLock(q) = 0
    BY <1>1 DEF PcLock
  <2>2. \A j \in Inums : Uses(q, j) = I(q.fd = j) /\ Unread(q, j) = 0
    BY <1>1, <1>2 DEF Uses, HasIp, HasDp, I, Unread
  <2> QED BY <1>2, <1>3, <2>1, <2>2
<1>10. begin_op(p) =>
          \/ c.do = "close" /\ q.fd = 0 /\ itab' = itab /\ Becomes(p, [q2 EXCEPT !.pc = "end", !.fd = 0, !.puts = <<>>])
          \/ c.do = "close" /\ q.fd # 0 /\ itab' = itab /\ Becomes(p, [q2 EXCEPT !.pc = "end", !.fd = 0, !.puts = <<q.fd>>])
          \/ c.do = "write" /\ q.fd = 0 /\ itab' = itab /\ Becomes(p, [q2 EXCEPT !.pc = "end"])
          \/ c.do = "write" /\ q.fd # 0 /\ itab' = itab /\ Becomes(p, [q2 EXCEPT !.pc = "write"])
          \/ c.do \notin {"close", "write"} /\ itab' = iget(itab, ROOTINO)
             /\ Becomes(p, [q2 EXCEPT !.cur = ROOTINO, !.path = c.path])
  <2> DEFINE b == [Goto(p, "walk") EXCEPT !.op = Head(Me(p).jobs), !.jobs = Tail(@)]
  <2>1. b = q2
    BY <1>2 DEF Goto, Me, States
  <2>2. begin_op(p) =>
           CASE b.op.do = "close" ->
                  itab' = itab /\ Becomes(p, [b EXCEPT !.pc = "end", !.fd = 0,
                                                     !.puts = IF b.fd = 0 THEN <<>> ELSE <<b.fd>>])
             [] b.op.do = "write" ->
                  itab' = itab /\ Becomes(p, [b EXCEPT !.pc = IF b.fd = 0 THEN "end" ELSE "write"])
             [] OTHER ->
                  itab' = iget(itab, ROOTINO) /\ Becomes(p, [b EXCEPT !.cur = ROOTINO, !.path = b.op.path])
    BY DEF begin_op
  <2> HIDE DEF q2, b
  <2> QED BY <1>6, <2>1, <2>2
<1>11. ASSUME c.do = "close", q.fd = 0, itab' = itab,
              Becomes(p, [q2 EXCEPT !.pc = "end", !.fd = 0, !.puts = <<>>])
       PROVE  IInv'
  <2>1. PICK Q \in States : Q = [q2 EXCEPT !.pc = "end", !.fd = 0, !.puts = <<>>]
    <3> HIDE DEF q2
    <3> QED BY <1>3, <1>4, <1>6, <1>11, PutOne, PutNone DEF States, Steps
  <2>2. /\ Q.pc = "end" /\ Q.op = c /\ Q.ip = q.ip /\ Q.dp = q.dp /\ Q.puts = <<>>
        /\ Q.freeing = "no" /\ Q.new = q.new /\ Q.fd = 0 /\ Q.cur = q.cur /\ Q.path = q.path
    <3> HIDE DEF q2
    <3> QED BY <1>6, <2>1 DEF States
  <2> HIDE DEF c
  <2>3. Len(Q.puts) <= 2 /\ \A j \in Inums : PutN(Q.puts, j) = 0
    BY <1>3, <1>11, <2>2, PutOne, PutNone
  <2>4. StepRight(Q)
    BY <1>3, <1>4, <1>11, <2>2, <2>3 DEF StepRight, HasIp, HasDp, PutLock, PcLock, ROOTINO
  <2>5. \A j \in Inums : Uses(Q, j) = Uses(q, j) + 0
    BY <1>3, <1>9, <1>11, <2>2, <2>3 DEF Uses, HasIp, HasDp, I
  <2>6. \A j \in Inums : Live(Q, j) = Uses(Q, j) /\ Unread(Q, j) = 0
    <3>1. \A j \in Inums : Live(Q, j) = Uses(Q, j) - I(FALSE) /\ Uses(Q, j) \in 0..6
      BY <2>2, <2>4, UsesType
    <3> QED BY <2>2, <3>1 DEF I, Unread
  <2>7. \A j \in Inums : j \notin Locks(Q)
    BY <1>3, <2>2 DEF Locks, PcLock, PutLock
  <2>8. \A j \in Inums : LockStep(p, Q, j)
    BY <1>7, <1>9, <1>11, <2>7 DEF LockStep
  <2>9. \A j \in Inums : Owes(Q, j) <=> Owes(q, j)
    BY <1>1, <1>3, <2>2 DEF Owes
  <2>10. /\ inop' = inop \cup {p} /\ UNCHANGED <<disk, home, orphans, crashes>>
         /\ ps' = [ps EXCEPT ![p] = Q] /\ TableOK(p, itab')
    BY <1>1, <1>7, <1>11, <2>1 DEF Becomes
  <2>11. \A j \in Inums : /\ itab'[j].ref = itab[j].ref + Uses(Q, j) - Uses(q, j)
                          /\ Uses(Q, j) - Uses(q, j) \in {-1, 0, 1}
    BY <1>2, <1>5, <1>7, <1>11, <2>5 DEF I
  <2>12. /\ \A j \in Inums : Live(Q, j) > Live(q, j) => disk.inode[j].nlink # 0
         /\ \A j \in Inums : Live(Q, j) > Unread(Q, j) => itab'[j].valid \/ Live(q, j) > Unread(q, j)
    BY <1>2, <1>8, <1>9, <2>5, <2>6 DEF I
  <2>13. Q.pc \notin {"idle", "made", "child"} /\ ~Q.new /\ q.pc # "made" /\ q.freeing = "no" /\ Q.freeing = "no"
    BY <1>1, <1>2, <1>3, <2>2
  <2> QED BY <2>4, <2>8, <2>9, <2>10, <2>11, <2>12, <2>13, QuietKeeps
<1>12. ASSUME c.do = "close", q.fd # 0, itab' = itab,
              Becomes(p, [q2 EXCEPT !.pc = "end", !.fd = 0, !.puts = <<q.fd>>])
       PROVE  IInv'
  <2>1. PICK Q \in States : Q = [q2 EXCEPT !.pc = "end", !.fd = 0, !.puts = <<q.fd>>]
    <3> HIDE DEF q2
    <3> QED BY <1>3, <1>4, <1>6, <1>12, PutOne, PutNone DEF States, Steps
  <2>2. /\ Q.pc = "end" /\ Q.op = c /\ Q.ip = q.ip /\ Q.dp = q.dp /\ Q.puts = <<q.fd>>
        /\ Q.freeing = "no" /\ Q.new = q.new /\ Q.fd = 0 /\ Q.cur = q.cur /\ Q.path = q.path
    <3> HIDE DEF q2
    <3> QED BY <1>6, <2>1 DEF States
  <2> HIDE DEF c
  <2>3. Len(Q.puts) <= 2 /\ \A j \in Inums : PutN(Q.puts, j) = I(q.fd = j)
    BY <1>3, <1>12, <2>2, PutOne, PutNone
  <2>4. StepRight(Q)
    BY <1>3, <1>4, <1>12, <2>2, <2>3 DEF StepRight, HasIp, HasDp, PutLock, PcLock, ROOTINO
  <2>5. \A j \in Inums : Uses(Q, j) = Uses(q, j) + 0
    BY <1>3, <1>9, <1>12, <2>2, <2>3 DEF Uses, HasIp, HasDp, I
  <2>6. \A j \in Inums : Live(Q, j) = Uses(Q, j) /\ Unread(Q, j) = 0
    <3>1. \A j \in Inums : Live(Q, j) = Uses(Q, j) - I(FALSE) /\ Uses(Q, j) \in 0..6
      BY <2>2, <2>4, UsesType
    <3> QED BY <2>2, <3>1 DEF I, Unread
  <2>7. \A j \in Inums : j \notin Locks(Q)
    BY <1>3, <2>2 DEF Locks, PcLock, PutLock
  <2>8. \A j \in Inums : LockStep(p, Q, j)
    BY <1>7, <1>9, <1>12, <2>7 DEF LockStep
  <2>9. \A j \in Inums : Owes(Q, j) <=> Owes(q, j)
    BY <1>1, <1>3, <2>2 DEF Owes
  <2>10. /\ inop' = inop \cup {p} /\ UNCHANGED <<disk, home, orphans, crashes>>
         /\ ps' = [ps EXCEPT ![p] = Q] /\ TableOK(p, itab')
    BY <1>1, <1>7, <1>12, <2>1 DEF Becomes
  <2>11. \A j \in Inums : /\ itab'[j].ref = itab[j].ref + Uses(Q, j) - Uses(q, j)
                          /\ Uses(Q, j) - Uses(q, j) \in {-1, 0, 1}
    BY <1>2, <1>5, <1>7, <1>12, <2>5 DEF I
  <2>12. /\ \A j \in Inums : Live(Q, j) > Live(q, j) => disk.inode[j].nlink # 0
         /\ \A j \in Inums : Live(Q, j) > Unread(Q, j) => itab'[j].valid \/ Live(q, j) > Unread(q, j)
    BY <1>2, <1>8, <1>9, <2>5, <2>6 DEF I
  <2>13. Q.pc \notin {"idle", "made", "child"} /\ ~Q.new /\ q.pc # "made" /\ q.freeing = "no" /\ Q.freeing = "no"
    BY <1>1, <1>2, <1>3, <2>2
  <2> QED BY <2>4, <2>8, <2>9, <2>10, <2>11, <2>12, <2>13, QuietKeeps
<1>13. ASSUME q.fd = 0, itab' = itab,
              Becomes(p, [q2 EXCEPT !.pc = "end"])
       PROVE  IInv'
  <2>1. PICK Q \in States : Q = [q2 EXCEPT !.pc = "end"]
    <3> HIDE DEF q2
    <3> QED BY <1>3, <1>4, <1>6, <1>13, PutOne, PutNone DEF States, Steps
  <2>2. /\ Q.pc = "end" /\ Q.op = c /\ Q.ip = q.ip /\ Q.dp = q.dp /\ Q.puts = <<>>
        /\ Q.freeing = "no" /\ Q.new = q.new /\ Q.fd = q.fd /\ Q.cur = q.cur /\ Q.path = q.path
    <3> HIDE DEF q2
    <3> QED BY <1>6, <2>1 DEF States
  <2> HIDE DEF c
  <2>3. Len(Q.puts) <= 2 /\ \A j \in Inums : PutN(Q.puts, j) = 0
    BY <1>3, <1>13, <2>2, PutOne, PutNone
  <2>4. StepRight(Q)
    BY <1>3, <1>4, <1>13, <2>2, <2>3 DEF StepRight, HasIp, HasDp, PutLock, PcLock, ROOTINO
  <2>5. \A j \in Inums : Uses(Q, j) = Uses(q, j) + 0
    BY <1>3, <1>9, <1>13, <2>2, <2>3 DEF Uses, HasIp, HasDp, I
  <2>6. \A j \in Inums : Live(Q, j) = Uses(Q, j) /\ Unread(Q, j) = 0
    <3>1. \A j \in Inums : Live(Q, j) = Uses(Q, j) - I(FALSE) /\ Uses(Q, j) \in 0..6
      BY <2>2, <2>4, UsesType
    <3> QED BY <2>2, <3>1 DEF I, Unread
  <2>7. \A j \in Inums : j \notin Locks(Q)
    BY <1>3, <2>2 DEF Locks, PcLock, PutLock
  <2>8. \A j \in Inums : LockStep(p, Q, j)
    BY <1>7, <1>9, <1>13, <2>7 DEF LockStep
  <2>9. \A j \in Inums : Owes(Q, j) <=> Owes(q, j)
    BY <1>1, <1>3, <2>2 DEF Owes
  <2>10. /\ inop' = inop \cup {p} /\ UNCHANGED <<disk, home, orphans, crashes>>
         /\ ps' = [ps EXCEPT ![p] = Q] /\ TableOK(p, itab')
    BY <1>1, <1>7, <1>13, <2>1 DEF Becomes
  <2>11. \A j \in Inums : /\ itab'[j].ref = itab[j].ref + Uses(Q, j) - Uses(q, j)
                          /\ Uses(Q, j) - Uses(q, j) \in {-1, 0, 1}
    BY <1>2, <1>5, <1>7, <1>13, <2>5 DEF I
  <2>12. /\ \A j \in Inums : Live(Q, j) > Live(q, j) => disk.inode[j].nlink # 0
         /\ \A j \in Inums : Live(Q, j) > Unread(Q, j) => itab'[j].valid \/ Live(q, j) > Unread(q, j)
    BY <1>2, <1>8, <1>9, <2>5, <2>6 DEF I
  <2>13. Q.pc \notin {"idle", "made", "child"} /\ ~Q.new /\ q.pc # "made" /\ q.freeing = "no" /\ Q.freeing = "no"
    BY <1>1, <1>2, <1>3, <2>2
  <2> QED BY <2>4, <2>8, <2>9, <2>10, <2>11, <2>12, <2>13, QuietKeeps
<1>14. ASSUME q.fd # 0, itab' = itab,
              Becomes(p, [q2 EXCEPT !.pc = "write"])
       PROVE  IInv'
  <2>1. PICK Q \in States : Q = [q2 EXCEPT !.pc = "write"]
    <3> HIDE DEF q2
    <3> QED BY <1>3, <1>4, <1>6, <1>14, PutOne, PutNone DEF States, Steps
  <2>2. /\ Q.pc = "write" /\ Q.op = c /\ Q.ip = q.ip /\ Q.dp = q.dp /\ Q.puts = <<>>
        /\ Q.freeing = "no" /\ Q.new = q.new /\ Q.fd = q.fd /\ Q.cur = q.cur /\ Q.path = q.path
    <3> HIDE DEF q2
    <3> QED BY <1>6, <2>1 DEF States
  <2> HIDE DEF c
  <2>3. Len(Q.puts) <= 2 /\ \A j \in Inums : PutN(Q.puts, j) = 0
    BY <1>3, <1>14, <2>2, PutOne, PutNone
  <2>4. StepRight(Q)
    BY <1>3, <1>4, <1>14, <2>2, <2>3 DEF StepRight, HasIp, HasDp, PutLock, PcLock, ROOTINO
  <2>5. \A j \in Inums : Uses(Q, j) = Uses(q, j) + 0
    BY <1>3, <1>9, <1>14, <2>2, <2>3 DEF Uses, HasIp, HasDp, I
  <2>6. \A j \in Inums : Live(Q, j) = Uses(Q, j) /\ Unread(Q, j) = 0
    <3>1. \A j \in Inums : Live(Q, j) = Uses(Q, j) - I(FALSE) /\ Uses(Q, j) \in 0..6
      BY <2>2, <2>4, UsesType
    <3> QED BY <2>2, <3>1 DEF I, Unread
  <2>7. \A j \in Inums : j \notin Locks(Q)
    BY <1>3, <2>2 DEF Locks, PcLock, PutLock
  <2>8. \A j \in Inums : LockStep(p, Q, j)
    BY <1>7, <1>9, <1>14, <2>7 DEF LockStep
  <2>9. \A j \in Inums : Owes(Q, j) <=> Owes(q, j)
    BY <1>1, <1>3, <2>2 DEF Owes
  <2>10. /\ inop' = inop \cup {p} /\ UNCHANGED <<disk, home, orphans, crashes>>
         /\ ps' = [ps EXCEPT ![p] = Q] /\ TableOK(p, itab')
    BY <1>1, <1>7, <1>14, <2>1 DEF Becomes
  <2>11. \A j \in Inums : /\ itab'[j].ref = itab[j].ref + Uses(Q, j) - Uses(q, j)
                          /\ Uses(Q, j) - Uses(q, j) \in {-1, 0, 1}
    BY <1>2, <1>5, <1>7, <1>14, <2>5 DEF I
  <2>12. /\ \A j \in Inums : Live(Q, j) > Live(q, j) => disk.inode[j].nlink # 0
         /\ \A j \in Inums : Live(Q, j) > Unread(Q, j) => itab'[j].valid \/ Live(q, j) > Unread(q, j)
    BY <1>2, <1>8, <1>9, <2>5, <2>6 DEF I
  <2>13. Q.pc \notin {"idle", "made", "child"} /\ ~Q.new /\ q.pc # "made" /\ q.freeing = "no" /\ Q.freeing = "no"
    BY <1>1, <1>2, <1>3, <2>2
  <2> QED BY <2>4, <2>8, <2>9, <2>10, <2>11, <2>12, <2>13, QuietKeeps
<1>15. ASSUME c.do \notin {"close", "write"}, itab' = iget(itab, ROOTINO),
              Becomes(p, [q2 EXCEPT !.cur = ROOTINO, !.path = c.path])
       PROVE  IInv'
  <2>1. PICK Q \in States : Q = [q2 EXCEPT !.cur = ROOTINO, !.path = c.path]
    <3> HIDE DEF q2
    <3> QED BY <1>3, <1>4, <1>6, <1>15, PutOne, PutNone DEF States, Steps
  <2>2. /\ Q.pc = "walk" /\ Q.op = c /\ Q.ip = q.ip /\ Q.dp = q.dp /\ Q.puts = <<>>
        /\ Q.freeing = "no" /\ Q.new = q.new /\ Q.fd = q.fd /\ Q.cur = ROOTINO /\ Q.path = c.path
    <3> HIDE DEF q2
    <3> QED BY <1>6, <2>1 DEF States
  <2> HIDE DEF c
  <2>3. Len(Q.puts) <= 2 /\ \A j \in Inums : PutN(Q.puts, j) = 0
    BY <1>3, <1>15, <2>2, PutOne, PutNone
  <2>4. StepRight(Q)
    BY <1>3, <1>4, <1>15, <2>2, <2>3 DEF StepRight, HasIp, HasDp, PutLock, PcLock, ROOTINO
  <2>5. \A j \in Inums : Uses(Q, j) = Uses(q, j) + I(ROOTINO = j)
    BY <1>3, <1>9, <1>15, <2>2, <2>3 DEF Uses, HasIp, HasDp, I
  <2>6. \A j \in Inums : Live(Q, j) = Uses(Q, j) /\ Unread(Q, j) = I(ROOTINO = j)
    <3>1. \A j \in Inums : Live(Q, j) = Uses(Q, j) - I(FALSE) /\ Uses(Q, j) \in 0..6
      BY <2>2, <2>4, UsesType
    <3> QED BY <2>2, <3>1 DEF I, Unread
  <2>7. \A j \in Inums : j \notin Locks(Q)
    BY <1>3, <2>2 DEF Locks, PcLock, PutLock
  <2>8. \A j \in Inums : LockStep(p, Q, j)
    BY <1>7, <1>9, <1>15, <2>7 DEF LockStep
  <2>9. \A j \in Inums : Owes(Q, j) <=> Owes(q, j)
    BY <1>1, <1>3, <2>2 DEF Owes
  <2>10. /\ inop' = inop \cup {p} /\ UNCHANGED <<disk, home, orphans, crashes>>
         /\ ps' = [ps EXCEPT ![p] = Q] /\ TableOK(p, itab')
    BY <1>1, <1>7, <1>15, <2>1 DEF Becomes
  <2>11. \A j \in Inums : /\ itab'[j].ref = itab[j].ref + Uses(Q, j) - Uses(q, j)
                          /\ Uses(Q, j) - Uses(q, j) \in {-1, 0, 1}
    BY <1>2, <1>5, <1>7, <1>15, <2>5 DEF I
  <2>12. /\ \A j \in Inums : Live(Q, j) > Live(q, j) => disk.inode[j].nlink # 0
         /\ \A j \in Inums : Live(Q, j) > Unread(Q, j) => itab'[j].valid \/ Live(q, j) > Unread(q, j)
    BY <1>2, <1>8, <1>9, <2>5, <2>6 DEF I
  <2>13. Q.pc \notin {"idle", "made", "child"} /\ ~Q.new /\ q.pc # "made" /\ q.freeing = "no" /\ Q.freeing = "no"
    BY <1>1, <1>2, <1>3, <2>2
  <2> QED BY <2>4, <2>8, <2>9, <2>10, <2>11, <2>12, <2>13, QuietKeeps
<1> HIDE DEF q2, c
<1> QED BY <1>10, <1>11, <1>12, <1>13, <1>14, <1>15

-----------------------------------------------------------------------------
(* References are dropped, and transactions end.                            *)

\* The copy of an inode that nobody frees is what the disk has.
LEMMA FreshIs ==
    ASSUME IInv, NEW p \in Procs, NEW i \in Inums, Live(ps[p], i) > Unread(ps[p], i), ~Unlocking(i)
    PROVE  itab[i].valid /\ itab[i].ref > 0 /\ Same(itab[i], disk.inode[i])
<1>1. itab[i].valid
  BY DEF IInv, ReadRight
<1>2. /\ Uses(ps[p], i) \in 0..6 /\ Unread(ps[p], i) \in Nat /\ Live(ps[p], i) \in Nat
      /\ Live(ps[p], i) <= Uses(ps[p], i)
  BY UsesType DEF IInv, InodesTypeOK, StepsRight
<1>3. itab[i].ref \in Nat /\ Uses(ps[p], i) <= itab[i].ref
  BY Counted
<1>4. itab[i].ref > 0
  BY <1>2, <1>3
<1> QED BY <1>1, <1>4 DEF IInv, CopiesRight

\* Who is putting an inode has a reference to it.
LEMMA PutIs ==
    ASSUME IInv, NEW p \in Procs, ps[p].puts # <<>>
    PROVE  LET q == ps[p]  i == Head(q.puts)
           IN  /\ q \in States /\ StepRight(q) /\ p # 0 /\ p \in inop /\ q.pc # "idle"
               /\ i \in Inums /\ Tail(q.puts) \in Seq(Inums) /\ Len(Tail(q.puts)) <= 1 /\ i # 0
               /\ \A j \in Inums : /\ PutN(q.puts, j) = I(i = j) + PutN(Tail(q.puts), j)
                                   /\ PutN(Tail(q.puts), j) \in Nat
                                   /\ Uses(q, j) \in 0..6 /\ Live(q, j) \in Nat /\ Unread(q, j) \in Nat
                                   /\ Live(q, j) = Uses(q, j) - I(q.freeing \in {"unlock", "drop"} /\ i = j)
                                   /\ Uses(q, j) <= itab[j].ref /\ itab[j].ref \in Nat
               /\ Uses(q, i) > Unread(q, i)
<1> DEFINE q == ps[p]  i == Head(q.puts)
<1>1. q \in States /\ StepRight(q)
  BY DEF IInv, InodesTypeOK, StepsRight
<1>2. q.puts \in Seq(Inums) /\ Len(q.puts) <= 2 /\ q.pc # "idle" /\ p \in inop
  BY <1>1 DEF States, StepRight, IInv, StepsRight
<1>3. i \in Inums /\ Tail(q.puts) \in Seq(Inums) /\ Len(Tail(q.puts)) <= 1
  <2>1. 1 \in Inums
    BY InodesAssumption
  <2> QED BY <1>2, <2>1, PutsTail
<1>4. 0 \notin Inums /\ p # 0
  BY InodesAssumption
<1>5. ASSUME NEW j \in Inums
      PROVE  /\ PutN(q.puts, j) = I(i = j) + PutN(Tail(q.puts), j)
             /\ PutN(Tail(q.puts), j) \in Nat
             /\ Uses(q, j) \in 0..6 /\ Live(q, j) \in Nat /\ Unread(q, j) \in Nat
             /\ Live(q, j) = Uses(q, j) - I(q.freeing \in {"unlock", "drop"} /\ i = j)
             /\ Uses(q, j) <= itab[j].ref /\ itab[j].ref \in Nat
  <2>1. PutN(q.puts, j) = I(i = j) + PutN(Tail(q.puts), j)
    BY <1>2, PutsTail
  <2>2. PutN(Tail(q.puts), j) \in Nat
    BY DEF PutN, I
  <2>3. /\ Uses(q, j) \in 0..6 /\ Live(q, j) \in Nat /\ Unread(q, j) \in Nat
        /\ Live(q, j) = Uses(q, j) - I(q.freeing \in {"unlock", "drop"} /\ i = j)
    BY <1>1, UsesType
  <2>4. Uses(q, j) <= itab[j].ref /\ itab[j].ref \in Nat
    BY Counted
  <2> QED BY <2>1, <2>2, <2>3, <2>4
<1>6. Uses(q, i) > Unread(q, i)
  <2> DEFINE n == PutN(Tail(q.puts), i)
  <2>1. PutN(q.puts, i) = 1 + n /\ n \in Nat
    BY <1>3, <1>5 DEF I
  <2> HIDE DEF n, i
  <2> QED BY <2>1 DEF Uses, Unread, HasIp, I
<1> QED BY <1>1, <1>2, <1>3, <1>4, <1>5, <1>6

\* A step that leaves the trees and what is owed of their links alone.
LEMMA TreesStay ==
    ASSUME TreesRight, disk' = disk, home' = home, Owed' = Owed
    PROVE  TreesRight'
BY DEF TreesRight, LinksRight, BlocksRight, LinkCount, Named, Kids, Nothing

LEMMA DropKeeps ==
    ASSUME IInv, NEW p \in Procs, ps[p].puts # <<>>, ps[p].freeing \in {"no", "drop"},
           UNCHANGED disk, Keep,
           itab' = [itab EXCEPT ![Head(ps[p].puts)].ref = @ - 1],
           Becomes(p, [ps[p] EXCEPT !.freeing = "no", !.puts = Tail(ps[p].puts)]),
           LET i == Head(ps[p].puts)
           IN  itab[i].ref = 1 /\ disk.inode[i].type # "none" /\ disk.inode[i].nlink = 0 => i \in orphans
    PROVE  IInv'
<1> DEFINE q == ps[p]  i == Head(q.puts)
<1>1. /\ q \in States /\ StepRight(q) /\ p # 0 /\ p \in inop /\ q.pc # "idle"
      /\ i \in Inums /\ Tail(q.puts) \in Seq(Inums) /\ Len(Tail(q.puts)) <= 1 /\ i # 0
      /\ \A j \in Inums : /\ PutN(q.puts, j) = I(i = j) + PutN(Tail(q.puts), j)
                          /\ PutN(Tail(q.puts), j) \in Nat
                          /\ Uses(q, j) \in 0..6 /\ Live(q, j) \in Nat /\ Unread(q, j) \in Nat
                          /\ Live(q, j) = Uses(q, j) - I(q.freeing \in {"unlock", "drop"} /\ i = j)
                          /\ Uses(q, j) <= itab[j].ref /\ itab[j].ref \in Nat
      /\ Uses(q, i) > Unread(q, i)
  BY PutIs
<1>2. PICK Q \in States : Q = [q EXCEPT !.freeing = "no", !.puts = Tail(q.puts)]
  BY <1>1 DEF States
<1>3. /\ Q.pc = q.pc /\ Q.op = q.op /\ Q.path = q.path /\ Q.cur = q.cur /\ Q.ip = q.ip /\ Q.dp = q.dp
      /\ Q.puts = Tail(q.puts) /\ Q.freeing = "no" /\ Q.new = q.new /\ Q.fd = q.fd
  BY <1>1, <1>2 DEF States
<1> HIDE DEF i
<1>4. \A j \in Inums : Uses(Q, j) = Uses(q, j) - I(i = j) /\ Unread(Q, j) = Unread(q, j)
  <2> SUFFICES ASSUME NEW j \in Inums
               PROVE  Uses(Q, j) = Uses(q, j) - I(i = j) /\ Unread(Q, j) = Unread(q, j)
    OBVIOUS
  <2> DEFINE n == PutN(Tail(q.puts), j)
  <2>1. PutN(q.puts, j) = I(i = j) + n /\ PutN(Q.puts, j) = n /\ n \in Nat
    BY <1>1, <1>3
  <2> HIDE DEF n
  <2>2. Uses(Q, j) = Uses(q, j) - I(i = j)
    BY <1>3, <2>1 DEF Uses, HasIp, HasDp, I
  <2> QED BY <1>3, <2>2 DEF Unread
<1>5. StepRight(Q)
  BY <1>1, <1>3 DEF StepRight, HasIp, HasDp, PutLock, PcLock
<1>6. \A j \in Inums : Live(Q, j) = Uses(Q, j)
  <2>1. \A j \in Inums : Live(Q, j) = Uses(Q, j) - I(FALSE) /\ Uses(Q, j) \in 0..6
    BY <1>3, <1>5, UsesType
  <2> QED BY <2>1 DEF I
<1>7. ps' = [ps EXCEPT ![p] = Q] /\ inop' = inop /\ home' = home /\ UNCHANGED <<orphans, crashes>>
  BY <1>2 DEF Becomes, Keep
<1>19. \A j \in Inums : Uses(q, j) \in Nat
  <2>1. q \in States /\ StepRight(q)
    BY <1>1
  <2>2. ASSUME NEW j \in Inums PROVE Uses(q, j) \in 0..6
    BY <2>1, UsesType
  <2> QED BY <2>2
<1>8. /\ itab \in [Inums -> Copies] /\ disk \in Disks /\ home \in Disks /\ inop \subseteq Procs
      /\ \A j \in Inums : itab[j].ref \in Nat
  BY <1>1 DEF IInv, InodesTypeOK
<1>9. /\ itab' \in [Inums -> Copies]
      /\ \A j \in Inums : /\ itab'[j].ref = itab[j].ref - I(i = j) /\ itab'[j].lock = itab[j].lock
                          /\ itab'[j].valid = itab[j].valid /\ Same(itab'[j], itab[j])
  <2>1. itab[i].ref - 1 \in Nat
    <3>1. itab[i].ref >= 1
      BY <1>1
    <3>2. i \in Inums
      BY <1>1
    <3> HIDE DEF q, i
    <3>3. itab[i].ref \in Nat
      BY <1>8, <3>2
    <3> QED BY <3>1, <3>3
  <2> DEFINE y == itab[i].ref - 1  c == [itab[i] EXCEPT !.ref = y]
  <2>2. c \in Copies
    <3>1. itab[i] \in Copies /\ y \in Nat
      BY <1>1, <1>8, <2>1 DEF i
    <3> HIDE DEF y
    <3> QED BY <3>1 DEF Copies
  <2>3. c.ref = y /\ c.lock = itab[i].lock /\ c.valid = itab[i].valid /\ Same(c, itab[i])
    <3>1. itab[i] \in Copies
      BY <1>1, <1>8 DEF i
    <3> HIDE DEF y
    <3> QED BY <3>1 DEF Copies, Same
  <2>4. itab' = [itab EXCEPT ![i] = c]
    BY <1>1, <1>8 DEF i
  <2> HIDE DEF c
  <2>5. \A j \in Inums : itab'[j] = IF j = i THEN c ELSE itab[j]
    BY <1>8, <2>4
  <2>6. itab' \in [Inums -> Copies]
    BY <1>8, <2>2, <2>4
  <2>7. ASSUME NEW j \in Inums
        PROVE  /\ itab'[j].ref = itab[j].ref - I(i = j) /\ itab'[j].lock = itab[j].lock
               /\ itab'[j].valid = itab[j].valid /\ Same(itab'[j], itab[j])
    <3>1. CASE j = i
      BY <2>3, <2>5, <3>1 DEF I
    <3>2. CASE j # i
      <4>1. itab'[j] = itab[j]
        BY <2>5, <3>2
      <4>2. itab[j].ref \in Nat
        BY <1>8
      <4>3. itab'[j].ref = itab[j].ref - I(i = j)
        <5> DEFINE a == itab[j].ref  b == itab'[j].ref
        <5>1. a \in Nat /\ b = a
          BY <4>1, <4>2
        <5> HIDE DEF a, b
        <5>2. b = a - I(i = j)
          BY <3>2, <5>1 DEF I
        <5> QED BY <5>2 DEF a, b
      <4> QED BY <4>1, <4>3 DEF Same
    <3> QED BY <3>1, <3>2
  <2> QED BY <2>6, <2>7
<1>10. \A j \in Inums : /\ itab'[j].ref = itab[j].ref + Uses(Q, j) - Uses(q, j)
                        /\ Uses(Q, j) - Uses(q, j) \in {-1, 0, 1}
  <2> HIDE DEF q, i
  <2> SUFFICES ASSUME NEW j \in Inums
               PROVE  /\ itab'[j].ref = itab[j].ref + Uses(Q, j) - Uses(q, j)
                      /\ Uses(Q, j) - Uses(q, j) \in {-1, 0, 1}
    OBVIOUS
  <2>1. /\ itab[j].ref \in Nat /\ itab'[j].ref = itab[j].ref - I(i = j)
        /\ Uses(q, j) \in Nat /\ Uses(Q, j) = Uses(q, j) - I(i = j)
    BY <1>4, <1>8, <1>9, <1>19
  <2> QED BY <2>1 DEF I
<1>11. \A j \in Inums : LockStep(p, Q, j)
  <2>1. PcLock(Q) = PcLock(q) /\ PutLock(Q) = 0 /\ PutLock(q) = 0 /\ 0 \notin Inums
    BY <1>3, InodesAssumption DEF PcLock, PutLock
  <2> QED BY <1>9, <2>1 DEF LockStep, Locks
<1>12. \A j \in Inums : CopyStep(p, j) /\ DiskStep(p, j)
  <2> SUFFICES ASSUME NEW j \in Inums PROVE CopyStep(p, j) /\ DiskStep(p, j)
    OBVIOUS
  <2>1. itab[j].ref \in Nat /\ itab'[j].ref <= itab[j].ref
    <3>1. itab[j].ref \in Nat /\ itab'[j].ref = itab[j].ref - I(i = j)
      BY <1>8, <1>9
    <3> HIDE DEF q, i
    <3> QED BY <3>1 DEF I
  <2>2. itab'[j].ref \in Nat
    BY <1>9 DEF Copies
  <2>3. itab'[j].valid = itab[j].valid /\ Same(itab'[j], itab[j]) /\ disk' = disk
    BY <1>9
  <2> HIDE DEF q, i
  <2> QED BY <2>1, <2>2, <2>3 DEF CopyStep, DiskStep
<1>13. TreesRight'
  <2>1. \A j \in Inums : Owed'[j] = Owed[j]
    <3>1. \A j \in Inums : Owes(Q, j) <=> Owes(q, j)
      BY <1>3 DEF Owes
    <3>2. ps \in [Procs -> States]
      BY DEF IInv, InodesTypeOK
    <3> QED BY <1>7, <3>1, <3>2 DEF Owed
  <2>2. Owed' = Owed
    BY <2>1 DEF Owed
  <2> QED BY <1>7, <2>2, TreesStay DEF IInv
<1>14. \A j \in Inums : Live(Q, j) <= Live(q, j)
  <2> SUFFICES ASSUME NEW j \in Inums PROVE Live(Q, j) <= Live(q, j)
    OBVIOUS
  <2>1. Live(Q, j) = Uses(q, j) - I(i = j) /\ Live(q, j) = Uses(q, j) - I(q.freeing \in {"unlock", "drop"} /\ i = j)
    BY <1>1, <1>4, <1>6 DEF i
  <2>2. Uses(q, j) \in Nat
    BY <1>19
  <2> QED BY <2>1, <2>2 DEF I
<1>15. /\ \A j \in Inums : Live(Q, j) > Live(q, j) => disk.inode[j].nlink # 0
       /\ \A j \in Inums : Live(Q, j) > Unread(Q, j) => itab'[j].valid \/ Live(q, j) > Unread(q, j)
  <2>1. \A j \in Inums : Live(Q, j) \in Nat /\ Live(q, j) \in Nat /\ Unread(q, j) \in Nat /\ Unread(Q, j) = Unread(q, j)
    BY <1>1, <1>4, <1>5, UsesType
  <2> QED BY <1>14, <2>1
<1>16. /\ Q.pc # "made" /\ q.pc # "made"
       /\ Q.pc = "child" => disk'.ents[Q.dp][Last(Q.path)] = Q.ip
       /\ Q.new /\ Q.pc \in {"walk", "dir"} => disk'.inode[Q.ip].type = "file"
  <2>1. q.pc # "made"
    BY <1>1 DEF StepRight
  <2> QED BY <1>3, <2>1 DEF IInv, SeenRight, Last1, Me
<1>17. ASSUME NEW j \in Inums, disk'.inode[j].type # "none", disk'.inode[j].nlink = 0, itab'[j].ref = 0
       PROVE  j \in orphans
  <2>1. CASE j = i
    <3>1. itab[i].ref = 1
      <4>1. itab[j].ref \in Nat /\ 0 = itab[j].ref - I(i = j)
        BY <1>8, <1>9, <1>17
      <4> HIDE DEF q, i
      <4> QED BY <2>1, <4>1 DEF I
    <3> QED BY <1>17, <2>1, <3>1 DEF i
  <2>2. CASE j # i
    <3>1. itab[j].ref = 0
      <4>1. itab[j].ref \in Nat /\ 0 = itab[j].ref - I(i = j)
        BY <1>8, <1>9, <1>17
      <4> HIDE DEF q, i
      <4> QED BY <2>2, <4>1 DEF I
    <3> QED BY <1>17, <3>1 DEF IInv, NoneStranded, Allocated
  <2> QED BY <2>1, <2>2
<1>18. /\ StepRight(Q) /\ (Q.pc # "idle" => p \in inop') /\ inop' \subseteq Procs /\ inop \ {p} \subseteq inop'
       /\ disk' \in Disks /\ home' \in Disks /\ q.freeing \in {"no", "drop"} /\ Q.freeing \in {"no", "trunc"}
       /\ Q.freeing # "trunc"
  BY <1>1, <1>3, <1>5, <1>7, <1>8
<1> QED BY <1>7, <1>9, <1>10, <1>11, <1>12, <1>13, <1>15, <1>16, <1>17, <1>18, StepKeeps, ZenonT(60)

\* With one reference left nobody else is freeing the inode.
LEMMA LastPutIs ==
    ASSUME IInv, NEW p \in Procs, Putting(p, "no"), itab[Head(ps[p].puts)].ref = 1
    PROVE  LET i == Head(ps[p].puts)
           IN  /\ i \in Inums /\ itab[i].valid /\ Same(itab[i], disk.inode[i])
               /\ Live(ps[p], i) = 1 /\ Unread(ps[p], i) = 0
               /\ \A r \in Procs : r # p => Uses(ps[r], i) = 0
<1> DEFINE q == ps[p]  i == Head(q.puts)
<1>1. /\ ps[p].puts # <<>> /\ q.freeing = "no" /\ i \in Inums
      /\ Uses(q, i) \in 0..6 /\ Unread(q, i) \in Nat /\ Uses(q, i) <= itab[i].ref
      /\ Live(q, i) = Uses(q, i) - I(q.freeing \in {"unlock", "drop"} /\ i = i)
      /\ Uses(q, i) > Unread(q, i)
  BY PutIs DEF Putting, Me
<1>2. Live(q, i) = 1 /\ Unread(q, i) = 0 /\ Uses(q, i) = 1
  <2> HIDE DEF i
  <2> QED BY <1>1 DEF I, i
<1>3. ASSUME NEW r \in Procs, r # p PROVE Uses(ps[r], i) = 0
  <2>1. Uses(q, i) + Uses(ps[r], i) <= itab[i].ref /\ itab[i].ref = 1
    BY <1>1, <1>3, Counted
  <2>2. Uses(ps[r], i) \in 0..6
    BY <1>1, Counted
  <2> HIDE DEF i, q
  <2> QED BY <1>2, <2>1, <2>2
<1>4. ~Unlocking(i)
  <2> SUFFICES ASSUME NEW r \in Procs, ps[r].freeing = "unlock", Head(ps[r].puts) = i PROVE FALSE
    BY DEF Unlocking
  <2>1. ps[r].puts # <<>>
    BY DEF IInv, StepsRight, StepRight
  <2>2. Uses(ps[r], Head(ps[r].puts)) > Unread(ps[r], Head(ps[r].puts)) /\ Unread(ps[r], Head(ps[r].puts)) \in Nat
    BY <2>1, PutIs
  <2>3. r # p
    BY <1>1
  <2>4. Uses(ps[r], i) = 0
    BY <1>3, <2>3
  <2> HIDE DEF i
  <2> QED BY <2>2, <2>4
<1>5. itab[i].valid /\ Same(itab[i], disk.inode[i])
  <2>1. Live(ps[p], i) > Unread(ps[p], i)
    BY <1>2
  <2> QED BY <1>1, <1>4, <2>1, FreshIs
<1> QED BY <1>1, <1>2, <1>3, <1>5

LEMMA PutKeeps ==
    ASSUME IInv, NEW p \in Procs, iput(p), ~MustFree(Head(ps[p].puts))
    PROVE  IInv'
<1> DEFINE q == ps[p]  i == Head(q.puts)
<1>1. /\ Putting(p, "no") /\ q.puts # <<>> /\ q.freeing = "no" /\ UNCHANGED disk /\ Keep
      /\ itab' = [itab EXCEPT ![i].ref = @ - 1]
      /\ Becomes(p, [q EXCEPT !.puts = Tail(q.puts)])
  BY DEF iput, Putting, Me
<1>2. q \in States
  BY DEF IInv, InodesTypeOK
<1>3. [q EXCEPT !.puts = Tail(q.puts)] = [q EXCEPT !.freeing = "no", !.puts = Tail(q.puts)]
  BY <1>1, <1>2 DEF States
<1>4. ~(itab[i].ref = 1 /\ disk.inode[i].nlink = 0)
  BY <1>1, LastPutIs DEF MustFree, Same
<1> QED BY <1>1, <1>3, <1>4, DropKeeps

LEMMA PutDropKeeps ==
    ASSUME IInv, NEW p \in Procs, iput_drop(p)
    PROVE  IInv'
<1> DEFINE q == ps[p]  i == Head(q.puts)
<1>1. /\ q.puts # <<>> /\ q.freeing = "drop" /\ UNCHANGED disk /\ Keep
      /\ itab' = [itab EXCEPT ![i].ref = @ - 1]
      /\ Becomes(p, [q EXCEPT !.freeing = "no", !.puts = Tail(q.puts)])
  BY DEF iput_drop, Putting, Me
<1>2. disk.inode[i].type # "none" => i \in orphans
  BY <1>1 DEF IInv, FreeingRight
<1> QED BY <1>1, <1>2, DropKeeps

\* iput() finds an inode to free.
LEMMA PutFreesKeeps ==
    ASSUME IInv, NEW p \in Procs, iput(p), MustFree(Head(ps[p].puts))
    PROVE  IInv'
<1> DEFINE q == ps[p]  i == Head(q.puts)
<1>1. /\ Putting(p, "no") /\ q.puts # <<>> /\ q.freeing = "no" /\ UNCHANGED disk /\ Keep
      /\ itab' = [itab EXCEPT ![i].lock = p] /\ itab[i].lock = 0
      /\ Becomes(p, [q EXCEPT !.freeing = "trunc"])
      /\ itab[i].ref = 1 /\ itab[i].valid /\ itab[i].nlink = 0
  BY DEF iput, Putting, Me, MustFree, CanLock
<1>2. /\ q \in States /\ StepRight(q) /\ p # 0 /\ p \in inop /\ q.pc # "idle" /\ i \in Inums /\ i # 0
      /\ \A j \in Inums : /\ Uses(q, j) \in 0..6 /\ Live(q, j) \in Nat /\ Unread(q, j) \in Nat
                          /\ itab[j].ref \in Nat
  BY <1>1, PutIs
<1>3. Same(itab[i], disk.inode[i]) /\ Live(q, i) = 1 /\ disk.inode[i].nlink = 0
  BY <1>1, LastPutIs DEF Same
<1>4. PICK Q \in States : Q = [q EXCEPT !.freeing = "trunc"]
  BY <1>2 DEF States
<1>5. /\ Q.pc = q.pc /\ Q.op = q.op /\ Q.path = q.path /\ Q.cur = q.cur /\ Q.ip = q.ip /\ Q.dp = q.dp
      /\ Q.puts = q.puts /\ Q.freeing = "trunc" /\ Q.new = q.new /\ Q.fd = q.fd
  BY <1>2, <1>4 DEF States
<1>6. \A j \in Inums : j \in Locks(q) <=> itab[j].lock = p
  BY DEF IInv, LocksRight
<1>7. PcLock(Q) = PcLock(q) /\ PcLock(q) # i /\ PutLock(Q) = i /\ PutLock(q) = 0
  <2>1. PcLock(q) # i
    BY <1>1, <1>2, <1>6 DEF Locks
  <2> QED BY <1>1, <1>5, <2>1 DEF PcLock, PutLock
<1> HIDE DEF i
<1>8. StepRight(Q)
  BY <1>1, <1>2, <1>5, <1>7 DEF StepRight, HasIp, HasDp
<1>9. \A j \in Inums : Uses(Q, j) = Uses(q, j) /\ Unread(Q, j) = Unread(q, j) /\ Live(Q, j) = Live(q, j)
  <2>1. \A j \in Inums : Uses(Q, j) = Uses(q, j) /\ Unread(Q, j) = Unread(q, j)
    BY <1>5 DEF Uses, Unread, HasIp, HasDp
  <2>2. ASSUME NEW j \in Inums PROVE Live(Q, j) = Uses(Q, j) - I(FALSE) /\ Live(q, j) = Uses(q, j) - I(FALSE)
    BY <1>1, <1>2, <1>5, <1>8, UsesType
  <2> QED BY <2>1, <2>2
<1>10. /\ itab \in [Inums -> Copies] /\ disk \in Disks /\ home \in Disks /\ inop \subseteq Procs
  BY DEF IInv, InodesTypeOK
<1>11. /\ itab' \in [Inums -> Copies]
       /\ \A j \in Inums : /\ itab'[j].ref = itab[j].ref /\ itab'[j].lock = IF j = i THEN p ELSE itab[j].lock
                           /\ itab'[j].valid = itab[j].valid /\ Same(itab'[j], itab[j])
  <2> DEFINE c == [itab[i] EXCEPT !.lock = p]
  <2>1. itab[i] \in Copies
    BY <1>2, <1>10 DEF i
  <2>2. /\ c \in Copies /\ c.ref = itab[i].ref /\ c.lock = p /\ c.valid = itab[i].valid /\ Same(c, itab[i])
    BY <2>1 DEF Copies, Same
  <2>3. itab' = [itab EXCEPT ![i] = c]
    BY <1>1, <1>10 DEF i
  <2> HIDE DEF c
  <2>4. \A j \in Inums : itab'[j] = IF j = i THEN c ELSE itab[j]
    BY <1>10, <2>3
  <2>5. itab' \in [Inums -> Copies]
    BY <1>10, <2>2, <2>3
  <2> QED BY <2>2, <2>4, <2>5 DEF Same
<1>12. ps' = [ps EXCEPT ![p] = Q] /\ inop' = inop /\ home' = home /\ UNCHANGED <<orphans, crashes>>
  BY <1>1, <1>4 DEF Becomes, Keep
<1>13. \A j \in Inums : /\ itab'[j].ref = itab[j].ref + Uses(Q, j) - Uses(q, j)
                        /\ Uses(Q, j) - Uses(q, j) \in {-1, 0, 1}
  BY <1>2, <1>9, <1>11
<1>14. \A j \in Inums : LockStep(p, Q, j)
  BY <1>1, <1>2, <1>7, <1>11, InodesAssumption DEF LockStep, Locks, i
<1>15. \A j \in Inums : CopyStep(p, j) /\ DiskStep(p, j)
  BY <1>1, <1>11 DEF CopyStep, DiskStep
<1>16. TreesRight'
  <2>1. \A j \in Inums : Owed'[j] = Owed[j]
    <3>1. \A j \in Inums : Owes(Q, j) <=> Owes(q, j)
      BY <1>5 DEF Owes
    <3>2. ps \in [Procs -> States]
      BY DEF IInv, InodesTypeOK
    <3> QED BY <1>12, <3>1, <3>2 DEF Owed
  <2>2. Owed' = Owed
    BY <2>1 DEF Owed
  <2> QED BY <1>1, <1>12, <2>2, TreesStay DEF IInv
<1>17. /\ \A j \in Inums : Live(Q, j) > Live(q, j) => disk.inode[j].nlink # 0
       /\ \A j \in Inums : Live(Q, j) > Unread(Q, j) => itab'[j].valid \/ Live(q, j) > Unread(q, j)
  <2>1. \A j \in Inums : Live(Q, j) = Live(q, j) /\ Unread(Q, j) = Unread(q, j) /\ Live(q, j) \in Nat /\ Unread(q, j) \in Nat
    BY <1>2, <1>9
  <2> QED BY <2>1
<1>18. /\ Q.pc # "made" /\ q.pc # "made"
       /\ Q.pc = "child" => disk'.ents[Q.dp][Last(Q.path)] = Q.ip
       /\ Q.new /\ Q.pc \in {"walk", "dir"} => disk'.inode[Q.ip].type = "file"
  <2>1. q.pc # "made"
    BY <1>1, <1>2 DEF StepRight
  <2> QED BY <1>1, <1>5, <2>1 DEF IInv, SeenRight, Last1, Me
<1>19. \A j \in Inums : disk'.inode[j].type # "none" /\ disk'.inode[j].nlink = 0 /\ itab'[j].ref = 0 => j \in orphans
  BY <1>1, <1>11 DEF IInv, NoneStranded, Allocated
<1>20. itab'[i].ref = 1 /\ itab'[i].valid /\ disk'.inode[i].nlink = 0 /\ Head(Q.puts) = i
  BY <1>1, <1>2, <1>3, <1>5, <1>11 DEF i
<1>21. /\ StepRight(Q) /\ (Q.pc # "idle" => p \in inop') /\ inop' \subseteq Procs /\ inop \ {p} \subseteq inop'
       /\ disk' \in Disks /\ home' \in Disks /\ q.freeing \in {"no", "drop"} /\ Q.freeing \in {"no", "trunc"}
       /\ Q.freeing = "trunc" => LET k == Head(Q.puts)
                                 IN  itab'[k].ref = 1 /\ itab'[k].valid /\ disk'.inode[k].nlink = 0
  BY <1>1, <1>2, <1>5, <1>8, <1>10, <1>12, <1>20
<1> QED BY <1>11, <1>12, <1>13, <1>14, <1>15, <1>16, <1>17, <1>18, <1>19, <1>21, StepKeeps, ZenonT(60)

LEMMA IdleIs ==
    ASSUME NEW jobs \in Seq(Calls)
    PROVE  Idle(jobs) \in States /\ StepRight(Idle(jobs)) /\ Idle(jobs).puts = <<>> /\ Idle(jobs).pc = "idle"
<1>1. <<>> \in Seq(Inums) /\ <<>> \in Seq(Names)
  OBVIOUS
<1>2. Idle(jobs) \in States
  BY <1>1 DEF States, Steps, Idle
<1>3. Len(<<>>) = 0
  OBVIOUS
<1>4. StepRight(Idle(jobs))
  BY <1>3 DEF StepRight, HasIp, HasDp, PutLock, PcLock, Idle
<1> QED BY <1>2, <1>4 DEF Idle

LEMMA EndKeeps ==
    ASSUME IInv, NEW p \in Procs, end_op(p)
    PROVE  IInv'
<1> DEFINE q == ps[p]  ex == [Idle(q.jobs) EXCEPT !.fd = q.fd]
<1>1. /\ q.pc = "end" /\ q.puts = <<>> /\ inop' = inop \ {p}
      /\ home' = (IF inop = {p} THEN disk ELSE home)
      /\ Becomes(p, ex) /\ UNCHANGED <<disk, itab, orphans, crashes>>
  BY DEF end_op, At, Me
<1>2. /\ q \in States /\ StepRight(q) /\ q.freeing = "no" /\ p # 0
      /\ \A j \in Inums : PutN(q.puts, j) = 0 /\ Live(q, j) = Uses(q, j) /\ Uses(q, j) \in 0..6
      /\ \A j \in Inums : j \in Locks(q) <=> j = PcLock(q)
  BY <1>1, AtIs
<1>3. /\ itab \in [Inums -> Copies] /\ disk \in Disks /\ home \in Disks /\ inop \subseteq Procs
      /\ ps \in [Procs -> States] /\ \A j \in Inums : itab[j].ref \in Nat
  BY DEF IInv, InodesTypeOK, Copies
<1>4. PICK Q \in States : Q = ex
  <2>1. q.jobs \in Seq(Calls) /\ q.fd \in Inums \cup {0}
    BY <1>2 DEF States
  <2>2. Idle(q.jobs) \in States
    BY <2>1, IdleIs
  <2> QED BY <2>1, <2>2 DEF States
<1>5. /\ Q.pc = "idle" /\ Q.op = <<>> /\ Q.path = <<>> /\ Q.cur = 0 /\ Q.ip = 0 /\ Q.dp = 0
      /\ Q.puts = <<>> /\ Q.freeing = "no" /\ Q.new = FALSE /\ Q.fd = q.fd
  BY <1>4 DEF Idle
<1>6. Len(Q.puts) = 0 /\ \A j \in Inums : PutN(Q.puts, j) = 0
  BY <1>5, PutNone
<1>7. StepRight(Q)
  BY <1>5, <1>6 DEF StepRight, HasIp, HasDp, PutLock, PcLock
<1>8. \A j \in Inums : Uses(Q, j) = Uses(q, j) /\ Unread(Q, j) = 0 /\ Unread(q, j) = 0
  BY <1>1, <1>2, <1>5, <1>6 DEF Uses, HasIp, HasDp, I, Unread
<1>9. \A j \in Inums : Live(Q, j) = Live(q, j)
  <2>1. \A j \in Inums : Live(Q, j) = Uses(Q, j) - I(FALSE) /\ Uses(Q, j) \in 0..6
    BY <1>5, <1>7, UsesType
  <2> QED BY <1>2, <1>8, <2>1 DEF I
<1>10. \A j \in Inums : j \notin Locks(Q) /\ j \notin Locks(q)
  <2>1. 0 \notin Inums
    BY InodesAssumption
  <2> QED BY <1>1, <1>2, <1>5, <2>1 DEF Locks, PcLock, PutLock
<1>11. ps' = [ps EXCEPT ![p] = Q]
  BY <1>1, <1>4 DEF Becomes
<1>12. \A j \in Inums : LockStep(p, Q, j) /\ CopyStep(p, j) /\ DiskStep(p, j)
  BY <1>1, <1>10 DEF LockStep, CopyStep, DiskStep, Same
<1>13. \A j \in Inums : Owed'[j] = Owed[j]
  <2>1. \A j \in Inums : ~Owes(Q, j) /\ ~Owes(q, j)
    BY <1>1, <1>5 DEF Owes
  <2> QED BY <1>3, <1>11, <2>1 DEF Owed
<1>14. TreesRight'
  <2>1. Owed' = Owed
    BY <1>13 DEF Owed
  <2>2. LinksRight(disk, Owed)' /\ BlocksRight(disk)'
    BY <1>1, <2>1 DEF IInv, TreesRight, LinksRight, BlocksRight, LinkCount, Named, Kids
  <2>3. LinksRight(home', Nothing) /\ BlocksRight(home')
    <3>1. CASE inop = {p}
      <4>1. home' = disk
        BY <1>1, <3>1
      <4>2. ASSUME NEW i \in Inums PROVE Owed[i] = {}
        <5>1. ASSUME NEW r \in Procs, Owes(ps[r], i) PROVE FALSE
          <6>1. CASE r = p
            BY <1>1, <5>1, <6>1 DEF Owes
          <6>2. CASE r # p
            <7>1. ps[r].pc = "idle"
              BY <3>1, <6>2 DEF IInv, StepsRight
            <7> QED BY <5>1, <7>1 DEF Owes
          <6> QED BY <6>1, <6>2
        <5> QED BY <5>1 DEF Owed
      <4>3. Owed = Nothing
        BY <4>2 DEF Owed, Nothing
      <4> QED BY <4>1, <4>3 DEF IInv, TreesRight
    <3>2. CASE inop # {p}
      BY <1>1, <3>2 DEF IInv, TreesRight
    <3> QED BY <3>1, <3>2
  <2>4. LinksRight(home, Nothing)' /\ BlocksRight(home)'
    BY <2>3 DEF LinksRight, BlocksRight, LinkCount, Named, Kids, Nothing
  <2> QED BY <2>2, <2>4 DEF TreesRight
<1>15. home' \in Disks /\ inop' \subseteq Procs /\ inop \ {p} \subseteq inop'
  BY <1>1, <1>3
<1>16. \A j \in Inums : /\ itab'[j].ref = itab[j].ref + Uses(Q, j) - Uses(q, j)
                        /\ Uses(Q, j) - Uses(q, j) \in {-1, 0, 1}
  BY <1>1, <1>2, <1>3, <1>8
<1>17. /\ \A j \in Inums : Live(Q, j) > Live(q, j) => disk.inode[j].nlink # 0
       /\ \A j \in Inums : Live(Q, j) > Unread(Q, j) => itab'[j].valid \/ Live(q, j) > Unread(q, j)
  BY <1>2, <1>8, <1>9
<1>18. \A j \in Inums : disk'.inode[j].type # "none" /\ disk'.inode[j].nlink = 0 /\ itab'[j].ref = 0 => j \in orphans
  BY <1>1 DEF IInv, NoneStranded, Allocated
<1>19. /\ Q.pc # "made" /\ q.pc # "made" /\ Q.pc # "child" /\ ~Q.new /\ (Q.pc # "idle" => p \in inop')
       /\ q.freeing \in {"no", "drop"} /\ Q.freeing \in {"no", "trunc"} /\ Q.freeing # "trunc"
       /\ itab' \in [Inums -> Copies] /\ disk' \in Disks /\ UNCHANGED <<orphans, crashes>>
  BY <1>1, <1>2, <1>3, <1>5
<1> QED BY <1>7, <1>11, <1>12, <1>14, <1>15, <1>16, <1>17, <1>18, <1>19, StepKeeps, ZenonT(60)

-----------------------------------------------------------------------------
(* Links, entries and blocks after a write.                                 *)

LEMMA OwedIs ==
    ASSUME IInv, NEW p \in Procs, NEW Q \in States, ps' = [ps EXCEPT ![p] = Q], NEW i \in Inums
    PROVE  /\ Cardinality(Owed'[i]) \in Nat /\ Cardinality(Owed[i]) \in Nat
           /\ Cardinality(Owed'[i]) = Cardinality(Owed[i]) + I(Owes(Q, i)) - I(Owes(ps[p], i))
<1>1. ps \in [Procs -> States]
  BY DEF IInv, InodesTypeOK
<1>2. Owed'[i] = {r \in Procs : IF r = p THEN Owes(Q, i) ELSE Owes(ps[r], i)}
  BY <1>1 DEF Owed
<1>3. Owed[i] = {r \in Procs : Owes(ps[r], i)}
  BY DEF Owed
<1> DEFINE A == Owed[i]  B == Owed'[i]
<1>4. IsFiniteSet(A) /\ Cardinality(A) \in Nat
  BY OwedFinite
<1>5. IsFiniteSet(B)
  <2>1. IsFiniteSet(Procs) /\ B \subseteq Procs
    BY <1>2, InodesAssumption
  <2> QED BY <2>1, FS_Subset
<1>6. Cardinality(B) \in Nat
  BY <1>5, FS_CardinalityType
<1>7. CASE Owes(Q, i) /\ ~Owes(ps[p], i)
  <2>1. B = A \cup {p} /\ p \notin A
    BY <1>2, <1>3, <1>7
  <2> HIDE DEF A, B
  <2>2. Cardinality(B) = Cardinality(A) + 1
    BY <1>4, <2>1, FS_AddElement
  <2> QED BY <1>4, <1>6, <1>7, <2>2 DEF I, A, B
<1>8. CASE ~Owes(Q, i) /\ Owes(ps[p], i)
  <2>1. B = A \ {p} /\ p \in A
    BY <1>2, <1>3, <1>8
  <2> HIDE DEF A, B
  <2>2. Cardinality(B) = Cardinality(A) - 1
    BY <1>4, <2>1, FS_RemoveElement
  <2> QED BY <1>4, <1>6, <1>8, <2>2 DEF I, A, B
<1>9. CASE Owes(Q, i) <=> Owes(ps[p], i)
  <2>1. B = A
    BY <1>2, <1>3, <1>9
  <2> HIDE DEF A, B
  <2> QED BY <1>4, <1>6, <1>9, <2>1 DEF I, A, B
<1> QED BY <1>7, <1>8, <1>9

\* Link counts follow names, subdirectories and what is owed.
LEMMA LinksMove ==
    ASSUME IInv, NEW D \in Disks, NEW O, D.lost = disk.lost,
           \A i \in Inums : D.inode[i].type = disk.inode[i].type,
           \A i \in Inums : D.inode[i].type = "none" => D.inode[i] = disk.inode[i] /\ D.ents[i] = disk.ents[i],
           \A i \in Inums : Cardinality(O[i]) \in Nat,
           \A i \in Inums : D.inode[i].nlink = disk.inode[i].nlink
                                  + (Cardinality(Named(D, i)) - Cardinality(Named(disk, i)))
                                  + (Cardinality(Kids(D, i)) - Cardinality(Kids(disk, i)))
                                  + (Cardinality(O[i]) - Cardinality(Owed[i])),
           \A i \in Inums : D.inode[i].type = "dir" => \A e, f \in Named(D, i) : e = f
    PROVE  LinksRight(D, O)
<1>1. ASSUME NEW i \in Inums PROVE D.inode[i].nlink = LinkCount(D, O, i)
  <2> DEFINE a == Cardinality(Named(disk, i))  b == Cardinality(Kids(disk, i))  c == Cardinality(Owed[i])
             a2 == Cardinality(Named(D, i))  b2 == Cardinality(Kids(D, i))  c2 == Cardinality(O[i])
             r == I(i = ROOTINO)  l == disk.lost[i]  n == disk.inode[i].nlink  n2 == D.inode[i].nlink
  <2>1. a \in Nat /\ b \in Nat /\ c \in Nat /\ a2 \in Nat /\ b2 \in Nat /\ c2 \in Nat /\ r \in Nat
    BY NamedFinite, OwedFinite DEF I
  <2>2. l \in Nat
    BY DEF IInv, InodesTypeOK, Disks
  <2>3. n = r + a + b + l + c
    BY DEF IInv, TreesRight, LinksRight, LinkCount
  <2>4. n2 = n + (a2 - a) + (b2 - b) + (c2 - c)
    OBVIOUS
  <2>5. LinkCount(D, O, i) = r + a2 + b2 + l + c2
    BY DEF LinkCount
  <2> HIDE DEF a, b, c, a2, b2, c2, r, l, n, n2
  <2>6. n2 = r + a2 + b2 + l + c2
    BY <2>1, <2>2, <2>3, <2>4
  <2> QED BY <2>5, <2>6 DEF n2
<1>2. ASSUME NEW i \in Inums, D.inode[i].type = "none"
      PROVE  D.inode[i].nlink = 0 /\ D.inode[i].addrs = {} /\ D.ents[i] = NoEntries
  BY <1>2 DEF IInv, TreesRight, LinksRight
<1> QED BY <1>1, <1>2 DEF LinksRight

LEMMA EntryAdded ==
    ASSUME IInv, NEW D \in Disks, NEW d \in Inums, NEW n \in Names, NEW i \in Inums,
           disk.ents[d][n] = 0, D.ents = [disk.ents EXCEPT ![d][n] = i],
           \A j \in Inums : D.inode[j].type = disk.inode[j].type, NEW j \in Inums
    PROVE  /\ Named(D, j) = IF j = i THEN Named(disk, j) \cup {<<d, n>>} ELSE Named(disk, j)
           /\ Cardinality(Named(D, j)) = Cardinality(Named(disk, j)) + I(i = j)
           /\ Cardinality(Kids(D, j)) = Cardinality(Kids(disk, j)) + I(d = j /\ disk.inode[i].type = "dir")
<1>1. disk.ents \in [Inums -> [Names -> Inums \cup {0}]] /\ 0 \notin Inums
  BY InodesAssumption DEF IInv, InodesTypeOK, Disks
<1>2. \A e \in Inums, m \in Names : D.ents[e][m] = IF e = d /\ m = n THEN i ELSE disk.ents[e][m]
  BY <1>1
<1> DEFINE A == Named(disk, j)  B == Named(D, j)  K == Kids(disk, j)  L == Kids(D, j)
<1>3. B = IF j = i THEN A \cup {<<d, n>>} ELSE A
  BY <1>1, <1>2 DEF Named
<1>4. <<d, n>> \notin A
  BY <1>1 DEF Named
<1>5. L = IF d = j /\ disk.inode[i].type = "dir" THEN K \cup {n} ELSE K
  <2>1. ASSUME NEW m \in Names
        PROVE  m \in L <=> \/ m \in K
                           \/ m = n /\ d = j /\ disk.inode[i].type = "dir"
    <3>1. D.ents[j][m] = IF j = d /\ m = n THEN i ELSE disk.ents[j][m]
      BY <1>2
    <3>2. disk.ents[j][m] \in Inums \cup {0}
      BY <1>1
    <3>3. i # 0
      BY <1>1
    <3> QED BY <3>1, <3>2, <3>3 DEF Kids
  <2>2. K \subseteq Names /\ L \subseteq Names
    BY DEF Kids
  <2> HIDE DEF K, L
  <2> QED BY <2>1, <2>2
<1>6. d = j => n \notin K
  BY <1>1 DEF Kids
<1>7. /\ IsFiniteSet(A) /\ Cardinality(A) \in Nat /\ IsFiniteSet(K) /\ Cardinality(K) \in Nat
  BY NamedFinite
<1> HIDE DEF A, B, K, L
<1>8. Cardinality(A \cup {<<d, n>>}) = Cardinality(A) + 1
  BY <1>4, <1>7, FS_AddElement
<1>9. Cardinality(B) = Cardinality(A) + I(i = j)
  BY <1>3, <1>7, <1>8 DEF I
<1>10. d = j => Cardinality(K \cup {n}) = Cardinality(K) + 1
  BY <1>6, <1>7, FS_AddElement
<1>11. Cardinality(L) = Cardinality(K) + I(d = j /\ disk.inode[i].type = "dir")
  BY <1>5, <1>7, <1>10 DEF I
<1> QED BY <1>3, <1>9, <1>11 DEF A, B, K, L

LEMMA EntryRemoved ==
    ASSUME IInv, NEW D \in Disks, NEW d \in Inums, NEW n \in Names, NEW i \in Inums,
           disk.ents[d][n] = i, D.ents = [disk.ents EXCEPT ![d][n] = 0],
           \A j \in Inums : D.inode[j].type = disk.inode[j].type, NEW j \in Inums
    PROVE  /\ Named(D, j) \subseteq Named(disk, j)
           /\ Cardinality(Named(D, j)) = Cardinality(Named(disk, j)) - I(i = j)
           /\ Cardinality(Kids(D, j)) = Cardinality(Kids(disk, j)) - I(d = j /\ disk.inode[i].type = "dir")
<1>1. disk.ents \in [Inums -> [Names -> Inums \cup {0}]] /\ 0 \notin Inums
  BY InodesAssumption DEF IInv, InodesTypeOK, Disks
<1>2. \A e \in Inums, m \in Names : D.ents[e][m] = IF e = d /\ m = n THEN 0 ELSE disk.ents[e][m]
  BY <1>1
<1> DEFINE A == Named(disk, j)  B == Named(D, j)  K == Kids(disk, j)  L == Kids(D, j)
<1>3. B = IF j = i THEN A \ {<<d, n>>} ELSE A
  BY <1>1, <1>2 DEF Named
<1>4. j = i => <<d, n>> \in A
  BY <1>1 DEF Named
<1>5. L = IF d = j /\ disk.inode[i].type = "dir" THEN K \ {n} ELSE K
  <2>1. ASSUME NEW m \in Names
        PROVE  m \in L <=> m \in K /\ ~(m = n /\ d = j /\ disk.inode[i].type = "dir")
    <3>1. D.ents[j][m] = IF j = d /\ m = n THEN 0 ELSE disk.ents[j][m]
      BY <1>2
    <3>2. disk.ents[j][m] \in Inums \cup {0}
      BY <1>1
    <3> QED BY <3>1, <3>2 DEF Kids
  <2>2. K \subseteq Names /\ L \subseteq Names
    BY DEF Kids
  <2> HIDE DEF K, L
  <2> QED BY <2>1, <2>2
<1>6. d = j /\ disk.inode[i].type = "dir" => n \in K
  BY <1>1 DEF Kids
<1>7. /\ IsFiniteSet(A) /\ Cardinality(A) \in Nat /\ IsFiniteSet(K) /\ Cardinality(K) \in Nat
  BY NamedFinite
<1> HIDE DEF A, B, K, L
<1>8. j = i => Cardinality(A \ {<<d, n>>}) = Cardinality(A) - 1
  BY <1>4, <1>7, FS_RemoveElement
<1>9. Cardinality(B) = Cardinality(A) - I(i = j)
  BY <1>3, <1>7, <1>8 DEF I
<1>10. d = j /\ disk.inode[i].type = "dir" => Cardinality(K \ {n}) = Cardinality(K) - 1
  BY <1>6, <1>7, FS_RemoveElement
<1>11. Cardinality(L) = Cardinality(K) - I(d = j /\ disk.inode[i].type = "dir")
  BY <1>5, <1>7, <1>10 DEF I
<1>12. B \subseteq A
  BY <1>3
<1> QED BY <1>9, <1>11, <1>12 DEF A, B, K, L

LEMMA EntriesStay ==
    ASSUME NEW D, D.ents = disk.ents, \A j \in Inums : D.inode[j].type = disk.inode[j].type,
           IInv, NEW j \in Inums
    PROVE  Named(D, j) = Named(disk, j) /\ Kids(D, j) = Kids(disk, j)
<1>1. disk.ents \in [Inums -> [Names -> Inums \cup {0}]]
  BY DEF IInv, InodesTypeOK, Disks
<1>2. ASSUME NEW m \in Names
      PROVE  m \in Kids(D, j) <=> m \in Kids(disk, j)
  <2>1. disk.ents[j][m] \in Inums \cup {0}
    BY <1>1
  <2> QED BY <2>1 DEF Kids
<1>3. Kids(D, j) = Kids(disk, j)
  BY <1>2 DEF Kids
<1> QED BY <1>3 DEF Named

LEMMA BlockTaken ==
    ASSUME IInv, NEW D \in Disks, NEW i \in Inums, NEW b \in Blocks, b \notin disk.used,
           D.used = disk.used \cup {b},
           \A j \in Inums : D.inode[j].addrs = IF j = i THEN disk.inode[j].addrs \cup {b} ELSE disk.inode[j].addrs
    PROVE  BlocksRight(D)
<1>1. \A j \in Inums : b \notin disk.inode[j].addrs
  BY DEF IInv, TreesRight, BlocksRight
<1>2. ASSUME NEW j \in Inums, NEW k \in Inums, j # k
      PROVE  D.inode[j].addrs \cap D.inode[k].addrs = {}
  <2>1. disk.inode[j].addrs \cap disk.inode[k].addrs = {}
    BY <1>2 DEF IInv, TreesRight, BlocksRight
  <2> QED BY <1>1, <1>2, <2>1
<1>3. \A c \in Blocks : c \in D.used <=> \E j \in Inums : c \in D.inode[j].addrs
  BY <1>1 DEF IInv, TreesRight, BlocksRight
<1> QED BY <1>2, <1>3 DEF BlocksRight

LEMMA BlocksStay ==
    ASSUME IInv, NEW D, D.used = disk.used, \A j \in Inums : D.inode[j].addrs = disk.inode[j].addrs
    PROVE  BlocksRight(D)
BY DEF IInv, TreesRight, BlocksRight

\* balloc() and ialloc() find something free.
LEMMA MinIs ==
    ASSUME NEW S \in SUBSET Nat, S # {}
    PROVE  Min(S) \in S
<1> DEFINE R == {pair \in Nat \X Nat : pair[1] < pair[2]}
<1>1. IsWellFoundedOn(R, Nat)
  BY NatLessThanWellFounded DEF OpToRel
<1>2. \E x \in S : \A y \in S : ~ (<<y, x>> \in R)
  <2> HIDE DEF R
  <2> QED BY <1>1, WFMin
<1>3. PICK x \in S : \A y \in S : ~ (<<y, x>> \in R)
  BY <1>2
<1>4. ASSUME NEW y \in S PROVE x <= y
  <2>1. x \in Nat /\ y \in Nat
    OBVIOUS
  <2>2. ~ (y < x)
    BY <1>3, <2>1
  <2> QED BY <2>1, <2>2
<1> QED BY <1>4 DEF Min

-----------------------------------------------------------------------------
(* What a process writes to an inode that it has locked.                    *)

Holds(c, ty, nl, ad, rf, lk) ==
    c.type = ty /\ c.nlink = nl /\ c.addrs = ad /\ c.ref = rf /\ c.valid = TRUE /\ c.lock = lk

LEMMA LockedIs ==
    ASSUME IInv, NEW p \in Procs, NEW i \in Inums, ps[p].puts = <<>>, Uses(ps[p], i) > 0,
           itab[i].lock \in {0, p}
    PROVE  LET t == ilock(itab, disk, i, p)  a == disk.inode[i]
           IN  /\ t \in [Inums -> Copies] /\ \A j \in Inums : j # i => t[j] = itab[j]
               /\ Holds(t[i], a.type, a.nlink, a.addrs, itab[i].ref, p)
<1> DEFINE t == ilock(itab, disk, i, p)  a == disk.inode[i]
<1>1. /\ itab \in [Inums -> Copies] /\ a \in InodesOf /\ itab[i] \in Copies
  BY DEF IInv, InodesTypeOK, Disks
<1>2. ps[p].freeing = "no" /\ Uses(ps[p], i) \in 0..6 /\ Live(ps[p], i) = Uses(ps[p], i)
      /\ \A r \in Procs : ps[r].freeing = "unlock" => ps[r].puts # <<>>
  BY AtIs DEF IInv, StepsRight, StepRight
<1>3. itab[i].ref > 0
  <2>1. itab[i].ref \in Nat /\ Uses(ps[p], i) <= itab[i].ref
    BY Counted
  <2> QED BY <1>2, <2>1
<1>4. ~Unlocking(i)
  <2> SUFFICES ASSUME NEW r \in Procs, ps[r].freeing = "unlock", Head(ps[r].puts) = i PROVE FALSE
    BY DEF Unlocking
  <2>1. itab[i].lock = r /\ r # 0
    BY InodesAssumption DEF IInv, LocksRight, Locks, PutLock
  <2> QED BY <1>2, <2>1
<1>5. itab[i].valid => Same(itab[i], a)
  BY <1>3, <1>4 DEF IInv, CopiesRight
<1> DEFINE from == IF itab[i].valid THEN itab[i] ELSE a
           c == [Loaded(itab[i], IF itab[i].valid THEN itab[i] ELSE a) EXCEPT !.valid = TRUE, !.lock = p]
<1>6. Same(from, a)
  BY <1>5 DEF Same
<1>7. c = [Loaded(itab[i], from) EXCEPT !.valid = TRUE, !.lock = p]
  OBVIOUS
<1>8. c \in Copies /\ Holds(c, a.type, a.nlink, a.addrs, itab[i].ref, p)
  <2> HIDE DEF from, c
  <2>1. c.type = from.type /\ c.nlink = from.nlink /\ c.addrs = from.addrs /\ c.ref = itab[i].ref
        /\ c.valid = TRUE /\ c.lock = p
    BY <1>1, <1>7 DEF Copies, Loaded
  <2>2. Holds(c, a.type, a.nlink, a.addrs, itab[i].ref, p)
    BY <1>6, <2>1 DEF Same, Holds
  <2>3. from.type \in Types /\ from.nlink \in Int /\ from.addrs \in SUBSET Blocks
    BY <1>1, <1>6 DEF InodesOf, Same
  <2>4. c \in Copies
    BY <1>1, <1>7, <2>3 DEF Copies, Loaded
  <2> QED BY <2>2, <2>4
<1>9. t = [itab EXCEPT ![i] = c]
  BY <1>1 DEF ilock
<1> HIDE DEF c, t
<1>10. t \in [Inums -> Copies] /\ t[i] = c /\ \A j \in Inums : j # i => t[j] = itab[j]
  BY <1>1, <1>8, <1>9
<1> QED BY <1>8, <1>10 DEF t

LEMMA HeldIs ==
    ASSUME IInv, NEW p \in Procs, NEW i \in Inums, ps[p].puts = <<>>,
           Uses(ps[p], i) > Unread(ps[p], i), itab[i].lock = p
    PROVE  LET a == disk.inode[i] IN Holds(itab[i], a.type, a.nlink, a.addrs, itab[i].ref, p)
<1> DEFINE a == disk.inode[i]
<1>1. ps[p].freeing = "no" /\ Live(ps[p], i) = Uses(ps[p], i)
  BY AtIs
<1>2. ~Unlocking(i)
  <2> SUFFICES ASSUME NEW r \in Procs, ps[r].freeing = "unlock", Head(ps[r].puts) = i PROVE FALSE
    BY DEF Unlocking
  <2>1. itab[i].lock = r
    BY DEF IInv, LocksRight, Locks, PutLock
  <2> QED BY <1>1, <2>1
<1>3. itab[i].valid /\ Same(itab[i], a)
  BY <1>1, <1>2, FreshIs
<1>4. itab[i].valid \in BOOLEAN
  BY DEF IInv, InodesTypeOK, Copies
<1> QED BY <1>3, <1>4 DEF Holds, Same

\* u is t but for what it holds of i.
Written(u, t, i, ty, nl, ad, rf, lk) ==
    u \in [Inums -> Copies] /\ (\A j \in Inums : j # i => u[j] = t[j]) /\ Holds(u[i], ty, nl, ad, rf, lk)

LEMMA LinkedIs ==
    ASSUME NEW t \in [Inums -> Copies], NEW i \in Inums, NEW n \in Int,
           NEW ty, NEW nl, NEW ad, NEW rf, NEW lk, Holds(t[i], ty, nl, ad, rf, lk)
    PROVE  Written(Linked(t, i, n), t, i, ty, nl + n, ad, rf, lk)
<1> DEFINE m == t[i].nlink + n  c == [t[i] EXCEPT !.nlink = m]
<1>1. t[i] \in Copies /\ m \in Int
  <2>1. t[i] \in Copies
    OBVIOUS
  <2> QED BY <2>1 DEF Copies
<1>2. Linked(t, i, n) = [t EXCEPT ![i] = c]
  BY DEF Linked
<1>3. m = nl + n
  BY DEF Holds
<1> HIDE DEF m
<1>4. c \in Copies /\ Holds(c, ty, m, ad, rf, lk)
  BY <1>1 DEF Copies, Holds
<1> HIDE DEF c
<1> QED BY <1>2, <1>3, <1>4 DEF Written

LEMMA OpenIs ==
    ASSUME NEW t \in [Inums -> Copies], NEW i \in Inums,
           NEW ty, NEW nl, NEW ad, NEW rf, NEW lk, Holds(t[i], ty, nl, ad, rf, lk)
    PROVE  Written(iunlock(t, i), t, i, ty, nl, ad, rf, 0)
<1> DEFINE c == [t[i] EXCEPT !.lock = 0]
<1>1. c \in Copies /\ Holds(c, ty, nl, ad, rf, 0)
  BY DEF Copies, Holds
<1>2. iunlock(t, i) = [t EXCEPT ![i] = c]
  BY DEF iunlock
<1> HIDE DEF c
<1> QED BY <1>1, <1>2 DEF Written

LEMMA GrownIs ==
    ASSUME NEW t \in [Inums -> Copies], NEW i \in Inums, NEW B \in SUBSET Blocks,
           NEW ty, NEW nl, NEW ad, NEW rf, NEW lk, Holds(t[i], ty, nl, ad, rf, lk)
    PROVE  Written([t EXCEPT ![i].addrs = B], t, i, ty, nl, B, rf, lk)
<1> DEFINE c == [t[i] EXCEPT !.addrs = B]
<1>1. c \in Copies /\ Holds(c, ty, nl, B, rf, lk)
  BY DEF Copies, Holds
<1>2. [t EXCEPT ![i].addrs = B] = [t EXCEPT ![i] = c]
  OBVIOUS
<1> HIDE DEF c
<1> QED BY <1>1, <1>2 DEF Written

\* fs is d but for the inode i.
Updated(fs, d, i, ty, nl, ad) ==
    /\ fs \in Disks /\ fs.ents = d.ents /\ fs.used = d.used /\ fs.lost = d.lost
    /\ \A j \in Inums : j # i => fs.inode[j] = d.inode[j]
    /\ fs.inode[i].type = ty /\ fs.inode[i].nlink = nl /\ fs.inode[i].addrs = ad

LEMMA UpdateIs ==
    ASSUME NEW d \in Disks, NEW t \in [Inums -> Copies], NEW i \in Inums,
           NEW ty, NEW nl, NEW ad, NEW rf, NEW lk, Holds(t[i], ty, nl, ad, rf, lk)
    PROVE  Updated(iupdate(d, t, i), d, i, ty, nl, ad)
<1> DEFINE c == [type |-> t[i].type, nlink |-> t[i].nlink, addrs |-> t[i].addrs]
<1>1. c \in InodesOf /\ c.type = ty /\ c.nlink = nl /\ c.addrs = ad
  BY DEF Copies, InodesOf, Holds
<1>2. iupdate(d, t, i) = [d EXCEPT !.inode[i] = c]
  BY DEF iupdate
<1> HIDE DEF c
<1>3. d.inode \in [Inums -> InodesOf]
  BY DEF Disks
<1>4. iupdate(d, t, i) = [d EXCEPT !.inode = [d.inode EXCEPT ![i] = c]]
  BY <1>2 DEF Disks
<1>5. [d.inode EXCEPT ![i] = c] \in [Inums -> InodesOf]
  BY <1>1, <1>3
<1> DEFINE N == [d.inode EXCEPT ![i] = c]
<1>6. \A j \in Inums : N[j] = IF j = i THEN c ELSE d.inode[j]
  BY <1>3
<1> HIDE DEF N
<1>7. /\ iupdate(d, t, i) \in Disks /\ iupdate(d, t, i).inode = N
      /\ iupdate(d, t, i).ents = d.ents /\ iupdate(d, t, i).used = d.used /\ iupdate(d, t, i).lost = d.lost
  BY <1>4, <1>5 DEF Disks, N
<1> QED BY <1>1, <1>6, <1>7 DEF Updated

\* A step of a process that puts nothing, in the middle of a transaction.
LEMMA WriteKeeps ==
    ASSUME IInv, NEW p \in Procs, NEW Q \in States, ps' = [ps EXCEPT ![p] = Q],
           ps[p].puts = <<>>, ps[p].pc # "idle", ps[p].pc = "made" => itab[ps[p].ip].lock = 0,
           StepRight(Q), Q.freeing = "no", Q.pc \notin {"idle", "made", "child"}, Keep,
           itab' \in [Inums -> Copies], disk' \in Disks,
           \A j \in Inums : itab'[j].ref = itab[j].ref + Uses(Q, j) - Uses(ps[p], j),
           \A j \in Inums : Uses(Q, j) - Uses(ps[p], j) \in {0, 1},
           \A j \in Inums : LockStep(p, Q, j),
           \A j \in Inums : CopyStep(p, j),
           \A j \in Inums : DiskStep(p, j),
           LinksRight(disk', Owed'), BlocksRight(disk'),
           \A j \in Inums : Uses(Q, j) > Uses(ps[p], j) => disk.inode[j].nlink # 0,
           \A j \in Inums : Uses(Q, j) > Unread(Q, j) =>
                               itab'[j].valid \/ Uses(ps[p], j) > Unread(ps[p], j),
           Q.new /\ Q.pc \in {"walk", "dir"} => disk'.inode[Q.ip].type = "file"
    PROVE  IInv'
<1>1. /\ ps[p] \in States /\ ps[p].freeing = "no" /\ p \in inop
      /\ \A j \in Inums : Live(ps[p], j) = Uses(ps[p], j) /\ Uses(ps[p], j) \in 0..6 /\ Unread(ps[p], j) \in Nat
  BY AtIs
<1>2. \A j \in Inums : Live(Q, j) = Uses(Q, j) /\ Uses(Q, j) \in 0..6
  <2>1. \A j \in Inums : Uses(Q, j) \in 0..6 /\ Live(Q, j) = Uses(Q, j) - I(FALSE)
    BY UsesType
  <2> QED BY <2>1 DEF I
<1>3. /\ home \in Disks /\ inop \subseteq Procs /\ \A j \in Inums : itab[j].ref \in Nat /\ itab'[j].ref \in Nat
  BY DEF IInv, InodesTypeOK, Copies
<1>4. TreesRight'
  <2>1. LinksRight(home, Nothing) /\ BlocksRight(home) /\ home' = home
    BY DEF IInv, TreesRight, Keep
  <2>2. LinksRight(home, Nothing)' /\ BlocksRight(home)'
    BY <2>1 DEF LinksRight, BlocksRight, LinkCount, Named, Kids, Nothing
  <2>3. LinksRight(disk, Owed)' /\ BlocksRight(disk)'
    BY DEF LinksRight, BlocksRight, LinkCount, Named, Kids
  <2> QED BY <2>2, <2>3 DEF TreesRight
<1>5. ASSUME NEW j \in Inums, disk'.inode[j].type # "none", disk'.inode[j].nlink = 0, itab'[j].ref = 0
      PROVE  j \in orphans
  <2>1. itab[j].ref = 0
    <3> DEFINE a == itab[j].ref  b == itab'[j].ref  x == Uses(Q, j)  y == Uses(ps[p], j)
    <3>1. a \in Nat /\ b = a + x - y /\ x \in 0..6 /\ y \in 0..6 /\ x - y \in {0, 1} /\ b = 0
      BY <1>1, <1>2, <1>3, <1>5
    <3> HIDE DEF a, b, x, y
    <3>2. a = 0
      BY <3>1
    <3> QED BY <3>2 DEF a
  <2>2. ~(Live(ps[p], j) > 0)
    <3>1. Uses(ps[p], j) <= itab[j].ref
      BY Counted
    <3> QED BY <1>1, <2>1, <3>1
  <2>3. disk'.inode[j] = disk.inode[j]
    BY <2>2 DEF DiskStep
  <2> QED BY <1>5, <2>1, <2>3 DEF IInv, NoneStranded, Allocated
<1>6. /\ Q.pc # "idle" => p \in inop'
      /\ inop' \subseteq Procs /\ inop \ {p} \subseteq inop' /\ home' \in Disks /\ UNCHANGED <<orphans, crashes>>
      /\ ps[p].freeing \in {"no", "drop"} /\ Q.freeing \in {"no", "trunc"} /\ Q.freeing # "trunc"
      /\ Q.pc # "made" /\ Q.pc # "child"
  BY <1>1, <1>3 DEF Keep
<1>7. \A j \in Inums : /\ itab'[j].ref = itab[j].ref + Uses(Q, j) - Uses(ps[p], j)
                       /\ Uses(Q, j) - Uses(ps[p], j) \in {-1, 0, 1}
  OBVIOUS
<1>8. \A j \in Inums : Live(Q, j) > Live(ps[p], j) => disk.inode[j].nlink # 0
  BY <1>1, <1>2
<1>9. \A j \in Inums : Live(Q, j) > Unread(Q, j) => itab'[j].valid \/ Live(ps[p], j) > Unread(ps[p], j)
  BY <1>1, <1>2
<1>10. \A j \in Inums : LockStep(p, Q, j) /\ CopyStep(p, j) /\ DiskStep(p, j)
  OBVIOUS
<1> QED BY <1>4, <1>5, <1>6, <1>7, <1>8, <1>9, <1>10, StepKeeps, ZenonT(60)

=============================================================================
