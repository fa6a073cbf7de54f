------------------------------- MODULE Inodes -------------------------------
(***************************************************************************)
(* Inodes, directories and their in-memory table (fs.c, sysfile.c), with   *)
(* the system calls of several processes interleaved between their lock    *)
(* operations.  What a process does under one sleep lock is one step,      *)
(* unless it takes a second lock meanwhile; iput() is four.                *)
(*                                                                         *)
(* disk is what the buffer cache shows; home is what a crash leaves.  A    *)
(* transaction group commits when no call is under way (see Log).  Paths   *)
(* are absolute and have neither "." nor "..".                             *)
(***************************************************************************)
EXTENDS Integers, Sequences, FiniteSets, FiniteSetsExt, SequencesExt

CONSTANTS Procs,        \* processes
          Inums,        \* inode numbers 1, 2, ...
          Blocks,       \* data blocks 1, 2, ...
          Names,        \* what a path is made of
          Jobs,         \* the calls of each process, one after the other
          MaxCrashes    \* how often the power fails

Paths == Seq(Names) \ {<<>>}
Calls == [do : {"create", "mkdir", "unlink", "open"}, path : Paths]
         \cup [do : {"link"}, path : Paths, to : Paths] \cup [do : {"close", "write"}]

ASSUME InodesAssumption ==
    /\ IsFiniteSet(Procs) /\ 0 \notin Procs
    /\ IsFiniteSet(Inums) /\ Inums \subseteq Nat \ {0} /\ {1, 2, 3} \subseteq Inums
    /\ IsFiniteSet(Names) /\ {"a", "d"} \subseteq Names
    /\ Blocks \subseteq Nat /\ {1, 2} \subseteq Blocks
    /\ Jobs \subseteq [Procs -> Seq(Calls)] /\ MaxCrashes \in Nat

VARIABLES
    disk,       \* inodes, used blocks, and a history of what was lost
    home,       \* as of the last commit
    itab,       \* the in-memory inodes
    inop,       \* processes between begin_op() and end_op()
    ps,         \* what each process is doing
    orphans,    \* history: inodes that iput() or a crash left behind
    crashes

vars == <<disk, home, itab, inop, ps, orphans, crashes>>

ROOTINO == 1
NoEntries == [n \in Names |-> 0]
FreeInode == [type |-> "none", nlink |-> 0, addrs |-> {}]
NoCopy == [type |-> "none", nlink |-> 0, addrs |-> {}, ref |-> 0, valid |-> FALSE, lock |-> 0]
Idle(jobs) == [pc |-> "idle", jobs |-> jobs, op |-> <<>>, path |-> <<>>, cur |-> 0, ip |-> 0, dp |-> 0,
               puts |-> <<>>, freeing |-> "no", new |-> FALSE, fd |-> 0]

\* After mkfs: the root with a directory d and a file a.
Fresh == [inode |-> [i \in Inums |->
              CASE i = 1 -> [type |-> "dir", nlink |-> 2, addrs |-> {1}]
                [] i = 2 -> [type |-> "dir", nlink |-> 1, addrs |-> {2}]
                [] i = 3 -> [type |-> "file", nlink |-> 1, addrs |-> {}]
                [] OTHER -> FreeInode],
          ents |-> [i \in Inums |-> IF i = 1 THEN [NoEntries EXCEPT !["d"] = 2, !["a"] = 3] ELSE NoEntries],
          used |-> {1, 2},
          lost |-> [i \in Inums |-> 0]]

Init == /\ disk = Fresh
        /\ home = Fresh
        /\ itab = [i \in Inums |-> NoCopy]
        /\ inop = {}
        /\ \E jobs \in Jobs : ps = [p \in Procs |-> Idle(jobs[p])]
        /\ orphans = {}
        /\ crashes = 0

---------------------------------------------------------------------------
(* Inodes in memory and on disk.                                           *)

iget(t, i) == IF t[i].ref > 0 THEN [t EXCEPT ![i].ref = @ + 1]
              ELSE [t EXCEPT ![i].ref = 1, ![i].valid = FALSE]

CanLock(i) == itab[i].lock = 0
Loaded(copy, from) == [copy EXCEPT !.type = from.type, !.nlink = from.nlink, !.addrs = from.addrs]
\* ilock(): the table with i locked by p, read from d if it is not valid.
ilock(t, d, i, p) == [t EXCEPT ![i] = [Loaded(@, IF @.valid THEN @ ELSE d.inode[i]) EXCEPT !.valid = TRUE, !.lock = p]]
iunlock(t, i) == [t EXCEPT ![i].lock = 0]
iupdate(d, t, i) == [d EXCEPT !.inode[i] = [type |-> t[i].type, nlink |-> t[i].nlink, addrs |-> t[i].addrs]]

Linked(t, i, n) == [t EXCEPT ![i].nlink = @ + n]
FreeInums(d) == {i \in Inums : d.inode[i].type = "none"}
FreeBlocks(d) == Blocks \ d.used
balloc(d) == [d EXCEPT !.used = @ \cup {Min(FreeBlocks(d))}]

Bug_itrunc_KeepsBlocks(d, t, i) ==
    [d EXCEPT !.inode[i] = FreeInode, !.ents[i] = NoEntries,
              !.lost = [j \in Inums |-> @[j] + Cardinality({n \in Names : d.ents[i][n] = j})]]

\* What becomes of an inode that iput() frees, and of the links to others
\* that a directory which is not empty still holds.
itrunc(d, t, i) ==
    [d EXCEPT !.used = @ \ t[i].addrs,
              !.inode[i] = FreeInode,
              !.ents[i] = NoEntries,
              !.lost = [j \in Inums |-> @[j] + Cardinality({n \in Names : d.ents[i][n] = j})]]

---------------------------------------------------------------------------
(* Processes.                                                              *)

Me(p) == ps[p]
At(p, pc) == Me(p).pc = pc /\ Me(p).puts = <<>>
Goto(p, pc) == [Me(p) EXCEPT !.pc = pc]
\* Put the inodes of is, one after the other, and go on at pc.
PutThen(p, is, pc) == [Me(p) EXCEPT !.puts = is, !.pc = pc]
Becomes(p, q) == ps' = [ps EXCEPT ![p] = q]
Keep == UNCHANGED <<home, inop, orphans, crashes>>

Op(p) == Me(p).op
Last1(p) == Last(Me(p).path)
WantsParent(p) == Op(p).do \in {"create", "mkdir", "unlink"} \/ Me(p).new

begin_op(p) ==
    LET q == [Goto(p, "walk") EXCEPT !.op = Head(Me(p).jobs), !.jobs = Tail(@)]
    IN  /\ At(p, "idle") /\ Me(p).jobs # <<>>
        /\ inop' = inop \cup {p}
        /\ CASE q.op.do = "close" ->
                  itab' = itab /\ Becomes(p, [q EXCEPT !.pc = "end", !.fd = 0,
                                                     !.puts = IF q.fd = 0 THEN <<>> ELSE <<q.fd>>])
             [] q.op.do = "write" ->
                  itab' = itab /\ Becomes(p, [q EXCEPT !.pc = IF q.fd = 0 THEN "end" ELSE "write"])
             [] OTHER ->
                  itab' = iget(itab, ROOTINO) /\ Becomes(p, [q EXCEPT !.cur = ROOTINO, !.path = q.op.path])
        /\ UNCHANGED <<disk, home, orphans, crashes>>

end_op(p) == /\ At(p, "end")
             /\ inop' = inop \ {p}
             /\ home' = IF inop = {p} THEN disk ELSE home
             /\ Becomes(p, [Idle(Me(p).jobs) EXCEPT !.fd = Me(p).fd])
             /\ UNCHANGED <<disk, itab, orphans, crashes>>

\* namex(), one element; a failed lookup in link()'s second path undoes the link.
Walk(p) ==
    LET q == Me(p)
        i == q.cur
        t == ilock(itab, disk, i, p)
        next == disk.ents[i][Head(q.path)]
        no == PutThen(p, <<i>>, IF q.new THEN "undo" ELSE "end")
    IN  /\ At(p, "walk") /\ CanLock(i)
        /\ UNCHANGED disk /\ Keep
        /\ CASE t[i].type # "dir" -> itab' = iunlock(t, i) /\ Becomes(p, no)
             [] t[i].type = "dir" /\ WantsParent(p) /\ Len(q.path) = 1 ->
                  itab' = iunlock(t, i) /\ Becomes(p, [q EXCEPT !.pc = "dir", !.dp = i])
             [] OTHER ->
                  IF next = 0 THEN itab' = iunlock(t, i) /\ Becomes(p, no)
                  ELSE /\ itab' = iunlock(iget(t, next), i)
                       /\ Becomes(p, IF Len(q.path) = 1
                                     THEN [PutThen(p, <<i>>, "found") EXCEPT !.ip = next]
                                     ELSE [PutThen(p, <<i>>, "walk") EXCEPT !.cur = next, !.path = Tail(@)])

---------------------------------------------------------------------------
(* iput().                                                                 *)

Putting(p, step) == Me(p).puts # <<>> /\ Me(p).freeing = step
Bug_MustFree_AnyRef(i) == itab[i].valid /\ itab[i].nlink = 0
Bug_MustFree_OffByOne(i) == itab[i].ref = 0 /\ itab[i].valid /\ itab[i].nlink = 0
\* No links and no other references.
MustFree(i) == itab[i].ref = 1 /\ itab[i].valid /\ itab[i].nlink = 0

iput(p) ==
    LET i == Head(Me(p).puts)
    IN  /\ Putting(p, "no")
        /\ IF MustFree(i)
           THEN /\ CanLock(i)
                /\ itab' = [itab EXCEPT ![i].lock = p]
                /\ Becomes(p, [Me(p) EXCEPT !.freeing = "trunc"])
           ELSE /\ itab' = [itab EXCEPT ![i].ref = @ - 1]
                /\ Becomes(p, [Me(p) EXCEPT !.puts = Tail(@)])
        /\ UNCHANGED disk /\ Keep

iput_free(p) ==
    LET i == Head(Me(p).puts)
    IN  /\ Putting(p, "trunc")
        /\ disk' = itrunc(disk, itab, i)
        /\ itab' = [itab EXCEPT ![i] = Loaded(@, FreeInode)]
        /\ Becomes(p, [Me(p) EXCEPT !.freeing = "unlock"])
        /\ Keep

Bug_iput_unlock_KeepsValid(p) ==
    LET i == Head(Me(p).puts)
    IN  /\ Putting(p, "unlock")
        /\ itab' = [itab EXCEPT ![i].lock = 0]
        /\ Becomes(p, [Me(p) EXCEPT !.freeing = "drop"])
        /\ UNCHANGED disk /\ Keep

iput_unlock(p) ==
    LET i == Head(Me(p).puts)
    IN  /\ Putting(p, "unlock")
        /\ itab' = [itab EXCEPT ![i].valid = FALSE, ![i].lock = 0]
        /\ Becomes(p, [Me(p) EXCEPT !.freeing = "drop"])
        /\ UNCHANGED disk /\ Keep

iput_drop(p) ==
    LET i == Head(Me(p).puts)
    IN  /\ Putting(p, "drop")
        /\ itab' = [itab EXCEPT ![i].ref = @ - 1]
        /\ Becomes(p, [Me(p) EXCEPT !.freeing = "no", !.puts = Tail(@)])
        /\ UNCHANGED disk /\ Keep

---------------------------------------------------------------------------
(* create(), open() and mkdir().                                           *)

Type(p) == IF Op(p).do = "mkdir" THEN "dir" ELSE "file"

\* With dp locked: the name is there, or there is no inode, or ialloc() claims one.
create(p) ==
    LET dp == Me(p).dp
        t == ilock(itab, disk, dp, p)
        ip == disk.ents[dp][Last1(p)]
        new == Min(FreeInums(disk))
    IN  /\ At(p, "dir") /\ Op(p).do \in {"create", "mkdir"} /\ CanLock(dp)
        /\ UNCHANGED <<home, inop, crashes>>
        /\ \/ /\ ip # 0
              /\ itab' = iunlock(iget(t, ip), dp)
              /\ Becomes(p, [PutThen(p, <<dp>>, "exists") EXCEPT !.ip = ip])
              /\ UNCHANGED <<disk, orphans>>
           \/ /\ ip = 0 /\ FreeInums(disk) = {}
              /\ itab' = iunlock(t, dp)
              /\ Becomes(p, PutThen(p, <<dp>>, "end"))
              /\ UNCHANGED <<disk, orphans>>
           \/ /\ ip = 0 /\ FreeInums(disk) # {}
              /\ disk' = [disk EXCEPT !.inode[new].type = Type(p)]
              /\ itab' = iget(t, new)
              /\ orphans' = IF itab[new].ref > 0 THEN orphans \cup {new} ELSE orphans \ {new}
              /\ Becomes(p, [Goto(p, "made") EXCEPT !.ip = new])

\* The file exists.
create_open(p) ==
    LET ip == Me(p).ip
        t == ilock(itab, disk, ip, p)
        opens == Type(p) = "file" /\ t[ip].type = "file"
    IN  /\ At(p, "exists") /\ CanLock(ip)
        /\ itab' = iunlock(t, ip)
        /\ Becomes(p, IF opens /\ Me(p).fd = 0 THEN [Goto(p, "end") EXCEPT !.fd = ip]
                                               ELSE PutThen(p, <<ip>>, "end"))
        /\ UNCHANGED disk /\ Keep

\* The new inode gets its links; a directory without a block for its entries
\* is given up.
create_link(p) ==
    LET q == Me(p)
        t == Linked(ilock(itab, disk, q.ip, p), q.ip, 1)
        dir == Type(p) = "dir"
        b == balloc(disk)
        t2 == IF dir THEN Linked([t EXCEPT ![q.ip].addrs = b.used \ disk.used], q.dp, 1) ELSE t
        d == [(IF dir THEN b ELSE disk) EXCEPT !.ents[q.dp][Last1(p)] = q.ip]
    IN  /\ At(p, "made") /\ CanLock(q.ip)
        /\ IF dir /\ FreeBlocks(disk) = {}
           THEN /\ disk' = iupdate(disk, Linked(t, q.ip, -1), q.ip)
                /\ itab' = iunlock(Linked(t, q.ip, -1), q.ip)
                /\ Becomes(p, PutThen(p, <<q.ip>>, "fail"))
           ELSE /\ disk' = iupdate(iupdate(d, t2, q.ip), t2, q.dp)
                /\ itab' = iunlock(t2, q.dp)
                /\ Becomes(p, PutThen(p, <<q.dp>>, "made2"))
        /\ Keep

\* open() keeps the inode, mkdir() puts it.
created(p) ==
    LET ip == Me(p).ip
    IN  /\ At(p, "made2")
        /\ itab' = iunlock(itab, ip)
        /\ Becomes(p, IF Op(p).do = "create" /\ Me(p).fd = 0 THEN [Goto(p, "end") EXCEPT !.fd = ip]
                                                              ELSE PutThen(p, <<ip>>, "end"))
        /\ UNCHANGED disk /\ Keep

\* The end of a call that failed with dp locked.
unlock_dp(p) == /\ At(p, "fail")
                /\ itab' = iunlock(itab, Me(p).dp)
                /\ Becomes(p, PutThen(p, <<Me(p).dp>>, "end"))
                /\ UNCHANGED disk /\ Keep

---------------------------------------------------------------------------
(* unlink() and link().                                                    *)

unlink(p) ==
    LET dp == Me(p).dp
        t == ilock(itab, disk, dp, p)
        ip == disk.ents[dp][Last1(p)]
    IN  /\ At(p, "dir") /\ Op(p).do = "unlink" /\ CanLock(dp)
        /\ IF ip = 0 THEN itab' = iunlock(t, dp) /\ Becomes(p, PutThen(p, <<dp>>, "end"))
           ELSE itab' = iget(t, ip) /\ Becomes(p, [Goto(p, "child") EXCEPT !.ip = ip])
        /\ UNCHANGED disk /\ Keep

isdirempty(i) == \A n \in Names : disk.ents[i][n] = 0

unlink_entry(p) ==
    LET q == Me(p)
        t == ilock(itab, disk, q.ip, p)
        dir == t[q.ip].type = "dir"
        t2 == IF dir THEN Linked(t, q.dp, -1) ELSE t
    IN  /\ At(p, "child") /\ CanLock(q.ip)
        /\ IF dir /\ ~isdirempty(q.ip)
           THEN /\ itab' = iunlock(t, q.ip)
                /\ Becomes(p, PutThen(p, <<q.ip>>, "fail"))
                /\ UNCHANGED disk
           ELSE /\ disk' = iupdate([disk EXCEPT !.ents[q.dp][Last1(p)] = 0], t2, q.dp)
                /\ itab' = iunlock(t2, q.dp)
                /\ Becomes(p, PutThen(p, <<q.dp>>, "drop"))
        /\ Keep

\* One link less: the end of unlink() with ip locked, and of a link() that fails.
unlink_drop(p) ==
    LET ip == Me(p).ip
        t == Linked(ilock(itab, disk, ip, p), ip, -1)
    IN  /\ At(p, "drop") \/ (At(p, "undo") /\ CanLock(ip))
        /\ disk' = iupdate(disk, t, ip)
        /\ itab' = iunlock(t, ip)
        /\ Becomes(p, PutThen(p, <<ip>>, "end"))
        /\ Keep

\* namei() has found the inode: open() without O_CREATE and the old name of link().
Found(p) ==
    LET ip == Me(p).ip
        t == ilock(itab, disk, ip, p)
        t2 == Linked(t, ip, 1)
        keeps == Op(p).do = "open" /\ Me(p).fd = 0
        links == Op(p).do = "link" /\ t[ip].type # "dir"
    IN  /\ At(p, "found") /\ CanLock(ip)
        /\ disk' = IF links THEN iupdate(disk, t2, ip) ELSE disk
        /\ itab' = IF links THEN iget(iunlock(t2, ip), ROOTINO) ELSE iunlock(t, ip)
        /\ Becomes(p, CASE keeps -> [Goto(p, "end") EXCEPT !.fd = ip]
                        [] links -> [Goto(p, "walk") EXCEPT !.cur = ROOTINO, !.path = Op(p).to, !.new = TRUE]
                        [] OTHER -> PutThen(p, <<ip>>, "end"))
        /\ Keep

link(p) ==
    LET q == Me(p)
        t == iunlock(ilock(itab, disk, q.dp, p), q.dp)
        there == disk.ents[q.dp][Last1(p)] # 0
    IN  /\ At(p, "dir") /\ q.new /\ CanLock(q.dp)
        /\ itab' = t
        /\ disk' = IF there THEN disk ELSE [disk EXCEPT !.ents[q.dp][Last1(p)] = q.ip]
        /\ Becomes(p, IF there THEN PutThen(p, <<q.dp>>, "undo") ELSE PutThen(p, <<q.dp, q.ip>>, "end"))
        /\ Keep

\* writei() of one block more, if there is one.
write(p) ==
    LET i == Me(p).fd
        t == ilock(itab, disk, i, p)
        b == balloc(disk)
        grows == FreeBlocks(disk) # {} /\ t[i].type = "file"
        t2 == IF grows THEN [t EXCEPT ![i].addrs = @ \cup (b.used \ disk.used)] ELSE t
    IN  /\ At(p, "write") /\ CanLock(i)
        /\ disk' = iupdate(IF grows THEN b ELSE disk, t2, i)
        /\ itab' = iunlock(t2, i)
        /\ Becomes(p, Goto(p, "end"))
        /\ Keep

---------------------------------------------------------------------------
\* The power fails: what was committed remains, and the processes start anew.
Crash == /\ crashes < MaxCrashes
         /\ crashes' = crashes + 1
         /\ disk' = home /\ home' = home
         /\ itab' = [i \in Inums |-> NoCopy]
         /\ inop' = {}
         /\ ps' = [p \in Procs |-> Idle(ps[p].jobs)]
         /\ orphans' = {i \in Inums : home.inode[i].type # "none" /\ home.inode[i].nlink = 0}

Step(p) == \/ begin_op(p) \/ end_op(p) \/ Walk(p)
           \/ iput(p) \/ iput_free(p) \/ iput_unlock(p) \/ iput_drop(p)
           \/ create(p) \/ create_open(p) \/ create_link(p) \/ created(p) \/ unlock_dp(p)
           \/ unlink(p) \/ unlink_entry(p) \/ unlink_drop(p) \/ Found(p) \/ link(p) \/ write(p)
Done == /\ \A p \in Procs : Me(p).pc = "idle" /\ Me(p).jobs = <<>>
        /\ UNCHANGED vars
Next == (\E p \in Procs : Step(p)) \/ Crash \/ Done
Spec == Init /\ [][Next]_vars

---------------------------------------------------------------------------
Allocated(d) == {i \in Inums : d.inode[i].type # "none"}
Entries(d, i) == {e \in Allocated(d) \X Names : d.ents[e[1]][e[2]] = i}
Subdirs(d, i) == {e \in Names : d.ents[i][e] \in Allocated(d) /\ d.inode[d.ents[i][e]].type = "dir"}
Owners(d, b) == {i \in Inums : b \in d.inode[i].addrs}
Consistent(d) ==
    /\ \A dp \in Inums, n \in Names : d.ents[dp][n] # 0 => d.ents[dp][n] \in Allocated(d)
    /\ \A i \in Allocated(d) :
          d.inode[i].nlink = Cardinality(Entries(d, i)) + Cardinality(Subdirs(d, i)) + d.lost[i]
                             + (IF i = ROOTINO THEN 1 ELSE 0)
    /\ \A b \in Blocks : Cardinality(Owners(d, b)) = IF b \in d.used THEN 1 ELSE 0

\* What a crash leaves is a consistent file system: entries name inodes that
\* are allocated, links are counted (those of a directory that was removed
\* with entries in it are counted as lost), every used block has one owner.
TreeSound == Consistent(home)

\* "ip->ref == 1 means no other process can have ip locked, so this
\* acquiresleep() won't block" (fs.c:344), with itable.lock held.
PutNeverBlocks == \A p \in Procs : Putting(p, "no") /\ MustFree(Head(Me(p).puts)) => CanLock(Head(Me(p).puts))

\* An unlocked copy in memory is what the disk has, and no process is about
\* to lock an inode that has been freed (the panic of ilock()).
CopiesFresh ==
    /\ \A i \in Inums : itab[i].ref > 0 /\ itab[i].valid /\ itab[i].lock = 0 =>
          /\ itab[i].type = disk.inode[i].type /\ itab[i].nlink = disk.inode[i].nlink
          /\ itab[i].addrs = disk.inode[i].addrs
    /\ \A p \in Procs : At(p, "found") \/ At(p, "child") \/ At(p, "exists") \/ At(p, "undo") =>
          disk.inode[Me(p).ip].type # "none"

\* An inode without links goes when its last reference does, except those
\* that a crash or an overtaken iput() left behind.
NoneStranded == \A i \in Allocated(disk) : disk.inode[i].nlink = 0 /\ itab[i].ref = 0 => i \in orphans

\* "If that was the last reference and the inode has no links to it, free the
\* inode" (fs.c:332).
LastPutFrees == \A i \in Allocated(disk) : disk.inode[i].nlink = 0 => itab[i].ref > 0
=============================================================================
