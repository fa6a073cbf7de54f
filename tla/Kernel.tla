------------------------------ MODULE Kernel ------------------------------
(***************************************************************************)
(* The system calls of the xv6 kernel, one whole call at a time: files,    *)
(* directories, inodes and blocks (fs.c, file.c, sysfile.c), memory as far *)
(* as pages are counted (vm.c, kalloc.c), exec.c and the process table.    *)
(* Every operator maps a kernel state k to the state the C function of the *)
(* same name leaves; its return value is k.r.  What happens between the    *)
(* locks inside a call is the subject of Proc, Inodes, Pipe, BufCache and  *)
(* Log.                                                                    *)
(*                                                                         *)
(* Sizes are counted in units: a unit of a file is one token, of a         *)
(* directory one entry, of memory one address.                             *)
(***************************************************************************)
EXTENDS Integers, Sequences, FiniteSets, FiniteSetsExt, SequencesExt, TLC

CONSTANTS
    NPROC, NOFILE, NFILE, NINODE,   \* sizes of the kernel's tables
    NINUM, NBLOCK,                  \* inodes and data blocks of the disk
    BSIZE, NDIRECT, NINDIRECT,      \* units per block, blocks per file
    DIRSIZ, MAXPATH, MAXOPBLOCKS,   \* as in param.h and fs.h
    PIPESIZE, NPIPE,                \* capacity and number of pipes
    NPAGE, PGSIZE,                  \* free pages at boot, units per page
    TABLES,                         \* pages of a page table without user memory
    Image                           \* pages of a program without its stack

MAXFILE == NDIRECT + NINDIRECT
ROOTINO == 1
initproc == 1
Min2(a, b) == IF a < b THEN a ELSE b

Ret(k, v) == [k EXCEPT !.r = v]
Panic(k) == [k EXCEPT !.r = -1, !.panic = TRUE]

---------------------------------------------------------------------------
(* Memory: pages are counted, addresses are units of user memory.          *)

PGROUNDUP(sz) == ((sz + PGSIZE - 1) \div PGSIZE) * PGSIZE
Pages(sz) == PGROUNDUP(sz) \div PGSIZE

\* exec() forgets uvmclear().
Bug_walkaddr_NoGuard(q, a) == a \in 0 .. PGROUNDUP(q.sz) - 1
\* The guard page below the stack is mapped but not for the user.
walkaddr(q, a) == /\ a \in 0 .. PGROUNDUP(q.sz) - 1
                  /\ a \div PGSIZE # Image
\* How many of the n units at address a can be copied.
Mapped(q, a, n) == Min({j \in 0..n : j = n \/ ~walkaddr(q, a + j)})
\* The text segment is page 0; walkaddr() does not ask for PTE_W.
CanStore(q, a) == walkaddr(q, a) /\ a >= PGSIZE

\* copyinstr() of a string of s.len characters and a NUL.
argstr(k, p, s) == /\ s.len < MAXPATH
                   /\ Mapped(k.proc[p], s.ptr, s.len + 1) = s.len + 1

uvmalloc(k, oldsz, newsz) ==
    LET need == Pages(newsz) - Pages(oldsz)
    IN  IF newsz < oldsz THEN Ret(k, oldsz)
        ELSE IF need > k.free THEN Ret(k, 0)
        ELSE [k EXCEPT !.free = @ - need, !.r = newsz]

\* newsz is unsigned: a negative one is larger than any oldsz.
uvmdealloc(k, oldsz, newsz) ==
    IF newsz < 0 \/ newsz >= oldsz THEN Ret(k, oldsz)
    ELSE [k EXCEPT !.free = @ + Pages(oldsz) - Pages(newsz), !.r = newsz]

Resized(k, p, sz) ==
    [k EXCEPT !.proc[p].sz = sz, !.proc[p].dirty = {g \in @ : g < Pages(sz)}]

sys_sbrk(k, p, n) ==
    LET sz == k.proc[p].sz
        g == IF n > 0 THEN uvmalloc(k, sz, sz + n) ELSE uvmdealloc(k, sz, sz + n)
    IN  IF n > 0 /\ g.r = 0 THEN Ret(k, -1)
        ELSE Ret(Resized(g, p, g.r), sz)

---------------------------------------------------------------------------
(* Blocks and inodes.                                                      *)

balloc(k) == IF k.blocks = 0 THEN Ret(k, 0)
             ELSE [k EXCEPT !.blocks = @ - 1, !.r = 1]

Adopt(b, i) == IF b.r = 0 THEN b ELSE [b EXCEPT !.inode[i].blocks = @ + 1]

\* Block bn of inode i; files have no holes, so bn is at most the next one.
bmap(k, i, bn) ==
    LET ip == k.inode[i]
        ind == IF ip.indirect THEN Ret(k, 1) ELSE balloc(k)
    IN  IF bn < ip.blocks THEN Ret(k, 1)
        ELSE IF bn < NDIRECT THEN Adopt(balloc(k), i)
        ELSE IF ind.r = 0 THEN ind
        ELSE Adopt(balloc([ind EXCEPT !.inode[i].indirect = TRUE]), i)

\* The block that holds the addresses of the others is not given back.
Bug_itrunc_NoIndirect(k, i) ==
    [k EXCEPT !.blocks = @ + k.inode[i].blocks,
              !.inode[i] = [@ EXCEPT !.blocks = 0, !.indirect = FALSE, !.data = <<>>]]
itrunc(k, i) ==
    LET ip == k.inode[i]
        back == ip.blocks + (IF ip.indirect THEN 1 ELSE 0)
    IN  [k EXCEPT !.blocks = @ + back,
                  !.inode[i] = [@ EXCEPT !.blocks = 0, !.indirect = FALSE, !.data = <<>>]]

InUse(k) == {i \in DOMAIN k.inode : k.inode[i].ref > 0}

iget(k, i) == IF i \notin InUse(k) /\ Cardinality(InUse(k)) = NINODE
              THEN Panic(k)
              ELSE [k EXCEPT !.inode[i].ref = @ + 1, !.r = i]
idup(k, i) == [k EXCEPT !.inode[i].ref = @ + 1, !.r = i]
ilock(k, i) == IF k.inode[i].type = "none" THEN Panic(k) ELSE k

iput(k, i) ==
    LET last == k.inode[i].ref = 1 /\ k.inode[i].nlink = 0
        f == IF last THEN [itrunc(k, i) EXCEPT !.inode[i].type = "none"] ELSE k
    IN  [f EXCEPT !.inode[i].ref = @ - 1]

ialloc(k, type) ==
    LET free == {i \in DOMAIN k.inode : k.inode[i].type = "none"}
        i == Min(free)
    IN  IF free = {} THEN Ret(k, 0)
        ELSE iget([k EXCEPT !.inode[i].type = type, !.inode[i].nlink = 0], i)

\* Units off+1 .. off+Len(s) of inode i become s.
Put(k, i, off, s) ==
    LET d == k.inode[i].data
    IN  [k EXCEPT !.inode[i].data = [j \in 1 .. Max({Len(d), off + Len(s)}) |->
             IF j \in off + 1 .. off + Len(s) THEN s[j - off] ELSE d[j]]]

\* good: how many units of s copyin() will find mapped.
RECURSIVE WriteBlocks(_, _, _, _, _, _)
WriteBlocks(k, i, off, s, good, tot) ==
    LET b == bmap(k, i, (off + tot) \div BSIZE)
        m == Min2(Len(s) - tot, BSIZE - ((off + tot) % BSIZE))
    IN  IF tot = Len(s) THEN Ret(k, tot)
        ELSE IF b.r = 0 \/ tot + m > good THEN Ret(b, tot)
        ELSE WriteBlocks(Put(b, i, off + tot, SubSeq(s, tot + 1, tot + m)),
                         i, off, s, good, tot + m)

writei(k, i, off, s, good) ==
    IF off > Len(k.inode[i].data) \/ off + Len(s) > MAXFILE * BSIZE THEN Ret(k, -1)
    ELSE WriteBlocks(k, i, off, s, good, 0)

\* Reads into k.buf; a bad address anywhere makes the whole read fail.
readi(k, i, off, n, good) ==
    LET d == k.inode[i].data
        m == Min2(n, Len(d) - off)
    IN  IF off > Len(d) THEN [k EXCEPT !.r = 0, !.buf = <<>>]
        ELSE IF m > good THEN Ret(k, -1)
        ELSE [k EXCEPT !.r = m, !.buf = SubSeq(d, off + 1, off + m)]

---------------------------------------------------------------------------
(* Directories and paths.  A path is a sequence of names, after "/" if it  *)
(* is absolute; skipelem() cuts a name to DIRSIZ characters.               *)

skipelem(name) == IF Len(name) > DIRSIZ THEN SubSeq(name, 1, DIRSIZ) ELSE name

Slots(k, d, name) == {s \in DOMAIN k.inode[d].data :
                         /\ k.inode[d].data[s].inum # 0
                         /\ k.inode[d].data[s].name = name}

dirlookup(k, d, name) ==
    IF Slots(k, d, name) = {} THEN Ret(k, 0)
    ELSE iget(k, k.inode[d].data[Min(Slots(k, d, name))].inum)

dirlink(k, d, name, inum) ==
    LET data == k.inode[d].data
        slot == Min({s \in DOMAIN data : data[s].inum = 0} \cup {Len(data) + 1})
        w == writei(k, d, slot - 1, <<[name |-> name, inum |-> inum]>>, 1)
    IN  IF Slots(k, d, name) # {} \/ w.r # 1 THEN Ret(k, -1) ELSE Ret(w, 0)

isdirempty(k, d) == \A s \in 3 .. Len(k.inode[d].data) : k.inode[d].data[s].inum = 0

RECURSIVE Walk(_, _, _, _)
Walk(k, ip, path, parent) ==
    LET a == ilock(k, ip)
        next == dirlookup(a, ip, skipelem(Head(path)))
    IN  IF path = <<>> THEN IF parent THEN Ret(iput(k, ip), 0) ELSE Ret(k, ip)
        ELSE IF a.inode[ip].type # "dir" THEN Ret(iput(a, ip), 0)
        ELSE IF parent /\ Len(path) = 1 THEN Ret(a, ip)
        ELSE IF next.r <= 0 THEN Ret(iput(next, ip), 0)
        ELSE Walk(iput(next, ip), next.r, Tail(path), parent)

namex(k, p, path, parent) ==
    IF path # <<>> /\ path[1] = "/"
    THEN Walk(iget(k, ROOTINO), ROOTINO, Tail(path), parent)
    ELSE Walk(idup(k, k.proc[p].cwd), k.proc[p].cwd, path, parent)

namei(k, p, path) == namex(k, p, path, FALSE)
nameiparent(k, p, path) == namex(k, p, path, TRUE)
Name(path) == skipelem(Last(path))

---------------------------------------------------------------------------
(* Files, descriptors and pipes.  Slot 0 stands for no file.               *)

NoFile == [ref |-> 0, type |-> "none", readable |-> FALSE, writable |-> FALSE,
           off |-> 0, ip |-> 0, pipe |-> 0]

filealloc(k) ==
    LET free == {f \in DOMAIN k.file : k.file[f].ref = 0}
    IN  IF free = {} THEN Ret(k, 0)
        ELSE [k EXCEPT !.file[Min(free)].ref = 1, !.r = Min(free)]

filedup(k, f) == IF k.file[f].ref < 1 THEN Panic(k) ELSE [k EXCEPT !.file[f].ref = @ + 1]

pipeclose(k, i, writable) ==
    LET c == IF writable THEN [k EXCEPT !.pipe[i].writeopen = FALSE]
                         ELSE [k EXCEPT !.pipe[i].readopen = FALSE]
        gone == ~c.pipe[i].writeopen /\ ~c.pipe[i].readopen
    IN  IF gone THEN [c EXCEPT !.pipe[i].used = FALSE, !.pipe[i].data = <<>>, !.free = @ + 1]
        ELSE c

\* The last close does not put the inode.
Bug_fileclose_NoPut(k, f) ==
    LET ff == k.file[f]
        c == [k EXCEPT !.file[f] = NoFile]
    IN  IF ff.ref < 1 THEN Panic(k)
        ELSE IF ff.ref > 1 THEN [k EXCEPT !.file[f].ref = @ - 1]
        ELSE IF ff.type = "pipe" THEN pipeclose(c, ff.pipe, ff.writable) ELSE c
fileclose(k, f) ==
    LET ff == k.file[f]
        c == [k EXCEPT !.file[f] = NoFile]
    IN  IF ff.ref < 1 THEN Panic(k)
        ELSE IF ff.ref > 1 THEN [k EXCEPT !.file[f].ref = @ - 1]
        ELSE IF ff.type = "pipe" THEN pipeclose(c, ff.pipe, ff.writable)
        ELSE IF ff.type = "none" THEN c
        ELSE iput(c, ff.ip)

pipealloc(k) ==
    LET free == {i \in DOMAIN k.pipe : ~k.pipe[i].used}
        i == Min(free)
        rf == filealloc(k)
        wf == filealloc(rf)
        new == [NoFile EXCEPT !.ref = 1, !.type = "pipe", !.pipe = i]
    IN  IF rf.r = 0 \/ wf.r = 0 \/ k.free = 0 \/ free = {} THEN Ret(k, -1)
        ELSE [wf EXCEPT !.free = @ - 1, !.r = 0, !.buf = <<rf.r, wf.r>>,
                 !.pipe[i] = [used |-> TRUE, readopen |-> TRUE, writeopen |-> TRUE, data |-> <<>>],
                 !.file[rf.r] = [new EXCEPT !.readable = TRUE],
                 !.file[wf.r] = [new EXCEPT !.writable = TRUE]]

FileOf(k, p, fd) == IF fd \in 0 .. NOFILE-1 THEN k.proc[p].ofile[fd] ELSE 0
BadFd(k, p, fd) == FileOf(k, p, fd) = 0

fdalloc(k, p, f) ==
    LET free == {fd \in 0 .. NOFILE-1 : k.proc[p].ofile[fd] = 0}
    IN  IF free = {} THEN Ret(k, -1)
        ELSE [k EXCEPT !.proc[p].ofile[Min(free)] = f, !.r = Min(free)]

sys_dup(k, p, fd) ==
    LET a == fdalloc(k, p, FileOf(k, p, fd))
    IN  IF BadFd(k, p, fd) \/ a.r < 0 THEN Ret(k, -1)
        ELSE filedup(a, FileOf(k, p, fd))

sys_close(k, p, fd) ==
    IF BadFd(k, p, fd) THEN Ret(k, -1)
    ELSE Ret(fileclose([k EXCEPT !.proc[p].ofile[fd] = 0], FileOf(k, p, fd)), 0)

\* addr: where the two descriptors go in user memory.
sys_pipe(k, p, addr) ==
    LET a == pipealloc(k)
        rf == a.buf[1]
        wf == a.buf[2]
        r == fdalloc(a, p, rf)
        w == fdalloc(r, p, wf)
        Undo(s) == Ret(fileclose(fileclose([s EXCEPT !.proc = k.proc], rf), wf), -1)
    IN  IF a.r < 0 THEN a
        ELSE IF r.r < 0 \/ w.r < 0 THEN Undo(a)
        ELSE IF Mapped(k.proc[p], addr, 2) < 2 THEN Undo(w)
        ELSE [w EXCEPT !.r = 0, !.buf = <<r.r, w.r>>]

\* A read that need not wait (see ReadWaits).
sys_read(k, p, fd, addr, n) ==
    LET f == FileOf(k, p, fd)
        ff == k.file[f]
        d == IF ff.type = "pipe" THEN k.pipe[ff.pipe].data ELSE <<>>
        m == Min2(n, Len(d))
        good == Mapped(k.proc[p], addr, IF ff.type = "pipe" THEN m ELSE MAXFILE * BSIZE)
        size == Len(k.inode[ff.ip].data)
        n1 == IF n >= 0 THEN n ELSE IF ff.off = 0 THEN size ELSE 0   \* n is unsigned in readi()
        ri == readi(k, ff.ip, ff.off, n1, good)
    IN  IF f = 0 \/ ~ff.readable THEN Ret(k, -1)
        ELSE IF ff.type = "pipe"
             THEN [k EXCEPT !.r = Min2(m, good), !.buf = SubSeq(d, 1, Min2(m, good)),
                      !.pipe[ff.pipe].data = SubSeq(d, Min2(m, good + 1) + 1, Len(d))]
        ELSE IF ri.r > 0 THEN [ri EXCEPT !.file[f].off = @ + ri.r] ELSE ri

ReadWaits(k, p, fd) ==
    LET ff == k.file[FileOf(k, p, fd)]
    IN  /\ ~BadFd(k, p, fd) /\ ff.type = "pipe" /\ ff.readable
        /\ k.pipe[ff.pipe].data = <<>> /\ k.pipe[ff.pipe].writeopen

\* The most units filewrite() puts into one transaction.
WriteMax == ((MAXOPBLOCKS - 1 - 1 - 2) \div 2) * BSIZE

\* The next part of a write of s of which i units are done: one transaction of
\* a file, as much as fits into a pipe.  k.more says that the call goes on.
sys_write(k, p, fd, addr, s, i) ==
    LET f == FileOf(k, p, fd)
        ff == k.file[f]
        pi == k.pipe[ff.pipe]
        good == Mapped(k.proc[p], addr + i, Len(s) - i)
        room == Min2(PIPESIZE - Len(pi.data), Len(s) - i)
        m == Min2(room, good)
        n1 == Min2(WriteMax, Len(s) - i)
        w == writei(k, ff.ip, ff.off, SubSeq(s, i + 1, i + n1), good)
        moved == IF w.r > 0 THEN [w EXCEPT !.file[f].off = @ + w.r] ELSE w
    IN  IF f = 0 \/ ~ff.writable THEN Ret(k, -1)
        ELSE IF ff.type = "device"
             THEN [k EXCEPT !.r = good, !.out = @ \o SubSeq(s, 1, good)]
        ELSE IF s = <<>> THEN Ret(k, 0)
        ELSE IF ff.type = "pipe"
             THEN IF ~pi.readopen THEN Ret(k, -1)
                  ELSE [k EXCEPT !.r = i + m, !.more = m = room /\ i + m < Len(s),
                            !.pipe[ff.pipe].data = @ \o SubSeq(s, i + 1, i + m)]
        ELSE IF w.r # n1 THEN Ret(moved, -1)
        ELSE [moved EXCEPT !.r = i + n1, !.more = i + n1 < Len(s)]

WriteWaits(k, p, fd) ==
    LET ff == k.file[FileOf(k, p, fd)]
    IN  /\ ~BadFd(k, p, fd) /\ ff.type = "pipe" /\ ff.writable
        /\ Len(k.pipe[ff.pipe].data) = PIPESIZE /\ k.pipe[ff.pipe].readopen

\* The result is the type and the size of what fd stands for.
sys_fstat(k, p, fd, addr) ==
    LET ff == k.file[FileOf(k, p, fd)]
        ip == k.inode[ff.ip]
    IN  IF BadFd(k, p, fd) \/ ff.type = "pipe" \/ Mapped(k.proc[p], addr, 1) < 1
        THEN Ret(k, -1)
        ELSE [k EXCEPT !.r = 0, !.buf = <<ip.type, Len(ip.data)>>]

---------------------------------------------------------------------------
(* System calls on paths.  A string s has an address, a length and, in     *)
(* s.path, the path it spells.                                             *)

sys_link(k, p, old, new) ==
    LET a == namei(k, p, old.path)
        ip == a.r
        b == ilock(a, ip)
        c == [b EXCEPT !.inode[ip].nlink = @ + 1]
        d == nameiparent(c, p, new.path)
        e == dirlink(d, d.r, Name(new.path), ip)
        Undo(s) == Ret(iput([s EXCEPT !.inode[ip].nlink = @ - 1], ip), -1)
    IN  IF ~argstr(k, p, old) \/ ~argstr(k, p, new) \/ ip <= 0 THEN Ret(a, -1)
        ELSE IF b.inode[ip].type = "dir" THEN Ret(iput(b, ip), -1)
        ELSE IF d.r <= 0 THEN Undo(d)
        ELSE IF e.r < 0 THEN Undo(iput(e, d.r))
        ELSE Ret(iput(iput(e, d.r), ip), 0)

sys_unlink(k, p, s) ==
    LET a == nameiparent(k, p, s.path)
        dp == a.r
        name == Name(s.path)
        l == dirlookup(a, dp, name)
        b == ilock(l, l.r)
        slot == Min(Slots(a, dp, name))
        dir == b.inode[l.r].type = "dir"
        c == writei(b, dp, slot - 1, <<[name |-> "", inum |-> 0]>>, 1)
        d == IF dir THEN [c EXCEPT !.inode[dp].nlink = @ - 1] ELSE c
        e == [iput(d, dp) EXCEPT !.inode[l.r].nlink = @ - 1]
    IN  IF ~argstr(k, p, s) THEN Ret(k, -1)
        ELSE IF dp <= 0 THEN Ret(a, -1)
        ELSE IF name \in {".", ".."} \/ l.r <= 0 THEN Ret(iput(a, dp), -1)
        ELSE IF b.inode[l.r].nlink < 1 THEN Panic(b)
        ELSE IF dir /\ ~isdirempty(b, l.r) THEN Ret(iput(iput(b, l.r), dp), -1)
        ELSE Ret(iput(e, l.r), 0)

\* The second half of create(): i has the new inode, dp is its directory.
newinode(i, dp, name, type) ==
    LET ip == i.r
        b == [i EXCEPT !.inode[ip].nlink = 1]
        dot == dirlink(b, ip, ".", ip)
        dots == dirlink(dot, ip, "..", dp)
        c == IF type = "dir" THEN dots ELSE b
        d == dirlink(c, dp, name, ip)
        e == IF type = "dir" THEN [d EXCEPT !.inode[dp].nlink = @ + 1] ELSE d
        Undo(s) == Ret(iput(iput([s EXCEPT !.inode[ip].nlink = 0], ip), dp), 0)
    IN  IF ip <= 0 THEN Ret(iput(i, dp), 0)
        ELSE IF type = "dir" /\ (dot.r < 0 \/ dots.r < 0) THEN Undo(c)
        ELSE IF d.r < 0 THEN Undo(d)
        ELSE Ret(iput(e, dp), ip)

\* l has the inode ip that create() found in the directory dp.
oldinode(l, dp, ip, type) ==
    LET f == ilock(iput(l, dp), ip)
    IN  IF type = "file" /\ f.inode[ip].type \in {"file", "dev"}
        THEN Ret(f, ip) ELSE Ret(iput(f, ip), 0)

\* The inode called name in the directory a.r, made if there is none.
createin(a, name, type) ==
    LET dp == a.r
        l == dirlookup(a, dp, name)
    IN  IF dp <= 0 THEN Ret(a, 0)
        ELSE IF l.r > 0 THEN oldinode(l, dp, l.r, type)
        ELSE newinode(ialloc(a, type), dp, name, type)

\* The inode at path, made if there is none; 0 if that fails.
create(k, p, path, type) == createin(nameiparent(k, p, path), Name(path), type)

\* sys_open() of the inode ip = a.r, with ip <= 0 if there is none.
openinode(a, p, mode) ==
    LET ip == a.r
        b == ilock(a, ip)
        f == filealloc(b)
        g == fdalloc(f, p, f.r)
        type == b.inode[ip].type
        h == [g EXCEPT !.file[f.r] =
                 [ref |-> 1, type |-> IF type = "dev" THEN "device" ELSE "inode",
                  readable |-> "WRONLY" \notin mode, writable |-> mode \cap {"WRONLY", "RDWR"} # {},
                  off |-> 0, ip |-> ip, pipe |-> 0]]
    IN  IF ip <= 0 THEN Ret(a, -1)
        ELSE IF "CREATE" \notin mode /\ type = "dir" /\ mode # {} THEN Ret(iput(b, ip), -1)
        ELSE IF f.r = 0 THEN Ret(iput(f, ip), -1)
        ELSE IF g.r < 0 THEN Ret(iput(fileclose(g, f.r), ip), -1)
        ELSE Ret(IF "TRUNC" \in mode /\ type = "file" THEN itrunc(h, ip) ELSE h, g.r)

\* mode is a subset of {"CREATE", "WRONLY", "RDWR", "TRUNC"}.
sys_open(k, p, s, mode) ==
    IF ~argstr(k, p, s) THEN Ret(k, -1)
    ELSE openinode(IF "CREATE" \in mode THEN create(k, p, s.path, "file")
                   ELSE namei(k, p, s.path), p, mode)

\* mkdir() and mknod().
Make(k, p, s, type) ==
    LET a == create(k, p, s.path, type)
    IN  IF ~argstr(k, p, s) THEN Ret(k, -1)
        ELSE IF a.r <= 0 THEN Ret(a, -1)
        ELSE Ret(iput(a, a.r), 0)
sys_mkdir(k, p, s) == Make(k, p, s, "dir")
sys_mknod(k, p, s) == Make(k, p, s, "dev")

sys_chdir(k, p, s) ==
    LET a == namei(k, p, s.path)
        ip == a.r
        b == ilock(a, ip)
    IN  IF ~argstr(k, p, s) THEN Ret(k, -1)
        ELSE IF ip <= 0 THEN Ret(a, -1)
        ELSE IF b.inode[ip].type # "dir" THEN Ret(iput(b, ip), -1)
        ELSE Ret([iput(b, k.proc[p].cwd) EXCEPT !.proc[p].cwd = ip], 0)

---------------------------------------------------------------------------
(* Processes and programs.                                                 *)

\* What allocproc() takes: a trap frame and a page table.
Frame == 1 + TABLES

fork(k, p) ==
    LET q == k.proc[p]
        need == Frame + Pages(q.sz)
        c == FoldFunction(LAMBDA f, s : IF f = 0 THEN s ELSE filedup(s, f), idup(k, q.cwd), q.ofile)
    IN  IF Cardinality(DOMAIN k.proc) = NPROC \/ need > k.free THEN Ret(k, -1)
        ELSE [c EXCEPT !.free = @ - need, !.nextpid = @ + 1, !.r = k.nextpid,
                 !.proc = @ @@ (k.nextpid :> [q EXCEPT !.parent = p, !.killed = FALSE])]

exit(k, p, status) ==
    LET q == k.proc[p]
        c == FoldFunction(LAMBDA f, s : IF f = 0 THEN s ELSE fileclose(s, f), k, q.ofile)
        d == iput(c, q.cwd)
    IN  IF p = initproc THEN Panic(k)
        ELSE [d EXCEPT !.proc = [j \in DOMAIN @ |->
                 IF j = p THEN [@[j] EXCEPT !.zombie = TRUE, !.xstate = status, !.cwd = 0,
                                    !.ofile = [fd \in DOMAIN @ |-> 0]]
                 ELSE IF @[j].parent = p THEN [@[j] EXCEPT !.parent = initproc]
                 ELSE @[j]]]

Children(k, p) == {j \in DOMAIN k.proc : k.proc[j].parent = p}
Zombies(k, p) == {j \in Children(k, p) : k.proc[j].zombie}
WaitWaits(k, p) == Children(k, p) # {} /\ Zombies(k, p) = {}

\* wait() frees the zombie j it found, with its memory; -1 without children
\* and, with j left as it is, if the status cannot be copied to addr.
wait(k, p, j, addr) ==
    IF Children(k, p) = {} \/ (addr # 0 /\ Mapped(k.proc[p], addr, 1) = 0) THEN Ret(k, -1)
    ELSE [k EXCEPT !.free = @ + Frame + Pages(k.proc[j].sz), !.r = j,
             !.proc = Restrict(@, DOMAIN @ \ {j})]

kill(k, pid) == IF pid \in DOMAIN k.proc THEN Ret([k EXCEPT !.proc[pid].killed = TRUE], 0)
                ELSE Ret(k, -1)

sys_getppid(k, p) == Ret(k, IF k.proc[p].parent = 0 THEN -1 ELSE k.proc[p].parent)
sys_ps(k, p, addr) == IF Mapped(k.proc[p], addr, 1) < 1 THEN Ret(k, -1)
                      ELSE Ret(k, Cardinality(DOMAIN k.proc))

\* Arguments are names; two names stand for strings that are too long for a
\* page (or at a bad address), and for strings that fill half the stack.
NoString == "#bad"
LongString == "#long"
ArgUnits(args) == FoldSeq(LAMBDA x, n : n + (IF x = LongString THEN PGSIZE \div 2 ELSE 1), 1, args)

sys_exec(k, p, s, args) ==
    LET a == namei(k, p, s.path)
        b == ilock(a, a.r)
        ip == b.inode[a.r]
        elf == ip.type = "file" /\ ip.data # <<>> /\ Head(ip.data) = "ELF"
        c == iput(b, a.r)
        pages == TABLES + Image + 2
        left == k.free - Len(args)          \* sys_exec() keeps each argument in a page
        sz == (Image + 2) * PGSIZE
    IN  IF ~argstr(k, p, s) \/ NoString \in ToSet(args) \/ left < 0 THEN Ret(k, -1)
        ELSE IF a.r <= 0 THEN Ret(a, -1)
        ELSE IF ~elf \/ left < pages \/ ArgUnits(args) + Len(args) > PGSIZE THEN Ret(c, -1)
        ELSE [Resized(c, p, sz) EXCEPT !.free = @ - pages + TABLES + Pages(k.proc[p].sz),
                  !.proc[p].dirty = {}, !.r = Len(args)]
===========================================================================
