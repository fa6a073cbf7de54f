----------------------------- MODULE UserProcs -----------------------------
(***************************************************************************)
(* User processes that run scripts on the kernel of module Kernel.  A      *)
(* script is what a C program does as the kernel sees it: a sequence of    *)
(* system calls and memory accesses, with the results the program expects  *)
(* and what it does otherwise.  Processes interleave between system calls, *)
(* between the transactions of a write() and where a call waits.           *)
(***************************************************************************)
EXTENDS Kernel

VARIABLES k,        \* the state of the kernel
          user      \* user[p] : the code p still has to run, its variables

(* An instruction calls op with the arguments a and puts the result into   *)
(* the variable to.  A result in want (any but an error, if want is empty) *)
(* is followed by the script then and, if so marked, by the instruction    *)
(* again; any other by else.                                               *)
Instr(op, a, to) == [op |-> op, a |-> a, to |-> to, want |-> {}, then |-> <<>>,
                     else |-> <<>>, again |-> FALSE]
Exit(n) == Instr("exit", <<"zero", n>>, "")
Must(op, a, to) == [Instr(op, a, to) EXCEPT !.else = <<Exit(1)>>]

Gives(c, n)      == [c EXCEPT !.want = {n}]
Fails(c)         == Gives(c, -1)
Within(c, set)   == [c EXCEPT !.want = set]
Try(c)           == [c EXCEPT !.else = <<>>]
OrElse(c, s)     == [c EXCEPT !.else = s]
If(c, yes, no)   == [c EXCEPT !.then = yes, !.else = no]
While(c, body)   == [c EXCEPT !.then = body, !.else = <<>>, !.again = TRUE]
Times(n, Body(_)) == FlattenSeq([i \in 1..n |-> Body(i)])

(* A number is a variable plus a constant; a string is good unless made    *)
(* otherwise.                                                              *)
N(n) == <<"zero", n>>
Str(path) == [ptr |-> N(0), len |-> 1, path |-> path]
StrAt(a, n, path) == [ptr |-> a, len |-> n, path |-> path]
buf == N(PGSIZE)                     \* an array of the program

Dup(to, fd)            == Must("dup", <<fd>>, to)
Close(fd)              == Must("close", <<fd>>, "")
Pipe                   == Must("pipe", <<buf>>, "")      \* into fds0 and fds1
PipeTo(a)              == Must("pipe", <<a>>, "")
Read(fd, n)            == Must("read", <<fd, buf, N(n)>>, "cc")
ReadTo(fd, a, n)       == Must("read", <<fd, a, n>>, "cc")
Write(fd, s)           == Gives(Must("write", <<fd, buf, s>>, "cc"), Len(s))
WriteFrom(fd, a, s)    == Gives(Must("write", <<fd, a, s>>, "cc"), Len(s))
Fstat(fd)              == Must("fstat", <<fd, buf>>, "")
Link(old, new)         == Must("link", <<Str(old), Str(new)>>, "")
Unlink(path)           == Must("unlink", <<Str(path)>>, "")
Open(to, path, mode)   == Must("open", <<Str(path), mode>>, to)
OpenRead(to)           == Must("openread", <<>>, to)     \* the entry it has just read
Mkdir(path)            == Must("mkdir", <<Str(path)>>, "")
Mknod(path)            == Must("mknod", <<Str(path)>>, "")
Chdir(path)            == Must("chdir", <<Str(path)>>, "")
StrCall(op, s)         == Must(op, <<s>>, "")
Exec(path, args, prog) == Must("exec", <<Str(path), args, prog>>, "")
Sbrk(to, n)            == Must("sbrk", <<n>>, to)
Fork(to, child)        == Must("fork", child, to)        \* the child runs child first
Wait(to)               == Must("wait", <<N(0)>>, to)
WaitFor(to, status)    == [Wait(to) EXCEPT !.a = <<buf>>, !.then =
                              <<Gives(Must("let", <<"xstatus", "zero", 0, 0>>, ""), status)>>]
Kill(pid)              == Must("kill", <<pid>>, "")
Getpid(to)             == Must("getpid", <<>>, to)
Getppid(to)            == Must("getppid", <<>>, to)
Ps                     == Must("ps", <<buf>>, "")
Load(a)                == Must("load", <<a>>, "cc")      \* 99 if written, 0 if not
Store(a)               == Must("store", <<a>>, "")
Let(to, x, s, y, n)    == Try(Must("let", <<x, y, s, n>>, to))   \* x + s * y + n
Set(to, n)             == Let(to, "zero", 0, "zero", n)
Test(x, set)           == Within(Must("let", <<x, "zero", 0, 0>>, ""), set)
Same(x, y)             == Gives(Must("let", <<x, y, -1, 0>>, ""), 0)
Copy(fd)               == [Must("copy", <<fd, buf>>, "w") EXCEPT !.then = <<Same("w", "cc")>>]
Expect(s)              == Must("expect", <<s>>, "")      \* what the last read() read
Counts(to)             == Must("counts", <<to>>, to)     \* it read to, to + 1, ...
Tokens(to, t)          == Must("tokens", <<t>>, to)      \* how often it read t
Entries(to, names)     == Must("entries", <<names>>, to) \* entries with these names
Choose(scripts)        == Instr("choose", scripts, "")
Forever                == Instr("spin", <<>>, "")
Done                   == Instr("done", <<>>, "")

---------------------------------------------------------------------------
(* What a process does next.                                               *)

Env0 == [v \in {"zero", "0", "1", "2"} |->
            CASE v = "1" -> 1 [] v = "2" -> 2 [] OTHER -> 0]
Val(e, v) == e[v[1]] + v[2]
StrIn(e, s) == [s EXCEPT !.ptr = Val(e, @)]
Started(code) == [code |-> code, env |-> Env0, in |-> <<>>, i |-> 0]

Cur(p) == Head(user[p].code)
Has(p, ops) == user[p].code # <<>> /\ Cur(p).op \in ops
Runs(p, ops) == Has(p, ops) /\ ~k.proc[p].killed

\* The table of syscalls, for those that never wait.
Sys(p, c) ==
    LET e == user[p].env
        a(j) == Val(e, c.a[j])
        fd == e[c.a[1]]
        s(j) == StrIn(e, c.a[j])
    IN  CASE c.op = "dup"     -> sys_dup(k, p, fd)
          [] c.op = "close"   -> sys_close(k, p, fd)
          [] c.op = "pipe"    -> sys_pipe(k, p, a(1))
          [] c.op = "fstat"   -> sys_fstat(k, p, fd, a(2))
          [] c.op = "link"    -> sys_link(k, p, s(1), s(2))
          [] c.op = "unlink"  -> sys_unlink(k, p, s(1))
          [] c.op = "open"    -> sys_open(k, p, s(1), c.a[2])
          [] c.op = "openread" -> LET d == Head(user[p].in)
                                  IN  IF d.inum = 0 THEN Ret(k, -1)
                                      ELSE sys_open(k, p, StrIn(e, Str(<<d.name>>)), {})
          [] c.op = "mkdir"   -> sys_mkdir(k, p, s(1))
          [] c.op = "mknod"   -> sys_mknod(k, p, s(1))
          [] c.op = "chdir"   -> sys_chdir(k, p, s(1))
          [] c.op = "sbrk"    -> sys_sbrk(k, p, a(1))
          [] c.op = "kill"    -> kill(k, e[c.a[1]])
          [] c.op = "getpid"  -> Ret(k, p)
          [] c.op = "getppid" -> sys_getppid(k, p)
          [] c.op = "ps"      -> sys_ps(k, p, a(1))
          [] c.op = "let"     -> Ret(k, e[c.a[1]] + c.a[3] * e[c.a[2]] + c.a[4])
          [] c.op = "expect"  -> Ret(k, IF user[p].in = c.a[1] THEN 0 ELSE -1)
          [] c.op = "counts"  -> Ret(k, IF \A j \in DOMAIN user[p].in : user[p].in[j] = fd + j - 1
                                        THEN fd + Len(user[p].in) ELSE -1)
          [] c.op = "tokens"  -> Ret(k, Len(SelectSeq(user[p].in, LAMBDA t : t = c.a[1])))
          [] c.op = "entries" -> Ret(k, Len(SelectSeq(user[p].in, LAMBDA d : d.inum # 0 /\ d.name \in c.a[1])))
          [] c.op = "load"    -> Ret(k, IF a(1) \div PGSIZE \in k.proc[p].dirty THEN 99 ELSE 0)
          [] c.op = "store"   -> Ret([k EXCEPT !.proc[p].dirty = @ \cup {a(1) \div PGSIZE}], 0)

CallOps == {"dup", "close", "pipe", "fstat", "link", "unlink", "open", "mkdir", "mknod", "chdir",
            "sbrk", "kill", "getpid", "getppid", "ps", "let", "expect", "counts",
            "tokens", "entries", "openread", "load", "store"}

Faults(p) == \/ Has(p, {"load"}) /\ ~walkaddr(k.proc[p], Val(user[p].env, Cur(p).a[1]))
             \/ Has(p, {"store"}) /\ ~CanStore(k.proc[p], Val(user[p].env, Cur(p).a[1]))

Clean(kk) == [kk EXCEPT !.r = 0, !.buf = <<>>, !.more = FALSE]

Wanted(c, r) == IF c.want = {} THEN r >= 0 ELSE r \in c.want
Follow(c, code, r) ==
    IF Wanted(c, r) THEN c.then \o (IF c.again THEN code ELSE Tail(code))
                    ELSE c.else \o Tail(code)

Bind(env, c, kk) ==
    CASE c.op = "pipe" /\ kk.r = 0 -> ("fds0" :> kk.buf[1]) @@ ("fds1" :> kk.buf[2]) @@ env
      [] c.to # "" -> (c.to :> kk.r) @@ env
      [] OTHER -> env

\* Process p has the result of its call.
Returned(p, c, kk) ==
    [user[p] EXCEPT !.code = Follow(c, @, kk.r), !.env = Bind(@, c, kk), !.i = 0,
                    !.in = IF c.op \in {"read", "fstat"} /\ kk.r >= 0 THEN kk.buf ELSE @]

Return(p, c, kk) == /\ k' = Clean(kk)
                    /\ user' = [user EXCEPT ![p] = Returned(p, c, kk)]

Call(p) == /\ Runs(p, CallOps) /\ ~Faults(p)
           /\ Return(p, Cur(p), Sys(p, Cur(p)))

ReadCall(p) ==
    LET c == Cur(p)
        e == user[p].env
    IN  /\ Runs(p, {"read"}) /\ ~ReadWaits(k, p, e[c.a[1]])
        /\ Return(p, c, sys_read(k, p, e[c.a[1]], Val(e, c.a[2]), Val(e, c.a[3])))

WriteCall(p) ==
    LET c == Cur(p)
        e == user[p].env
        data == IF c.op = "copy" THEN user[p].in ELSE c.a[3]
        kk == sys_write(k, p, e[c.a[1]], Val(e, c.a[2]), data, user[p].i)
    IN  /\ Runs(p, {"write", "copy"}) /\ (data # <<>> => ~WriteWaits(k, p, e[c.a[1]]))
        /\ IF kk.more THEN k' = Clean(kk) /\ user' = [user EXCEPT ![p].i = kk.r]
                      ELSE Return(p, c, kk)

ForkCall(p) ==
    LET c == Cur(p)
        kk == fork(k, p)
        child == [user[p] EXCEPT !.code = c.a \o Tail(@), !.env = Bind(@, c, Ret(k, 0))]
    IN  /\ Runs(p, {"fork"})
        /\ k' = Clean(kk)
        /\ user' = [user EXCEPT ![p] = Returned(p, c, kk)] @@
                     (IF kk.r < 0 THEN <<>> ELSE kk.r :> child)

\* A program that is started has only its open files.
ExecCall(p) ==
    LET c == Cur(p)
        kk == sys_exec(k, p, StrIn(user[p].env, c.a[1]), c.a[2])
    IN  /\ Runs(p, {"exec"})
        /\ k' = Clean(kk)
        /\ user' = [user EXCEPT ![p] = IF kk.r >= 0 THEN Started(c.a[3]) ELSE Returned(p, c, kk)]

WaitCall(p) ==
    LET c == Cur(p)
    IN  /\ Runs(p, {"wait"}) /\ ~WaitWaits(k, p)
        /\ \E j \in IF Children(k, p) = {} THEN {0} ELSE Zombies(k, p) :
             LET kk == wait(k, p, j, Val(user[p].env, c.a[1]))
                 x == IF kk.r > 0 THEN k.proc[j].xstate ELSE 0
                 u == [user EXCEPT ![p] = [Returned(p, c, kk) EXCEPT !.env = ("xstatus" :> x) @@ @]]
             IN  k' = Clean(kk) /\ user' = Restrict(u, DOMAIN kk.proc)

Dies(p, status) == /\ k' = exit(k, p, status)
                   /\ user' = [user EXCEPT ![p] = Started(<<>>)]

ExitCall(p) == Runs(p, {"exit"}) /\ Dies(p, Val(user[p].env, Cur(p).a))

\* A fault or kill() ends a process at its next trap; a write to a file is
\* completed first.
Killed(p) ==
    /\ \/ /\ k.proc[p].killed
          /\ user[p].code # <<>>
          /\ user[p].i > 0 => k.file[FileOf(k, p, user[p].env[Cur(p).a[1]])].type = "pipe"
       \/ Faults(p)
    /\ Dies(p, -1)

Branch(p) == /\ Runs(p, {"choose"})
             /\ \E j \in DOMAIN Cur(p).a :
                  user' = [user EXCEPT ![p].code = Cur(p).a[j] \o Tail(@)]
             /\ UNCHANGED k

Step(p) == /\ p \in DOMAIN user
           /\ Call(p) \/ ReadCall(p) \/ WriteCall(p) \/ ForkCall(p) \/ ExecCall(p)
              \/ WaitCall(p) \/ ExitCall(p) \/ Killed(p) \/ Branch(p)
===========================================================================
