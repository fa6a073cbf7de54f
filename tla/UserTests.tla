----------------------------- MODULE UserTests -----------------------------
(***************************************************************************)
(* user/usertests.c as scripts.  Every test keeps its calls, their order   *)
(* and its checks; loops run a few times (N, where the C code has a        *)
(* number), and an amount of bytes is an amount of tokens that stands in   *)
(* the same relation to the sizes of the model.  sleep() is left out: a    *)
(* process may be delayed anywhere.                                        *)
(***************************************************************************)
EXTENDS Programs

CONSTANT N2     \* how often the loops of the tests run

ExitStatus == Instr("exit", <<"xstatus", 0>>, "")
BadAddrs == <<N(1000), N(-1)>>              \* 0x80000000 and 0xffffffffffffffff
junk == <<"#junk">>


---------------------------------------------------------------------------
(* Bad addresses and strings.                                              *)

copyin == Each(BadAddrs, LAMBDA a :
    << Open("fd", <<"copyin1">>, CW),
       Fails(WriteFrom("fd", a, Toks("x", 3))),
       Close("fd"), Unlink(<<"copyin1">>),
       Within(WriteFrom("1", a, Toks("x", 3)), {-1, 0}),
       Pipe,
       Within(WriteFrom("fds1", a, Toks("x", 3)), {-1, 0}),
       Close("fds0"), Close("fds1") >>)

copyout == Each(BadAddrs, LAMBDA a :
    << Open("fd", <<"README">>, RD),
       Within(ReadTo("fd", a, N(3)), {-1, 0}),
       Close("fd"),
       Pipe, Write("fds1", <<"x">>),
       Within(ReadTo("fds0", a, N(3)), {-1, 0}),
       Close("fds0"), Close("fds1") >>)

\* What no system call may accept as a string.
Refused(s) == << Fails(StrCall("unlink", s)),
                 Fails(Must("open", <<s, CW>>, "fd")),
                 Fails(Must("link", <<s, s>>, "")),
                 Fails(Must("exec", <<s, <<"xx">>, <<>>>>, "")) >>

copyinstr1 == Each(BadAddrs, LAMBDA a : <<Fails(Must("open", <<StrAt(a, 1, junk), CW>>, "fd"))>>)

copyinstr2 == Refused(StrAt(buf, MAXPATH, junk)) \o
    << Fork("pid", <<Fails(Exec(<<"echo">>, Toks(NoString, 3), echo(<<"echo", "xx">>))), Exit(747)>>),
       WaitFor("", 747) >>

\* The string starts in the last unit of memory and has no end there.
copyinstr3 == << Sbrk("old", N(2 * PGSIZE)), Sbrk("top", N(0)), Store(<<"top", -1>>) >>
              \o Refused(StrAt(<<"top", -1>>, 1, junk))

rwsbrk == << Sbrk("a", N(2 * PGSIZE)), Sbrk("", N(-2 * PGSIZE)),
             Open("fd", <<"rwsbrk">>, CW),
             Fails(WriteFrom("fd", <<"a", PGSIZE>>, Toks("x", 2))),
             Close("fd"), Unlink(<<"rwsbrk">>),
             Open("fd", <<"README">>, RD),
             Fails(ReadTo("fd", <<"a", PGSIZE>>, N(1))),
             Close("fd"), Exit(0) >>

---------------------------------------------------------------------------
(* Files that are truncated while they are open.                           *)

truncate1 == << Try(Unlink(<<"truncfile">>)),
    Open("fd1", <<"truncfile">>, CTW), Write("fd1", Toks("a", 4)), Close("fd1"),
    Open("fd2", <<"truncfile">>, RD), Gives(Read("fd2", All), 4),
    Open("fd1", <<"truncfile">>, {"WRONLY", "TRUNC"}),
    Open("fd3", <<"truncfile">>, RD), Gives(Read("fd3", All), 0),
    Gives(Read("fd2", All), 0),
    Write("fd1", Toks("b", 6)),
    Gives(Read("fd3", All), 6), Gives(Read("fd2", All), 2),
    Unlink(<<"truncfile">>), Close("fd1"), Close("fd2"), Close("fd3") >>

truncate2 == << Try(Unlink(<<"truncfile">>)),
    Open("fd1", <<"truncfile">>, CTW), Write("fd1", Toks("a", 4)),
    Open("fd2", <<"truncfile">>, {"TRUNC", "WRONLY"}),
    Fails(Write("fd1", <<"x">>)),
    Unlink(<<"truncfile">>), Close("fd1"), Close("fd2") >>

truncate3 ==
    LET child == Times(N2, LAMBDA i :
            << Open("fd", <<"truncfile">>, WO), Write("fd", Toks("1", 5)), Close("fd"),
               Open("fd", <<"truncfile">>, RD), Try(Read("fd", All)), Close("fd") >>)
    IN  << Open("fd", <<"truncfile">>, CTW), Close("fd"), Fork("pid", child \o <<Exit(0)>>) >>
        \o Times(N2, LAMBDA i :
            << Open("fd", <<"truncfile">>, CTW), Write("fd", Toks("x", 3)), Close("fd") >>)
        \o << Wait(""), Unlink(<<"truncfile">>), ExitStatus >>

---------------------------------------------------------------------------
(* A directory that is removed while it is in use.                         *)

Leave == << Mkdir(<<"iputdir">>), Chdir(<<"iputdir">>), Unlink(<<"..", "iputdir">>) >>

iputtest == Leave \o << Chdir(<<"/">>) >>
exitiputtest == << Fork("pid", Leave \o <<Exit(0)>>), Wait(""), ExitStatus >>
openiputtest ==
    << Mkdir(<<"oidir">>),
       Fork("pid", <<Fails(Open("fd", <<"oidir">>, RW)), Exit(0)>>),
       Unlink(<<"oidir">>), Wait(""), ExitStatus >>

---------------------------------------------------------------------------
(* Simple use of files and directories.                                    *)

opentest == << Open("fd", <<"echo">>, RD), Close("fd"), Fails(Open("fd", <<"doesnotexist">>, RD)) >>

writetest == << Open("fd", <<"small">>, CRW) >>
    \o Times(N2, LAMBDA i : <<Write("fd", Toks("a", 3)), Write("fd", Toks("b", 3))>>)
    \o << Close("fd"), Open("fd", <<"small">>, RD), Gives(Read("fd", All), N2 * 6),
          Expect(FlattenSeq(Toks(<<"a", "a", "a", "b", "b", "b">>, N2))),
          Close("fd"), Unlink(<<"small">>) >>

writebig == << Open("fd", <<"big">>, CRW) >>
    \o Times(MAXFILE, LAMBDA i : <<Write("fd", Toks(i, BSIZE))>>)
    \o << Close("fd"), Open("fd", <<"big">>, RD) >>
    \o Times(MAXFILE, LAMBDA i : <<Gives(Read("fd", BSIZE), BSIZE), Expect(Toks(i, BSIZE))>>)
    \o << Gives(Read("fd", BSIZE), 0), Close("fd"), Unlink(<<"big">>) >>

createtest == Times(5, LAMBDA i : <<Open("fd", Name2("a", i), CRW), Close("fd")>>)
              \o Times(5, LAMBDA i : <<Unlink(Name2("a", i))>>)

dirtest == << Mkdir(<<"dir0">>), Chdir(<<"dir0">>), Chdir(<<"..">>), Unlink(<<"dir0">>) >>

exectest == << Try(Unlink(<<"echo-ok">>)),
    Fork("pid", << Close("1"), Gives(Open("fd", <<"echo-ok">>, CW), 1),
                   Exec(<<"echo">>, <<"echo", "OK">>, echo(<<"echo", "OK">>)) >>),
    Wait("w"), Same("w", "pid"),
    If(Test("xstatus", {0}), <<>>, <<ExitStatus>>),
    Open("fd", <<"echo-ok">>, RD), Gives(Read("fd", 1), 1), Unlink(<<"echo-ok">>),
    Expect(<<"OK">>), Exit(0) >>

---------------------------------------------------------------------------
(* Processes and pipes.                                                    *)

pipe1 ==
    LET child == <<Close("fds0")>>
                 \o Times(N2, LAMBDA n : <<Write("fds1", [j \in 1..4 |-> 4 * (n-1) + j - 1])>>)
                 \o <<Exit(0)>>
    IN  << Pipe, Fork("pid", child), Close("fds1"), Set("seq", 0), Set("max", 1),
           While(Within(ReadTo("fds0", buf, <<"max", 0>>), 1..All),
                 <<OrElse(Counts("seq"), <<Exit(0)>>), Let("max", "max", 1, "max", 0)>>),
           Test("seq", {4 * N2}), Close("fds0"), Wait(""), ExitStatus >>

Busy == <<While(Getpid(""), <<>>)>>

killstatus == Times(N2, LAMBDA i : <<Fork("pid1", Busy), Kill("pid1"), WaitFor("", -1)>>)
              \o <<Exit(0)>>

preempt == << Fork("pid1", <<Forever>>), Fork("pid2", <<Forever>>), Pipe,
              Fork("pid3", << Close("fds0"), OrElse(Write("fds1", <<"x">>), <<>>), Forever >>),
              Close("fds1"), OrElse(Gives(Read("fds0", 3), 1), <<Exit(0)>>), Close("fds0"),
              Kill("pid1"), Kill("pid2"), Kill("pid3"), Wait(""), Wait(""), Wait("") >>

exitwait == Times(N2 + 1, LAMBDA i :
    <<Fork("pid", <<Exit(i - 1)>>), WaitFor("w", i - 1), Same("w", "pid")>>)

reparent == <<Getpid("master")>> \o Times(N2, LAMBDA i :
    << Fork("pid", <<OrElse(Fork("pid2", <<>>), <<Kill("master"), Exit(1)>>), Exit(0)>>),
       Wait("w"), Same("w", "pid") >>) \o <<Exit(0)>>

twochildren == Times(N2, LAMBDA i :
    <<Fork("pid1", <<Exit(0)>>), Fork("pid2", <<Exit(0)>>), Wait(""), Wait("")>>)

forkfork ==
    LET child == Times(N2, LAMBDA j : <<Fork("pid1", <<Exit(0)>>), Wait("")>>) \o <<Exit(0)>>
    IN  << Fork("pid", child), Fork("pid", child), WaitFor("", 0), WaitFor("", 0) >>

Stop == <<Open("fd", <<"stopforking">>, CRW), Close("fd")>>
\* Parent and child go on with the loop.
Forks == While(Fails(Open("fd", <<"stopforking">>, RD)), <<OrElse(Fork("", <<>>), Stop)>>)
forkforkfork == << Try(Unlink(<<"stopforking">>)), Fork("pid", <<Forks, Exit(0)>>) >>
                \o Stop \o << Wait("") >>

reparent2 == << Fork("pid1", <<Try(Fork("", <<>>)), Try(Fork("", <<>>)), Exit(0)>>),
                Wait(""), Exit(0) >>

\* malloc() asks for memory with sbrk() and free() keeps it.
mem == << Fork("pid", << While(Sbrk("m", N(PGSIZE)), <<Store(<<"m", 1>>)>>), Exit(0) >>),
          Wait(""), If(Test("xstatus", {-1}), <<Exit(0)>>, <<>>), ExitStatus >>

---------------------------------------------------------------------------
(* Several processes on the same files.                                    *)

sharedfd ==
    LET Writes(t) == Times(N2, LAMBDA i : <<Write("fd", Toks(t, 3))>>)
    IN  << Try(Unlink(<<"sharedfd">>)), Open("fd", <<"sharedfd">>, CRW),
           Fork("pid", Writes("c") \o <<Exit(0)>>) >>
        \o Writes("p")
        \o << Wait(""), If(Test("xstatus", {0}), <<>>, <<ExitStatus>>),
              Close("fd"), Open("fd", <<"sharedfd">>, RD), Set("nc", 0), Set("np", 0),
              While(Within(Read("fd", 3), 1..3),
                    <<Tokens("x", "c"), Let("nc", "nc", 1, "x", 0),
                      Tokens("x", "p"), Let("np", "np", 1, "x", 0)>>),
              Close("fd"), Unlink(<<"sharedfd">>),
              Test("nc", {3 * N2}), Test("np", {3 * N2}), Exit(0) >>

\* The C code has four children.
NCHILD == 2
Reaped == Times(NCHILD, LAMBDA i : <<Wait(""), If(Test("xstatus", {0}), <<>>, <<ExitStatus>>)>>)

fourfiles ==
    Times(NCHILD, LAMBDA i :
        << Try(Unlink(Name2("f", i))),
           Fork("pid", <<Open("fd", Name2("f", i), CRW)>>
                       \o Times(N2, LAMBDA j : <<Write("fd", Toks(i, 3))>>) \o <<Exit(0)>>) >>)
    \o Reaped
    \o Times(NCHILD, LAMBDA i :
        << Open("fd", Name2("f", i), RD), Gives(Read("fd", All), 3 * N2), Expect(Toks(i, 3 * N2)),
           Close("fd"), Unlink(Name2("f", i)) >>)

createdelete ==
    LET n == 4
        Nm(c, i) == Name2("p" \o ToString(c), i)
        Create(c, i) == << Open("fd", Nm(c, i), CRW), Close("fd") >>
                        \o IF i > 0 /\ i % 2 = 0 THEN <<Unlink(Nm(c, i \div 2))>> ELSE <<>>
        Child(c) == Times(n, LAMBDA i : Create(c, i - 1)) \o <<Exit(0)>>
        Find(c, i) == IF i = 0 \/ i >= n \div 2
                      THEN <<Open("fd", Nm(c, i), RD), Close("fd")>>
                      ELSE <<Fails(Open("fd", Nm(c, i), RD))>>
    IN  Times(NCHILD, LAMBDA c : <<Fork("pid", Child(c - 1))>>)
        \o Times(NCHILD, LAMBDA c : <<WaitFor("", 0)>>)
        \o Times(n, LAMBDA i : Times(NCHILD, LAMBDA c : Find(c - 1, i - 1)))
        \* 'p' + i where 'p' + pi is meant: most files stay
        \o Times(n, LAMBDA i : Times(NCHILD, LAMBDA c : <<Try(Unlink(Nm(i - 1, i - 1)))>>))

unlinkread ==
    << Open("fd", <<"unlinkread">>, CRW), Write("fd", Toks("h", 5)), Close("fd"),
       Open("fd", <<"unlinkread">>, RW), Unlink(<<"unlinkread">>),
       Open("fd1", <<"unlinkread">>, CRW), Write("fd1", Toks("y", 3)), Close("fd1"),
       Gives(Read("fd", All), 5), Expect(Toks("h", 5)),
       Write("fd", Toks("h", 10)), Close("fd"), Unlink(<<"unlinkread">>) >>

linktest ==
    << Try(Unlink(<<"lf1">>)), Try(Unlink(<<"lf2">>)),
       Open("fd", <<"lf1">>, CRW), Write("fd", Toks("h", 5)), Close("fd"),
       Link(<<"lf1">>, <<"lf2">>), Unlink(<<"lf1">>),
       Fails(Open("fd", <<"lf1">>, RD)),
       Open("fd", <<"lf2">>, RD), Gives(Read("fd", All), 5), Close("fd"),
       Fails(Link(<<"lf2">>, <<"lf2">>)),
       Unlink(<<"lf2">>), Fails(Link(<<"lf2">>, <<"lf1">>)),
       Fails(Link(<<".">>, <<"lf1">>)) >>

concreate ==
    LET n == 5
        C(i) == Name2("C", i)
        Create(i) == <<Open("fd", C(i), CRW), Close("fd")>>
        LinkC0(i) == <<Try(Link(C(0), C(i)))>>
        Make2(i) == << Try(Unlink(C(i))),
            Fork("pid", (IF i % 5 = 1 THEN LinkC0(i) ELSE Create(i)) \o <<Exit(0)>>) >>
            \o (IF i % 3 = 1 THEN LinkC0(i) ELSE Create(i)) \o <<WaitFor("", 0)>>
        Opens(i) == Times(N2, LAMBDA j : <<Try(Open("fd", C(i), RD)), Try(Close("fd"))>>)
        Unlinks(i) == Times(N2, LAMBDA j : <<Try(Unlink(C(i)))>>)
        Use(i) == <<Fork("pid", (IF i % 3 = 0 THEN Opens(i) ELSE Unlinks(i)) \o <<Exit(0)>>)>>
                  \o (IF i % 3 = 1 THEN Opens(i) ELSE Unlinks(i)) \o <<Wait("")>>
    IN  Times(n, LAMBDA i : Make2(i - 1))
        \o << Open("fd", <<".">>, RD), Read("fd", All), Close("fd"),
              Gives(Entries("n", {"C" \o ToString(i - 1) : i \in 1..n}), n) >>
        \o Times(n, LAMBDA i : Use(i - 1))

linkunlink ==
    LET x == <<"x">>
        Ops == Times(N2, LAMBDA i :
            <<Choose(<< <<Try(Open("fd", x, CRW)), Try(Close("fd"))>>,
                        <<Try(Link(<<"cat">>, x))>>, <<Try(Unlink(x))>> >>)>>)
    IN  <<Try(Unlink(x)), Fork("pid", Ops \o <<Exit(0)>>)>> \o Ops \o <<Wait("")>>

---------------------------------------------------------------------------
(* Paths.                                                                  *)

subdir ==
    LET ff == <<"dd", "dd", "ff">>
        ffff == <<"dd", "dd", "ffff">>
        bad == << <<"dd", "ff", "ff">>, <<"dd", "xx", "ff">> >>
    IN << Try(Unlink(<<"ff">>)), Mkdir(<<"dd">>),
          Open("fd", <<"dd", "ff">>, CRW), Write("fd", Toks("f", 2)), Close("fd"),
          Fails(Unlink(<<"dd">>)),
          Mkdir(<<"/", "dd", "dd">>),
          Open("fd", ff, CRW), Write("fd", Toks("F", 2)), Close("fd"),
          Open("fd", <<"dd", "dd", "..", "ff">>, RD), Gives(Read("fd", All), 2),
          Expect(Toks("f", 2)), Close("fd"),
          Link(ff, ffff), Unlink(ff), Fails(Open("fd", ff, RD)),
          Chdir(<<"dd">>), Chdir(<<"dd", "..", "..", "dd">>),
          Chdir(<<"dd", "..", "..", "..", "dd">>), Chdir(<<".", "..">>),
          Open("fd", ffff, RD), Gives(Read("fd", All), 2), Close("fd"),
          Fails(Open("fd", ff, RD)) >>
       \o Each(bad, LAMBDA b : <<Fails(Open("fd", b, CRW))>>)
       \o Each(<<{"CREATE"}, RW, WO>>, LAMBDA m : <<Fails(Open("fd", <<"dd">>, m))>>)
       \o Each(bad, LAMBDA b : <<Fails(Link(b, <<"dd", "dd", "xx">>))>>)
       \o << Fails(Link(<<"dd", "ff">>, ffff)) >>
       \o Each(bad \o <<ffff>>, LAMBDA b : <<Fails(Mkdir(b))>>)
       \o Each(bad, LAMBDA b : <<Fails(Unlink(b)), Fails(Chdir(SubSeq(b, 1, 2)))>>)
       \o << Unlink(ffff), Unlink(<<"dd", "ff">>), Fails(Unlink(<<"dd">>)),
             Unlink(<<"dd", "dd">>), Unlink(<<"dd">>) >>

\* A write of more than one transaction, and twice, but less than a file.
bigwrite == << Try(Unlink(<<"bigwrite">>)) >> \o Each(<<3, WriteMax + 1>>, LAMBDA sz :
    <<Open("fd", <<"bigwrite">>, CRW)>>
    \o Times(IF 2 * sz <= MAXFILE * BSIZE THEN 2 ELSE 1, LAMBDA i : <<Write("fd", Toks("b", sz))>>)
    \o <<Close("fd"), Unlink(<<"bigwrite">>)>>)

bigfile ==
    LET n == 3
        sz == 6
    IN  << Try(Unlink(<<"bigfile.dat">>)), Open("fd", <<"bigfile.dat">>, CRW) >>
        \o Times(n, LAMBDA i : <<Write("fd", Toks(i, sz))>>)
        \o << Close("fd"), Open("fd", <<"bigfile.dat">>, RD) >>
        \o Times(2 * n, LAMBDA i : << Gives(Read("fd", sz \div 2), sz \div 2),
                                      Expect(Toks((i + 1) \div 2, sz \div 2)) >>)
        \o << Gives(Read("fd", sz \div 2), 0), Close("fd"), Unlink(<<"bigfile.dat">>) >>

fourteen ==
    LET a == "12345678901234"
        b == "123456789012345"
    IN  << Mkdir(<<a>>), Mkdir(<<a, b>>),
           Open("fd", <<b, b, b>>, {"CREATE"}), Close("fd"),
           Open("fd", <<a, a, a>>, RD), Close("fd"),
           Fails(Mkdir(<<a, a>>)), Fails(Mkdir(<<b, a>>)) >>
        \o Each(<< <<b, a>>, <<a, a>>, <<a, a, a>>, <<b, b, b>>, <<a, b>>, <<a>> >>,
                LAMBDA path : <<Try(Unlink(path))>>)

rmdot == << Mkdir(<<"dots">>), Chdir(<<"dots">>),
            Fails(Unlink(<<".">>)), Fails(Unlink(<<"..">>)), Chdir(<<"/">>),
            Fails(Unlink(<<"dots", ".">>)), Fails(Unlink(<<"dots", "..">>)), Unlink(<<"dots">>) >>

dirfile ==
    LET xx == <<"dirfile", "xx">>
    IN  << Open("fd", <<"dirfile">>, {"CREATE"}), Close("fd"),
           Fails(Chdir(<<"dirfile">>)), Fails(Open("fd", xx, RD)), Fails(Open("fd", xx, {"CREATE"})),
           Fails(Mkdir(xx)), Fails(Unlink(xx)), Fails(Link(<<"README">>, xx)),
           Unlink(<<"dirfile">>),
           Fails(Open("fd", <<".">>, RW)), Open("fd", <<".">>, RD),
           Within(Write("fd", <<"x">>), {-1, 0}), Close("fd") >>

\* An empty path names the current directory and no entry of it.
iref == Times(NINODE + 1, LAMBDA i :
            << Mkdir(<<"irefd">>), Chdir(<<"irefd">>),
               Try(Mkdir(<<>>)), Try(Link(<<"README">>, <<>>)),
               If(Open("fd", <<>>, {"CREATE"}), <<Close("fd")>>, <<>>),
               If(Open("fd", <<"xx">>, {"CREATE"}), <<Close("fd")>>, <<>>),
               Try(Unlink(<<"xx">>)) >>)
        \o Times(NINODE + 1, LAMBDA i : <<Try(Chdir(<<"..">>)), Try(Unlink(<<"irefd">>))>>)
        \o << Try(Chdir(<<"/">>)) >>

---------------------------------------------------------------------------
(* Running out of processes and of memory.                                 *)

TooMuch == 2 * NPAGE * PGSIZE

forktest == << Set("n", 0),
               While(Fork("pid", <<Exit(0)>>), <<Let("n", "n", 0, "zero", 1)>>),
               If(Test("n", {0}), Failed, <<>>),
               For("n", <<Wait("")>>), Fails(Wait("")) >>

sbrkbasic ==
    << Fork("pid", <<If(Sbrk("a", N(TooMuch)), <<Store(<<"a", TooMuch - 1>>), Exit(1)>>, <<>>), Exit(0)>>),
       Wait(""), If(Test("xstatus", {1}), Failed, <<>>),
       Sbrk("a", N(0)), Set("i", PGSIZE + 1),
       For("i", <<Sbrk("b", N(1)), Same("a", "b"), Store(<<"b", 0>>), Let("a", "b", 0, "zero", 1)>>),
       Fork("pid", <<>>),
       Try(Sbrk("c", N(1))), Try(Sbrk("c", N(1))),
       Let("d", "c", -1, "a", 0), Test("d", {1}),
       If(Test("pid", {0}), <<Exit(0)>>, <<>>), Wait(""), ExitStatus >>

sbrkmuch ==
    LET amt == 3 * PGSIZE
    IN  << Sbrk("oldbrk", N(0)), Sbrk("a", N(0)), Sbrk("p", N(amt)), Same("p", "a") >>
        \o Times(3, LAMBDA i : <<Store(<<"a", (i - 1) * PGSIZE>>)>>)
        \o << Store(<<"a", amt - 1>>),
              Sbrk("", N(-PGSIZE)), Sbrk("c", N(0)), Let("d", "c", -1, "a", 0), Test("d", {amt - PGSIZE}),
              Sbrk("e", N(PGSIZE)), Same("e", "c"),
              Sbrk("e", N(0)), Let("d", "e", -1, "a", 0), Test("d", {amt}),
              Load(<<"a", amt - 1>>), Test("cc", {0}),
              Sbrk("a", N(0)), Let("d", "oldbrk", -1, "a", 0), Sbrk("c", <<"d", 0>>), Same("c", "a") >>

\* The child may not get past the access.
Stopped(access) == Fork("pid", <<access, Exit(1)>>)
kernmem == Each(<<1000, 1500>>, LAMBDA a : <<Stopped(Load(N(a))), WaitFor("", -1)>>)
MAXVAplus == Each(<<2000, -1>>, LAMBDA a : <<Stopped(Store(N(a))), WaitFor("", -1)>>)

sbrkfail ==
    LET Hog == << Try(Sbrk("", N(TooMuch))), Try(Write("fds1", <<"x">>)), Forever >>
        Unhog(pid) == If(Test(pid, {-1}), <<>>, <<Try(Kill(pid)), Try(Wait(""))>>)
    IN  << Pipe >>
        \o Each(<<"p1", "p2">>, LAMBDA pid : <<If(Fork(pid, Hog), <<Try(Read("fds0", 1))>>, <<>>)>>)
        \o << Try(Sbrk("c", N(PGSIZE))) >> \o Each(<<"p1", "p2">>, LAMBDA pid : <<Unhog(pid)>>)
        \o << If(Test("c", {-1}), Failed, <<>>),
              Fork("pid", << Try(Sbrk("a", N(0))), Try(Sbrk("", N(TooMuch))),
                             Load(<<"a", 0>>), Load(<<"a", PGSIZE>>), Exit(1) >>),
              Wait(""), Test("xstatus", {-1, 2}) >>

sbrkarg == << Try(Sbrk("a", N(PGSIZE))), Open("fd", <<"sbrk">>, CW), Try(Unlink(<<"sbrk">>)),
              WriteFrom("fd", <<"a", 0>>, Toks("s", PGSIZE)), Close("fd"),
              Try(Sbrk("a", N(PGSIZE))), PipeTo(<<"a", 0>>) >>

validatetest == Times(Image + 4, LAMBDA p :
    <<Fails(Must("link", <<Str(<<"nosuchfile">>), StrAt(N((p - 1) * PGSIZE), 0, <<>>)>>, ""))>>)

bsstest == << Load(buf), Test("cc", {0}) >>

bigargtest == << Try(Unlink(<<"bigarg-ok">>)),
    Fork("pid", << Try(Exec(<<"echo">>, Toks(LongString, 3), echo(<<"echo", "bigargs">>))),
                   Try(Open("fd", <<"bigarg-ok">>, {"CREATE"})), Try(Close("fd")), Exit(0) >>),
    Wait(""), If(Test("xstatus", {0}), <<>>, <<ExitStatus>>),
    Open("fd", <<"bigarg-ok">>, RD), Close("fd") >>

argptest == << Open("fd", <<"init">>, RD), Sbrk("top", N(0)),
               Try(ReadTo("fd", <<"top", -1>>, N(-1))), Close("fd") >>

\* The page below the stack, and the text.
KilledIn(access) == <<Stopped(access), Wait(""), If(Test("xstatus", {-1}), <<Exit(0)>>, <<ExitStatus>>)>>
stacktest == KilledIn(Load(N(Image * PGSIZE)))
textwrite == KilledIn(Store(N(0)))

pgbug == << Try(Must("exec", <<StrAt(N(-1), 1, junk), <<>>, <<>>>>, "")), Try(PipeTo(N(-1))), Exit(0) >>

sbrkbugs ==
    LET After(code) == <<Fork("pid", code \o <<Exit(0)>>), Try(Wait(""))>>
        Shrink(n) == <<Try(Sbrk("sz", N(0))), Let("d", "zero", -1, "sz", n), Try(Sbrk("", <<"d", 0>>))>>
    IN  After(Shrink(0) \o <<Load(N(0))>>) \o After(Shrink(PGSIZE - 3))
        \o After(Shrink(6 * PGSIZE + PGSIZE \div 2) \o <<Try(Sbrk("", N(-1)))>>) \o <<Exit(0)>>

sbrklast ==
    LET x == StrAt(<<"top", -3>>, 1, <<"x">>)
        OpenX(mode) == Try(Must("open", <<x, mode>>, "fd"))
    IN  << Try(Sbrk("", N(PGSIZE))), Try(Sbrk("", N(4))), Try(Sbrk("", N(-8))), Try(Sbrk("top", N(0))),
           Store(<<"top", -3>>), OpenX(CRW), Try(WriteFrom("fd", <<"top", -3>>, <<"x">>)), Try(Close("fd")),
           OpenX(RW), Store(<<"top", -3>>), Try(ReadTo("fd", <<"top", -3>>, N(1))), Expect(<<"x">>) >>

\* 0x80000004 is negative for sbrk(), and the new size huge.
sbrk8000 == << Try(Sbrk("", N(-TooMuch))), Try(Sbrk("top", N(0))), Load(<<"top", -1>>), Store(<<"top", -1>>) >>

badarg == Times(N2 + 1, LAMBDA i : <<Try(Exec(<<"echo">>, <<NoString>>, echo(<<"echo", "bad">>)))>>) \o <<Exit(0)>>

\* The child uses all memory and gives some pages back, for exec() to fail
\* at each of its steps.
execout == Times(2 * Image + 5, LAMBDA avail :
    << Fork("pid", << While(Sbrk("a", N(PGSIZE)), <<Store(<<"a", PGSIZE - 1>>)>>) >>
                   \o Times(avail - 1, LAMBDA i : <<Try(Sbrk("", N(-PGSIZE)))>>)
                   \o << Close("1"), Try(Exec(<<"echo">>, <<"echo", "x">>, echo(<<"echo", "x">>))), Exit(0) >>),
       Wait("") >>) \o << Exit(0) >>

---------------------------------------------------------------------------
(* Running out of blocks, inodes and room in a directory.                  *)

bigdir ==
    LET n == 2 * BSIZE
    IN  << Try(Unlink(<<"bd">>)), Open("fd", <<"bd">>, {"CREATE"}), Close("fd") >>
        \o Times(n, LAMBDA i : <<Link(<<"bd">>, Name2("x", i))>>) \o << Unlink(<<"bd">>) >>
        \o Times(n, LAMBDA i : <<Unlink(Name2("x", i))>>)

manywrites ==
    LET Child(c) == << Try(Unlink(Name2("b", c))) >>
                    \o Times(c, LAMBDA i : << Open("fd", Name2("b", c), CRW),
                                              Write("fd", Toks(c, WriteMax + 1)), Close("fd") >>)
                    \o << Try(Unlink(Name2("b", c))), Try(Unlink(Name2("b", c))), Exit(0) >>
    IN  Times(NCHILD, LAMBDA c : <<Fork("pid", Child(c))>>) \o Reaped \o <<Exit(0)>>

badwrite == << Try(Unlink(<<"junk">>)), Set("i", NBLOCK + 1),
    For("i", << Open("fd", <<"junk">>, CW), Try(WriteFrom("fd", N(-1), <<"x">>)), Close("fd"),
                Try(Unlink(<<"junk">>)) >>),
    Open("fd", <<"junk">>, CW), Write("fd", <<"x">>), Close("fd"), Unlink(<<"junk">>), Exit(0) >>

\* Files named from x, each as long as it gets, until none can be made.
RECURSIVE Fill(_, _), FillFile(_, _, _)
Fill(x, i) == IF i > NINUM THEN <<>> ELSE
    << Try(Unlink(Name2(x, i))),
       If(Open("fd", Name2(x, i), {"CREATE", "RDWR", "TRUNC"}), FillFile(x, i, MAXFILE), <<>>) >>
FillFile(x, i, blocks) ==
    IF blocks = 0 THEN <<Try(Close("fd"))>> \o Fill(x, i + 1)
    ELSE <<If(Write("fd", Toks("f", BSIZE)), FillFile(x, i, blocks - 1), <<Try(Close("fd")), Try(Close("fd"))>>)>>

Empties(i) == << Try(Unlink(Name2("zz", i))),
                 If(Open("fd", Name2("zz", i), {"CREATE", "RDWR", "TRUNC"}), <<Close("fd")>>, <<>>) >>
UnlinkAll(x) == Times(NINUM, LAMBDA i : <<Try(Unlink(Name2(x, i)))>>)

diskfull == << Try(Unlink(<<"diskfulldir">>)) >> \o Fill("big", 1)
            \o Times(NINUM, Empties)
            \o << Try(Mkdir(<<"diskfulldir">>)), Try(Unlink(<<"diskfulldir">>)) >>
            \o UnlinkAll("zz") \o UnlinkAll("big")
outofinodes == Times(NINUM, Empties) \o UnlinkAll("zz")

\* Every test is run in a child, which must exit with 0.
run(f) == <<Fork("pid", f \o <<Exit(0)>>), WaitFor("", 0)>>
===========================================================================
