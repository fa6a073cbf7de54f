------------------------------- MODULE Grind -------------------------------
(***************************************************************************)
(* user/grind.c: two processes that make random system calls on the same   *)
(* few files, pipes and processes.  rand() is any choice.                  *)
(***************************************************************************)
EXTENDS Programs

CreateClose(path) == <<Try(Open("f", path, CRW)), Try(Close("f"))>>
Reopen(path) == <<Try(Close("fd")), Try(Open("fd", path, CRW))>>
InChild(code) == <<Fork("pid", code \o <<Exit(0)>>), Try(Wait(""))>>
TwoForks == <<Try(Fork("", <<>>)), Try(Fork("", <<>>))>>
a == <<"a">>
b == <<"b">>
Up(name) == <<"grindir", "..", name>>
Redirect(fd, other) == <<Close(fd), Gives(Dup("d", other), IF fd = "0" THEN 0 ELSE 1), Try(Close(other))>>

\* echo hi | cat, with the output read from a second pipe.
EchoHiCat ==
    LET Names(x) == <<Let(x \o "0", "fds0", 0, "zero", 0), Let(x \o "1", "fds1", 0, "zero", 0)>>
        Wrong == <<Set("bad", 1)>>
        Byte(x) == <<Try(Read("bb0", 1)), OrElse(Expect(x), Wrong)>>
        Zero == OrElse(Test("xstatus", {0}), Wrong)
        Child1 == << Try(Close("bb0")), Try(Close("bb1")), Try(Close("aa0")) >> \o Redirect("1", "aa1")
                  \o << Try(Exec(<<"grindir", "..", "echo">>, <<"echo", "hi">>, echo(<<"echo", "hi">>))), Exit(2) >>
        Child2 == << Try(Close("aa1")), Try(Close("bb0")) >> \o Redirect("0", "aa0") \o Redirect("1", "bb1")
                  \o << Try(Exec(<<"/", "cat">>, <<"cat">>, cat(<<"cat">>))), Exit(6) >>
    IN  <<Pipe>> \o Names("aa") \o <<Pipe>> \o Names("bb")
        \o << Fork("pid1", Child1), Fork("pid2", Child2),
              Try(Close("aa0")), Try(Close("aa1")), Try(Close("bb1")),
              Set("bad", 0) >> \o Byte(<<"hi">>) \o Byte(<<"\n">>) \o Byte(<<>>)
           \o << Try(Close("bb0")), Wait(""), Zero, Wait(""), Zero, Test("bad", {0}) >>

Moves ==
 << CreateClose(Up("a")),
    CreateClose(<<"grindir", "..", "grindir", "..", "b">>),
    << Try(Unlink(Up("a"))) >>,
    << Chdir(<<"grindir">>), Try(Unlink(<<"..", "b">>)), Try(Chdir(<<"/">>)) >>,
    Reopen(<<"/", "grindir", "..", "a">>),
    Reopen(<<"/", ".", "grindir", ".", "..", "b">>),
    << Try(Write("fd", Toks("w", 3))) >>,
    << Try(Read("fd", 3)) >>,
    << Try(Mkdir(Up("a"))) >> \o CreateClose(<<"a", "..", "a", ".", "a">>) \o << Try(Unlink(<<"a", "a">>)) >>,
    << Try(Mkdir(<<"/", "..", "b">>)) >> \o CreateClose(<<"grindir", "..", "b", "b">>)
        \o << Try(Unlink(<<"b", "b">>)) >>,
    << Try(Unlink(b)), Try(Link(<<"..", "grindir", ".", "..", "a">>, <<"..", "b">>)) >>,
    << Try(Unlink(<<"..", "grindir", "..", "a">>)), Try(Link(<<".", "..", "b">>, <<"/", "grindir", "..", "a">>)) >>,
    InChild(<<>>),
    InChild(TwoForks),
    << Try(Sbrk("", N(PGSIZE + 3))) >>,
    << Sbrk("top", N(0)), Let("d", "break0", -1, "top", 0), If(Test("d", {0}), <<>>, <<Try(Sbrk("", <<"d", 0>>))>>) >>,
    << Fork("pid", CreateClose(a) \o <<Exit(0)>>), Chdir(<<"..", "grindir", "..">>), Try(Kill("pid")), Try(Wait("")) >>,
    InChild(<< Getpid("me"), Try(Kill("me")) >>),
    << Pipe, Fork("pid", TwoForks \o << Try(Write("fds1", <<"x">>)), Try(Read("fds0", 1)), Exit(0) >>),
       Try(Close("fds0")), Try(Close("fds1")), Try(Wait("")) >>,
    InChild(<< Try(Unlink(a)), Try(Mkdir(a)), Try(Chdir(a)), Try(Unlink(<<"..", "a">>)),
               Try(Open("fd", <<"x">>, CRW)), Try(Unlink(<<"x">>)) >>),
    << Try(Unlink(<<"c">>)), Open("fd1", <<"c">>, CRW), Write("fd1", <<"x">>), Fstat("fd1"), Expect(<<"file", 1>>),
       Try(Close("fd1")), Try(Unlink(<<"c">>)) >>,
    EchoHiCat >>

\* iters moves, each any of those numbered in moves.
go(moves, iters) ==
    << Set("fd", -1), Sbrk("break0", N(0)), Try(Mkdir(<<"grindir">>)), Chdir(<<"grindir">>), Try(Chdir(<<"/">>)) >>
    \o FlattenSeq([i \in 1..iters |-> <<Choose([j \in DOMAIN moves |-> Moves[moves[j]]])>>])
iter(first, second, iters) ==
    << Try(Unlink(a)), Try(Unlink(b)), Fork("pid1", go(first, iters) \o <<Exit(0)>>),
       Fork("pid2", go(second, iters) \o <<Exit(0)>>),
       Wait(""), If(Test("xstatus", {0}), <<>>, <<Try(Kill("pid1")), Try(Kill("pid2"))>>), Try(Wait("")), Exit(0) >>
\* main(), one round of it.
grind(first, second, iters) ==
    << Fork("pid", iter(first, second, iters)), Try(Wait("")) >>
=============================================================================
