------------------------------ MODULE Programs ------------------------------
(***************************************************************************)
(* The shell (user/sh.c), init and the small programs of user/ as scripts. *)
(* A command line is a sequence of tokens, as gettoken() yields them; what *)
(* the programs print on errors is left out.                               *)
(***************************************************************************)
EXTENDS UserProcs

CONSTANT MAXARGS

RD == {}
WO == {"WRONLY"}
RW == {"RDWR"}
CW == {"CREATE", "WRONLY"}
CRW == {"CREATE", "RDWR"}
CTW == {"CREATE", "TRUNC", "WRONLY"}
All == 2 * MAXFILE * BSIZE                  \* more than any file has
Failed == <<Exit(1)>>
Toks(t, n) == [i \in 1..n |-> t]
Each(s, Body(_)) == FlattenSeq([i \in DOMAIN s |-> Body(s[i])])
Name2(x, i) == <<x \o ToString(i)>>

---------------------------------------------------------------------------
(* Small programs; argv[1] is their name.                                  *)

Args(argv) == Tail(argv)
\* A word is a path of one name, except these.
LongPaths == ("../d" :> <<"..", "d">>) @@ ("../../d" :> <<"..", "..", "d">>) @@ ("../h" :> <<"..", "h">>)
Path(w) == IF w \in DOMAIN LongPaths THEN LongPaths[w] ELSE <<w>>

echo(argv) == FlattenSeq([i \in 1 .. Len(argv) - 1 |->
                 << Try(Write("1", <<argv[i + 1]>>)),
                    Try(Write("1", <<IF i + 1 < Len(argv) THEN " " ELSE "\n">>)) >>]) \o <<Exit(0)>>

\* What it has read goes to 1.
Filter(fd, n) == << While(Within(Read(fd, n), 1..n), <<Copy("1")>>),
                    If(Test("cc", {0}), <<>>, Failed) >>
Files(argv, Body(_)) ==
    IF Len(argv) = 1 THEN Body("0")
    ELSE Each(Args(argv), LAMBDA f : <<Open("fd", Path(f), RD)>> \o Body("fd") \o <<Try(Close("fd"))>>)
cat(argv) == Files(argv, LAMBDA fd : Filter(fd, 2)) \o <<Exit(0)>>
wc(argv) == Files(argv, LAMBDA fd :
               << Set("c", 0), While(Within(Read(fd, 2), 1..2), <<Let("c", "c", 1, "cc", 0)>>),
                  If(Test("cc", {0}), <<>>, Failed), Try(Write("1", <<"count">>)) >>) \o <<Exit(0)>>

ln(argv) == IF Len(argv) # 3 THEN Failed ELSE <<Try(Link(Path(argv[2]), Path(argv[3]))), Exit(0)>>
\* rm and mkdir stop at the first name that fails.
Until(argv, Op(_)) == IF Len(argv) < 2 THEN Failed
                      ELSE Each(Args(argv), LAMBDA f : <<OrElse(Op(f), <<Exit(0)>>)>>) \o <<Exit(0)>>
rm(argv) == Until(argv, LAMBDA f : Unlink(Path(f)))
mkdir(argv) == Until(argv, LAMBDA f : Mkdir(Path(f)))
killprog(argv) == IF Len(argv) < 2 THEN Failed ELSE <<Set("p", 99), Try(Kill("p")), Exit(0)>>
zombie == <<Try(Fork("", <<Exit(0)>>)), Exit(0)>>

ls == << OrElse(Open("fd", <<".">>, RD), <<Exit(0)>>), OrElse(Fstat("fd"), <<Try(Close("fd")), Exit(0)>>),
         While(Within(Read("fd", 1), {1}),
               <<If(OpenRead("st"), <<Try(Fstat("st")), Try(Close("st")), Try(Write("1", <<"line">>))>>, <<>>)>>),
         Try(Close("fd")), Exit(0) >>

stressfs ==
    LET path(i) == Name2("stressfs", i)
        Loop(i) == << Try(Open("fd", path(i), CRW)), Try(Write("fd", Toks("a", 2))), Try(Write("fd", Toks("a", 2))),
                      Try(Close("fd")), Try(Open("fd", path(i), RD)), Try(Read("fd", 2)), Try(Read("fd", 2)),
                      Try(Close("fd")), Try(Wait("")), Exit(0) >>
    IN  <<Try(Fork("p", Loop(1)))>> \o Loop(0)

\* Runs body n times, n a variable.
For(n, body) == While(Must("let", <<n, "zero", 0, -1>>, n), body)
forkprog == << Try(Write("1", <<"fork test">>)), Set("n", 0),
               While(Fork("pid", <<Exit(0)>>), <<Let("n", "n", 0, "zero", 1)>>),
               For("n", <<Wait("")>>), Fails(Wait("")), Try(Write("1", <<"OK">>)), Exit(0) >>

Program(argv) ==
    LET name == argv[1]
    IN  CASE name = "echo" -> echo(argv) [] name = "cat" -> cat(argv) [] name = "wc" -> wc(argv)
          [] name = "ln" -> ln(argv) [] name = "rm" -> rm(argv) [] name = "mkdir" -> mkdir(argv)
          [] name = "kill" -> killprog(argv) [] name = "zombie" -> zombie [] name = "ls" -> ls
          [] name = "stressfs" -> stressfs [] name = "forktest" -> forkprog [] OTHER -> <<>>

---------------------------------------------------------------------------
(* The parser of the shell: what is parsed, the tokens left, and whether   *)
(* it panicked.                                                            *)

Symbols == {"<", ">", ">>", "|", "&", ";", "(", ")"}
peek(s, toks) == s # <<>> /\ Head(s) \in toks
Parsed(cmd, rest) == [cmd |-> cmd, rest |-> rest, bad |-> FALSE]
Syntax == [cmd |-> [type |-> "EXEC", argv |-> <<>>], rest |-> <<>>, bad |-> TRUE]

redircmd(cmd, op, file) ==
    [type |-> "REDIR", cmd |-> cmd, file |-> file, fd |-> IF op = "<" THEN "0" ELSE "1",
     mode |-> CASE op = "<" -> RD [] op = ">" -> CTW [] op = ">>" -> CW]
backcmd(cmd) == [type |-> "BACK", cmd |-> cmd]
listcmd(l, r) == [type |-> "LIST", left |-> l, right |-> r]
pipecmd(l, r) == [type |-> "PIPE", left |-> l, right |-> r]

RECURSIVE parseredirs(_, _), Words(_, _, _), parsepipe(_), Backs(_, _), parseline(_)

parseredirs(cmd, s) ==
    IF ~peek(s, {"<", ">", ">>"}) THEN Parsed(cmd, s)
    ELSE IF Len(s) < 2 \/ s[2] \in Symbols THEN Syntax
    ELSE parseredirs(redircmd(cmd, s[1], s[2]), SubSeq(s, 3, Len(s)))

\* Words and redirections mixed; each redirection encloses the ones before it.
Words(s, argv, Wrap) ==
    LET r == parseredirs(Wrap, s)
    IN  IF r.bad THEN [r EXCEPT !.rest = <<>>] @@ [argv |-> argv]
        ELSE IF r.rest = <<>> \/ peek(r.rest, {"|", ")", "&", ";"}) THEN r @@ [argv |-> argv]
        ELSE IF Head(r.rest) \in Symbols \/ Len(argv) + 1 >= MAXARGS THEN Syntax @@ [argv |-> argv]
        ELSE Words(Tail(r.rest), Append(argv, Head(r.rest)), r.cmd)

\* The command that redirections enclose is execcmd(), filled in at the end.
RECURSIVE Fill0(_, _)
Fill0(cmd, argv) == IF cmd.type = "REDIR" THEN [cmd EXCEPT !.cmd = Fill0(@, argv)]
                    ELSE [type |-> "EXEC", argv |-> argv]

\* b is what follows "(", w the words and redirections of a plain command.
parseblock(b) == IF b.bad \/ ~peek(b.rest, {")"}) THEN Syntax
                 ELSE parseredirs(b.cmd, Tail(b.rest))
plain(w) == IF w.bad THEN Syntax ELSE Parsed(Fill0(w.cmd, w.argv), w.rest)
parseexec(s) == IF peek(s, {"("}) THEN parseblock(parseline(Tail(s)))
                ELSE plain(Words(s, <<>>, [type |-> "EXEC", argv |-> <<>>]))

\* l is the left side of the pipe, if there is one.
piped(l) == IF l.bad \/ ~peek(l.rest, {"|"}) THEN l
            ELSE [parsepipe(Tail(l.rest)) EXCEPT !.cmd = pipecmd(l.cmd, @)]
parsepipe(s) == piped(parseexec(s))

Backs(cmd, s) == IF peek(s, {"&"}) THEN Backs(backcmd(cmd), Tail(s)) ELSE Parsed(cmd, s)

listed(l) == IF ~peek(l.rest, {";"}) THEN l
             ELSE [parseline(Tail(l.rest)) EXCEPT !.cmd = listcmd(l.cmd, @)]
ended(p) == IF p.bad THEN p ELSE listed(Backs(p.cmd, p.rest))
parseline(s) == ended(parsepipe(s))

parsecmd(s) == LET p == parseline(s) IN IF p.rest # <<>> THEN Syntax ELSE p

---------------------------------------------------------------------------
(* The shell runs a command; every branch ends with exit().                *)

fork1(to, child) == OrElse(Fork(to, child), Failed)

RECURSIVE runcmd(_)
runcmd(c) ==
    LET End(fd, other) == << Try(Close(fd)), Try(Dup("d", other)), Try(Close("fds0")), Try(Close("fds1")) >>
    IN  CASE c.type = "EXEC" ->
               IF c.argv = <<>> THEN Failed
               ELSE << Try(Exec(<<c.argv[1]>>, c.argv, Program(c.argv))), Exit(0) >>
          [] c.type = "REDIR" ->
               << Try(Close(c.fd)), Open("fd", Path(c.file), c.mode) >> \o runcmd(c.cmd)
          [] c.type = "LIST" -> << fork1("", runcmd(c.left)), Try(Wait("")) >> \o runcmd(c.right)
          [] c.type = "PIPE" ->
               << Pipe, fork1("", End("1", "fds1") \o runcmd(c.left)),
                  fork1("", End("0", "fds0") \o runcmd(c.right)),
                  Try(Close("fds0")), Try(Close("fds1")), Try(Wait("")), Try(Wait("")), Exit(0) >>
          [] c.type = "BACK" -> << fork1("", runcmd(c.cmd)), Exit(0) >>

console == <<"console">>
RECURSIVE Consoles(_)
Consoles(n) == <<If(Open("fd", console, RW),
                    IF n = 0 THEN <<>> ELSE <<If(Test("fd", {0, 1, 2}), Consoles(n - 1), <<Try(Close("fd"))>>)>>,
                    <<>>)>>

\* The lines are what the shell reads; "cd" is its own command.
Line(s) ==
    LET p == parsecmd(s)
    IN  << Try(Write("2", <<"$ ">>)) >> \o
        (IF Head(s) = "cd" THEN << Try(Chdir(Path(s[2]))) >>
         ELSE << fork1("", IF p.bad THEN Failed ELSE runcmd(p.cmd)), Try(Wait("")) >>)
sh(lines) == Consoles(4) \o Each(lines, Line) \o << Exit(0) >>

\* One shell after the other, for each sequence of lines.
Shells(sessions) == Each(sessions, LAMBDA lines :
    << Fork("pid", <<Try(Exec(<<"sh">>, <<"sh">>, sh(lines))), Exit(1)>>), Set("w", 0),
       While(Fails(Same("w", "pid")), <<Wait("w")>>) >>)
init(sessions) ==
    << If(Open("fd", console, RW), <<>>, <<Try(Mknod(console)), Try(Open("fd", console, RW))>>),
       Try(Dup("d", "0")), Try(Dup("d", "0")) >> \o Shells(sessions)
=============================================================================
