------------------------------ MODULE MCCalls ------------------------------
EXTENDS UserTests, Grind

CONSTANT Chosen     \* the scenarios to run

VARIABLE test       \* what usertests, or the user, runs
vars == <<k, user, test>>

Tests == [copyin |-> copyin, copyout |-> copyout, copyinstr1 |-> copyinstr1,
           copyinstr2 |-> copyinstr2, copyinstr3 |-> copyinstr3, rwsbrk |-> rwsbrk,
           truncate1 |-> truncate1, truncate2 |-> truncate2, truncate3 |-> truncate3,
           openiputtest |-> openiputtest, exitiputtest |-> exitiputtest,
           iputtest |-> iputtest, opentest |-> opentest, writetest |-> writetest,
           writebig |-> writebig, createtest |-> createtest, dirtest |-> dirtest,
           exectest |-> exectest, pipe1 |-> pipe1, killstatus |-> killstatus,
           preempt |-> preempt, exitwait |-> exitwait, reparent |-> reparent,
           twochildren |-> twochildren, forkfork |-> forkfork,
           forkforkfork |-> forkforkfork, reparent2 |-> reparent2, mem |-> mem,
           sharedfd |-> sharedfd, fourfiles |-> fourfiles, createdelete |-> createdelete,
           unlinkread |-> unlinkread, linktest |-> linktest, concreate |-> concreate,
           linkunlink |-> linkunlink, subdir |-> subdir, bigwrite |-> bigwrite,
           bigfile |-> bigfile, fourteen |-> fourteen, rmdot |-> rmdot,
           dirfile |-> dirfile, iref |-> iref, forktest |-> forktest,
           sbrkbasic |-> sbrkbasic, sbrkmuch |-> sbrkmuch, kernmem |-> kernmem,
           MAXVAplus |-> MAXVAplus, sbrkfail |-> sbrkfail, sbrkarg |-> sbrkarg,
           validatetest |-> validatetest, bsstest |-> bsstest, bigargtest |-> bigargtest,
           argptest |-> argptest, stacktest |-> stacktest, textwrite |-> textwrite,
           pgbug |-> pgbug, sbrkbugs |-> sbrkbugs, sbrklast |-> sbrklast,
           sbrk8000 |-> sbrk8000, badarg |-> badarg, bigdir |-> bigdir,
           manywrites |-> manywrites, badwrite |-> badwrite, execout |-> execout,
           diskfull |-> diskfull, outofinodes |-> outofinodes]

Sessions == {"pipeline", "lists", "links", "mistakes", "stress", "boot"}
SessionsOf == [
    pipeline |-> sh(<< <<"echo", "hi", "|", "cat", ">", "y">> >>),
    lists |-> sh(<< <<"(", "echo", "a", ";", "echo", "b", ")", ">", "y">>,
                    <<"zombie", "&">>, <<"echo", "c", ">>", "y", "<", "README">> >>),
    links |-> sh(<< <<"mkdir", "d">>, <<"echo", "f", ">", "f">>, <<"ln", "f", "g">>, <<"cat", "f", "g", ">", "x">>,
                    <<"rm", "f", "g", "h">>, <<"ls">>, <<"wc", "x">>, <<"cd", "d">>, <<"nosuch", ">", "../h">>,
                    <<"cd", "..">>, <<"rm", "d", "h">> >>),
    mistakes |-> sh(<< <<"(", "echo">>, <<">">>, <<"cat", "nosuch">>, <<"nosuch">>, <<"|", "cat">>,
                       <<"kill", "99">>, <<"ln", "x">>, <<"echo", "1", "2", "3", "4", "5">>, <<"cd", "nosuch">> >>),
    stress |-> sh(<< <<"stressfs">>, <<"forktest">> >>),
    boot |-> <<Close("0"), Close("1"), Close("2")>> \o init(<< << <<"zombie">> >>, <<>> >>)]
Grinds == [grind1 |-> grind([j \in 1..22 |-> j], <<20, 11>>, 1)]

---------------------------------------------------------------------------
(* The machine after boot: mkfs has written the programs (user/*.c), init  *)
(* has made the console, and usertests has been started.                   *)

Programs0 == <<"init", "echo", "cat">>
Installed == Programs0 \o CASE test = "links" -> <<"ln", "rm", "mkdir", "ls", "wc">>
                            [] test = "lists" -> <<"zombie">>
                            [] test = "mistakes" -> <<"kill", "ln">>
                            [] test = "stress" -> <<"stressfs", "forktest">>
                            [] test = "boot" -> <<"sh", "zombie">>
                            [] OTHER -> <<>>
Entry(name, inum) == [name |-> name, inum |-> inum]
Root == << Entry(".", 1), Entry("..", 1), Entry("console", 2), Entry("README", 3) >>
        \o [i \in DOMAIN Installed |-> Entry(Installed[i], i + 3)]
NoInode == [type |-> "none", nlink |-> 0, ref |-> 0, blocks |-> 0, indirect |-> FALSE, data |-> <<>>]
File(d) == [NoInode EXCEPT !.type = "file", !.nlink = 1, !.blocks = 1, !.data = d]
Boot(procs) ==
    [r |-> 0, buf |-> <<>>, more |-> FALSE, out |-> <<>>, panic |-> FALSE,
     free |-> NPAGE, blocks |-> NBLOCK, nextpid |-> Cardinality(procs) + 1,
     inode |-> [i \in 1..NINUM |->
        CASE i = 1 -> [NoInode EXCEPT !.type = "dir", !.nlink = 1, !.ref = Cardinality(procs), !.data = Root,
                             !.indirect = Len(Root) > NDIRECT * BSIZE, !.blocks = (Len(Root) + BSIZE - 1) \div BSIZE]
          [] i = 2 -> [NoInode EXCEPT !.type = "dev", !.nlink = 1, !.ref = 1]
          [] i = 3 -> File(<<"xv6", "is", "a">>)
          [] i \in 4 .. Len(Installed) + 3 -> File(<<"ELF">>)
          [] OTHER -> NoInode],
     file |-> [f \in 1..NFILE |-> IF f = 1 THEN
        [NoFile EXCEPT !.ref = 3 * Cardinality(procs), !.type = "device", !.readable = TRUE, !.writable = TRUE, !.ip = 2]
        ELSE NoFile],
     pipe |-> [i \in 1..NPIPE |-> [used |-> FALSE, readopen |-> FALSE, writeopen |-> FALSE, data |-> <<>>]],
     proc |-> [p \in procs |->
        [parent |-> IF p = 1 THEN 0 ELSE 1, zombie |-> FALSE, xstate |-> 0, killed |-> FALSE,
         sz |-> (Image + 2) * PGSIZE, dirty |-> {}, cwd |-> 1,
         ofile |-> [fd \in 0 .. NOFILE-1 |-> IF fd < 3 THEN 1 ELSE 0]]]]

\* A process that waits for input all the time takes the slot of a child of
\* forkforkfork, whose descendants are all alike.
Idle == IF test = "forkforkfork" THEN {3} ELSE {}

\* Process 2, a child of init, runs one test; a session is checked by what it
\* leaves in a file.
Reaper == <<While(Wait(""), <<>>)>>
Holds(file, s) == <<Open("fd", <<file>>, RD), Gives(Read("fd", All), Len(s)), Expect(s), Close("fd")>>
Check == CASE test = "pipeline" -> Holds("y", <<"hi", "\n">>)
           [] test = "lists" -> Holds("y", <<"c", "\n", "b", "\n">>)    \* >> starts at offset 0
           [] test = "links" -> Holds("x", <<"f", "\n", "f", "\n">>)
           [] OTHER -> <<>>

Scenario == Tests @@ SessionsOf @@ Grinds
AllTests == DOMAIN Scenario
GrindOnly == DOMAIN Grinds

Init == /\ test \in Chosen
        /\ k = Boot({1, 2} \cup Idle)
        /\ user = [p \in {1, 2} \cup Idle |->
                      Started(CASE p = 1 -> Reaper [] p = 2 -> (run(Scenario[test]) \o Check \o <<Done>>) [] OTHER -> <<Forever>>)]

\* The test and all it started have ended.
Quiet == Has(2, {"done"}) /\ DOMAIN k.proc = {1, 2} \cup Idle
Running == (\E p \in DOMAIN user : Step(p)) /\ UNCHANGED test
Finished == Quiet /\ UNCHANGED vars
Next == Running \/ Finished
Spec == Init /\ [][Next]_vars

---------------------------------------------------------------------------
\* No test finds a wrong result, and the kernel does not panic.
TestsPass == /\ ~k.panic
             /\ ~Has(2, {"exit"})

Slots2(f) == {<<p, fd>> \in (DOMAIN k.proc) \X (0 .. NOFILE-1) : k.proc[p].ofile[fd] = f}
Entries2(i) == {<<d, s>> \in (1..NINUM) \X (1..All) :
    /\ k.inode[d].type = "dir" /\ s \in DOMAIN k.inode[d].data
    /\ k.inode[d].data[s].inum = i
    /\ k.inode[d].data[s].name # "." /\ (k.inode[d].data[s].name = ".." => k.inode[d].nlink > 0)}

\* References are counted exactly: those to a file by descriptors, those to
\* an inode by files and current directories, its links by
\* entries, of which the ".." of a directory that has been removed no longer counts.
RefsExact ==
    /\ \A f \in 1..NFILE : k.file[f].ref = Cardinality(Slots2(f))
    /\ \A i \in 1..NINUM :
        /\ k.inode[i].ref = Cardinality({f \in 1..NFILE : k.file[f].ip = i})
                            + Cardinality({p \in DOMAIN k.proc : k.proc[p].cwd = i})
        /\ k.inode[i].type # "none" => k.inode[i].nlink = Cardinality(Entries2(i))
        /\ k.inode[i].type = "none" => Entries2(i) = {}

Held(kk, i) == kk.inode[i].blocks + (IF kk.inode[i].indirect THEN 1 ELSE 0)
Reserved == MapThenSumSet(LAMBDA i : Held(Boot({}), i), 1..NINUM)
\* When a test and all it started has ended, no page, pipe or file is lost,
\* and every block is free or held by an inode.
NothingLost ==
    Quiet => /\ k.free = NPAGE
             /\ \A f \in 2..NFILE : k.file[f].ref = 0
             /\ k.blocks + MapThenSumSet(LAMBDA i : Held(k, i), 1..NINUM) = NBLOCK + Reserved
===========================================================================
