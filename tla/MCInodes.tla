------------------------------ MODULE MCInodes ------------------------------
EXTENDS Inodes

Call(do, path) == [do |-> do, path |-> path]
Link(old, new) == [do |-> "link", path |-> old, to |-> new]
Close == [do |-> "close"]
Write == [do |-> "write"]
a == <<"a">>
d == <<"d">>
da == <<"d", "a">>

Temp == << Call("create", a), Call("unlink", a), Close >>

\* Two processes with several calls each, and three with one each.
Long == << Temp,
           << Call("unlink", a), Call("mkdir", a) >>,
           << Call("create", da), Write, Close >>,
           << Call("unlink", d), Call("mkdir", d) >>,
           << Link(a, da), Call("unlink", da) >>,
           << Call("open", a), Write, Close >>,
           << Call("unlink", da), Call("unlink", d) >>,
           << Call("create", <<"a", "d">>), Call("create", d), Call("open", d), Close >> >>
Short == << << Call("unlink", a) >>,
            << Call("create", da) >>,
            << Call("unlink", d) >>,
            << Call("mkdir", <<"d", "d">>) >>,
            << Link(a, da) >> >>
FileJobs == {<< Long[i], Long[j], <<>> >> : i, j \in DOMAIN Long}
            \cup {<< Short[i], Short[j], Short[k] >> : i, j, k \in DOMAIN Short}
LeakJobs == { << << Call("unlink", a) >>, Temp, <<>> >> }
=============================================================================
