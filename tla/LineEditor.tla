----------------------------- MODULE LineEditor -----------------------------
(***************************************************************************)
(* What the console promises to those who read it: characters are edited   *)
(* until their line ends, and read in the order they were typed, no more   *)
(* than a line at a time.                                                  *)
(***************************************************************************)
EXTENDS Naturals, Sequences

CONSTANTS Capacity, Chars, Enders       \* Enders end a line: newline and ^D
VARIABLES lines,    \* what can be read
          line      \* what is still being edited

Init == lines = <<>> /\ line = <<>>

Type(c) ==
    /\ Len(lines) + Len(line) < Capacity
    /\ LET l == Append(line, c)
       IN  IF c \in Enders \/ Len(lines) + Len(l) = Capacity
           THEN lines' = lines \o l /\ line' = <<>>
           ELSE line' = l /\ UNCHANGED lines

\* Backspace and ^U leave a beginning of the line.
Erase == \E n \in 0..(Len(line) - 1) : line' = SubSeq(line, 1, n) /\ UNCHANGED lines

\* A reader takes a part of the first line, at most with what ends it.
Read == \E n \in 1..Len(lines) :
            /\ \A i \in 1..(n - 1) : lines[i] \notin Enders
            /\ lines' = SubSeq(lines, n + 1, Len(lines))
            /\ UNCHANGED line

Next == (\E c \in Chars : Type(c)) \/ Erase \/ Read
Spec == Init /\ [][Next]_<<lines, line>>
=============================================================================
