-------------------------------- MODULE Tty --------------------------------
(***************************************************************************)
(* The console (kernel/console.c) and the UART below it (kernel/uart.c):   *)
(* processes that write and read, and the interrupt handler, which puts    *)
(* what is typed into the input ring, echoes it and keeps the transmit     *)
(* buffer moving.  A section under cons.lock or uart_tx_lock is one step,  *)
(* and so is a turn of the handler's loop: on one CPU nothing runs while   *)
(* consputc() waits for the transmitter.                                   *)
(***************************************************************************)
EXTENDS Integers, FiniteSetsExt, SequencesExt

CONSTANTS
    Users,              \* processes
    INPUT_BUF_SIZE, UART_TX_BUF_SIZE,
    W,                  \* r, w and e wrap at W, a multiple of INPUT_BUF_SIZE
    MaxRead, MaxWrite   \* the most a call reads or writes

\* W is 2^32 and INPUT_BUF_SIZE 128 in the code.
ASSUME TtyAssumption ==
    /\ INPUT_BUF_SIZE \in Nat \ {0} /\ UART_TX_BUF_SIZE \in Nat \ {0}
    /\ W \in Nat /\ W > INPUT_BUF_SIZE /\ W % INPUT_BUF_SIZE = 0
    /\ MaxRead \in Nat /\ MaxWrite \in Nat

\* Kinds of characters.
Keys == {"x", "\n", "^D", "^U", "^H"}

VARIABLES
    r, w, e, ring,      \* cons
    rx,                 \* a character has arrived and is not read
    txq,                \* uart_tx_buf from uart_tx_r to uart_tx_w
    idle,               \* LSR_TX_IDLE
    uirq,               \* the UART interrupts
    uintr,              \* uartintr() is in its loop
    io                  \* each process: its step, what remains, whether it has read something

ttyVars == <<r, w, e, ring, rx, txq, idle, uirq, uintr, io>>
cons == <<r, w, e, ring>>
uart == <<txq, idle, uirq, uintr>>

consoleinit ==
    /\ r = 0 /\ w = 0 /\ e = 0 /\ ring = [i \in 0..(INPUT_BUF_SIZE - 1) |-> "x"]
    /\ rx = "none" /\ txq = <<>> /\ idle = TRUE /\ uirq = FALSE /\ uintr = FALSE
    /\ io = [p \in Users |-> [at |-> "user", n |-> 0, got |-> FALSE]]

Do(p, at, n, got) == io' = [io EXCEPT ![p] = [at |-> at, n |-> n, got |-> got]]
\* wakeup(): processes asleep at s go on, p does something else.
Woken(s, on) == [p \in Users |-> [io[p] EXCEPT !.at = IF @ = s THEN on ELSE @]]

---------------------------------------------------------------------------
(* Output.                                                                 *)

\* uartstart() with q to send: one character if the transmitter is idle.
uartstart(q) ==
    IF q # <<>> /\ idle THEN txq' = Tail(q) /\ idle' = FALSE ELSE txq' = q /\ UNCHANGED idle
Sends(q) == q # <<>> /\ idle

consolewrite(p) == /\ io[p].at = "user"
                   /\ \E n \in 1..MaxWrite : Do(p, "write", n, FALSE)
                   /\ UNCHANGED <<cons, rx, uart>>

\* uartputc(); the handler does not run while uart_tx_lock is held.
uartputc(p) ==
    /\ ~uintr /\ io[p].at = "write"
    /\ IF Len(txq) = UART_TX_BUF_SIZE
       THEN Do(p, "wsleep", io[p].n, FALSE) /\ UNCHANGED <<txq, idle>>
       ELSE LET q == Append(txq, "c")
            IN  /\ uartstart(q)
                /\ io' = [(IF Sends(q) THEN Woken("wsleep", "write") ELSE io) EXCEPT
                              ![p] = [at |-> IF io[p].n = 1 THEN "user" ELSE "write", n |-> io[p].n - 1, got |-> FALSE]]
    /\ UNCHANGED <<cons, rx, uirq, uintr>>

\* The transmitter is ready for more.
Transmitted ==
    /\ ~idle /\ idle' = TRUE /\ uirq' = TRUE
    /\ UNCHANGED <<cons, rx, txq, uintr, io>>

---------------------------------------------------------------------------
(* Input.                                                                  *)

Type(c) ==
    /\ rx = "none" /\ rx' = c /\ uirq' = TRUE
    /\ UNCHANGED <<cons, txq, idle, uintr, io>>

Count(from, to) == (to - from) % W
At(i) == ring[i % INPUT_BUF_SIZE]
Back(i) == (i - 1) % W

\* consoleintr(): ^U erases back to the last line, backspace one character.
KillLine == LET stop == {k \in 0..Count(w, e) : k = Count(w, e) \/ At((e - k - 1) % W) = "\n"}
            IN  (e - Min(stop)) % W
Erased(c) == CASE c = "^U" -> KillLine
               [] c = "^H" -> IF e # w THEN Back(e) ELSE e

Bug_Fits_OffByOne == Count(r, e) <= INPUT_BUF_SIZE
Fits == Count(r, e) < INPUT_BUF_SIZE

Stores(c) ==
    LET e2 == (e + 1) % W
        ends == c \in {"\n", "^D"} \/ Count(r, e2) = INPUT_BUF_SIZE
    IN  /\ ring' = [ring EXCEPT ![e % INPUT_BUF_SIZE] = c]
        /\ e' = e2
        /\ w' = IF ends THEN e2 ELSE w
        /\ io' = IF ends THEN Woken("rsleep", "read") ELSE io

\* Echoing waits until the transmitter is idle.
consoleintr(c) ==
    IF c \in {"^U", "^H"}
    THEN /\ e' = Erased(c)
         /\ idle' = (idle /\ e' = e) /\ (e' = e \/ idle)
         /\ UNCHANGED <<ring, w, io>>
    ELSE IF Fits THEN idle /\ idle' = FALSE /\ Stores(c)
                 ELSE UNCHANGED <<ring, w, e, io, idle>>

uartintr ==
    /\ uirq /\ ~uintr
    /\ uirq' = FALSE /\ uintr' = TRUE
    /\ UNCHANGED <<cons, rx, txq, idle, io>>

uartintr_getc ==
    /\ uintr /\ rx # "none"
    /\ rx' = "none"
    /\ consoleintr(rx)
    /\ UNCHANGED <<r, txq, uirq, uintr>>

Bug_uartintr_end_NoStart ==
    /\ uintr /\ rx = "none"
    /\ uintr' = FALSE
    /\ UNCHANGED <<cons, rx, uirq, txq, idle, io>>

uartintr_end ==
    /\ uintr /\ rx = "none"
    /\ uintr' = FALSE
    /\ uartstart(txq)
    /\ io' = IF Sends(txq) THEN Woken("wsleep", "write") ELSE io
    /\ UNCHANGED <<cons, rx, uirq>>

consoleread(p) == /\ io[p].at = "user"
                  /\ \E n \in 1..MaxRead : Do(p, "read", n, FALSE)
                  /\ UNCHANGED <<cons, rx, uart>>

\* consoleread(), from a wake-up to the next sleep or the return.  It takes
\* characters up to the end of a line; ^D after others stays for the next call.
consoleread_loop(p) ==
    LET n == io[p].n
        have == Count(r, w)
        c(k) == At(r + k - 1)
        ends == {k \in 1..have : c(k) \in {"\n", "^D"}}
        last == IF ends = {} THEN have ELSE Min(ends)
        k == Min({last, n})
        eof == k > 0 /\ c(k) = "^D"
        some == io[p].got \/ k > 1
    IN  /\ ~uintr /\ io[p].at = "read"
        /\ r' = (r + k - (IF eof /\ some THEN 1 ELSE 0)) % W
        /\ IF k = n \/ (k > 0 /\ k \in ends) THEN Do(p, "user", 0, FALSE)
           ELSE Do(p, "rsleep", n - k, io[p].got \/ k > 0)
        /\ UNCHANGED <<w, e, ring, rx, uart>>

\* A killed reader that was asleep returns; a writer goes on.
ttykill(p) ==
    /\ ~uintr
    /\ \/ io[p].at = "wsleep" /\ Do(p, "write", io[p].n, FALSE)
       \/ io[p].at = "rsleep" /\ IF r = w THEN Do(p, "user", 0, FALSE) ELSE Do(p, "read", io[p].n, io[p].got)
    /\ UNCHANGED <<cons, rx, uart>>

TtyNext ==
    \/ \E p \in Users : consolewrite(p) \/ uartputc(p) \/ consoleread(p) \/ consoleread_loop(p) \/ ttykill(p)
    \/ Transmitted \/ \E c \in Keys : Type(c)
    \/ uartintr \/ uartintr_getc \/ uartintr_end

TtySpec == consoleinit /\ [][TtyNext]_ttyVars

---------------------------------------------------------------------------
Ring(from, to) == [k \in 1..Count(from, to) |-> At(from + k - 1)]
LE == INSTANCE LineEditor WITH lines <- Ring(r, w), line <- Ring(w, e),
        Capacity <- INPUT_BUF_SIZE, Chars <- {"x", "\n", "^D"}, Enders <- {"\n", "^D"}

\* The input ring is a line editor: what can be read is never edited, and
\* what was typed is read in order, also when the counters wrap, when the
\* buffer is full and when ^D is put back (console.c:85-179).
IsLineEditor == LE!Spec

\* Nothing stops: output that waits has a transmitter at work or an interrupt
\* to come, writers sleep only for a full buffer and readers only for an
\* empty one (uart.c:95, 148 and 175-190, console.c:89 and 173).
IOGoesOn ==
    /\ txq # <<>> => ~idle \/ uirq \/ uintr
    /\ \A p \in Users : io[p].at = "wsleep" => Len(txq) = UART_TX_BUF_SIZE
    /\ \A p \in Users : io[p].at = "rsleep" => r = w
===========================================================================
