---------------------------- MODULE Pipe_proofs ----------------------------
(* Theorems about Pipe for every set of processes and bytes, every         *)
(* capacity and every width of the counters, checked by TLAPS.             *)
EXTENDS Pipe, Integers, SequenceTheorems, TLAPS

Writing == {"write", "put", "wsleep", "wwoken"}
Reading == {"read", "wait", "rsleep", "rwoken", "copy"}
Calls   == {"user", "rclose", "wclose"} \cup Writing \cup Reading
\* A process is here only while it holds pi->lock.
Locked  == {"write", "put", "read", "wait", "copy"}

\* Who is in a call has its end open; an end that somebody has is open; an end
\* that is being closed belongs to nobody and is closed once.
EndsRight ==
    /\ \A p \in Procs : /\ pc[p] \in Writing => "w" \in holds[p]
                        /\ pc[p] \in Reading => "r" \in holds[p]
                        /\ "r" \in holds[p] => readopen
                        /\ "w" \in holds[p] => writeopen
    /\ \A p \in Procs : pc[p] = "rclose" =>
          /\ readopen
          /\ \A q \in Procs : "r" \notin holds[q] /\ (pc[q] = "rclose" => q = p)
    /\ \A p \in Procs : pc[p] = "wclose" =>
          /\ writeopen
          /\ \A q \in Procs : "w" \notin holds[q] /\ (pc[q] = "wclose" => q = p)
    /\ freed <=> ~readopen /\ ~writeopen

LockRight == \A p \in Procs : pc[p] \in Locked <=> lock = p

\* What was tested under the lock still holds.
TestsHold == \A p \in Procs : /\ pc[p] = "put" => i[p] < n[p] /\ readopen
                              /\ pc[p] = "wait" => writeopen /\ Empty

\* Why a sleeper sleeps: its condition holds, or the process that has ended
\* it has the lock and will wake it.
SleepersRight ==
    /\ \A p \in Procs : pc[p] = "wsleep" =>
          readopen /\ (Full \/ \E q \in Procs : pc[q] = "copy")
    /\ \A p \in Procs : pc[p] = "rsleep" =>
          /\ writeopen
          /\ \/ Empty \/ abandoned
             \/ \E q \in Procs : pc[q] \in {"write", "put"} /\ i[q] > 0

IInv == TypeOK /\ EndsRight /\ LockRight /\ TestsHold /\ SleepersRight

-----------------------------------------------------------------------------

LEMMA InitRight == Init => IInv
<1>1. Init => TypeOK
  <2> SUFFICES ASSUME Init PROVE TypeOK
    OBVIOUS
  <2>1. 0 \in 0..(W - 1) /\ 0 \in 0..MaxN
    BY PipeAssumption
  <2>2. data \in [0..(PIPESIZE - 1) -> Bytes \cup {None}]
    BY DEF Init
  <2>3. holds \in [Procs -> SUBSET Ends]
    BY DEF Init
  <2>4. pc \in [Procs -> {"user"}]
    BY DEF Init
  <2> QED BY <2>1, <2>2, <2>3, <2>4 DEF Init, TypeOK
<1>2. Init => EndsRight
  BY DEF Init, EndsRight, Writing, Reading, Ends
<1>3. Init => LockRight /\ TestsHold /\ SleepersRight
  BY PipeAssumption DEF Init, LockRight, TestsHold, SleepersRight, Locked
<1> QED BY <1>1, <1>2, <1>3 DEF IInv

\* The counters stay below W.
LEMMA IncrType == \A k \in 0..(W - 1) : Incr(k) \in 0..(W - 1)
BY PipeAssumption DEF Incr

LEMMA TypeNext == TypeOK /\ TestsHold /\ [Next]_vars => TypeOK'
<1> SUFFICES ASSUME TypeOK, TestsHold, [Next]_vars PROVE TypeOK'
  OBVIOUS
<1>1. CASE UNCHANGED vars
  BY <1>1 DEF vars, content, ends, killedVars, TypeOK
<1>2. ASSUME NEW p \in Procs, Step(p) PROVE TypeOK'
  <2>1. ASSUME NEW x \in Bytes, WritePut(p, x) PROVE TypeOK'
    <3>1. i[p] \in 0..MaxN /\ n[p] \in 0..MaxN /\ i[p] < n[p]
      BY <2>1 DEF TypeOK, TestsHold, WritePut
    <3>2. i[p] + 1 \in 0..MaxN
      BY <3>1, PipeAssumption
    <3>3. i' \in [Procs -> 0..MaxN] /\ n' \in [Procs -> 0..MaxN]
      BY <2>1, <3>2 DEF WritePut, TypeOK
    <3>4. data' \in [0..(PIPESIZE - 1) -> Bytes \cup {None}]
      BY <2>1 DEF WritePut, TypeOK
    <3>5. nwrite' \in 0..(W - 1) /\ nread' \in 0..(W - 1)
      BY <2>1, IncrType DEF WritePut, TypeOK
    <3> QED
      BY <2>1, <3>3, <3>4, <3>5 DEF WritePut, TypeOK, Goto, ends, killedVars
  <2>2. CASE WriteTest(p)
    BY <2>2 DEF WriteTest, TypeOK, Goto, content, ends, killedVars
  <2>3. CASE WriteFails(p)
    BY <2>3 DEF WriteFails, TypeOK, Goto, content, ends, killedVars
  <2>4. CASE WriteSleep(p)
    BY <2>4 DEF WriteSleep, TypeOK, WakeReaders, content, ends, killedVars
  <2>5. CASE WriteWoken(p)
    BY <2>5 DEF WriteWoken, TypeOK, Goto, content, ends, killedVars
  <2>6. CASE WriteDone(p)
    BY <2>6 DEF WriteDone, TypeOK, WakeReaders, content, ends, killedVars
  <2>7. CASE ReadTest(p)
    BY <2>7 DEF ReadTest, TypeOK, Goto, content, ends, killedVars
  <2>8. CASE ReadFails(p)
    BY <2>8 DEF ReadFails, TypeOK, Goto, content, ends, killedVars
  <2>9. CASE ReadSleep(p)
    BY <2>9 DEF ReadSleep, TypeOK, Goto, content, ends, killedVars
  <2>10. CASE ReadWoken(p)
    BY <2>10 DEF ReadWoken, TypeOK, Goto, content, ends, killedVars
  <2>11. CASE ReadCopies(p)
    BY <2>11 DEF ReadCopies, TypeOK, Goto, content, ends, killedVars
  <2>12. CASE ReadTake(p)
    <3>1. i[p] \in 0..MaxN /\ n[p] \in 0..MaxN
      BY DEF TypeOK
    <3>2. i[p] + 1 \in 0..MaxN
      BY <2>12, <3>1, PipeAssumption DEF ReadTake
    <3>3. i' \in [Procs -> 0..MaxN] /\ n' \in [Procs -> 0..MaxN]
      BY <2>12, <3>1, <3>2 DEF ReadTake, TypeOK
    <3>4. nread' \in 0..(W - 1)
      BY <2>12, IncrType DEF ReadTake, TypeOK
    <3> QED
      BY <2>12, <3>3, <3>4 DEF ReadTake, TypeOK, ends, killedVars
  <2>13. CASE ReadDone(p)
    BY <2>13 DEF ReadDone, TypeOK, WakeWriters, content, ends, killedVars
  <2>14. CASE pipeclose_r(p)
    BY <2>14 DEF pipeclose_r, TypeOK, WakeWriters, content, ends, killedVars
  <2>15. CASE pipeclose_w(p)
    BY <2>15 DEF pipeclose_w, TypeOK, WakeReaders, content, ends, killedVars
    <2> QED BY <1>2, <2>1, <2>2, <2>3, <2>4, <2>5, <2>6, <2>7, <2>8, <2>9,
             <2>10, <2>11, <2>12, <2>13, <2>14, <2>15 DEF Step
<1>3. ASSUME NEW p \in Procs, User(p) PROVE TypeOK'
  <2>1. CASE WriteCall(p)
    BY <2>1, PipeAssumption
    DEF WriteCall, TypeOK, Goto, content, ends, killedVars
  <2>2. CASE ReadCall(p)
    BY <2>2, PipeAssumption
    DEF ReadCall, TypeOK, Goto, content, ends, killedVars
  <2>3. CASE Kill(p)
    BY <2>3, PipeAssumption DEF Kill, TypeOK, Goto, content, ends, killedVars
  <2>4. ASSUME NEW e \in Ends, Close(p, e) PROVE TypeOK'
    BY <2>4 DEF Close, Goto, TypeOK, content, ends, killedVars
  <2>5. ASSUME NEW q \in Procs, Fork(p, q) PROVE TypeOK'
    BY <2>5 DEF Fork, TypeOK, content, ends, killedVars
  <2> QED BY <1>3, <2>1, <2>2, <2>3, <2>4, <2>5 DEF User
<1> QED BY <1>1, <1>2, <1>3 DEF Next

\* The lock is taken only when it is free and released by its holder.
LEMMA LockNext == TypeOK /\ LockRight /\ [Next]_vars => LockRight'
<1> SUFFICES ASSUME TypeOK, LockRight, [Next]_vars
             PROVE  LockRight'
  OBVIOUS
<1>1. CASE UNCHANGED vars
  BY <1>1 DEF TypeOK, LockRight, Locked, None, vars, content, ends, killedVars
<1>2. ASSUME NEW p \in Procs, Step(p) PROVE LockRight'
  <2>1. CASE WriteTest(p)
    BY <2>1, PipeAssumption
    DEF WriteTest, Goto, TypeOK, LockRight, Locked, None, content, ends,
        killedVars
  <2>2. CASE WriteFails(p)
    BY <2>2, PipeAssumption
    DEF WriteFails, Goto, TypeOK, LockRight, Locked, None, content, ends,
        killedVars
  <2>3. CASE WriteSleep(p)
    BY <2>3, PipeAssumption
    DEF WriteSleep, WakeReaders, TypeOK, LockRight, Locked, None, content,
        ends, killedVars
  <2>4. CASE WriteWoken(p)
    BY <2>4, PipeAssumption
    DEF WriteWoken, Goto, TypeOK, LockRight, Locked, None, content, ends,
        killedVars
  <2>5. CASE WriteDone(p)
    BY <2>5, PipeAssumption
    DEF WriteDone, WakeReaders, TypeOK, LockRight, Locked, None, content,
        ends, killedVars
  <2>6. CASE ReadTest(p)
    BY <2>6, PipeAssumption
    DEF ReadTest, Goto, TypeOK, LockRight, Locked, None, content, ends,
        killedVars
  <2>7. CASE ReadFails(p)
    BY <2>7, PipeAssumption
    DEF ReadFails, Goto, TypeOK, LockRight, Locked, None, content, ends,
        killedVars
  <2>8. CASE ReadSleep(p)
    BY <2>8, PipeAssumption
    DEF ReadSleep, Goto, TypeOK, LockRight, Locked, None, content, ends,
        killedVars
  <2>9. CASE ReadWoken(p)
    BY <2>9, PipeAssumption
    DEF ReadWoken, Goto, TypeOK, LockRight, Locked, None, content, ends,
        killedVars
  <2>10. CASE ReadCopies(p)
    BY <2>10, PipeAssumption
    DEF ReadCopies, Goto, TypeOK, LockRight, Locked, None, content, ends,
        killedVars
  <2>11. CASE ReadTake(p)
    BY <2>11, PipeAssumption
    DEF ReadTake, TypeOK, LockRight, Locked, None, content, ends,
        killedVars
  <2>12. CASE ReadDone(p)
    BY <2>12, PipeAssumption
    DEF ReadDone, WakeWriters, TypeOK, LockRight, Locked, None, content,
        ends, killedVars
  <2>13. CASE pipeclose_r(p)
    BY <2>13, PipeAssumption
    DEF pipeclose_r, WakeWriters, TypeOK, LockRight, Locked, None,
        content, ends, killedVars
  <2>14. CASE pipeclose_w(p)
    BY <2>14, PipeAssumption
    DEF pipeclose_w, WakeReaders, TypeOK, LockRight, Locked, None,
        content, ends, killedVars
  <2>15. ASSUME NEW x \in Bytes, WritePut(p, x) PROVE LockRight'
    BY <2>15, PipeAssumption
    DEF WritePut, Goto, TypeOK, LockRight, Locked, None, content, ends,
        killedVars
    <2> QED BY <1>2, <2>1, <2>2, <2>3, <2>4, <2>5, <2>6, <2>7, <2>8, <2>9,
           <2>10, <2>11, <2>12, <2>13, <2>14, <2>15 DEF Step
<1>3. ASSUME NEW p \in Procs, User(p) PROVE LockRight'
  <2>1. CASE WriteCall(p)
    BY <2>1, PipeAssumption
    DEF WriteCall, Goto, TypeOK, LockRight, Locked, None, content, ends,
        killedVars
  <2>2. CASE ReadCall(p)
    BY <2>2, PipeAssumption
    DEF ReadCall, Goto, TypeOK, LockRight, Locked, None, content, ends,
        killedVars
  <2>3. CASE Kill(p)
    BY <2>3, PipeAssumption
    DEF Kill, Goto, TypeOK, LockRight, Locked, None, content, ends,
        killedVars
  <2>4. ASSUME NEW e \in Ends, Close(p, e) PROVE LockRight'
    BY <2>4, PipeAssumption
    DEF Close, Goto, TypeOK, LockRight, Locked, None, content, ends,
        killedVars
  <2>5. ASSUME NEW q \in Procs, Fork(p, q) PROVE LockRight'
    BY <2>5, PipeAssumption
    DEF Fork, TypeOK, LockRight, Locked, None, content, ends, killedVars
  <2> QED BY <1>3, <2>1, <2>2, <2>3, <2>4, <2>5 DEF User
<1> QED BY <1>1, <1>2, <1>3 DEF Next

\* Only the holder of the lock can undo what the holder has tested.
LEMMA TestsNext ==
    TypeOK /\ EndsRight /\ LockRight /\ TestsHold /\ [Next]_vars => TestsHold'
<1> SUFFICES ASSUME TypeOK, EndsRight, LockRight, TestsHold, [Next]_vars
             PROVE  TestsHold'
  OBVIOUS
<1>1. CASE UNCHANGED vars
  BY <1>1
  DEF TypeOK, LockRight, TestsHold, Locked, Empty, MustWait, vars, content,
      ends, killedVars
<1>2. ASSUME NEW p \in Procs, Step(p) PROVE TestsHold'
  <2>1. CASE WriteTest(p)
    BY <2>1, PipeAssumption
    DEF WriteTest, Goto, TypeOK, LockRight, TestsHold, Locked, Empty,
        MustWait, content, ends, killedVars
  <2>2. CASE WriteFails(p)
    BY <2>2, PipeAssumption
    DEF WriteFails, Goto, TypeOK, LockRight, TestsHold, Locked, Empty,
        MustWait, content, ends, killedVars
  <2>3. CASE WriteSleep(p)
    BY <2>3, PipeAssumption
    DEF WriteSleep, WakeReaders, TypeOK, LockRight, TestsHold, Locked,
        Empty, MustWait, content, ends, killedVars
  <2>4. CASE WriteWoken(p)
    BY <2>4, PipeAssumption
    DEF WriteWoken, Goto, TypeOK, LockRight, TestsHold, Locked, Empty,
        MustWait, content, ends, killedVars
  <2>5. CASE WriteDone(p)
    BY <2>5, PipeAssumption
    DEF WriteDone, WakeReaders, TypeOK, LockRight, TestsHold, Locked,
        Empty, MustWait, content, ends, killedVars
  <2>6. CASE ReadTest(p)
    BY <2>6, PipeAssumption
    DEF ReadTest, Goto, TypeOK, LockRight, TestsHold, Locked, Empty,
        MustWait, content, ends, killedVars
  <2>7. CASE ReadFails(p)
    BY <2>7, PipeAssumption
    DEF ReadFails, Goto, TypeOK, LockRight, TestsHold, Locked, Empty,
        MustWait, content, ends, killedVars
  <2>8. CASE ReadSleep(p)
    BY <2>8, PipeAssumption
    DEF ReadSleep, Goto, TypeOK, LockRight, TestsHold, Locked, Empty,
        MustWait, content, ends, killedVars
  <2>9. CASE ReadWoken(p)
    BY <2>9, PipeAssumption
    DEF ReadWoken, Goto, TypeOK, LockRight, TestsHold, Locked, Empty,
        MustWait, content, ends, killedVars
  <2>10. CASE ReadCopies(p)
    BY <2>10, PipeAssumption
    DEF ReadCopies, Goto, TypeOK, LockRight, TestsHold, Locked, Empty,
        MustWait, content, ends, killedVars
  <2>11. CASE ReadTake(p)
    BY <2>11, PipeAssumption
    DEF ReadTake, TypeOK, LockRight, TestsHold, Locked, Empty, MustWait,
        content, ends, killedVars
  <2>12. CASE ReadDone(p)
    BY <2>12, PipeAssumption
    DEF ReadDone, WakeWriters, TypeOK, LockRight, TestsHold, Locked,
        Empty, MustWait, content, ends, killedVars
  <2>13. CASE pipeclose_r(p)
    BY <2>13, PipeAssumption
    DEF pipeclose_r, WakeWriters, TypeOK, LockRight, TestsHold, Locked,
        Empty, MustWait, content, ends, killedVars
  <2>14. CASE pipeclose_w(p)
    BY <2>14, PipeAssumption
    DEF pipeclose_w, WakeReaders, TypeOK, LockRight, TestsHold, Locked,
        Empty, MustWait, content, ends, killedVars
  <2>15. ASSUME NEW x \in Bytes, WritePut(p, x) PROVE TestsHold'
    BY <2>15, PipeAssumption
    DEF WritePut, Goto, TypeOK, LockRight, TestsHold, Locked, Empty,
        MustWait, content, ends, killedVars
    <2> QED BY <1>2, <2>1, <2>2, <2>3, <2>4, <2>5, <2>6, <2>7, <2>8, <2>9,
           <2>10, <2>11, <2>12, <2>13, <2>14, <2>15 DEF Step
<1>3. ASSUME NEW p \in Procs, User(p) PROVE TestsHold'
  <2>1. CASE WriteCall(p)
    BY <2>1, PipeAssumption
    DEF WriteCall, Goto, TypeOK, LockRight, TestsHold, Locked, Empty,
        MustWait, content, ends, killedVars
  <2>2. CASE ReadCall(p)
    BY <2>2, PipeAssumption
    DEF ReadCall, Goto, TypeOK, LockRight, TestsHold, Locked, Empty,
        MustWait, content, ends, killedVars
  <2>3. CASE Kill(p)
    BY <2>3, PipeAssumption
    DEF Kill, Goto, TypeOK, LockRight, TestsHold, Locked, Empty, MustWait,
        content, ends, killedVars
  <2>4. ASSUME NEW e \in Ends, Close(p, e) PROVE TestsHold'
    BY <2>4, PipeAssumption
    DEF Close, Goto, TypeOK, LockRight, TestsHold, Locked, Empty,
        MustWait, content, ends, killedVars
  <2>5. ASSUME NEW q \in Procs, Fork(p, q) PROVE TestsHold'
    BY <2>5, PipeAssumption
    DEF Fork, TypeOK, LockRight, TestsHold, Locked, Empty, MustWait,
        content, ends, killedVars
  <2> QED BY <1>3, <2>1, <2>2, <2>3, <2>4, <2>5 DEF User
<1> QED BY <1>1, <1>2, <1>3 DEF Next

\* An end that a process has or is in a call on stays open.
LEMMA EndsNext == TypeOK /\ EndsRight /\ LockRight /\ [Next]_vars => EndsRight'
<1> SUFFICES ASSUME TypeOK, EndsRight, LockRight, [Next]_vars
             PROVE  EndsRight'
  OBVIOUS
<1>1. CASE UNCHANGED vars
  BY <1>1
  DEF TypeOK, EndsRight, Writing, Reading, Ends, vars, content, ends,
      killedVars
<1>2. ASSUME NEW p \in Procs, Step(p) PROVE EndsRight'
  <2>1. CASE WriteTest(p)
    BY <2>1
    DEF WriteTest, Goto, TypeOK, EndsRight, Writing, Reading, Ends,
        content, ends, killedVars
  <2>2. CASE WriteFails(p)
    BY <2>2
    DEF WriteFails, Goto, TypeOK, EndsRight, Writing, Reading, Ends,
        content, ends, killedVars
  <2>3. CASE WriteSleep(p)
    BY <2>3
    DEF WriteSleep, WakeReaders, TypeOK, EndsRight, Writing, Reading,
        Ends, content, ends, killedVars
  <2>4. CASE WriteWoken(p)
    BY <2>4
    DEF WriteWoken, Goto, TypeOK, EndsRight, Writing, Reading, Ends,
        content, ends, killedVars
  <2>5. CASE WriteDone(p)
    BY <2>5
    DEF WriteDone, WakeReaders, TypeOK, EndsRight, Writing, Reading, Ends,
        content, ends, killedVars
  <2>6. CASE ReadTest(p)
    BY <2>6
    DEF ReadTest, Goto, TypeOK, EndsRight, Writing, Reading, Ends,
        content, ends, killedVars
  <2>7. CASE ReadFails(p)
    BY <2>7
    DEF ReadFails, Goto, TypeOK, EndsRight, Writing, Reading, Ends,
        content, ends, killedVars
  <2>8. CASE ReadSleep(p)
    BY <2>8
    DEF ReadSleep, Goto, TypeOK, EndsRight, Writing, Reading, Ends,
        content, ends, killedVars
  <2>9. CASE ReadWoken(p)
    BY <2>9
    DEF ReadWoken, Goto, TypeOK, EndsRight, Writing, Reading, Ends,
        content, ends, killedVars
  <2>10. CASE ReadCopies(p)
    BY <2>10
    DEF ReadCopies, Goto, TypeOK, EndsRight, Writing, Reading, Ends,
        content, ends, killedVars
  <2>11. CASE ReadTake(p)
    BY <2>11
    DEF ReadTake, TypeOK, EndsRight, Writing, Reading, Ends, content,
        ends, killedVars
  <2>12. CASE ReadDone(p)
    BY <2>12
    DEF ReadDone, WakeWriters, TypeOK, EndsRight, Writing, Reading, Ends,
        content, ends, killedVars
  <2>13. CASE pipeclose_r(p)
    BY <2>13
    DEF pipeclose_r, WakeWriters, TypeOK, EndsRight, Writing, Reading,
        Ends, content, ends, killedVars
  <2>14. CASE pipeclose_w(p)
    BY <2>14
    DEF pipeclose_w, WakeReaders, TypeOK, EndsRight, Writing, Reading,
        Ends, content, ends, killedVars
  <2>15. ASSUME NEW x \in Bytes, WritePut(p, x) PROVE EndsRight'
    BY <2>15
    DEF WritePut, Goto, TypeOK, EndsRight, Writing, Reading, Ends,
        content, ends, killedVars
    <2> QED BY <1>2, <2>1, <2>2, <2>3, <2>4, <2>5, <2>6, <2>7, <2>8, <2>9,
           <2>10, <2>11, <2>12, <2>13, <2>14, <2>15 DEF Step
<1>3. ASSUME NEW p \in Procs, User(p) PROVE EndsRight'
  <2>1. CASE WriteCall(p)
    BY <2>1
    DEF WriteCall, Goto, TypeOK, EndsRight, Writing, Reading, Ends,
        content, ends, killedVars
  <2>2. CASE ReadCall(p)
    BY <2>2
    DEF ReadCall, Goto, TypeOK, EndsRight, Writing, Reading, Ends,
        content, ends, killedVars
  <2>3. CASE Kill(p)
    BY <2>3
    DEF Kill, Goto, TypeOK, EndsRight, Writing, Reading, Ends, content,
        ends, killedVars
  <2>4. ASSUME NEW e \in Ends, Close(p, e) PROVE EndsRight'
    BY <2>4
    DEF Close, Goto, TypeOK, EndsRight, Writing, Reading, Ends, content,
        ends, killedVars
  <2>5. ASSUME NEW q \in Procs, Fork(p, q) PROVE EndsRight'
    BY <2>5
    DEF Fork, TypeOK, EndsRight, Writing, Reading, Ends, content, ends,
        killedVars
  <2> QED BY <1>3, <2>1, <2>2, <2>3, <2>4, <2>5 DEF User
<1> QED BY <1>1, <1>2, <1>3 DEF Next

\* Whoever ends the reason for a sleep has the lock and wakes the sleeper.
LEMMA SleepersNext == IInv /\ [Next]_vars => SleepersRight'
<1> SUFFICES ASSUME IInv, [Next]_vars
             PROVE  SleepersRight'
  OBVIOUS
<1>1. CASE UNCHANGED vars
  BY <1>1
  DEF IInv, TypeOK, EndsRight, LockRight, TestsHold, SleepersRight, Locked,
      Writing, Reading, Empty, Full, vars, content, ends, killedVars
<1>2. ASSUME NEW p \in Procs, Step(p) PROVE SleepersRight'
  <2>1. CASE WriteTest(p)
    BY <2>1, PipeAssumption
    DEF WriteTest, Goto, IInv, TypeOK, EndsRight, LockRight, TestsHold,
        SleepersRight, Locked, Writing, Reading, Empty, Full, content,
        ends, killedVars
  <2>2. CASE WriteFails(p)
    BY <2>2, PipeAssumption
    DEF WriteFails, Goto, IInv, TypeOK, EndsRight, LockRight, TestsHold,
        SleepersRight, Locked, Writing, Reading, Empty, Full, content,
        ends, killedVars
  <2>3. CASE WriteSleep(p)
    BY <2>3, PipeAssumption
    DEF WriteSleep, WakeReaders, IInv, TypeOK, EndsRight, LockRight,
        TestsHold, SleepersRight, Locked, Writing, Reading, Empty, Full,
        content, ends, killedVars
  <2>4. CASE WriteWoken(p)
    BY <2>4, PipeAssumption
    DEF WriteWoken, Goto, IInv, TypeOK, EndsRight, LockRight, TestsHold,
        SleepersRight, Locked, Writing, Reading, Empty, Full, content,
        ends, killedVars
  <2>5. CASE WriteDone(p)
    BY <2>5, PipeAssumption
    DEF WriteDone, WakeReaders, IInv, TypeOK, EndsRight, LockRight,
        TestsHold, SleepersRight, Locked, Writing, Reading, Empty, Full,
        content, ends, killedVars
  <2>6. CASE ReadTest(p)
    BY <2>6, PipeAssumption
    DEF ReadTest, Goto, IInv, TypeOK, EndsRight, LockRight, TestsHold,
        SleepersRight, Locked, Writing, Reading, Empty, Full, content,
        ends, killedVars
  <2>7. CASE ReadFails(p)
    BY <2>7, PipeAssumption
    DEF ReadFails, Goto, IInv, TypeOK, EndsRight, LockRight, TestsHold,
        SleepersRight, Locked, Writing, Reading, Empty, Full, content,
        ends, killedVars
  <2>8. CASE ReadSleep(p)
    BY <2>8, PipeAssumption
    DEF ReadSleep, Goto, IInv, TypeOK, EndsRight, LockRight, TestsHold,
        SleepersRight, Locked, Writing, Reading, Empty, Full, content,
        ends, killedVars
  <2>9. CASE ReadWoken(p)
    BY <2>9, PipeAssumption
    DEF ReadWoken, Goto, IInv, TypeOK, EndsRight, LockRight, TestsHold,
        SleepersRight, Locked, Writing, Reading, Empty, Full, content,
        ends, killedVars
  <2>10. CASE ReadCopies(p)
    BY <2>10, PipeAssumption
    DEF ReadCopies, Goto, IInv, TypeOK, EndsRight, LockRight, TestsHold,
        SleepersRight, Locked, Writing, Reading, Empty, Full, content,
        ends, killedVars
  <2>11. CASE ReadTake(p)
    BY <2>11, PipeAssumption
    DEF ReadTake, IInv, TypeOK, EndsRight, LockRight, TestsHold,
        SleepersRight, Locked, Writing, Reading, Empty, Full, content,
        ends, killedVars
  <2>12. CASE ReadDone(p)
    BY <2>12, PipeAssumption
    DEF ReadDone, WakeWriters, IInv, TypeOK, EndsRight, LockRight,
        TestsHold, SleepersRight, Locked, Writing, Reading, Empty, Full,
        content, ends, killedVars
  <2>13. CASE pipeclose_r(p)
    BY <2>13, PipeAssumption
    DEF pipeclose_r, WakeWriters, IInv, TypeOK, EndsRight, LockRight,
        TestsHold, SleepersRight, Locked, Writing, Reading, Empty, Full,
        content, ends, killedVars
  <2>14. CASE pipeclose_w(p)
    BY <2>14, PipeAssumption
    DEF pipeclose_w, WakeReaders, IInv, TypeOK, EndsRight, LockRight,
        TestsHold, SleepersRight, Locked, Writing, Reading, Empty, Full,
        content, ends, killedVars
  <2>15. ASSUME NEW x \in Bytes, WritePut(p, x) PROVE SleepersRight'
    BY <2>15, PipeAssumption
    DEF WritePut, Goto, IInv, TypeOK, EndsRight, LockRight, TestsHold,
        SleepersRight, Locked, Writing, Reading, Empty, Full, content,
        ends, killedVars
    <2> QED BY <1>2, <2>1, <2>2, <2>3, <2>4, <2>5, <2>6, <2>7, <2>8, <2>9,
           <2>10, <2>11, <2>12, <2>13, <2>14, <2>15 DEF Step
<1>3. ASSUME NEW p \in Procs, User(p) PROVE SleepersRight'
  <2>1. CASE WriteCall(p)
    BY <2>1, PipeAssumption
    DEF WriteCall, Goto, IInv, TypeOK, EndsRight, LockRight, TestsHold,
        SleepersRight, Locked, Writing, Reading, Empty, Full, content,
        ends, killedVars
  <2>2. CASE ReadCall(p)
    BY <2>2, PipeAssumption
    DEF ReadCall, Goto, IInv, TypeOK, EndsRight, LockRight, TestsHold,
        SleepersRight, Locked, Writing, Reading, Empty, Full, content,
        ends, killedVars
  <2>3. CASE Kill(p)
    BY <2>3, PipeAssumption
    DEF Kill, Goto, IInv, TypeOK, EndsRight, LockRight, TestsHold,
        SleepersRight, Locked, Writing, Reading, Empty, Full, content,
        ends, killedVars
  <2>4. ASSUME NEW e \in Ends, Close(p, e) PROVE SleepersRight'
    BY <2>4, PipeAssumption
    DEF Close, Goto, IInv, TypeOK, EndsRight, LockRight, TestsHold,
        SleepersRight, Locked, Writing, Reading, Empty, Full, content,
        ends, killedVars
  <2>5. ASSUME NEW q \in Procs, Fork(p, q) PROVE SleepersRight'
    BY <2>5, PipeAssumption
    DEF Fork, IInv, TypeOK, EndsRight, LockRight, TestsHold,
        SleepersRight, Locked, Writing, Reading, Empty, Full, content,
        ends, killedVars
  <2> QED BY <1>3, <2>1, <2>2, <2>3, <2>4, <2>5 DEF User
<1> QED BY <1>1, <1>2, <1>3 DEF Next

LEMMA IInvHolds == Spec => []IInv
<1>1. IInv /\ [Next]_vars => IInv'
  BY TypeNext, EndsNext, LockNext, TestsNext, SleepersNext DEF IInv
<1> QED BY InitRight, <1>1, PTL DEF Spec

(***************************************************************************)
(* pipeclose() frees the pipe only when both ends are closed, and then no  *)
(* process has an end of it or is in a call on it, whatever the order in   *)
(* which processes fork, close, sleep and are killed (pipe.c:58-74).       *)
(***************************************************************************)
THEOREM PipeIsSound == Spec => []PipeSound
<1>1. IInv => PipeSound
  <2> SUFFICES ASSUME IInv, freed, NEW p \in Procs
               PROVE  pc[p] = "user" /\ holds[p] = {}
    BY DEF IInv, PipeSound, NoUseAfterFree, EndsRight
  <2>1. ~readopen /\ ~writeopen
    BY DEF IInv, EndsRight
  <2>2. holds[p] = {}
    BY <2>1 DEF IInv, EndsRight, TypeOK, Ends
  <2>3. pc[p] \notin {"rclose", "wclose"} \cup Writing \cup Reading
    BY <2>1 DEF IInv, EndsRight
  <2>4. pc[p] \in Calls
    BY DEF IInv, TypeOK, Calls, Writing, Reading
  <2> QED BY <2>2, <2>3, <2>4 DEF Calls
<1> QED BY IInvHolds, <1>1, PTL

(***************************************************************************)
(* Whenever pi->lock is free, every sleeping writer finds the pipe full    *)
(* with a reader's end open, and every sleeping reader finds a writer's    *)
(* end open and, unless a writer was killed half-way, the pipe empty: no   *)
(* wake-up of pipe.c is missing.                                           *)
(***************************************************************************)
THEOREM NobodySleepsIdly == Spec => []NoIdleSleeper
<1>1. IInv => NoIdleSleeper
  <2> SUFFICES ASSUME IInv PROVE NoIdleSleeper
    OBVIOUS
  <2>1. lock = None => \A p \in Procs : pc[p] \notin Locked
    BY PipeAssumption DEF IInv, LockRight
  <2> QED
    BY <2>1 DEF IInv, SleepersRight, NoIdleSleeper, WriterSleepsOnFull,
                ReaderSleepsOnOpen, ReaderSleepsOnEmpty, Locked
<1> QED BY IInvHolds, <1>1, PTL

-----------------------------------------------------------------------------
(* Pipe implements PipeFIFO: the ring buffer and the two counters that wrap  *)
(* are a bounded sequence.                                                   *)

Byte == Bytes \cup {None}

\* How many bytes lie between two counters, and what they are.
Gap(r, w)     == (w + W - r) % W
Ring(d, r, w) == [k \in 1..Gap(r, w) |-> d[(r + k - 1) % PIPESIZE]]

Stored  == Gap(nread, nwrite)
Slot(k) == (nread + k - 1) % PIPESIZE   \* where the k-th byte stored is

NeverOver == Stored <= PIPESIZE

-----------------------------------------------------------------------------
(* Remainders.                                                              *)

LEMMA Division ==
    ASSUME NEW x \in Nat, NEW b \in Nat \ {0}
    PROVE  x % b \in 0..(b - 1) /\ \E d \in Int : x = b * d + (x % b)
<1>1. x \div b \in Int /\ x = b * (x \div b) + (x % b)
  BY Z3
<1>2. x % b \in 0..(b - 1)
  BY Z3
<1> QED BY <1>1, <1>2

LEMMA Remainder ==
    ASSUME NEW x \in Nat, NEW b \in Nat \ {0}, NEW d \in Int,
           NEW r \in 0..(b - 1), x = b * d + r
    PROVE  x % b = r
BY SMTT(20)

\* One turn of a counter at most.
LEMMA OneTurn ==
    ASSUME NEW b \in Nat \ {0}, NEW x \in 0..(2 * b - 1)
    PROVE  x % b = IF x < b THEN x ELSE x - b
BY SMTT(20)

\* A counter that wraps at a multiple of b points to the same slot.
LEMMA WrapSlot ==
    ASSUME NEW b \in Nat \ {0}, NEW w \in Nat, w % b = 0,
           NEW x \in Nat, x >= w
    PROVE  (x - w) % b = x % b
<1>1. PICK d \in Int : x = b * d + (x % b)
  BY Division
<1>2. PICK c \in Int : w = b * c
  <2>1. PICK c \in Int : w = b * c + (w % b)
    BY Division
  <2>2. b * c \in Int
    OBVIOUS
  <2>3. w = b * c
    BY <2>1, <2>2
  <2> QED BY <2>3
<1>3. x - w = b * (d - c) + (x % b)
  <2>1. b * (d - c) = b * d - b * c
    BY SMTT(20)
  <2>2. x % b \in Int
    BY Division
  <2> QED BY <1>1, <1>2, <2>1, <2>2
<1>4. x % b \in 0..(b - 1)
  BY Division
<1>5. d - c \in Int /\ x - w \in Nat
  OBVIOUS
<1> DEFINE y == x - w  e == d - c  r == x % b
<1>6. y \in Nat /\ e \in Int /\ r \in 0..(b - 1) /\ y = b * e + r
  BY <1>3, <1>4, <1>5
<1> HIDE DEF y, e, r
<1>7. y % b = r
  BY <1>6, Remainder
<1> QED BY <1>7 DEF y, r

\* Fewer than b successive numbers have different remainders.
LEMMA Apart ==
    ASSUME NEW b \in Nat \ {0}, NEW x \in Nat, NEW y \in Nat, x < y, y < x + b
    PROVE  x % b # y % b
<1> SUFFICES ASSUME x % b = y % b PROVE FALSE
  OBVIOUS
<1>1. PICK d \in Int : x = b * d + (x % b)
  BY Division
<1>2. PICK e \in Int : y = b * e + (y % b)
  BY Division
<1>3. b * e - b * d = y - x
  <2>1. x % b \in Int /\ y % b \in Int
    BY Division
  <2>2. b * d \in Int /\ b * e \in Int
    OBVIOUS
  <2> QED BY <1>1, <1>2, <2>1, <2>2
<1>4. CASE e <= d
  <2>1. b * e <= b * d
    BY <1>4, SMTT(20)
  <2> QED BY <1>3, <2>1
<1>5. CASE e >= d + 1
  <2>1. b * e >= b * (d + 1)
    BY <1>5, SMTT(20)
  <2>2. b * (d + 1) = b * d + b
    BY SMTT(20)
  <2> QED BY <1>3, <2>1, <2>2
<1> QED BY <1>4, <1>5

-----------------------------------------------------------------------------
(* What the counters say.                                                   *)

LEMMA GapIs ==
    ASSUME NEW r \in 0..(W - 1), NEW w \in 0..(W - 1)
    PROVE  /\ Gap(r, w) = IF r <= w THEN w - r ELSE w + W - r
           /\ Gap(r, w) \in 0..(W - 1)
<1> DEFINE y == w + W - r
<1>1. W \in Nat \ {0} /\ y \in 0..(2 * W - 1) /\ Gap(r, w) = y % W
  BY PipeAssumption DEF Gap
<1> HIDE DEF y
<1>2. Gap(r, w) = IF y < W THEN y ELSE y - W
  BY <1>1, OneTurn
<1> QED BY <1>1, <1>2 DEF y

LEMMA StoredIs ==
    ASSUME TypeOK
    PROVE  /\ Stored = IF nread <= nwrite THEN nwrite - nread ELSE nwrite + W - nread
           /\ Stored \in 0..(W - 1)
BY GapIs DEF TypeOK, Stored

LEMMA EmptyIs == ASSUME TypeOK PROVE Empty <=> Stored = 0
<1>1. W \in Nat \ {0} /\ nread \in 0..(W - 1) /\ nwrite \in 0..(W - 1)
  BY PipeAssumption DEF TypeOK
<1> QED BY <1>1, StoredIs DEF Empty

LEMMA FullIs == ASSUME TypeOK PROVE Full <=> Stored = PIPESIZE
<1>1. /\ W \in Nat \ {0} /\ nread \in 0..(W - 1) /\ nwrite \in 0..(W - 1)
      /\ PIPESIZE \in Nat \ {0} /\ PIPESIZE < W
  BY PipeAssumption DEF TypeOK
<1> DEFINE y == nread + PIPESIZE
<1>2. y \in 0..(2 * W - 1) /\ (Full <=> nwrite = y % W)
  BY <1>1 DEF Full
<1> HIDE DEF y
<1>3. Full <=> nwrite = IF y < W THEN y ELSE y - W
  BY <1>1, <1>2, OneTurn
<1> QED BY <1>1, <1>3, StoredIs DEF y

LEMMA IncrIs == \A k \in 0..(W - 1) : Incr(k) = IF k = W - 1 THEN 0 ELSE k + 1
<1> SUFFICES ASSUME NEW k \in 0..(W - 1)
             PROVE  Incr(k) = IF k = W - 1 THEN 0 ELSE k + 1
  OBVIOUS
<1> DEFINE y == k + 1
<1>1. /\ W \in Nat \ {0} /\ W > 1
      /\ y \in 0..(2 * W - 1) /\ Incr(k) = y % W
  BY PipeAssumption DEF Incr
<1> HIDE DEF y
<1>2. Incr(k) = IF y < W THEN y ELSE y - W
  BY <1>1, OneTurn
<1> QED BY <1>1, <1>2 DEF y

\* The next byte goes behind the last one stored.
LEMMA NextSlot == ASSUME TypeOK PROVE nwrite % PIPESIZE = Slot(Stored + 1)
<1>1. /\ W \in Nat \ {0} /\ nread \in 0..(W - 1) /\ nwrite \in 0..(W - 1)
      /\ PIPESIZE \in Nat \ {0} /\ W % PIPESIZE = 0
  BY PipeAssumption DEF TypeOK
<1>2. nread + (Stored + 1) - 1 = nread + Stored
  BY <1>1, StoredIs
<1>3. CASE nread <= nwrite
  <2>1. nread + Stored = nwrite
    BY <1>1, <1>3, StoredIs
  <2> QED BY <1>2, <2>1 DEF Slot
<1>4. CASE ~(nread <= nwrite)
  <2>1. nread + Stored = nwrite + W
    BY <1>1, <1>4, StoredIs
  <2> DEFINE y == nwrite + W
  <2>2. y \in Nat /\ y >= W /\ y - W = nwrite
    BY <1>1
  <2> HIDE DEF y
  <2>3. (y - W) % PIPESIZE = y % PIPESIZE
    BY <1>1, <2>2, WrapSlot
  <2> QED BY <1>2, <2>1, <2>2, <2>3 DEF Slot, y
<1> QED BY <1>3, <1>4

\* The bytes stored are in different slots, none of them the next one.
LEMMA SlotsApart ==
    ASSUME TypeOK, Stored < PIPESIZE, NEW k \in 1..Stored
    PROVE  Slot(k) # Slot(Stored + 1)
<1> DEFINE x == nread + k - 1  y == nread + (Stored + 1) - 1
<1>0. /\ W \in Nat \ {0} /\ PIPESIZE \in Nat \ {0} /\ nread \in 0..(W - 1)
      /\ Stored \in 0..(W - 1)
  BY PipeAssumption, StoredIs DEF TypeOK
<1>1. /\ x \in Nat /\ y \in Nat /\ x < y /\ y < x + PIPESIZE
      /\ PIPESIZE \in Nat \ {0}
  BY <1>0
<1>2. Slot(k) = x % PIPESIZE /\ Slot(Stored + 1) = y % PIPESIZE
  BY DEF Slot
<1> HIDE DEF x, y
<1> QED BY <1>1, <1>2, Apart

LEMMA RingIs ==
    ASSUME NEW d \in [0..(PIPESIZE - 1) -> Byte],
           NEW r \in 0..(W - 1), NEW w \in 0..(W - 1)
    PROVE  /\ Ring(d, r, w) \in Seq(Byte)
           /\ Len(Ring(d, r, w)) = Gap(r, w)
           /\ \A k \in 1..Gap(r, w) : Ring(d, r, w)[k] = d[(r + k - 1) % PIPESIZE]
<1>1. Gap(r, w) \in Nat
  <2>1. Gap(r, w) \in 0..(W - 1)
    BY GapIs
  <2> QED BY <2>1
<1>2. ASSUME NEW k \in 1..Gap(r, w)
      PROVE  (r + k - 1) % PIPESIZE \in 0..(PIPESIZE - 1)
  <2> DEFINE y == r + k - 1
  <2>1. y \in Nat /\ PIPESIZE \in Nat \ {0}
    BY <1>1, PipeAssumption
  <2> HIDE DEF y
  <2>2. y % PIPESIZE \in 0..(PIPESIZE - 1)
    BY <2>1, Division
  <2> QED BY <2>2 DEF y
<1>3. \A k \in 1..Gap(r, w) : d[(r + k - 1) % PIPESIZE] \in Byte
  BY <1>2
<1>4. Ring(d, r, w) \in [1..Gap(r, w) -> Byte]
  BY <1>3 DEF Ring
<1>5. Ring(d, r, w) \in Seq(Byte)
  BY <1>1, <1>4
<1>6. Len(Ring(d, r, w)) = Gap(r, w)
  BY <1>1, <1>4, <1>5, LenProperties
<1> QED BY <1>5, <1>6 DEF Ring

LEMMA GapPut ==
    ASSUME NEW r \in 0..(W - 1), NEW w \in 0..(W - 1), Gap(r, w) < W - 1
    PROVE  Gap(r, Incr(w)) = Gap(r, w) + 1
<1>1. W \in Nat \ {0} /\ Incr(w) \in 0..(W - 1)
  BY PipeAssumption, IncrType
<1>2. Gap(r, w) = IF r <= w THEN w - r ELSE w + W - r
  BY GapIs
<1>3. Gap(r, Incr(w)) = IF r <= Incr(w) THEN Incr(w) - r ELSE Incr(w) + W - r
  BY <1>1, GapIs
<1>4. Incr(w) = IF w = W - 1 THEN 0 ELSE w + 1
  BY IncrIs
<1> QED BY <1>1, <1>2, <1>3, <1>4

LEMMA GapTake ==
    ASSUME NEW r \in 0..(W - 1), NEW w \in 0..(W - 1), Gap(r, w) # 0
    PROVE  Gap(Incr(r), w) = Gap(r, w) - 1
<1>1. W \in Nat \ {0} /\ Incr(r) \in 0..(W - 1)
  BY PipeAssumption, IncrType
<1>2. Gap(r, w) = IF r <= w THEN w - r ELSE w + W - r
  BY GapIs
<1>3. Gap(Incr(r), w) = IF Incr(r) <= w THEN w - Incr(r) ELSE w + W - Incr(r)
  BY <1>1, GapIs
<1>4. Incr(r) = IF r = W - 1 THEN 0 ELSE r + 1
  BY IncrIs
<1> QED BY <1>1, <1>2, <1>3, <1>4

-----------------------------------------------------------------------------
(* The steps of the pipe are steps of the sequence.                         *)

LEMMA ContentsIs ==
    /\ Contents  = Ring(data, nread, nwrite)
    /\ Contents' = Ring(data', nread', nwrite')
BY DEF Contents, Ring, Gap

LEMMA PutAppends ==
    ASSUME TypeOK, NeverOver, NEW p \in Procs, NEW x \in Bytes,
           WritePut(p, x), TypeOK'
    PROVE  /\ Stored < PIPESIZE
           /\ Stored' = Stored + 1
           /\ Contents' = Append(Contents, x)
           /\ Len(Contents) = Stored
<1>1. /\ data \in [0..(PIPESIZE - 1) -> Byte] /\ data' \in [0..(PIPESIZE - 1) -> Byte]
      /\ nread \in 0..(W - 1) /\ nwrite \in 0..(W - 1)
      /\ nread' \in 0..(W - 1) /\ nwrite' \in 0..(W - 1)
  BY DEF TypeOK, Byte
<1>2. /\ nread' = nread /\ nwrite' = Incr(nwrite)
      /\ data' = [data EXCEPT ![nwrite % PIPESIZE] = x]
  BY DEF WritePut
<1>3. Stored \in Nat /\ PIPESIZE \in Nat /\ PIPESIZE <= W - 1 /\ W \in Nat
  BY PipeAssumption, StoredIs
<1>4. Stored < PIPESIZE
  BY <1>3, FullIs DEF WritePut, NeverOver
<1>5. Gap(nread', nwrite') = Stored + 1
  BY <1>1, <1>2, <1>3, <1>4, GapPut DEF Stored
<1> DEFINE old == Ring(data, nread, nwrite)
           new == Ring(data', nread', nwrite')
<1>6. /\ old \in Seq(Byte) /\ Len(old) = Stored
      /\ \A k \in 1..Stored : old[k] = data[Slot(k)]
  <2>1. /\ old \in Seq(Byte) /\ Len(old) = Gap(nread, nwrite)
        /\ \A k \in 1..Gap(nread, nwrite) : old[k] = data[(nread + k - 1) % PIPESIZE]
    BY <1>1, RingIs
  <2> QED BY <2>1 DEF Stored, Slot
<1>7. /\ new \in Seq(Byte) /\ Len(new) = Stored + 1
      /\ \A k \in 1..(Stored + 1) : new[k] = data'[Slot(k)]
  <2>1. /\ new \in Seq(Byte) /\ Len(new) = Gap(nread', nwrite')
        /\ \A k \in 1..Gap(nread', nwrite') :
              new[k] = data'[(nread' + k - 1) % PIPESIZE]
    BY <1>1, RingIs
  <2> QED BY <1>2, <1>5, <2>1 DEF Slot
<1> HIDE DEF old, new
<1>8. x \in Byte
  BY DEF Byte
<1>9. /\ Append(old, x) \in Seq(Byte) /\ Len(Append(old, x)) = Stored + 1
      /\ \A k \in 1..Stored : Append(old, x)[k] = old[k]
      /\ Append(old, x)[Stored + 1] = x
  BY <1>6, <1>8, AppendProperties
<1>10. ASSUME NEW k \in 1..(Stored + 1) PROVE new[k] = Append(old, x)[k]
  <2>1. CASE k = Stored + 1
    <3>1. Slot(k) = nwrite % PIPESIZE
      BY <2>1, NextSlot
    <3>2. nwrite % PIPESIZE \in 0..(PIPESIZE - 1)
      <4>1. nwrite \in Nat /\ PIPESIZE \in Nat \ {0}
        BY <1>1, PipeAssumption
      <4> QED BY <4>1, Division
    <3> QED BY <1>1, <1>2, <1>7, <1>9, <2>1, <3>1, <3>2
  <2>2. CASE k \in 1..Stored
    <3>1. Slot(k) # nwrite % PIPESIZE
      BY <1>4, <2>2, NextSlot, SlotsApart
    <3>2. Slot(k) \in 0..(PIPESIZE - 1)
      <4> DEFINE y == nread + k - 1
      <4>1. y \in Nat
        BY <1>1, <2>2
      <4> HIDE DEF y
      <4>2. y % PIPESIZE \in 0..(PIPESIZE - 1)
        BY <4>1, PipeAssumption, Division
      <4> QED BY <4>2 DEF Slot, y
    <3>3. data'[Slot(k)] = data[Slot(k)]
      BY <1>1, <1>2, <3>1, <3>2
    <3> QED BY <1>6, <1>7, <1>9, <2>2, <3>3
  <2>3. k = Stored + 1 \/ k \in 1..Stored
    BY <1>3
  <2> QED BY <2>1, <2>2, <2>3
<1>11. new = Append(old, x)
  BY <1>7, <1>9, <1>10, SeqEqual
<1> QED BY <1>4, <1>5, <1>6, <1>11, ContentsIs DEF old, new, Stored

LEMMA TakeDropsHead ==
    ASSUME TypeOK, NEW p \in Procs, ReadTake(p), TypeOK'
    PROVE  /\ Stored' = Stored - 1
           /\ Contents # <<>>
           /\ Contents' = Tail(Contents)
<1>1. /\ data \in [0..(PIPESIZE - 1) -> Byte] /\ data' \in [0..(PIPESIZE - 1) -> Byte]
      /\ nread \in 0..(W - 1) /\ nwrite \in 0..(W - 1)
      /\ nread' \in 0..(W - 1) /\ nwrite' \in 0..(W - 1)
  BY DEF TypeOK, Byte
<1>2. nread' = Incr(nread) /\ nwrite' = nwrite /\ data' = data
  BY DEF ReadTake
<1>3. Stored \in Nat /\ Stored # 0
  BY PipeAssumption, StoredIs, EmptyIs DEF ReadTake
<1>4. Gap(nread', nwrite') = Stored - 1
  BY <1>1, <1>2, <1>3, GapTake DEF Stored
<1> DEFINE old == Ring(data, nread, nwrite)
           new == Ring(data', nread', nwrite')
<1>5. /\ old \in Seq(Byte) /\ Len(old) = Stored
      /\ \A k \in 1..Stored : old[k] = data[Slot(k)]
  <2>1. /\ old \in Seq(Byte) /\ Len(old) = Gap(nread, nwrite)
        /\ \A k \in 1..Gap(nread, nwrite) : old[k] = data[(nread + k - 1) % PIPESIZE]
    BY <1>1, RingIs
  <2> QED BY <2>1 DEF Stored, Slot
<1>6. /\ new \in Seq(Byte) /\ Len(new) = Stored - 1
      /\ \A k \in 1..(Stored - 1) : new[k] = data[(nread' + k - 1) % PIPESIZE]
  <2>1. /\ new \in Seq(Byte) /\ Len(new) = Gap(nread', nwrite')
        /\ \A k \in 1..Gap(nread', nwrite') :
              new[k] = data'[(nread' + k - 1) % PIPESIZE]
    BY <1>1, RingIs
  <2> QED BY <1>2, <1>4, <2>1
<1> HIDE DEF old, new
<1>7. old # <<>>
  BY <1>3, <1>5
<1>8. /\ Tail(old) \in Seq(Byte) /\ Len(Tail(old)) = Stored - 1
      /\ \A k \in 1..(Stored - 1) : Tail(old)[k] = old[k + 1]
  BY <1>5, <1>7, HeadTailProperties
<1>9. ASSUME NEW k \in 1..(Stored - 1) PROVE new[k] = Tail(old)[k]
  <2>1. (nread' + k - 1) % PIPESIZE = Slot(k + 1)
    <3>1. CASE nread = W - 1
      <4> DEFINE y == nread + (k + 1) - 1
      <4>1. /\ y \in Nat /\ y >= W /\ nread' + k - 1 = y - W
            /\ PIPESIZE \in Nat \ {0} /\ W \in Nat /\ W % PIPESIZE = 0
        BY <1>1, <1>2, <1>3, <3>1, IncrIs, PipeAssumption
      <4> HIDE DEF y
      <4>2. (y - W) % PIPESIZE = y % PIPESIZE
        BY <4>1, WrapSlot
      <4> QED BY <4>1, <4>2 DEF y, Slot
    <3>2. CASE nread # W - 1
      <4>1. nread' = nread + 1
        BY <1>1, <1>2, <3>2, IncrIs
      <4>2. nread' + k - 1 = nread + (k + 1) - 1
        BY <1>1, <1>3, <4>1
      <4> QED BY <4>2 DEF Slot
    <3> QED BY <3>1, <3>2
  <2>2. k + 1 \in 1..Stored
    BY <1>3
  <2> QED BY <1>5, <1>6, <1>8, <2>1, <2>2
<1>10. new = Tail(old)
  BY <1>6, <1>8, <1>9, SeqEqual
<1> QED BY <1>4, <1>7, <1>10, ContentsIs DEF old, new, Stored

LEMMA FIFOInit == Init => NeverOver /\ FIFO!Init
<1> SUFFICES ASSUME Init PROVE NeverOver /\ FIFO!Init
  OBVIOUS
<1>1. TypeOK
  BY InitRight DEF IInv
<1>2. /\ data \in [0..(PIPESIZE - 1) -> Byte]
      /\ nread \in 0..(W - 1) /\ nwrite \in 0..(W - 1)
  BY <1>1 DEF TypeOK, Byte
<1>3. Stored = 0
  BY <1>1, StoredIs, PipeAssumption DEF Init
<1>4. Contents \in Seq(Byte) /\ Len(Contents) = 0
  BY <1>2, <1>3, RingIs, ContentsIs DEF Stored
<1>5. Contents = <<>>
  BY <1>4
<1>6. NeverOver
  BY <1>3, PipeAssumption DEF NeverOver
<1> QED BY <1>5, <1>6 DEF Init, FIFO!Init

\* A step that leaves the counters and the bytes alone.
Calm == UNCHANGED content

LEMMA CalmKeeps == Calm => UNCHANGED <<Contents, Stored>>
BY DEF Calm, content, Contents, Stored, Gap

LEMMA StepMaps ==
    IInv /\ NeverOver /\ [Next]_vars => NeverOver' /\ [FIFO!Next]_(FIFO!vars)
<1> SUFFICES ASSUME IInv, NeverOver, [Next]_vars
             PROVE  NeverOver' /\ [FIFO!Next]_(FIFO!vars)
  OBVIOUS
<1> DEFINE Goal == NeverOver' /\ [FIFO!Next]_(FIFO!vars)
<1>1. TypeOK /\ TypeOK'
  BY TypeNext DEF IInv
<1>2. Calm /\ UNCHANGED <<readopen, writeopen>> => Goal
  BY CalmKeeps DEF NeverOver, FIFO!vars
<1>3. CASE UNCHANGED vars
  BY <1>2, <1>3 DEF vars, ends, Calm
<1>4. ASSUME NEW p \in Procs, NEW x \in Bytes, WritePut(p, x) PROVE Goal
  <2>1. /\ Stored < PIPESIZE /\ Stored' = Stored + 1
        /\ Contents' = Append(Contents, x) /\ Len(Contents) = Stored
    BY <1>1, <1>4, PutAppends
  <2>2. readopen /\ writeopen /\ UNCHANGED <<readopen, writeopen>>
    BY <1>4 DEF WritePut, ends, IInv, TestsHold, EndsRight, Writing
  <2>3. FIFO!Put(x)
    BY <2>1, <2>2 DEF FIFO!Put
  <2>4. Stored \in Nat /\ PIPESIZE \in Nat
    BY <1>1, StoredIs, PipeAssumption
  <2>5. NeverOver'
    BY <2>1, <2>4 DEF NeverOver
  <2> QED BY <2>3, <2>5 DEF FIFO!Next
<1>5. ASSUME NEW p \in Procs, ReadTake(p) PROVE Goal
  <2>1. Stored' = Stored - 1 /\ Contents # <<>> /\ Contents' = Tail(Contents)
    BY <1>1, <1>5, TakeDropsHead
  <2>2. readopen /\ UNCHANGED <<readopen, writeopen>>
    BY <1>5 DEF ReadTake, ends, IInv, EndsRight, Reading
  <2>3. FIFO!Take
    BY <2>1, <2>2 DEF FIFO!Take
  <2>4. Stored \in Int /\ PIPESIZE \in Nat
    BY <1>1, StoredIs, PipeAssumption
  <2>5. NeverOver'
    BY <2>1, <2>4 DEF NeverOver
  <2> QED BY <2>3, <2>5 DEF FIFO!Next
<1>6. ASSUME NEW p \in Procs, pipeclose_r(p) PROVE Goal
  <2>1. readopen /\ readopen' = FALSE /\ writeopen' = writeopen /\ Calm
    BY <1>6 DEF pipeclose_r, IInv, EndsRight, Calm
  <2>2. Contents' = Contents /\ Stored' = Stored
    BY <2>1, CalmKeeps
  <2>3. FIFO!CloseRead
    BY <2>1, <2>2 DEF FIFO!CloseRead
  <2> QED BY <2>2, <2>3 DEF NeverOver, FIFO!Next
<1>7. ASSUME NEW p \in Procs, pipeclose_w(p) PROVE Goal
  <2>1. writeopen /\ writeopen' = FALSE /\ readopen' = readopen /\ Calm
    BY <1>7 DEF pipeclose_w, IInv, EndsRight, Calm
  <2>2. Contents' = Contents /\ Stored' = Stored
    BY <2>1, CalmKeeps
  <2>3. FIFO!CloseWrite
    BY <2>1, <2>2 DEF FIFO!CloseWrite
  <2> QED BY <2>2, <2>3 DEF NeverOver, FIFO!Next
<1>8. ASSUME NEW p \in Procs,
             \/ WriteTest(p) \/ WriteFails(p) \/ WriteSleep(p) \/ WriteWoken(p)
             \/ WriteDone(p) \/ ReadTest(p) \/ ReadFails(p) \/ ReadSleep(p)
             \/ ReadWoken(p) \/ ReadCopies(p) \/ ReadDone(p)
      PROVE  Goal
  BY <1>2, <1>8
  DEF WriteTest, WriteFails, WriteSleep, WriteWoken, WriteDone, ReadTest,
      ReadFails, ReadSleep, ReadWoken, ReadCopies, ReadDone, ends, Calm
<1>9. ASSUME NEW p \in Procs, User(p) PROVE Goal
  BY <1>2, <1>9 DEF User, WriteCall, ReadCall, Kill, Close, Fork, ends, Calm
<1>10. ASSUME NEW p \in Procs, Step(p) PROVE Goal
  BY <1>4, <1>5, <1>6, <1>7, <1>8, <1>10 DEF Step
<1> QED BY <1>3, <1>9, <1>10 DEF Next

(***************************************************************************)
(* Whatever processes write, read, fork, close and are killed, and however *)
(* often the unsigned counters wrap, the pipe is a FIFO of at most         *)
(* PIPESIZE bytes: each byte put is taken once, in order, and an end that  *)
(* was closed stays closed (pipe.c:58-130).                                *)
(***************************************************************************)
THEOREM PipeImplementsFIFO == Spec => IsFIFO
<1>1. Spec => []NeverOver /\ [][FIFO!Next]_(FIFO!vars)
  BY FIFOInit, StepMaps, IInvHolds, PTL DEF Spec
<1>2. Spec => FIFO!Init
  BY FIFOInit, PTL DEF Spec
<1> QED BY <1>1, <1>2, PTL DEF IsFIFO, FIFO!Spec

=============================================================================
