----------------------------- MODULE MLFQ_proofs -----------------------------
(* Theorems about MLFQ for every size of the process table, every number   *)
(* of levels and every choice of parameters, checked by TLAPS.             *)
EXTENDS MLFQ, SequenceTheorems, FiniteSetTheorems, TLAPS

(***************************************************************************)
(* Every non-empty set of naturals has a least element.                    *)
(***************************************************************************)
LEMMA LeastNat ==
    ASSUME NEW T \in SUBSET Nat, T # {}
    PROVE  Min(T) \in T /\ \A y \in T : Min(T) <= y
<1> DEFINE R == {pair \in Nat \X Nat : pair[1] < pair[2]}
<1>1. IsWellFoundedOn(R, Nat)
  BY NatLessThanWellFounded DEF OpToRel
<1>2. \E x \in T : \A y \in T : ~ (<<y, x>> \in R)
  <2> HIDE DEF R
  <2> QED BY <1>1, WFMin
<1>3. PICK x \in T : \A y \in T : ~ (<<y, x>> \in R)
  BY <1>2
<1>4. ASSUME NEW y \in T PROVE x <= y
  <2>1. x \in Nat /\ y \in Nat
    OBVIOUS
  <2>2. <<y, x>> \in R <=> y < x
    BY <2>1
  <2> QED BY <1>3, <2>1, <2>2
<1> QED BY <1>4 DEF Min

(***************************************************************************)
(* mlfq_delete on a list that holds the process: what is unlinked is one   *)
(* element, and it is one for that process (proc.c:547-577).               *)
(***************************************************************************)
LEMMA RemoveFirstIsRemoveAt ==
    ASSUME NEW S, NEW s \in Seq(S), NEW e, \E i \in 1..Len(s) : s[i] = e
    PROVE  \E k \in 1..Len(s) : s[k] = e /\ RemoveFirst(s, e) = RemoveAt(s, k)
<1> DEFINE I == {i \in 1..Len(s) : s[i] = e}
<1>1. I \in SUBSET Nat /\ I # {}
  BY LenProperties
<1>2. Min(I) \in I
  <2> HIDE DEF I
  <2> QED BY <1>1, LeastNat
<1>3. SelectInSeq(s, LAMBDA v : v = e) = Min(I)
  BY <1>1 DEF SelectInSeq
<1>4. RemoveFirst(s, e) = RemoveAt(s, Min(I))
  BY <1>3 DEF RemoveFirst
<1> QED BY <1>2, <1>4

LEMMA RemoveAtProperties ==
    ASSUME NEW S, NEW s \in Seq(S), NEW k \in 1..Len(s)
    PROVE  /\ RemoveAt(s, k) \in Seq(S)
           /\ Len(RemoveAt(s, k)) = Len(s) - 1
           /\ \A i \in 1..(Len(s) - 1) :
                 RemoveAt(s, k)[i] = IF i < k THEN s[i] ELSE s[i + 1]
<1> DEFINE a == SubSeq(s, 1, k - 1)
           b == SubSeq(s, k + 1, Len(s))
<1>0. Len(s) \in Nat /\ \A i \in 1..Len(s) : s[i] \in S
  BY LenProperties, ElementOfSeq
<1>1. /\ a \in Seq(S) /\ Len(a) = k - 1
      /\ \A i \in 1..(k - 1) : a[i] = s[i]
  <2>1. \A i \in 1..(k - 1) : s[i] \in S
    BY <1>0
  <2> QED BY <2>1, <1>0, SubSeqProperties
<1>2. /\ b \in Seq(S) /\ Len(b) = Len(s) - k
      /\ \A i \in 1..(Len(s) - k) : b[i] = s[k + i]
  <2>1. \A i \in (k + 1)..Len(s) : s[i] \in S
    BY <1>0
  <2>2. b \in Seq(S) /\ Len(b) = IF k + 1 <= Len(s) THEN Len(s) - (k + 1) + 1 ELSE 0
    BY <2>1, <1>0, SubSeqProperties
  <2>3. \A i \in 1..(Len(s) - (k + 1) + 1) : b[i] = s[k + 1 + i - 1]
    BY <2>1, <1>0, SubSeqProperties
  <2>4. Len(b) = Len(s) - k
    BY <2>2, <1>0
  <2>5. \A i \in 1..(Len(s) - k) : b[i] = s[k + i]
    BY <2>3, <1>0
  <2> QED BY <2>2, <2>4, <2>5
<1>3. RemoveAt(s, k) = a \o b
  BY DEF RemoveAt
<1> HIDE DEF a, b
<1>4. /\ a \o b \in Seq(S)
      /\ Len(a \o b) = Len(a) + Len(b)
      /\ \A i \in 1..(Len(a) + Len(b)) :
            (a \o b)[i] = IF i <= Len(a) THEN a[i] ELSE b[i - Len(a)]
  BY <1>1, <1>2, ConcatProperties
<1>5. \A i \in 1..(Len(s) - 1) : (a \o b)[i] = IF i < k THEN s[i] ELSE s[i + 1]
  <2> TAKE i \in 1..(Len(s) - 1)
  <2>1. CASE i < k
    BY <2>1, <1>0, <1>1, <1>2, <1>4
  <2>2. CASE ~(i < k)
    <3>1. (a \o b)[i] = b[i - (k - 1)]
      BY <2>2, <1>0, <1>1, <1>2, <1>4
    <3>2. i - (k - 1) \in 1..(Len(s) - k) /\ k + (i - (k - 1)) = i + 1
      BY <2>2, <1>0
    <3> QED BY <3>1, <3>2, <2>2, <1>2
  <2> QED BY <2>1, <2>2
<1> QED BY <1>0, <1>1, <1>2, <1>3, <1>4, <1>5
-----------------------------------------------------------------------------
(* Types of the operators the actions are built from.                       *)

LEMMA RemoveFirstType ==
    ASSUME NEW S, NEW s \in Seq(S), NEW e
    PROVE  RemoveFirst(s, e) \in Seq(S)
<1>1. CASE \E i \in 1..Len(s) : s[i] = e
  <2>1. PICK k \in 1..Len(s) : RemoveFirst(s, e) = RemoveAt(s, k)
    BY <1>1, RemoveFirstIsRemoveAt
  <2> QED BY <2>1, RemoveAtProperties
<1>2. CASE ~ \E i \in 1..Len(s) : s[i] = e
  BY <1>2 DEF RemoveFirst
<1> QED BY <1>1, <1>2

LEMMA EnqueType ==
    ASSUME NEW qs \in [Levels -> Seq(Procs)], NEW l, NEW p \in Procs
    PROVE  Enque(qs, l, p) \in [Levels -> Seq(Procs)]
<1>1. \A k \in Levels : Append(qs[k], p) \in Seq(Procs)
  OBVIOUS
<1> QED BY <1>1 DEF Enque

LEMMA DeleteType ==
    ASSUME NEW qs \in [Levels -> Seq(Procs)], NEW l, NEW p \in Procs
    PROVE  Delete(qs, l, p) \in [Levels -> Seq(Procs)]
<1>1. \A k \in Levels : RemoveFirst(qs[k], p) \in Seq(Procs)
  BY RemoveFirstType
<1> QED BY <1>1 DEF Delete

LEMMA PagesType ==
    ASSUME freePages \in Nat
    PROVE  PagesAfterAlloc \in Nat
BY DEF PagesAfterAlloc

\* The candidates are at most all processes, so rr_index stays in the array.
LEMMA TopSize == Cardinality(Top) \in 0..NPROC
<1>1. NPROC \in Nat
  BY ConstantsAssumption
<1>2. IsFiniteSet(Procs) /\ Cardinality(Procs) = NPROC
  BY <1>1, FS_Interval DEF Procs
<1>3. Top \in SUBSET Procs
  BY DEF Top, Runnable
<1>4. IsFiniteSet(Top) /\ Cardinality(Top) <= NPROC
  BY <1>2, <1>3, FS_Subset
<1>5. Cardinality(Top) \in Nat
  BY <1>4, FS_CardinalityType
<1> QED BY <1>1, <1>4, <1>5

LEMMA NextIndexType ==
    ASSUME NEW num \in 0..NPROC, num > 1, rrIndex \in Nat
    PROVE  NextIndex(num) \in 0..(NPROC - 1)
<1>1. NPROC \in Nat /\ num \in Nat \ {0}
  BY ConstantsAssumption
<1>2. (rrIndex + 1) % num \in 0..(num - 1)
  BY <1>1
<1> QED BY <1>1, <1>2 DEF NextIndex

LEMMA FilledSlotsType ==
    ASSUME slots \in [Procs -> Procs \cup {None}]
    PROVE  FilledSlots \in [Procs -> Procs \cup {None}]
<1>1. ASSUME NEW k \in Procs, \E p \in Top : Rank(p) = k - 1
      PROVE  (CHOOSE p \in Top : Rank(p) = k - 1) \in Procs
  <2>1. (CHOOSE p \in Top : Rank(p) = k - 1) \in Top
    BY <1>1
  <2> QED BY <2>1 DEF Top, Runnable
<1> QED BY <1>1 DEF FilledSlots

-----------------------------------------------------------------------------
(* Type correctness.                                                        *)

LEMMA TypeInit == Init => TypeOK
<1> SUFFICES ASSUME Init PROVE TypeOK
  OBVIOUS
<1> USE ConstantsAssumption DEF Init
<1>1. /\ state \in [Procs -> States] /\ parent \in [Procs -> Procs \cup {None}]
      /\ slots \in [Procs -> Procs \cup {None}] /\ cur \in Procs \cup {None}
      /\ cpuProc \in Procs \cup {None} /\ pc \in Pcs
  BY DEF States, Pcs
<1>2. /\ blocked \in [Procs -> {"no", "dev", "pipe", "wait"}]
      /\ dying \in [Procs -> BOOLEAN] /\ added \in [Procs -> BOOLEAN]
  OBVIOUS
<1>3. /\ prio \in [Procs -> Levels] /\ ticks \in [Procs -> [Levels -> Nat]]
      /\ stay \in [Procs -> Nat]
  BY DEF Levels, NoTicks
<1>4. queue \in [Levels -> Seq(Procs)] /\ walk \in Seq(Procs)
  <2>1. << >> \in Seq(Procs)
    BY EmptySeq
  <2> QED BY <2>1
<1>5. /\ flag \in BOOLEAN /\ intr \in BOOLEAN /\ panicked \in BOOLEAN
      /\ torn \in BOOLEAN
  OBVIOUS
<1>6. m \in 0..MaxLevel
  OBVIOUS
<1>7. n \in Nat /\ starts \in 0..Len(Params) /\ freePages \in Nat
  BY LenProperties
<1>8. rrIndex \in 0..(NPROC - 1) /\ idx \in 1..(NPROC + 1)
  OBVIOUS
<1>9. /\ call \in [Procs -> Places] /\ level \in [Procs -> Levels]
      /\ args \in [Procs -> [m : 0..MaxLevel, n : Nat]]
  BY DEF Places, Levels, NoArgs
<1> QED BY <1>1, <1>2, <1>3, <1>4, <1>5, <1>6, <1>7, <1>8, <1>9 DEF TypeOK

\* startMLFQ() writes the parameters, the queues and the flag only.
LEMMA StartKeeps ==
    ASSUME NEW p, startMLFQ(p)
    PROVE  UNCHANGED <<procVars, infoVars, schedVars, cpuVars, freePages>>
BY DEF startMLFQ, StartTest, StartFlag, StartM, StartN, StartReset

LEMMA TypeScheduler ==
    ASSUME TypeOK, SchedulerStep
    PROVE  TypeOK'
<1> USE ConstantsAssumption DEF TypeOK, States, Pcs
<1>0. /\ Procs \subseteq Nat /\ Levels \subseteq Nat
      /\ NPROC \in Nat \ {0} /\ MaxLevel \in Nat \ {0}
  BY DEF Procs, Levels
<1>1. CASE SchedulerTop
  <2>1. /\ pc' \in Pcs /\ cur' \in Procs \cup {None} /\ intr' \in BOOLEAN
        /\ slots' \in [Procs -> Procs \cup {None}]
    BY <1>1 DEF SchedulerTop, intr_on, FreshLocals
  <2>2. rrIndex' \in 0..(NPROC - 1) /\ idx' \in 1..(NPROC + 1)
    BY <1>0, <1>1 DEF SchedulerTop, FreshLocals
  <2>3. UNCHANGED <<walk, procVars, infoVars, mlfqVars, cpuProc, panicked,
                    freePages>>
    BY <1>1 DEF SchedulerTop
  <2> QED
    BY <2>1, <2>2, <2>3 DEF procVars, infoVars, mlfqVars, startVars
<1>2. CASE RRVisit
  <2>1. idx \in Procs /\ idx + 1 \in 1..(NPROC + 1)
    BY <1>0, <1>2 DEF RRVisit, Procs
  <2> QED BY <1>2, <2>1 DEF RRVisit, SwitchTo, infoVars, mlfqVars, startVars
<1>3. CASE RRDone
  BY <1>3 DEF RRDone, procVars, infoVars, mlfqVars, startVars, cpuVars
<1>4. CASE MLFQDone
  BY <1>4 DEF MLFQDone, procVars, infoVars, mlfqVars, startVars, cpuVars
<1>5. CASE ChargeAndExpire
  <2> DEFINE l == prio[cur]
  <2>1. cur \in Procs /\ l \in Levels
    BY <1>5 DEF ChargeAndExpire, Charged
  <2>2. queue' \in [Levels -> Seq(Procs)] /\ freePages' \in Nat
    <3>1. Delete(Enque(queue, l + 1, cur), l, cur) \in [Levels -> Seq(Procs)]
      BY <2>1, EnqueType, DeleteType
    <3> QED BY <1>5, <3>1, PagesType DEF ChargeAndExpire
  <2>3. ASSUME l < m - 1 PROVE l + 1 \in Levels
    <3> HIDE DEF l
    <3>1. l \in Nat
      BY <1>0, <2>1
    <3>2. m \in Nat /\ m <= MaxLevel
      BY <1>0
    <3>3. l + 1 \in 0..(MaxLevel - 1)
      BY <1>0, <3>1, <3>2, <2>3
    <3> QED BY <3>3 DEF Levels
  <2>4. prio' \in [Procs -> Levels]
    BY <1>5, <2>1, <2>3 DEF ChargeAndExpire
  <2>5. ticks' \in [Procs -> [Levels -> Nat]]
    BY <1>5, <2>1 DEF ChargeAndExpire
  <2> QED
    BY <1>5, <2>2, <2>4, <2>5 DEF ChargeAndExpire, procVars, startVars, cpuVars
<1>6. CASE Charge
  <2>1. ticks' \in [Procs -> [Levels -> Nat]]
    <3>1. CASE Charged
      <4>1. cur \in Procs /\ prio[cur] \in Levels /\ ticks[cur][prio[cur]] \in Nat
        BY <3>1 DEF Charged
      <4>2. ticks' = [ticks EXCEPT ![cur][prio[cur]] = @ + 1]
        BY <3>1, <1>6 DEF Charge
      <4> QED BY <4>1, <4>2
    <3>2. CASE ~Charged
      BY <3>2, <1>6 DEF Charge
    <3> QED BY <3>1, <3>2
  <2>2. walk' \in Seq(Procs)
    <3>1. CASE m > 0
      <4>1. m - 1 \in Levels /\ walk' = queue[m - 1]
        BY <1>0, <1>6, <3>1 DEF Charge, Levels
      <4> QED BY <4>1
    <3>2. CASE ~(m > 0)
      <4>1. walk' = << >>
        BY <1>6, <3>2 DEF Charge
      <4> QED BY <4>1, EmptySeq
    <3> QED BY <3>1, <3>2
  <2> QED BY <1>6, <2>1, <2>2 DEF Charge, procVars, mlfqVars, startVars
<1>7. CASE BoostVisit
  <2> DEFINE e == Head(walk)
  <2>1. e \in Procs /\ Tail(walk) \in Seq(Procs)
    BY <1>7, HeadTailProperties DEF BoostVisit
  <2>2. walk' \in Seq(Procs)
    <3>1. Append(Tail(walk), e) \in Seq(Procs)
      BY <2>1
    <3> QED BY <1>7, <2>1, <3>1 DEF BoostVisit
  <2>3. queue' \in [Levels -> Seq(Procs)] /\ freePages' \in Nat
    <3>1. Delete(Enque(queue, 0, e), m - 1, e) \in [Levels -> Seq(Procs)]
      BY <2>1, EnqueType, DeleteType
    <3> QED BY <1>7, <3>1, PagesType DEF BoostVisit
  <2>4. 0 \in Levels
    BY <1>0 DEF Levels
  <2>5. prio' \in [Procs -> Levels]
    <3>1. prio' = prio \/ prio' = [prio EXCEPT ![e] = 0]
      BY <1>7 DEF BoostVisit
    <3>2. prio \in [Procs -> Levels]
      OBVIOUS
    <3> HIDE DEF e, TypeOK
    <3> QED BY <2>4, <3>1, <3>2
  <2>6. ticks' \in [Procs -> [Levels -> Nat]]
    <3>1. BoostedTicks(ticks[e]) \in [Levels -> Nat]
      BY <2>1 DEF BoostedTicks
    <3>2. \/ ticks' = ticks
          \/ ticks' = [ticks EXCEPT ![e] = BoostedTicks(ticks[e])]
      BY <1>7 DEF BoostVisit
    <3> QED BY <2>1, <3>1, <3>2
  <2>7. stay' \in [Procs -> Nat]
    <3>1. \/ stay' = stay \/ stay' = [stay EXCEPT ![e] = 0]
          \/ stay' = [stay EXCEPT ![e] = stay[e] + 1]
      BY <1>7 DEF BoostVisit
    <3>2. stay \in [Procs -> Nat]
      OBVIOUS
    <3> HIDE DEF e, TypeOK
    <3>3. stay[e] \in Nat /\ stay[e] + 1 \in Nat
      BY <2>1, <3>2
    <3> QED BY <2>1, <3>1, <3>2, <3>3
  <2> QED
    BY <1>7, <2>2, <2>3, <2>5, <2>6, <2>7
    DEF BoostVisit, procVars, startVars, cpuVars
<1>8. CASE BoostDone
  <2>1. /\ pc' \in Pcs
        /\ UNCHANGED <<cur, rrIndex, slots, walk, procVars, infoVars, mlfqVars,
                       cpuVars, freePages>>
    BY <1>8 DEF BoostDone
  <2>2. idx' \in 1..(NPROC + 1)
    BY <1>0, <1>8 DEF BoostDone
  <2> QED
    BY <2>1, <2>2 DEF procVars, infoVars, mlfqVars, startVars, cpuVars
<1>9. CASE AdmitVisit
  <2>1. idx \in Procs /\ idx + 1 \in 1..(NPROC + 1)
    BY <1>0, <1>9 DEF AdmitVisit, Procs
  <2>2. queue' \in [Levels -> Seq(Procs)] /\ freePages' \in Nat
    <3>1. Enque(queue, 0, idx) \in [Levels -> Seq(Procs)]
      BY <2>1, EnqueType
    <3> QED BY <1>9, <3>1, PagesType DEF AdmitVisit
  <2> QED BY <1>9, <2>1, <2>2 DEF AdmitVisit, procVars, startVars, cpuVars
<1>10. CASE AdmitDone
  BY <1>10 DEF AdmitDone, procVars, infoVars, mlfqVars, startVars, cpuVars
<1>11. CASE Pick
  <2>1. FilledSlots \in [Procs -> Procs \cup {None}]
    BY FilledSlotsType
  <2>2. rrIndex + 1 \in Procs /\ 1 \in Procs
    BY <1>0 DEF Procs
  <2>3. cur' \in Procs \cup {None}
    BY <1>11, <2>1, <2>2 DEF Pick
  <2>4. rrIndex' \in 0..(NPROC - 1)
    BY <1>0, <1>11, TopSize, NextIndexType DEF Pick
  <2>5. /\ state' \in [Procs -> States]
        /\ cpuProc' \in Procs \cup {None} /\ panicked' \in BOOLEAN
    BY <1>11, <2>3 DEF Pick, SwitchTo
  <2> QED
    BY <1>11, <2>1, <2>3, <2>4, <2>5 DEF Pick, infoVars, mlfqVars, startVars
<1>12. CASE Resume
  <2>1. cur \in Procs
    BY <1>12 DEF Resume
  <2> QED BY <1>12, <2>1 DEF Resume, SwitchTo, infoVars, mlfqVars, startVars
<1> QED
  BY <1>1, <1>2, <1>3, <1>4, <1>5, <1>6, <1>7, <1>8, <1>9, <1>10, <1>11, <1>12
  DEF SchedulerStep

LEMMA TypeProcess ==
    ASSUME TypeOK, NEW p \in Procs, ProcessStep(p)
    PROVE  TypeOK'
<1> USE ConstantsAssumption DEF TypeOK, States, Pcs, Levels
<1>1. CASE TimerYield(p)
  BY <1>1 DEF TimerYield, LeaveCpu, infoVars, schedVars
<1>2. ASSUME NEW why \in {"dev", "pipe"}, Sleep(p, why) PROVE TypeOK'
  BY <1>2 DEF Sleep, LeaveCpu, infoVars, mlfqVars, startVars, schedVars
<1>3. CASE WaitSleep(p)
  BY <1>3 DEF WaitSleep, LeaveCpu, infoVars, mlfqVars, startVars, schedVars
<1>4. CASE SleepAgain(p)
  BY <1>4 DEF SleepAgain, LeaveCpu, infoVars, mlfqVars, startVars, schedVars
<1>0. NoTicks \in [Levels -> Nat] /\ 0 \in 0..(MaxLevel - 1)
  BY DEF NoTicks
<1>5. ASSUME NEW c \in Procs, Reap(p, c) PROVE TypeOK'
  <2>1. freePages' \in Nat
    <3>1. freePages' = freePages + 1 \/ freePages' = freePages
      BY <1>5 DEF Reap
    <3>2. freePages \in Nat
      OBVIOUS
    <3> HIDE DEF TypeOK
    <3> QED BY <3>1, <3>2
  <2> QED BY <1>0, <1>5, <2>1 DEF Reap, mlfqVars, startVars, schedVars, cpuVars
<1>6. ASSUME NEW c \in Procs, Fork(p, c) PROVE TypeOK'
  <2>1. freePages' \in Nat
    BY <1>6, PagesType DEF Fork
  <2> QED BY <1>0, <1>6, <2>1 DEF Fork, mlfqVars, startVars, schedVars, cpuVars
<1>7. CASE Fault(p)
  BY <1>7 DEF Fault, infoVars, mlfqVars, startVars, schedVars, cpuVars
<1>8. CASE Exit(p)
  <2>1. InitProc \in Procs
    BY DEF InitProc, Procs
  <2> QED
    BY <1>8, <2>1 DEF Exit, LeaveCpu, infoVars, mlfqVars, startVars, schedVars
<1>9. CASE startMLFQ(p)
  <2>0. UNCHANGED <<procVars, infoVars, schedVars, cpuVars, freePages>>
    BY <1>9, StartKeeps
  <2>1. ASSUME NEW arg, StartTest(p, arg) PROVE TypeOK'
    <3>1. starts + 1 \in 1..Len(Params) /\ arg \in Params[starts + 1]
      BY <2>1, LenProperties DEF StartTest
    <3>2. Params[starts + 1] \in SUBSET [m : 1..MaxLevel, n : Nat]
      BY <3>1, ElementOfSeq
    <3>3. arg \in [m : 1..MaxLevel, n : Nat]
      BY <3>1, <3>2
    <3>4. arg \in [m : 0..MaxLevel, n : Nat]
      BY <3>3
    <3>5. args' \in [Procs -> [m : 0..MaxLevel, n : Nat]]
      BY <2>1, <3>4 DEF StartTest
    <3>6. call' \in [Procs -> Places] /\ starts' \in 0..Len(Params)
      <4>1. call' = [call EXCEPT ![p] = "flag"] /\ starts' = starts + 1
        BY <2>1 DEF StartTest
      <4>2. call \in [Procs -> Places] /\ starts \in Nat /\ Len(Params) \in Nat
        BY LenProperties
      <4> HIDE DEF TypeOK
      <4> QED BY <3>1, <4>1, <4>2 DEF Places
    <3> QED
      BY <2>0, <2>1, <3>5, <3>6
      DEF StartTest, procVars, infoVars, schedVars, cpuVars
  <2>2. CASE StartFlag(p)
    BY <2>0, <2>2
    DEF StartFlag, Places, procVars, infoVars, schedVars, cpuVars
  <2>3. CASE StartM(p)
    BY <2>0, <2>3 DEF StartM, Places, procVars, infoVars, schedVars, cpuVars
  <2>4. CASE StartN(p)
    <3>1. n' \in Nat
      BY <2>4 DEF StartN
    <3>2. call' \in [Procs -> Places] /\ level' \in [Procs -> Levels]
      BY <1>0, <2>4 DEF StartN, Places
    <3> QED
      BY <2>0, <2>4, <3>1, <3>2
      DEF StartN, procVars, infoVars, schedVars, cpuVars
  <2>5. CASE StartReset(p)
    <3>1. queue' \in [Levels -> Seq(Procs)]
      BY <2>5, EmptySeq DEF StartReset, Emptied
    <3>2. /\ call' \in [Procs -> Places] /\ level' \in [Procs -> Levels]
          /\ args' \in [Procs -> [m : 0..MaxLevel, n : Nat]]
      <4>1. CASE level[p] + 1 \in Levels
        BY <2>5, <4>1 DEF StartReset
      <4>2. CASE ~(level[p] + 1 \in Levels)
        <5>1. /\ call'  = [call EXCEPT ![p] = "no"]
              /\ args'  = [args EXCEPT ![p] = NoArgs]
              /\ level' = [level EXCEPT ![p] = 0]
          BY <2>5, <4>2 DEF StartReset
        <5>2. /\ NoArgs \in [m : 0..MaxLevel, n : Nat] /\ "no" \in Places
              /\ 0 \in Levels
          BY DEF NoArgs, Places
        <5>3. /\ call \in [Procs -> Places] /\ level \in [Procs -> Levels]
              /\ args \in [Procs -> [m : 0..MaxLevel, n : Nat]]
          OBVIOUS
        <5> HIDE DEF TypeOK
        <5> QED BY <5>1, <5>2, <5>3
      <4> QED BY <4>1, <4>2
    <3> QED
      BY <2>0, <2>5, <3>1, <3>2
      DEF StartReset, procVars, infoVars, schedVars, cpuVars
  <2> QED BY <1>9, <2>1, <2>2, <2>3, <2>4, <2>5 DEF startMLFQ
<1>10. CASE stopMLFQ(p)
  BY <1>10 DEF stopMLFQ, procVars, infoVars, startVars, schedVars, cpuVars
<1>11. ASSUME NEW q \in Procs, PipeWake(p, q) PROVE TypeOK'
  BY <1>11 DEF PipeWake, Wake, infoVars, mlfqVars, startVars, schedVars, cpuVars
<1> QED
  BY <1>1, <1>2, <1>3, <1>4, <1>5, <1>6, <1>7, <1>8, <1>9, <1>10, <1>11
  DEF ProcessStep

LEMMA TypeNext == TypeOK /\ [Next]_vars => TypeOK'
<1> SUFFICES ASSUME TypeOK, [Next]_vars PROVE TypeOK'
  OBVIOUS
<1>1. ASSUME NEW q \in Procs, DeviceIntr(q) PROVE TypeOK'
  BY <1>1 DEF DeviceIntr, Wake, TypeOK, States,
              infoVars, mlfqVars, startVars, schedVars, cpuVars
<1>2. CASE UNCHANGED vars
  BY <1>2 DEF vars, procVars, infoVars, mlfqVars, startVars, schedVars, cpuVars,
              TypeOK
<1> QED BY <1>1, <1>2, TypeScheduler, TypeProcess DEF Next

(***************************************************************************)
(* Type correctness for every size: in particular a priority never leaves  *)
(* the arrays it indexes and rr_index never leaves the candidates array.   *)
(***************************************************************************)
THEOREM TypeCorrect == Spec => []TypeOK
BY TypeInit, TypeNext, PTL DEF Spec
-----------------------------------------------------------------------------
(* The process in c->proc is the one that is RUNNING.                       *)

LEMMA RunningInit == Init => RunningIsCurrent
BY DEF Init, RunningIsCurrent, Procs, None, InitProc

LEMMA RunningNext ==
    TypeOK /\ RunningIsCurrent /\ [Next]_vars => RunningIsCurrent'
<1> SUFFICES ASSUME TypeOK, RunningIsCurrent, [Next]_vars
             PROVE  RunningIsCurrent'
  OBVIOUS
<1>0. /\ state \in [Procs -> States] /\ cpuProc \in Procs \cup {None}
      /\ cur \in Procs \cup {None} /\ idx \in 1..(NPROC + 1)
      /\ None \notin Procs /\ cur' \in Procs \cup {None}
  <2>1. TypeOK'
    BY TypeNext
  <2>2. cur' \in Procs \cup {None}
    BY <2>1 DEF TypeOK
  <2>3. None \notin Procs
    BY DEF Procs, None
  <2> QED BY <2>2, <2>3 DEF TypeOK
<1> USE DEF RunningIsCurrent
<1> HIDE DEF TypeOK
\* A dispatch: nobody was RUNNING, the chosen process is now.
<1>1. ASSUME NEW q \in Procs, cpuProc = None, SwitchTo(q)
      PROVE  RunningIsCurrent'
  BY <1>0, <1>1 DEF SwitchTo
\* A process leaves the CPU in a state other than RUNNING.
<1>2. ASSUME NEW p \in Procs, NEW s \in States \ {"RUNNING"}, Running(p),
             state' = [state EXCEPT ![p] = s], cpuProc' = None
      PROVE  RunningIsCurrent'
  BY <1>0, <1>2 DEF Running, States
\* Nobody enters or leaves the CPU, and only states other than RUNNING change.
<1>3. ASSUME NEW q \in Procs, NEW s \in States \ {"RUNNING"},
             state[q] # "RUNNING", state' = [state EXCEPT ![q] = s],
             UNCHANGED cpuProc
      PROVE  RunningIsCurrent'
  BY <1>0, <1>3 DEF States
<1>4. ASSUME UNCHANGED <<state, cpuProc>> PROVE RunningIsCurrent'
  BY <1>4
<1>5. CASE SchedulerStep
  <2>1. CASE RRVisit
    <3>1. idx \in Procs
      BY <1>0, <2>1 DEF RRVisit, Procs
    <3> QED BY <1>1, <1>4, <2>1, <3>1 DEF RRVisit, Scheduling
  <2>2. CASE Pick
    <3>1. CASE cur' # None
      <4>1. cur' \in Procs /\ SwitchTo(cur') /\ cpuProc = None
        BY <1>0, <2>2, <3>1 DEF Pick, Scheduling
      <4> QED BY <4>1, <1>0 DEF SwitchTo
    <3>2. CASE cur' = None
      BY <1>4, <2>2, <3>2 DEF Pick
    <3> QED BY <3>1, <3>2
  <2>3. CASE Resume
    BY <1>0, <1>1, <2>3 DEF Resume, Scheduling
  <2>4. CASE \/ SchedulerTop \/ RRDone \/ MLFQDone \/ ChargeAndExpire \/ Charge
             \/ BoostVisit \/ BoostDone \/ AdmitVisit \/ AdmitDone
    BY <1>4, <2>4
    DEF SchedulerTop, RRDone, MLFQDone, ChargeAndExpire, Charge, BoostVisit,
        BoostDone, AdmitVisit, AdmitDone, procVars, cpuVars
  <2> QED BY <1>5, <2>1, <2>2, <2>3, <2>4 DEF SchedulerStep
<1>6. ASSUME NEW q \in Procs, Wake(q) PROVE RunningIsCurrent'
  <2>1. CASE state[q] = "SLEEPING"
    BY <1>0, <1>3, <1>6, <2>1 DEF Wake, cpuVars, States
  <2>2. CASE state[q] # "SLEEPING"
    BY <1>4, <1>6, <2>2 DEF Wake, cpuVars
  <2> QED BY <2>1, <2>2
<1>7. ASSUME NEW p \in Procs, ProcessStep(p) PROVE RunningIsCurrent'
  <2>1. CASE TimerYield(p)
    BY <1>2, <2>1 DEF TimerYield, LeaveCpu, States
  <2>2. ASSUME NEW why \in {"dev", "pipe"}, Sleep(p, why)
        PROVE  RunningIsCurrent'
    BY <1>2, <2>2 DEF Sleep, LeaveCpu, States
  <2>3. CASE WaitSleep(p)
    BY <1>2, <2>3 DEF WaitSleep, May, Free, LeaveCpu, States
  <2>4. CASE SleepAgain(p)
    BY <1>2, <2>4 DEF SleepAgain, LeaveCpu, States
  <2>5. ASSUME NEW c \in Procs, Reap(p, c) PROVE RunningIsCurrent'
    <3>1. state[c] = "ZOMBIE" /\ state' = [state EXCEPT ![c] = "UNUSED"]
      BY <2>5 DEF Reap, Zombies
    <3> QED BY <1>3, <2>5, <3>1 DEF Reap, cpuVars, States
  <2>6. ASSUME NEW c \in Procs, Fork(p, c) PROVE RunningIsCurrent'
    BY <1>3, <2>6 DEF Fork, cpuVars, States
  <2>7. CASE Exit(p)
    <3>1. cpuProc = p /\ cpuProc' = None
      BY <2>7 DEF Exit, Running, LeaveCpu
    <3>2. ASSUME NEW q \in Procs PROVE state'[q] # "RUNNING"
      <4>1. state'[q] \in {"ZOMBIE", "RUNNABLE"} \/ (q # p /\ state'[q] = state[q])
        BY <2>7 DEF Exit
      <4> QED BY <3>1, <4>1
    <3> QED BY <1>0, <3>1, <3>2
  <2>8. ASSUME NEW q \in Procs, PipeWake(p, q) PROVE RunningIsCurrent'
    BY <1>6, <2>8 DEF PipeWake
  <2>9. CASE Fault(p) \/ stopMLFQ(p) \/ startMLFQ(p)
    BY <1>4, <2>9, StartKeeps DEF Fault, stopMLFQ, procVars, cpuVars
  <2> QED
    BY <1>7, <2>1, <2>2, <2>3, <2>4, <2>5, <2>6, <2>7, <2>8, <2>9
    DEF ProcessStep
<1>8. ASSUME NEW q \in Procs, DeviceIntr(q) PROVE RunningIsCurrent'
  BY <1>6, <1>8 DEF DeviceIntr
<1>9. CASE UNCHANGED vars
  BY <1>4, <1>9 DEF vars, procVars, cpuVars
<1> QED BY <1>5, <1>7, <1>8, <1>9 DEF Next

(***************************************************************************)
(* At most one process is RUNNING, and it is c->proc, on every dispatch    *)
(* path of both schedulers.                                                *)
(***************************************************************************)
THEOREM RunningIsTheCurrentProcess == Spec => []RunningIsCurrent
BY TypeInit, TypeNext, RunningInit, RunningNext, PTL DEF Spec

-----------------------------------------------------------------------------
(* Tick accounting.                                                         *)

LEMMA QuantumInit == Init => QuantumBound
<1> SUFFICES ASSUME Init, NEW p \in Procs, NEW l \in Levels
             PROVE  IF l = prio[p] THEN ticks[p][l] < Quantum(l)
                    ELSE ticks[p][l] = 0
  BY DEF QuantumBound
<1>1. ticks[p][l] = 0 /\ l \in Nat
  BY ConstantsAssumption DEF Init, NoTicks, Levels
<1> QED BY <1>1 DEF Quantum

\* The accounting of one process.
QuantumOf(p) ==
    \A l \in Levels : IF l = prio[p] THEN ticks[p][l] < Quantum(l)
                      ELSE ticks[p][l] = 0

LEMMA QuantumNext ==
    TypeOK /\ QuantumBound /\ [Next]_vars => QuantumBound'
<1> SUFFICES ASSUME TypeOK, QuantumBound, [Next]_vars,
                    NEW p \in Procs
             PROVE  QuantumOf(p)'
  BY DEF QuantumBound, QuantumOf
<1>0. /\ ticks \in [Procs -> [Levels -> Nat]] /\ prio \in [Procs -> Levels]
      /\ stay \in [Procs -> Nat] /\ walk \in Seq(Procs)
      /\ cur \in Procs \cup {None} /\ m \in Nat
      /\ Levels \subseteq Nat /\ 0 \in Levels
      /\ QuantumOf(p)
  <2>1. QuantumOf(p)
    BY DEF QuantumBound, QuantumOf
  <2>2. Levels \subseteq Nat /\ 0 \in Levels
    BY ConstantsAssumption DEF Levels
  <2>3. m \in Nat
    BY ConstantsAssumption DEF TypeOK
  <2> QED BY <2>1, <2>2, <2>3 DEF TypeOK
<1> HIDE DEF TypeOK
<1>1. ASSUME UNCHANGED <<prio, ticks>> PROVE QuantumOf(p)'
  BY <1>0, <1>1 DEF QuantumOf
\* A slot that is cleared, by freeproc() or allocproc().
<1>2. ASSUME NEW c \in Procs, prio' = [prio EXCEPT ![c] = 0],
             ticks' = [ticks EXCEPT ![c] = NoTicks]
      PROVE  QuantumOf(p)'
  <2>1. \A l \in Levels : NoTicks[l] = 0 /\ 0 < Quantum(l)
    BY <1>0 DEF NoTicks, Quantum
  <2> QED BY <1>0, <1>2, <2>1 DEF QuantumOf
<1>3. CASE ChargeAndExpire
  <2> DEFINE k == prio[cur]
  <2>1. cur \in Procs /\ k \in Levels /\ ticks' = [ticks EXCEPT ![cur][k] = 0]
    BY <1>0, <1>3 DEF ChargeAndExpire, Charged
  <2>2. prio' = prio \/ prio' = [prio EXCEPT ![cur] = k + 1]
    BY <1>3 DEF ChargeAndExpire
  <2>3. CASE p = cur
    <3>1. \A l \in Levels : ticks'[p][l] = 0
      BY <1>0, <2>1, <2>3 DEF QuantumOf
    <3>2. \A l \in Levels : 0 < Quantum(l)
      BY <1>0 DEF Quantum
    <3> QED BY <3>1, <3>2 DEF QuantumOf, Quantum
  <2>4. CASE p # cur
    BY <1>0, <2>1, <2>2, <2>4 DEF QuantumOf
  <2> QED BY <2>3, <2>4
<1>4. CASE Charge
  <2>1. CASE Charged
    <3>1. /\ cur \in Procs /\ prio[cur] \in Levels
          /\ ticks[cur][prio[cur]] + 1 < Quantum(prio[cur])
          /\ ticks' = [ticks EXCEPT ![cur][prio[cur]] = @ + 1]
          /\ prio' = prio
      BY <1>0, <1>4, <2>1 DEF Charge, Charged
    <3> QED BY <1>0, <3>1 DEF QuantumOf, Quantum
  <2>2. CASE ~Charged
    BY <1>1, <1>4, <2>2 DEF Charge
  <2> QED BY <2>1, <2>2
<1>5. CASE BoostVisit
  <2> DEFINE e == Head(walk)
  <2>1. e \in Procs
    BY <1>0, <1>5, HeadTailProperties DEF BoostVisit
  <2>2. CASE prio[e] = m - 1 /\ DueForBoost(e)
    <3>1. /\ ticks' = [ticks EXCEPT ![e] = BoostedTicks(ticks[e])]
          /\ prio' = [prio EXCEPT ![e] = 0]
      BY <1>5, <2>2 DEF BoostVisit
    <3>2. CASE p = e
      <4>1. \A l \in Levels : l # m - 1 => ticks[e][l] = 0
        BY <1>0, <2>2, <3>2 DEF QuantumOf
      <4>2. ticks[e] \in [Levels -> Nat]
        BY <1>0, <2>1
      <4>3. \A l \in Levels : BoostedTicks(ticks[e])[l] = 0
        BY <4>1, <4>2 DEF BoostedTicks
      <4>4. ticks'[p] = BoostedTicks(ticks[e])
        BY <1>0, <3>1, <3>2
      <4>5. \A l \in Levels : 0 < Quantum(l)
        BY <1>0 DEF Quantum
      <4> QED BY <4>3, <4>4, <4>5 DEF QuantumOf, Quantum
    <3>3. CASE p # e
      <4> HIDE DEF e
      <4> QED BY <1>0, <3>1, <3>3 DEF QuantumOf
    <3> QED BY <3>2, <3>3
  <2>3. CASE ~(prio[e] = m - 1 /\ DueForBoost(e))
    BY <1>1, <1>5, <2>3 DEF BoostVisit
  <2> QED BY <2>2, <2>3
<1>6. CASE \/ SchedulerTop \/ RRVisit \/ RRDone \/ MLFQDone \/ BoostDone
           \/ AdmitVisit \/ AdmitDone \/ Pick \/ Resume
  BY <1>1, <1>6
  DEF SchedulerTop, RRVisit, RRDone, MLFQDone, BoostDone, AdmitVisit,
      AdmitDone, Pick, Resume, infoVars
<1>7. ASSUME NEW r \in Procs, ProcessStep(r) PROVE QuantumOf(p)'
  <2>1. ASSUME NEW c \in Procs, Reap(r, c) \/ Fork(r, c) PROVE QuantumOf(p)'
    BY <1>2, <2>1 DEF Reap, Fork
  <2>2. CASE \/ TimerYield(r) \/ (\E why \in {"dev", "pipe"} : Sleep(r, why))
             \/ WaitSleep(r) \/ SleepAgain(r) \/ Fault(r) \/ Exit(r)
             \/ startMLFQ(r) \/ stopMLFQ(r)
             \/ (\E q \in Procs : PipeWake(r, q))
    BY <1>1, <2>2, StartKeeps
    DEF TimerYield, Sleep, WaitSleep, SleepAgain, Fault, Exit, stopMLFQ,
        PipeWake, Wake, infoVars
  <2> QED BY <1>7, <2>1, <2>2 DEF ProcessStep
<1>8. ASSUME NEW q \in Procs, DeviceIntr(q) PROVE QuantumOf(p)'
  BY <1>1, <1>8 DEF DeviceIntr, Wake, infoVars
<1>9. CASE UNCHANGED vars
  BY <1>1, <1>9 DEF vars, infoVars
<1> QED
  BY <1>3, <1>4, <1>5, <1>6, <1>7, <1>8, <1>9 DEF Next, SchedulerStep

(***************************************************************************)
(* A process has ticks only at its current level and never a full quantum  *)
(* of them, through demotions, boosts, restarts of MLFQ with other levels  *)
(* and new lives of its slot.                                              *)
(***************************************************************************)
THEOREM QuantumNeverExceeded == Spec => []QuantumBound
BY TypeInit, TypeNext, QuantumInit, QuantumNext, PTL DEF Spec

-----------------------------------------------------------------------------
(* How priorities change.                                                   *)

\* freeproc() leaves the slot at the top level, where allocproc() finds it.
FreeAtTop == \A p \in Procs : state[p] = "UNUSED" => prio[p] = 0

MoveOf(p) ==
    prio'[p] # prio[p] =>
        \/ /\ prio'[p] = prio[p] + 1 /\ prio'[p] <= m - 1
           /\ ticks[p][prio[p]] + 1 = Quantum(prio[p])
        \/ prio'[p] = 0 /\ prio[p] = m - 1 /\ stay[p] + 1 >= n
        \/ prio'[p] = 0 /\ state'[p] = "UNUSED"

LEMMA FreeInit == Init => FreeAtTop
BY DEF Init, FreeAtTop

LEMMA MoveNext ==
    TypeOK /\ QuantumBound /\ FreeAtTop /\ [Next]_vars
       => FreeAtTop' /\ \A p \in Procs : MoveOf(p)
<1> SUFFICES ASSUME TypeOK, QuantumBound, FreeAtTop, [Next]_vars,
                    NEW p \in Procs
             PROVE  (state'[p] = "UNUSED" => prio'[p] = 0) /\ MoveOf(p)
  BY DEF FreeAtTop
<1> DEFINE Goal == (state'[p] = "UNUSED" => prio'[p] = 0) /\ MoveOf(p)
<1>0. /\ ticks \in [Procs -> [Levels -> Nat]] /\ prio \in [Procs -> Levels]
      /\ state \in [Procs -> States] /\ walk \in Seq(Procs)
      /\ cur \in Procs \cup {None} /\ m \in Nat /\ Levels \subseteq Nat
      /\ state[p] = "UNUSED" => prio[p] = 0
  <2>1. m \in Nat /\ Levels \subseteq Nat
    BY ConstantsAssumption DEF TypeOK, Levels
  <2> QED BY <2>1 DEF TypeOK, FreeAtTop
<1> HIDE DEF TypeOK
\* A step that changes no priority and frees no slot.
<1>1. ASSUME prio' = prio, state'[p] = "UNUSED" => state[p] = "UNUSED" PROVE Goal
  BY <1>0, <1>1 DEF MoveOf
<1>2. CASE ChargeAndExpire
  <2> DEFINE k == prio[cur]
  <2>1. /\ cur \in Procs /\ state[cur] # "UNUSED" /\ state' = state
        /\ k \in Levels /\ k \in Nat /\ ticks[cur][k] \in Nat
        /\ ticks[cur][k] + 1 >= Quantum(k)
    BY <1>0, <1>2 DEF ChargeAndExpire, Charged, procVars
  <2>2. ticks[cur][k] < Quantum(k) /\ Quantum(k) \in Nat
    BY <2>1 DEF QuantumBound, Quantum
  <2>3. ticks[cur][k] + 1 = Quantum(k)
    BY <2>1, <2>2
  <2>4. prio' = prio \/ (prio' = [prio EXCEPT ![cur] = k + 1] /\ k < m - 1)
    BY <1>2 DEF ChargeAndExpire
  <2>5. CASE p = cur /\ prio' # prio
    <3>1. prio'[p] = prio[p] + 1 /\ prio'[p] <= m - 1
      BY <1>0, <2>1, <2>4, <2>5
    <3> QED BY <2>1, <2>3, <2>5, <3>1 DEF MoveOf
  <2>6. CASE p # cur /\ prio' # prio
    BY <1>0, <2>1, <2>4, <2>6 DEF MoveOf
  <2> QED BY <1>1, <2>1, <2>5, <2>6
<1>3. CASE BoostVisit
  <2> DEFINE e == Head(walk)
  <2>1. e \in Procs /\ state' = state
    BY <1>0, <1>3, HeadTailProperties DEF BoostVisit, procVars
  <2>2. CASE prio[e] = m - 1 /\ DueForBoost(e)
    <3>1. prio' = [prio EXCEPT ![e] = 0] /\ stay[e] + 1 >= n
      BY <1>3, <2>2 DEF BoostVisit, DueForBoost
    <3> HIDE DEF e
    <3> QED BY <1>0, <2>1, <2>2, <3>1 DEF MoveOf
  <2>3. CASE ~(prio[e] = m - 1 /\ DueForBoost(e))
    BY <1>1, <1>3, <2>1, <2>3 DEF BoostVisit
  <2> QED BY <2>2, <2>3
<1>4. CASE \/ SchedulerTop \/ RRVisit \/ RRDone \/ MLFQDone \/ Charge
           \/ BoostDone \/ AdmitVisit \/ AdmitDone \/ Pick \/ Resume
  <2>1. prio' = prio
    BY <1>4 DEF SchedulerTop, RRVisit, RRDone, MLFQDone, Charge, BoostDone,
                AdmitVisit, AdmitDone, Pick, Resume, infoVars
  <2>2. state' = state \/ \E q : state' = [state EXCEPT ![q] = "RUNNING"]
    BY <1>4 DEF SchedulerTop, RRVisit, RRDone, MLFQDone, Charge, BoostDone,
                AdmitVisit, AdmitDone, Pick, Resume, SwitchTo, procVars
  <2> QED BY <1>0, <1>1, <2>1, <2>2
<1>5. ASSUME NEW r \in Procs, ProcessStep(r) PROVE Goal
  <2>1. ASSUME NEW c \in Procs, Reap(r, c) PROVE Goal
    BY <1>0, <2>1 DEF Reap, MoveOf
  <2>2. ASSUME NEW c \in Procs, Fork(r, c) PROVE Goal
    <3>1. /\ state[c] = "UNUSED" /\ prio' = [prio EXCEPT ![c] = 0]
          /\ state' = [state EXCEPT ![c] = "RUNNABLE"]
      BY <2>2 DEF Fork
    <3>2. prio' = prio
      BY <1>0, <3>1 DEF FreeAtTop
    <3> QED BY <1>0, <1>1, <3>1, <3>2
  <2>3. CASE Exit(r)
    <3>1. /\ prio' = prio
          /\ state'[p] \in {"ZOMBIE", "RUNNABLE"} \/ state'[p] = state[p]
      BY <2>3 DEF Exit, infoVars
    <3> QED BY <1>1, <3>1
  <2>4. CASE \/ TimerYield(r) \/ (\E why \in {"dev", "pipe"} : Sleep(r, why))
             \/ WaitSleep(r) \/ SleepAgain(r)
    <3>1. /\ prio' = prio
          /\ \/ state' = [state EXCEPT ![r] = "RUNNABLE"]
             \/ state' = [state EXCEPT ![r] = "SLEEPING"]
      BY <2>4 DEF TimerYield, Sleep, WaitSleep, SleepAgain, infoVars
    <3> QED BY <1>0, <1>1, <3>1
  <2>5. CASE \/ Fault(r) \/ startMLFQ(r) \/ stopMLFQ(r)
             \/ (\E q \in Procs : PipeWake(r, q))
    <3>1. /\ prio' = prio
          /\ state' = state \/ \E q : state' = [state EXCEPT ![q] = "RUNNABLE"]
      BY <2>5, StartKeeps
      DEF Fault, stopMLFQ, PipeWake, Wake, infoVars, procVars
    <3> QED BY <1>0, <1>1, <3>1
  <2> QED BY <1>5, <2>1, <2>2, <2>3, <2>4, <2>5 DEF ProcessStep
<1>6. ASSUME NEW q \in Procs, DeviceIntr(q) PROVE Goal
  <2>1. /\ prio' = prio
        /\ state' = state \/ state' = [state EXCEPT ![q] = "RUNNABLE"]
    BY <1>6 DEF DeviceIntr, Wake, infoVars
  <2> QED BY <1>0, <1>1, <2>1
<1>7. CASE UNCHANGED vars
  BY <1>1, <1>7 DEF vars, procVars, infoVars
<1> QED
  BY <1>2, <1>3, <1>4, <1>5, <1>6, <1>7 DEF Next, SchedulerStep

(***************************************************************************)
(* A priority changes by the rules only: down one level after a full       *)
(* quantum, to the top from the bottom after n counts there, or with the   *)
(* slot's life; sleeping, yielding early, stopping and restarting MLFQ     *)
(* move nobody (proc.c:638-721).                                           *)
(***************************************************************************)
THEOREM PrioritiesMoveByTheRules == Spec => MovesByTheRules
<1>1. TypeOK /\ QuantumBound /\ FreeAtTop /\ [Next]_vars => FreeAtTop'
  BY MoveNext
<1>2. TypeOK /\ QuantumBound /\ FreeAtTop /\ [Next]_vars
         => [\A p \in Procs : prio'[p] # prio[p] =>
               \/ /\ prio'[p] = prio[p] + 1 /\ prio'[p] <= m - 1
                  /\ ticks[p][prio[p]] + 1 = Quantum(prio[p])
               \/ prio'[p] = 0 /\ prio[p] = m - 1 /\ stay[p] + 1 >= n
               \/ prio'[p] = 0 /\ state'[p] = "UNUSED"]_vars
  BY MoveNext DEF MoveOf
<1> QED
  BY <1>1, <1>2, TypeInit, TypeNext, QuantumInit, QuantumNext, FreeInit, PTL
  DEF Spec, MovesByTheRules

-----------------------------------------------------------------------------
(* The queues: who is in them, marked, or has counts at a level.             *)

\* The queue of a level holds a process; as a list it holds nobody twice.
Holds(s, p) == \E i \in 1..Len(s) : s[i] = p
NoneTwice(s) == \A i, j \in 1..Len(s) : s[i] = s[j] => i = j

\* Whoever is in a queue was admitted and has not been freed; a zombie among
\* them has just left the CPU and is resumed, which is a panic.
Kept(p) == /\ added[p] /\ state[p] # "UNUSED"
           /\ state[p] = "ZOMBIE" => /\ cpuProc = None /\ cur = p
                                     /\ pc \notin {"top", "rr"}

ListsRight == flag /\ Settled => \A l \in Levels :
    /\ NoneTwice(queue[l])
    /\ \A p \in Procs : Holds(queue[l], p) => prio[p] = l /\ Kept(p)

WalkRight == flag /\ Settled /\ pc = "boost" =>
    \A p \in Procs : Holds(walk, p) => Kept(p)

\* While the round robin goes on after startMLFQ(), nobody is admitted.
EmptyRight == flag /\ Settled /\ pc \in {"top", "rr"} =>
    \A l \in Levels : queue[l] = << >>

CurRight == cpuProc # None => pc = "rr" \/ (pc = "loop" /\ cur = cpuProc)

\* Ticks are spent by admitted processes, or by one that is about to be.
TicksRight == \A p \in Procs : ticks[p][prio[p]] > 0 =>
    \/ added[p]
    \/ cur = p /\ state[p] = "RUNNABLE" /\ (pc = "boost" \/ (pc = "admit" /\ idx <= p))

\* A process that has not been admitted is at the top level.
NewAtTop == \A p \in Procs : ~added[p] => prio[p] = 0

QueueInv == /\ ListsRight /\ WalkRight /\ EmptyRight /\ CurRight
            /\ TicksRight /\ NewAtTop

-----------------------------------------------------------------------------
(* Lists.                                                                   *)

\* What is left when the element at k goes, if only it can be there twice.
LEMMA RemoveOne ==
    ASSUME NEW s \in Seq(Procs), NEW k \in 1..Len(s),
           \A i, j \in 1..Len(s) : i # k /\ j # k /\ s[i] = s[j] => i = j
    PROVE  /\ NoneTwice(RemoveAt(s, k))
           /\ \A e : Holds(RemoveAt(s, k), e) <=> \E i \in 1..Len(s) : i # k /\ s[i] = e
<1> DEFINE r == RemoveAt(s, k)
<1>1. /\ Len(s) \in Nat /\ Len(r) = Len(s) - 1
      /\ \A i \in 1..(Len(s) - 1) : r[i] = IF i < k THEN s[i] ELSE s[i + 1]
  BY RemoveAtProperties, LenProperties
<1> HIDE DEF r
<1>2. NoneTwice(r)
  <2> SUFFICES ASSUME NEW i \in 1..Len(r), NEW j \in 1..Len(r), r[i] = r[j]
               PROVE  i = j
    BY DEF NoneTwice
  <2> DEFINE a == IF i < k THEN i ELSE i + 1
             b == IF j < k THEN j ELSE j + 1
  <2>1. /\ a \in 1..Len(s) /\ a # k /\ s[a] = r[i]
        /\ b \in 1..Len(s) /\ b # k /\ s[b] = r[j]
    BY <1>1
  <2>2. a = b
    BY <2>1
  <2> QED BY <1>1, <2>2
<1>3. ASSUME NEW e, Holds(r, e) PROVE \E i \in 1..Len(s) : i # k /\ s[i] = e
  <2>1. PICK i \in 1..Len(r) : r[i] = e
    BY <1>3 DEF Holds
  <2>2. CASE i < k
    BY <1>1, <2>1, <2>2
  <2>3. CASE ~(i < k)
    <3>1. i + 1 \in 1..Len(s) /\ i + 1 # k /\ s[i + 1] = e
      BY <1>1, <2>1, <2>3
    <3> QED BY <3>1
  <2> QED BY <2>2, <2>3
<1>4. ASSUME NEW e, NEW i \in 1..Len(s), i # k, s[i] = e PROVE Holds(r, e)
  <2>1. CASE i < k
    <3>1. i \in 1..Len(r) /\ r[i] = e
      BY <1>1, <1>4, <2>1
    <3> QED BY <3>1 DEF Holds
  <2>2. CASE i > k
    <3>1. i - 1 \in 1..Len(r) /\ r[i - 1] = e
      BY <1>1, <1>4, <2>2
    <3> QED BY <3>1 DEF Holds
  <2> QED BY <1>1, <1>4, <2>1, <2>2
<1> QED BY <1>2, <1>3, <1>4 DEF r

LEMMA FirstGone ==
    ASSUME NEW s \in Seq(Procs), NEW p, NoneTwice(s)
    PROVE  /\ NoneTwice(RemoveFirst(s, p))
           /\ \A e : Holds(RemoveFirst(s, p), e) <=> Holds(s, e) /\ e # p
<1>1. CASE ~Holds(s, p)
  <2>1. RemoveFirst(s, p) = s
    BY <1>1 DEF RemoveFirst, Holds
  <2> QED BY <1>1, <2>1 DEF Holds
<1>2. CASE Holds(s, p)
  <2>1. PICK k \in 1..Len(s) : s[k] = p /\ RemoveFirst(s, p) = RemoveAt(s, k)
    BY <1>2, RemoveFirstIsRemoveAt DEF Holds
  <2>2. \A i, j \in 1..Len(s) : i # k /\ j # k /\ s[i] = s[j] => i = j
    BY DEF NoneTwice
  <2>3. /\ NoneTwice(RemoveAt(s, k))
        /\ \A e : Holds(RemoveAt(s, k), e) <=> \E i \in 1..Len(s) : i # k /\ s[i] = e
    BY <2>2, RemoveOne
  <2>4. \A e : (\E i \in 1..Len(s) : i # k /\ s[i] = e) <=> Holds(s, e) /\ e # p
    BY <2>1 DEF Holds, NoneTwice
  <2> QED BY <2>1, <2>3, <2>4
<1> QED BY <1>1, <1>2

LEMMA AppendHolds ==
    ASSUME NEW s \in Seq(Procs), NEW p \in Procs
    PROVE  /\ Append(s, p) \in Seq(Procs)
           /\ \A e : Holds(Append(s, p), e) <=> Holds(s, e) \/ e = p
           /\ NoneTwice(s) /\ ~Holds(s, p) => NoneTwice(Append(s, p))
<1> DEFINE t == Append(s, p)
<1>1. /\ t \in Seq(Procs) /\ Len(s) \in Nat /\ Len(t) = Len(s) + 1
      /\ (\A i \in 1..Len(s) : t[i] = s[i]) /\ t[Len(s) + 1] = p
  BY AppendProperties, LenProperties
<1> HIDE DEF t
<1>2. \A i \in 1..Len(t) : i \in 1..Len(s) \/ i = Len(s) + 1
  BY <1>1
<1>3. \A i \in 1..Len(s) : i \in 1..Len(t)
  BY <1>1
<1>4. Len(s) + 1 \in 1..Len(t)
  BY <1>1
<1>5. \A e : Holds(t, e) <=> Holds(s, e) \/ e = p
  BY <1>1, <1>2, <1>3, <1>4 DEF Holds
<1>6. NoneTwice(s) /\ ~Holds(s, p) => NoneTwice(t)
  BY <1>1, <1>2 DEF Holds, NoneTwice
<1> QED BY <1>1, <1>5, <1>6 DEF t

\* At m = 1 an element goes to the tail of its own queue.
LEMMA ToTheTail ==
    ASSUME NEW s \in Seq(Procs), NEW p \in Procs, NoneTwice(s)
    PROVE  /\ NoneTwice(RemoveFirst(Append(s, p), p))
           /\ \A e : Holds(RemoveFirst(Append(s, p), p), e) <=> Holds(s, e)
<1> DEFINE t == Append(s, p)
<1>1. /\ t \in Seq(Procs) /\ Len(s) \in Nat /\ Len(t) = Len(s) + 1
      /\ (\A i \in 1..Len(s) : t[i] = s[i]) /\ t[Len(s) + 1] = p
  BY AppendProperties, LenProperties
<1> HIDE DEF t
<1>2. /\ \A i \in 1..Len(t) : i \in 1..Len(s) \/ i = Len(s) + 1
      /\ \A i \in 1..Len(s) : i \in 1..Len(t)
      /\ Len(s) + 1 \in 1..Len(t)
  BY <1>1
<1>3. PICK k \in 1..Len(t) : t[k] = p /\ RemoveFirst(t, p) = RemoveAt(t, k)
  BY <1>1, <1>2, RemoveFirstIsRemoveAt
<1>4. \A i, j \in 1..Len(t) : i # k /\ j # k /\ t[i] = t[j] => i = j
  BY <1>1, <1>2, <1>3 DEF NoneTwice
<1>5. /\ NoneTwice(RemoveAt(t, k))
      /\ \A e : Holds(RemoveAt(t, k), e) <=> \E i \in 1..Len(t) : i # k /\ t[i] = e
  BY <1>1, <1>4, RemoveOne
<1>6. CASE k = Len(s) + 1
  <2>1. \A i \in 1..Len(s) : i # k
    BY <1>1, <1>6
  <2>2. \A e : (\E i \in 1..Len(t) : i # k /\ t[i] = e) <=> Holds(s, e)
    BY <1>1, <1>2, <1>6, <2>1 DEF Holds
  <2> QED BY <1>3, <1>5, <2>2 DEF t
<1>7. CASE k \in 1..Len(s)
  <2>1. Len(s) + 1 # k /\ s[k] = p
    BY <1>1, <1>3, <1>7
  <2>2. \A e : (\E i \in 1..Len(t) : i # k /\ t[i] = e) <=> Holds(s, e)
    BY <1>1, <1>2, <1>7, <2>1 DEF Holds, NoneTwice
  <2> QED BY <1>3, <1>5, <2>2 DEF t
<1> QED BY <1>2, <1>6, <1>7

-----------------------------------------------------------------------------
(* Queues.                                                                  *)

\* The queues qs with p moved from level l to level k; p may be in neither.
Moved(qs, k, l, p) == Delete(Enque(qs, k, p), l, p)

LEMMA MovedIs ==
    ASSUME NEW qs \in [Levels -> Seq(Procs)], NEW k \in Levels, NEW l \in Levels,
           NEW p \in Procs, \A h \in Levels : NoneTwice(qs[h]),
           k # l => ~Holds(qs[k], p)
    PROVE  /\ \A h \in Levels : NoneTwice(Moved(qs, k, l, p)[h])
           /\ \A h \in Levels, e \in Procs : e # p =>
                 (Holds(Moved(qs, k, l, p)[h], e) <=> Holds(qs[h], e))
           /\ \A h \in Levels : Holds(Moved(qs, k, l, p)[h], p) =>
                 IF k # l THEN h = k \/ (h # l /\ Holds(qs[h], p)) ELSE Holds(qs[h], p)
           /\ CanAlloc /\ Holds(qs[l], p) => Holds(Moved(qs, k, l, p)[k], p)
<1> DEFINE es == Enque(qs, k, p)
           ms == Moved(qs, k, l, p)
<1>1. /\ es \in [Levels -> Seq(Procs)]
      /\ CanAlloc => es[k] = Append(qs[k], p)
      /\ ~CanAlloc => es[k] = qs[k]
      /\ \A h \in Levels : h # k => es[h] = qs[h]
  <2>1. Append(qs[k], p) \in Seq(Procs)
    OBVIOUS
  <2> QED BY <2>1 DEF Enque
<1>2. ms[l] = RemoveFirst(es[l], p) /\ \A h \in Levels : h # l => ms[h] = es[h]
  <2> HIDE DEF es
  <2> QED BY <1>1 DEF Moved, Delete, es
<1>3. qs[k] \in Seq(Procs) /\ qs[l] \in Seq(Procs)
  OBVIOUS
<1> HIDE DEF es, ms
<1>4. CASE k # l
  <2>1. /\ \A e : Holds(Append(qs[k], p), e) <=> Holds(qs[k], e) \/ e = p
        /\ NoneTwice(Append(qs[k], p))
    BY <1>3, <1>4, AppendHolds
  <2>2. /\ CanAlloc => Holds(es[k], p)
        /\ NoneTwice(es[k])
        /\ \A e : Holds(es[k], e) => Holds(qs[k], e) \/ e = p
        /\ \A e : Holds(qs[k], e) => Holds(es[k], e)
    <3>1. CASE CanAlloc
      BY <1>1, <2>1, <3>1
    <3>2. CASE ~CanAlloc
      BY <1>1, <3>2
    <3> QED BY <3>1, <3>2
  <2>3. /\ NoneTwice(ms[l])
        /\ \A e : Holds(ms[l], e) <=> Holds(qs[l], e) /\ e # p
    BY <1>1, <1>2, <1>3, <1>4, FirstGone
  <2>4. \A h \in Levels : NoneTwice(ms[h])
    BY <1>1, <1>2, <2>2, <2>3
  <2>5. \A h \in Levels, e \in Procs : e # p => (Holds(ms[h], e) <=> Holds(qs[h], e))
    BY <1>1, <1>2, <2>2, <2>3
  <2>6. \A h \in Levels : Holds(ms[h], p) => h = k \/ (h # l /\ Holds(qs[h], p))
    BY <1>1, <1>2, <2>2, <2>3
  <2>7. CanAlloc => Holds(ms[k], p)
    BY <1>1, <1>2, <1>4, <2>2
  <2> QED BY <1>4, <2>4, <2>5, <2>6, <2>7 DEF ms
<1>5. CASE k = l
  <2>1. /\ NoneTwice(ms[l])
        /\ \A e : e # p => (Holds(ms[l], e) <=> Holds(qs[l], e))
        /\ Holds(ms[l], p) => Holds(qs[l], p)
        /\ CanAlloc /\ Holds(qs[l], p) => Holds(ms[l], p)
    <3>1. CASE CanAlloc
      <4>1. ms[l] = RemoveFirst(Append(qs[l], p), p)
        BY <1>1, <1>2, <1>5, <3>1
      <4>2. /\ NoneTwice(RemoveFirst(Append(qs[l], p), p))
            /\ \A e : Holds(RemoveFirst(Append(qs[l], p), p), e) <=> Holds(qs[l], e)
        BY <1>3, ToTheTail
      <4> QED BY <4>1, <4>2
    <3>2. CASE ~CanAlloc
      <4>1. ms[l] = RemoveFirst(qs[l], p)
        BY <1>1, <1>2, <1>5, <3>2
      <4>2. /\ NoneTwice(RemoveFirst(qs[l], p))
            /\ \A e : Holds(RemoveFirst(qs[l], p), e) <=> Holds(qs[l], e) /\ e # p
        BY <1>3, FirstGone
      <4> QED BY <3>2, <4>1, <4>2
    <3> QED BY <3>1, <3>2
  <2>2. \A h \in Levels : h # l => ms[h] = qs[h]
    BY <1>1, <1>2, <1>5
  <2> QED BY <1>5, <2>1, <2>2 DEF ms
<1> QED BY <1>4, <1>5

LEMMA EnqueIs ==
    ASSUME NEW qs \in [Levels -> Seq(Procs)], NEW k \in Levels, NEW p \in Procs,
           \A h \in Levels : NoneTwice(qs[h]), ~Holds(qs[k], p)
    PROVE  /\ \A h \in Levels : NoneTwice(Enque(qs, k, p)[h])
           /\ \A h \in Levels, e \in Procs : Holds(Enque(qs, k, p)[h], e) =>
                 Holds(qs[h], e) \/ (h = k /\ e = p)
           /\ \A h \in Levels, e \in Procs :
                 Holds(qs[h], e) => Holds(Enque(qs, k, p)[h], e)
           /\ CanAlloc => Holds(Enque(qs, k, p)[k], p)
<1>1. qs[k] \in Seq(Procs)
  OBVIOUS
<1>2. CASE CanAlloc
  <2>1. /\ Enque(qs, k, p)[k] = Append(qs[k], p)
        /\ \A h \in Levels : h # k => Enque(qs, k, p)[h] = qs[h]
    BY <1>2 DEF Enque
  <2>2. /\ \A e : Holds(Append(qs[k], p), e) <=> Holds(qs[k], e) \/ e = p
        /\ NoneTwice(Append(qs[k], p))
    BY <1>1, AppendHolds
  <2> QED BY <1>2, <2>1, <2>2
<1>3. CASE ~CanAlloc
  BY <1>3 DEF Enque
<1> QED BY <1>2, <1>3

-----------------------------------------------------------------------------
(* The invariant.                                                           *)

LEMMA QueueTypes ==
    ASSUME TypeOK
    PROVE  /\ state \in [Procs -> States] /\ added \in [Procs -> BOOLEAN]
           /\ prio \in [Procs -> Levels] /\ ticks \in [Procs -> [Levels -> Nat]]
           /\ stay \in [Procs -> Nat] /\ queue \in [Levels -> Seq(Procs)]
           /\ walk \in Seq(Procs) /\ cur \in Procs \cup {None} /\ flag \in BOOLEAN
           /\ cpuProc \in Procs \cup {None} /\ idx \in Nat /\ None \notin Procs
           /\ m \in Nat /\ m <= MaxLevel /\ n \in Nat /\ starts \in Nat
           /\ Levels \subseteq Nat /\ (\A l \in Nat : l < MaxLevel => l \in Levels)
           /\ 0 \in Levels /\ (m > 0 => m - 1 \in Levels)
           /\ (idx <= NPROC => idx \in Procs)
<1>1. /\ NPROC \in Nat /\ MaxLevel \in Nat \ {0}
      /\ m \in Nat /\ m <= MaxLevel /\ idx \in Nat /\ idx >= 1
      /\ starts \in Nat
  BY ConstantsAssumption, LenProperties DEF TypeOK
<1>2. /\ Levels \subseteq Nat /\ (\A l \in Nat : l < MaxLevel => l \in Levels)
      /\ 0 \in Levels /\ (m > 0 => m - 1 \in Levels)
  BY <1>1 DEF Levels
<1>3. None \notin Procs /\ (idx <= NPROC => idx \in Procs)
  BY <1>1 DEF Procs, None
<1> QED BY <1>1, <1>2, <1>3 DEF TypeOK

-----------------------------------------------------------------------------
(* The calls of startMLFQ().                                                *)

\* No call has set the flag yet.
NotYet == starts = 0 \/ (starts = 1 /\ \E p \in Procs : call[p] = "flag")

\* A process in startMLFQ() is in no sleep loop.
CallRight == \A p \in Procs : call[p] # "no" => blocked[p] = "no"

\* A call that was not preempted since it set the flag is still on the CPU, and
\* the queues that it has passed are empty.
TornRight == ~torn => \A p \in Emptying :
    /\ cpuProc = p
    /\ call[p] = "reset" => \A l \in Levels : l < level[p] => queue[l] = << >>

OneCall == /\ starts = 0 => \A p \in Procs : call[p] = "no"
           /\ starts = 1 => \A p, q \in Procs :
                               call[p] # "no" /\ call[q] # "no" => p = q

FirstRight == NotYet => /\ ~flag /\ pc \in {"top", "rr"}
                        /\ \A l \in Levels : queue[l] = << >>

\* Nobody is admitted before the first call has returned, if nothing came
\* between.
MarksRight == NotYet \/ (starts = 1 /\ ~torn /\ Emptying # {}) =>
    \A p \in Procs : ~added[p]

\* Until the first call has set n, Rule 5 runs with n = 0 and counts nothing.
StayRight ==
    NotYet \/ (starts = 1 /\ \E p \in Procs : call[p] \in {"m", "n"}) =>
        n = 0 /\ \A p \in Procs : stay[p] = 0

StartInv == /\ CallRight /\ TornRight /\ OneCall
            /\ FirstRight /\ MarksRight /\ StayRight

LEMMA StartTypes ==
    ASSUME TypeOK
    PROVE  /\ call \in [Procs -> Places] /\ level \in [Procs -> Levels]
           /\ blocked \in [Procs -> {"no", "dev", "pipe", "wait"}]
           /\ torn \in BOOLEAN
BY DEF TypeOK

\* What every step that is not one of startMLFQ() leaves alone.
Aside ==
    /\ UNCHANGED <<call, args, level, starts, m, n>>
    /\ (flag' => flag) /\ (torn => torn')
    /\ \A p \in Procs : call[p] # "no" /\ blocked[p] = "no" =>
          /\ blocked'[p] = "no"
          /\ cpuProc = p /\ ~torn' /\ p \in Emptying => cpuProc' = p
    /\ cpuProc # None \/ (~flag /\ pc \in {"top", "rr"}) =>
          queue' = queue /\ \A p \in Procs : added'[p] => added[p]
    /\ ~flag /\ pc \in {"top", "rr"} => pc' \in {"top", "rr"}
    /\ \A p \in Procs : n = 0 /\ stay[p] = 0 => stay'[p] = 0

LEMMA AsideStep ==
    ASSUME TypeOK, [Next]_vars, \A p \in Procs : ~startMLFQ(p)
    PROVE  Aside
<1>0. /\ blocked \in [Procs -> {"no", "dev", "pipe", "wait"}]
      /\ call \in [Procs -> Places] /\ added \in [Procs -> BOOLEAN]
      /\ stay \in [Procs -> Nat] /\ walk \in Seq(Procs)
      /\ cpuProc \in Procs \cup {None} /\ None \notin Procs
  BY StartTypes, QueueTypes
\* Nothing that Aside is about changes, but the state of a process.
<1>1. ASSUME UNCHANGED <<blocked, infoVars, mlfqVars, pc, cpuProc>>
      PROVE  Aside
  BY <1>1 DEF Aside, infoVars, mlfqVars, startVars
<1>2. CASE SchedulerStep
  <2>1. cpuProc = None
    BY <1>2 DEF SchedulerStep, SchedulerTop, RRVisit, RRDone, MLFQDone,
                ChargeAndExpire, Charge, BoostVisit, BoostDone, AdmitVisit,
                AdmitDone, Pick, Resume, Scheduling
  <2>2. ASSUME UNCHANGED <<blocked, infoVars, mlfqVars>>,
               ~flag /\ pc \in {"top", "rr"} => pc' \in {"top", "rr"}
        PROVE  Aside
    BY <1>0, <2>1, <2>2 DEF Aside, infoVars, mlfqVars, startVars
  <2>3. CASE SchedulerTop \/ RRVisit \/ RRDone \/ MLFQDone
    BY <2>2, <2>3 DEF SchedulerTop, RRVisit, RRDone, MLFQDone, procVars
  <2>4. CASE BoostDone \/ AdmitDone \/ Pick \/ Resume
    BY <2>2, <2>4 DEF BoostDone, AdmitDone, Pick, Resume, procVars
  <2>5. CASE Charge \/ ChargeAndExpire
    <3>1. /\ UNCHANGED <<blocked, added, stay, flag, m, n, startVars>>
          /\ pc = "loop"
      BY <2>5 DEF Charge, ChargeAndExpire, mlfqVars, procVars
    <3> QED BY <1>0, <2>1, <3>1 DEF Aside, startVars
  <2>6. CASE AdmitVisit
    <3>1. /\ UNCHANGED <<blocked, stay, flag, m, n, startVars>>
          /\ pc = "admit"
      BY <2>6 DEF AdmitVisit, procVars
    <3> QED BY <1>0, <2>1, <3>1 DEF Aside, startVars
  <2>7. CASE BoostVisit
    <3>1. /\ UNCHANGED <<blocked, added, flag, m, n, startVars>>
          /\ pc = "boost"
          /\ \/ UNCHANGED stay
             \/ stay' = [stay EXCEPT ![Head(walk)] = 0]
             \/ /\ ~DueForBoost(Head(walk))
                /\ stay' = [stay EXCEPT ![Head(walk)] = @ + 1]
      BY <2>7 DEF BoostVisit, procVars
    <3>2. ASSUME NEW p \in Procs, n = 0, stay[p] = 0 PROVE stay'[p] = 0
      <4>1. p = Head(walk) => DueForBoost(Head(walk))
        BY <3>2 DEF DueForBoost
      <4> QED BY <1>0, <3>1, <3>2, <4>1
    <3> QED BY <1>0, <2>1, <3>1, <3>2 DEF Aside, startVars
  <2> QED BY <1>2, <2>3, <2>4, <2>5, <2>6, <2>7 DEF SchedulerStep
<1>3. ASSUME NEW q \in Procs, Wake(q) PROVE Aside
  <2>1. /\ UNCHANGED <<infoVars, mlfqVars, pc, cpuProc>>
        /\ blocked' = [blocked EXCEPT ![q] = "no"]
    BY <1>3 DEF Wake, schedVars, cpuVars
  <2> QED BY <1>0, <2>1 DEF Aside, infoVars, mlfqVars, startVars
<1>4. ASSUME NEW p \in Procs, ProcessStep(p) PROVE Aside
  <2>1. CASE TimerYield(p)
    <3>1. /\ UNCHANGED <<blocked, infoVars, flag, m, n, queue, call, args,
                         level, starts, schedVars>>
          /\ torn' = (torn \/ p \in Emptying) /\ cpuProc = p
      BY <2>1 DEF TimerYield, Running
    <3> QED BY <3>1 DEF Aside, infoVars, schedVars
  \* A process leaves the CPU outside of startMLFQ().
  <2>2. ASSUME UNCHANGED <<infoVars, mlfqVars, schedVars>>, cpuProc = p,
               call[p] = "no" \/ blocked[p] # "no",
               \A q \in Procs : q # p => blocked'[q] = blocked[q]
        PROVE  Aside
    BY <2>2 DEF Aside, infoVars, mlfqVars, startVars, schedVars
  <2>3. ASSUME NEW why \in {"dev", "pipe"}, Sleep(p, why) PROVE Aside
    <3>1. /\ UNCHANGED <<infoVars, mlfqVars, schedVars>> /\ cpuProc = p
          /\ call[p] = "no" /\ blocked' = [blocked EXCEPT ![p] = why]
      BY <2>3 DEF Sleep, Running
    <3> QED BY <1>0, <2>2, <3>1
  <2>4. CASE WaitSleep(p)
    <3>1. /\ UNCHANGED <<infoVars, mlfqVars, schedVars>> /\ cpuProc = p
          /\ call[p] = "no" /\ blocked' = [blocked EXCEPT ![p] = "wait"]
      BY <2>4 DEF WaitSleep, May, Free, Running
    <3> QED BY <1>0, <2>2, <3>1
  <2>5. CASE SleepAgain(p) \/ Exit(p)
    <3>1. /\ UNCHANGED <<infoVars, mlfqVars, schedVars, blocked>>
          /\ cpuProc = p /\ (call[p] = "no" \/ blocked[p] # "no")
      BY <2>5 DEF SleepAgain, Exit, Running
    <3> QED BY <2>2, <3>1
  <2>6. ASSUME NEW c \in Procs, Reap(p, c) \/ Fork(p, c) PROVE Aside
    <3>1. /\ UNCHANGED <<mlfqVars, pc, cpuProc>>
          /\ blocked' = [blocked EXCEPT ![p] = "no"] \/ blocked' = blocked
          /\ added' = [added EXCEPT ![c] = FALSE]
          /\ stay' = [stay EXCEPT ![c] = 0]
      BY <2>6 DEF Reap, Fork, schedVars, cpuVars
    <3> QED BY <1>0, <3>1 DEF Aside, mlfqVars, startVars
  <2>7. CASE Fault(p)
    BY <1>1, <2>7 DEF Fault, schedVars, cpuVars
  <2>8. CASE stopMLFQ(p)
    BY <2>8 DEF stopMLFQ, Aside, procVars, infoVars, startVars, schedVars,
                cpuVars
  <2>9. ASSUME NEW q \in Procs, PipeWake(p, q) PROVE Aside
    BY <1>3, <2>9 DEF PipeWake
  <2>10. ~startMLFQ(p)
    OBVIOUS
  <2> QED BY <1>4, <2>1, <2>3, <2>4, <2>5, <2>6, <2>7, <2>8, <2>9, <2>10
          DEF ProcessStep
<1>5. ASSUME NEW q \in Procs, DeviceIntr(q) PROVE Aside
  BY <1>3, <1>5 DEF DeviceIntr
<1>6. CASE UNCHANGED vars
  BY <1>1, <1>6 DEF vars, procVars, schedVars, cpuVars
<1> QED BY <1>2, <1>4, <1>5, <1>6 DEF Next

LEMMA StartInit == Init => StartInv
<1> SUFFICES ASSUME Init PROVE StartInv
  OBVIOUS
<1>1. CallRight /\ TornRight /\ OneCall
  BY DEF Init, CallRight, TornRight, OneCall, Emptying
<1>2. FirstRight /\ MarksRight /\ StayRight
  BY DEF Init, FirstRight, MarksRight, StayRight
<1> QED BY <1>1, <1>2 DEF StartInv

LEMMA StartAside ==
    ASSUME TypeOK, StartInv, Aside
    PROVE  StartInv'
<1>0. /\ CallRight /\ TornRight /\ OneCall
      /\ FirstRight /\ MarksRight /\ StayRight
      /\ None \notin Procs /\ torn \in BOOLEAN
  BY QueueTypes, StartTypes DEF StartInv
<1>1. Emptying' = Emptying /\ NotYet' = NotYet
  BY DEF Aside, Emptying, NotYet
<1>2. \A p \in Emptying : p \in Procs /\ call[p] # "no"
  BY DEF Emptying
<1>3. CallRight'
  BY <1>0 DEF Aside, CallRight
<1>4. TornRight'
  <2> SUFFICES ASSUME ~torn', NEW p \in Emptying
               PROVE  /\ cpuProc' = p
                      /\ call[p] = "reset" =>
                            \A l \in Levels : l < level[p] => queue'[l] = << >>
    BY <1>1 DEF TornRight, Aside
  <2>1. ~torn /\ p \in Procs /\ call[p] # "no" /\ blocked[p] = "no"
    BY <1>0, <1>2 DEF Aside, CallRight
  <2>2. cpuProc = p /\ cpuProc # None
    BY <1>0, <2>1 DEF TornRight
  <2>3. cpuProc' = p /\ queue' = queue
    BY <2>1, <2>2 DEF Aside
  <2> QED BY <1>0, <2>1, <2>3 DEF TornRight
<1>5. OneCall'
  BY <1>0 DEF Aside, OneCall
<1>6. FirstRight'
  BY <1>0, <1>1 DEF Aside, FirstRight
<1>7. MarksRight'
  <2> SUFFICES ASSUME NotYet \/ (starts = 1 /\ ~torn' /\ Emptying # {})
               PROVE  \A p \in Procs : ~added'[p]
    BY <1>1 DEF MarksRight, Aside
  <2>1. CASE NotYet
    BY <1>0, <2>1 DEF FirstRight, MarksRight, Aside
  <2>2. CASE starts = 1 /\ ~torn' /\ Emptying # {}
    <3>1. ~torn
      BY <2>2 DEF Aside
    <3>2. cpuProc # None
      BY <1>0, <1>2, <2>2, <3>1 DEF TornRight
    <3> QED BY <1>0, <2>2, <3>1, <3>2 DEF MarksRight, Aside
  <2> QED BY <2>1, <2>2
<1>8. StayRight'
  BY <1>0, <1>1 DEF StayRight, Aside
<1> QED BY <1>3, <1>4, <1>5, <1>6, <1>7, <1>8 DEF StartInv

\* A step of startMLFQ() is one of the process on the CPU.
LEMMA StartStepOf ==
    ASSUME TypeOK, NEW p \in Procs, startMLFQ(p)
    PROVE  /\ cpuProc = p
           /\ UNCHANGED <<blocked, added, prio, stay, state, pc, cpuProc>>
           /\ \/ /\ call[p] = "no" /\ blocked[p] = "no" /\ ~flag
                 /\ call' = [call EXCEPT ![p] = "flag"] /\ starts' = starts + 1
                 /\ UNCHANGED <<level, torn, flag, m, n, queue>>
              \/ /\ call[p] = "flag" /\ flag' = TRUE
                 /\ torn' = (torn /\ Emptying # {})
                 /\ call' = [call EXCEPT ![p] = "m"]
                 /\ UNCHANGED <<level, starts, m, n, queue>>
              \/ /\ call[p] = "m" /\ call' = [call EXCEPT ![p] = "n"]
                 /\ UNCHANGED <<level, starts, torn, flag, n, queue>>
              \/ /\ call[p] = "n" /\ call' = [call EXCEPT ![p] = "reset"]
                 /\ level' = [level EXCEPT ![p] = 0]
                 /\ UNCHANGED <<starts, torn, flag, m, queue>>
              \/ /\ call[p] = "reset"
                 /\ queue' = [queue EXCEPT ![level[p]] = << >>]
                 /\ UNCHANGED <<starts, torn, flag, m, n>>
                 /\ \/ /\ level' = [level EXCEPT ![p] = @ + 1]
                       /\ call' = call
                    \/ /\ level[p] + 1 \notin Levels
                       /\ call' = [call EXCEPT ![p] = "no"]
                       /\ level' = [level EXCEPT ![p] = 0]
<1>1. /\ UNCHANGED <<procVars, infoVars, schedVars, cpuVars>>
      /\ cpuProc = p
  <2>1. UNCHANGED <<procVars, infoVars, schedVars, cpuVars>>
    BY StartKeeps
  <2>2. cpuProc = p
    BY DEF startMLFQ, StartTest, StartFlag, StartM, StartN, StartReset,
           InStart, May, Free, Running
  <2> QED BY <2>1, <2>2
<1>2. UNCHANGED <<blocked, added, prio, stay, state, pc, cpuProc>>
  BY <1>1 DEF procVars, infoVars, schedVars, cpuVars
<1>3. ASSUME NEW arg, StartTest(p, arg)
      PROVE  /\ call[p] = "no" /\ blocked[p] = "no" /\ ~flag
             /\ call' = [call EXCEPT ![p] = "flag"] /\ starts' = starts + 1
             /\ UNCHANGED <<level, torn, flag, m, n, queue>>
  BY <1>3 DEF StartTest, May, Free
<1>4. CASE StartReset(p)
  BY <1>1, <1>2, <1>4 DEF StartReset, InStart, Emptied
<1>5. CASE StartFlag(p) \/ StartM(p) \/ StartN(p)
  BY <1>1, <1>2, <1>5 DEF StartFlag, StartM, StartN, InStart
<1> QED BY <1>1, <1>2, <1>3, <1>4, <1>5 DEF startMLFQ

LEMMA StartCall ==
    ASSUME TypeOK, StartInv, NEW p \in Procs, startMLFQ(p)
    PROVE  StartInv'
<1>0. /\ CallRight /\ TornRight /\ OneCall
      /\ FirstRight /\ MarksRight /\ StayRight
      /\ starts \in Nat /\ torn \in BOOLEAN /\ Levels \subseteq Nat
      /\ call \in [Procs -> Places] /\ level \in [Procs -> Levels]
      /\ queue \in [Levels -> Seq(Procs)]
  BY QueueTypes, StartTypes DEF StartInv
<1>1. cpuProc = p /\ UNCHANGED <<blocked, added, stay, pc, cpuProc>>
  BY StartStepOf
\* Of two calls, at most one was never preempted.
<1>2. ~torn => \A q \in Emptying : q = p
  BY <1>0, <1>1 DEF TornRight
<1>3. CASE /\ call[p] = "no" /\ blocked[p] = "no" /\ ~flag
           /\ call' = [call EXCEPT ![p] = "flag"] /\ starts' = starts + 1
           /\ UNCHANGED <<level, torn, flag, m, n, queue>>
  <2>1. Emptying' = Emptying
    BY <1>0, <1>3 DEF Emptying
  <2>2. NotYet' => starts = 0
    BY <1>0, <1>3 DEF NotYet
  <2>3. starts' = 1 => starts = 0
    BY <1>0, <1>3
  <2>4. starts' # 0
    BY <1>0, <1>3
  <2>5. CallRight'
    BY <1>0, <1>1, <1>3 DEF CallRight
  <2>6. TornRight'
    <3>1. p \notin Emptying
      BY <1>3 DEF Emptying
    <3> QED BY <1>2, <1>3, <2>1, <3>1 DEF TornRight
  <2>7. OneCall'
    BY <1>0, <1>3, <2>3, <2>4 DEF OneCall
  <2>8. FirstRight'
    BY <1>0, <1>1, <1>3, <2>2 DEF FirstRight, NotYet
  <2>9. starts' = 1 => Emptying' = {}
    BY <1>0, <1>3, <2>1, <2>3 DEF OneCall, Emptying
  <2>10. MarksRight'
    BY <1>0, <1>1, <2>2, <2>9 DEF MarksRight, NotYet
  <2>11. StayRight'
    <3>1. NotYet' \/ (starts' = 1 /\ \E q \in Procs : call'[q] \in {"m", "n"})
             => starts = 0
      BY <2>2, <2>3
    <3> QED BY <1>0, <1>1, <1>3, <3>1 DEF StayRight, NotYet
  <2> QED BY <2>5, <2>6, <2>7, <2>8, <2>10, <2>11 DEF StartInv
\* Past the test: nobody starts or waits.
<1>4. ASSUME call[p] # "no", starts' = starts,
             \A q \in Procs : q # p => call'[q] = call[q]
      PROVE  CallRight' /\ OneCall'
  <2>1. CallRight'
    BY <1>0, <1>1, <1>4 DEF CallRight
  <2>2. OneCall'
    BY <1>0, <1>4 DEF OneCall
  <2> QED BY <2>1, <2>2
\* Past the flag: the call is not about to set it.
<1>5. ASSUME call[p] # "no", starts' = starts,
             \A q \in Procs : q # p => call'[q] = call[q], call'[p] # "flag"
      PROVE  ~NotYet'
  BY <1>0, <1>5 DEF NotYet, OneCall
<1>6. CASE /\ call[p] = "flag" /\ flag' = TRUE /\ torn' = (torn /\ Emptying # {})
           /\ call' = [call EXCEPT ![p] = "m"]
           /\ UNCHANGED <<level, starts, m, n, queue>>
  <2>1. /\ call[p] # "no" /\ starts' = starts /\ call'[p] = "m"
        /\ \A q \in Procs : q # p => call'[q] = call[q]
    BY <1>0, <1>6
  <2>2. ~NotYet'
    BY <1>5, <2>1
  <2>3. starts = 1 => NotYet
    BY <1>6 DEF NotYet
  <2>4. TornRight'
    <3> SUFFICES ASSUME ~torn', NEW q \in Emptying' PROVE q = p
      BY <1>1, <2>1 DEF TornRight
    <3>1. p \notin Emptying
      BY <1>6 DEF Emptying
    <3>2. Emptying = {}
      BY <1>0, <1>2, <1>6, <3>1
    <3> QED BY <2>1, <3>2 DEF Emptying
  <2>5. FirstRight' /\ MarksRight'
    BY <1>0, <1>1, <2>1, <2>2, <2>3 DEF FirstRight, MarksRight
  <2>6. StayRight'
    BY <1>0, <1>1, <1>6, <2>2, <2>3 DEF StayRight
  <2> QED BY <1>4, <2>1, <2>4, <2>5, <2>6 DEF StartInv
\* After the flag.
<1>7. ASSUME p \in Emptying, UNCHANGED <<starts, torn>>,
             \A q \in Procs : q # p => call'[q] = call[q], call'[p] # "flag"
      PROVE  /\ CallRight' /\ OneCall' /\ FirstRight' /\ MarksRight'
             /\ ~torn' => \A q \in Emptying' : q = p
  <2>1. call[p] # "no" /\ starts' = starts
    BY <1>7 DEF Emptying
  <2>2. ~NotYet'
    BY <1>5, <1>7, <2>1
  <2>3. FirstRight' /\ MarksRight'
    BY <1>0, <1>1, <1>7, <2>2 DEF FirstRight, MarksRight
  <2>4. ~torn' => \A q \in Emptying' : q = p
    BY <1>2, <1>7 DEF Emptying
  <2> QED BY <1>4, <1>7, <2>1, <2>3, <2>4
\* After n is set.
<1>8. ASSUME p \in Emptying, UNCHANGED starts,
             \A q \in Procs : q # p => call'[q] = call[q],
             call'[p] \in {"no", "reset"}
      PROVE  StayRight'
  <2>1. call[p] # "no" /\ call'[p] \notin {"flag", "m", "n"}
    BY <1>8 DEF Emptying
  <2>2. ~NotYet'
    BY <1>5, <1>8, <2>1
  <2>3. starts' = 1 => \A q \in Procs : call'[q] \notin {"m", "n"}
    BY <1>0, <1>8, <2>1 DEF OneCall
  <2> QED BY <2>2, <2>3 DEF StayRight
<1>9. CASE /\ call[p] = "m" /\ call' = [call EXCEPT ![p] = "n"]
           /\ UNCHANGED <<level, starts, torn, flag, n, queue>>
  <2>1. /\ p \in Emptying /\ call'[p] = "n"
        /\ \A q \in Procs : q # p => call'[q] = call[q]
    BY <1>0, <1>9 DEF Emptying
  <2>2. /\ CallRight' /\ OneCall' /\ FirstRight' /\ MarksRight'
        /\ ~torn' => \A q \in Emptying' : q = p
    BY <1>7, <1>9, <2>1
  <2>3. TornRight'
    BY <1>1, <2>1, <2>2 DEF TornRight
  <2>4. StayRight'
    <3>1. ~NotYet'
      BY <1>5, <1>9, <2>1
    <3> QED BY <1>0, <1>1, <1>9, <3>1 DEF StayRight
  <2> QED BY <2>2, <2>3, <2>4 DEF StartInv
<1>10. CASE /\ call[p] = "n" /\ call' = [call EXCEPT ![p] = "reset"]
            /\ level' = [level EXCEPT ![p] = 0]
            /\ UNCHANGED <<starts, torn, flag, m, queue>>
  <2>1. /\ p \in Emptying /\ call'[p] = "reset" /\ level'[p] = 0
        /\ \A q \in Procs : q # p => call'[q] = call[q]
    BY <1>0, <1>10 DEF Emptying
  <2>2. /\ CallRight' /\ OneCall' /\ FirstRight' /\ MarksRight'
        /\ ~torn' => \A q \in Emptying' : q = p
    BY <1>7, <1>10, <2>1
  <2>3. TornRight'
    BY <1>0, <1>1, <2>1, <2>2 DEF TornRight
  <2>4. StayRight'
    BY <1>8, <1>10, <2>1
  <2> QED BY <2>2, <2>3, <2>4 DEF StartInv
<1>11. CASE /\ call[p] = "reset" /\ queue' = [queue EXCEPT ![level[p]] = << >>]
            /\ UNCHANGED <<starts, torn, flag, m, n>>
            /\ \/ /\ level' = [level EXCEPT ![p] = @ + 1]
                  /\ call' = call
               \/ /\ level[p] + 1 \notin Levels
                  /\ call' = [call EXCEPT ![p] = "no"]
                  /\ level' = [level EXCEPT ![p] = 0]
  <2>1. /\ p \in Emptying /\ call'[p] \in {"no", "reset"}
        /\ \A q \in Procs : q # p => call'[q] = call[q]
    BY <1>0, <1>11 DEF Emptying
  <2>2. /\ CallRight' /\ OneCall' /\ FirstRight' /\ MarksRight'
        /\ ~torn' => \A q \in Emptying' : q = p
    BY <1>7, <1>11, <2>1
  <2>3. TornRight'
    <3> SUFFICES ASSUME ~torn', p \in Emptying', NEW l \in Levels, l < level'[p]
                 PROVE  queue'[l] = << >>
      BY <1>1, <2>2 DEF TornRight
    <3>1. level'[p] = level[p] + 1
      BY <1>0, <1>11 DEF Emptying
    <3>2. l < level[p] => queue[l] = << >>
      BY <1>0, <1>11, <2>1 DEF TornRight
    <3>3. l \in Nat /\ level[p] \in Nat /\ level[p] \in Levels
      BY <1>0
    <3>4. l < level[p] \/ l = level[p]
      BY <3>1, <3>3
    <3> QED BY <1>0, <1>11, <3>2, <3>3, <3>4
  <2>4. StayRight'
    BY <1>8, <1>11, <2>1
  <2> QED BY <2>2, <2>3, <2>4 DEF StartInv
<1> QED BY <1>3, <1>6, <1>9, <1>10, <1>11, StartStepOf

LEMMA StartNext == TypeOK /\ StartInv /\ [Next]_vars => StartInv'
BY AsideStep, StartAside, StartCall

\* A step after which the queues are to be trusted: they were before, and only
\* a step of startMLFQ() can have changed that, by emptying them all.
LEMMA Trusted ==
    ASSUME TypeOK, StartInv, NEW p \in Procs, startMLFQ(p), flag', Settled'
    PROVE  \/ /\ flag /\ Settled
              /\ \A l \in Levels : queue'[l] \in {queue[l], << >>}
           \/ \A l \in Levels : queue'[l] = << >>
<1>0. /\ TornRight /\ OneCall /\ FirstRight
      /\ starts \in Nat /\ Levels \subseteq Nat
      /\ call \in [Procs -> Places] /\ level \in [Procs -> Levels]
      /\ queue \in [Levels -> Seq(Procs)]
  BY QueueTypes, StartTypes DEF StartInv
<1>1. CASE /\ ~flag /\ UNCHANGED flag
  BY <1>1
<1>2. CASE /\ call[p] = "flag" /\ call' = [call EXCEPT ![p] = "m"]
           /\ UNCHANGED <<starts, queue>>
  <2>1. p \in Emptying'
    BY <1>0, <1>2 DEF Emptying
  <2>2. starts = 1
    BY <1>0, <1>2, <2>1 DEF Settled, OneCall
  <2> QED BY <1>0, <1>2, <2>2 DEF FirstRight, NotYet
<1>3. CASE /\ call[p] \in {"m", "n"} /\ call'[p] \in {"n", "reset"}
           /\ UNCHANGED <<starts, flag, queue>>
  <2>1. p \in Emptying'
    BY <1>3 DEF Emptying
  <2>2. Settled
    BY <1>3, <2>1 DEF Settled
  <2> QED BY <1>3, <2>2
<1>4. CASE /\ call[p] = "reset" /\ queue' = [queue EXCEPT ![level[p]] = << >>]
           /\ UNCHANGED <<starts, torn, flag>>
           /\ \/ call' = call
              \/ level[p] + 1 \notin Levels
  <2>1. \A l \in Levels : queue'[l] \in {queue[l], << >>}
    BY <1>0, <1>4
  <2>2. CASE starts <= 1
    BY <1>4, <2>1, <2>2 DEF Settled
  <2>3. CASE ~(starts <= 1)
    <3>1. Emptying' = {} /\ ~torn
      BY <1>4, <2>3 DEF Settled
    <3>2. p \in Emptying
      BY <1>4 DEF Emptying
    <3>3. level[p] + 1 \notin Levels
      BY <1>4, <3>1, <3>2 DEF Emptying
    <3>4. \A l \in Levels : l < level[p] \/ l = level[p]
      <4>1. /\ MaxLevel \in Nat /\ level[p] \in 0..(MaxLevel - 1)
            /\ level[p] + 1 \notin 0..(MaxLevel - 1)
        BY <1>0, <3>3, ConstantsAssumption DEF Levels
      <4>2. level[p] = MaxLevel - 1
        BY <4>1
      <4> QED BY <4>1, <4>2 DEF Levels
    <3>5. \A l \in Levels : l < level[p] => queue[l] = << >>
      BY <1>0, <1>4, <3>1, <3>2 DEF TornRight
    <3> QED BY <1>0, <1>4, <3>4, <3>5
  <2> QED BY <2>2, <2>3
<1>5. \/ ~flag /\ UNCHANGED flag
      \/ /\ call[p] = "flag" /\ call' = [call EXCEPT ![p] = "m"]
         /\ UNCHANGED <<starts, queue>>
      \/ /\ call[p] \in {"m", "n"} /\ call'[p] \in {"n", "reset"}
         /\ UNCHANGED <<starts, flag, queue>>
      \/ /\ call[p] = "reset" /\ queue' = [queue EXCEPT ![level[p]] = << >>]
         /\ UNCHANGED <<starts, torn, flag>>
         /\ \/ call' = call
            \/ level[p] + 1 \notin Levels
  BY <1>0, StartStepOf
<1> QED BY <1>1, <1>2, <1>3, <1>4, <1>5

LEMMA SettledStays == Aside /\ Settled' => Settled
BY DEF Aside, Settled, Emptying

-----------------------------------------------------------------------------
(* The steps.                                                               *)

\* Only RR_scheduler() and the end of MLFQ_scheduler()'s loop dispatch.
LEMMA CurNext == TypeOK /\ CurRight /\ [Next]_vars => CurRight'
<1> SUFFICES ASSUME TypeOK, CurRight, [Next]_vars PROVE CurRight'
  OBVIOUS
<1>1. TypeOK /\ CurRight /\ None \notin Procs
  BY QueueTypes
<1>2. CASE UNCHANGED <<cpuProc, pc, cur>>
  BY <1>1, <1>2 DEF CurRight, Scheduling, SwitchTo
<1>3. CASE SchedulerStep
  <2>1. CASE \/ BoostVisit \/ AdmitVisit
    BY <1>2, <2>1 DEF BoostVisit, AdmitVisit, schedVars, cpuVars
  <2>2. CASE SchedulerTop
    BY <1>1, <2>2
    DEF SchedulerTop, FreshLocals, CurRight, Scheduling, SwitchTo, procVars,
        infoVars, mlfqVars, schedVars, cpuVars
  <2>3. CASE RRVisit
    BY <1>1, <2>3
    DEF RRVisit, SwitchTo, CurRight, Scheduling, procVars, infoVars, mlfqVars,
        schedVars, cpuVars
  <2>4. CASE RRDone
    BY <1>1, <2>4
    DEF RRDone, CurRight, Scheduling, SwitchTo, procVars, infoVars, mlfqVars,
        schedVars, cpuVars
  <2>5. CASE MLFQDone
    BY <1>1, <2>5
    DEF MLFQDone, CurRight, Scheduling, SwitchTo, procVars, infoVars,
        mlfqVars, schedVars, cpuVars
  <2>6. CASE ChargeAndExpire
    BY <1>1, <2>6
    DEF ChargeAndExpire, Charged, CurRight, Scheduling, SwitchTo, procVars,
        infoVars, mlfqVars, schedVars, cpuVars
  <2>7. CASE Charge
    BY <1>1, <2>7
    DEF Charge, Charged, CurRight, Scheduling, SwitchTo, procVars, infoVars,
        mlfqVars, schedVars, cpuVars
  <2>8. CASE BoostDone
    BY <1>1, <2>8
    DEF BoostDone, CurRight, Scheduling, SwitchTo, procVars, infoVars,
        mlfqVars, schedVars, cpuVars
  <2>9. CASE AdmitDone
    BY <1>1, <2>9
    DEF AdmitDone, CurRight, Scheduling, SwitchTo, procVars, infoVars,
        mlfqVars, schedVars, cpuVars
  <2>10. CASE Pick
    BY <1>1, <2>10
    DEF Pick, SwitchTo, CurRight, Scheduling, procVars, infoVars, mlfqVars,
        schedVars, cpuVars
  <2>11. CASE Resume
    BY <1>1, <2>11
    DEF Resume, SwitchTo, CurRight, Scheduling, procVars, infoVars, mlfqVars,
        schedVars, cpuVars
  <2> QED BY <1>3, <2>1, <2>2, <2>3, <2>4, <2>5, <2>6, <2>7, <2>8, <2>9,
             <2>10, <2>11 DEF SchedulerStep
<1>4. ASSUME NEW p \in Procs, ProcessStep(p) PROVE CurRight'
  <2>1. CASE \/ Fault(p) \/ stopMLFQ(p) \/ (\E c \in Procs : Reap(p, c))
             \/ (\E c \in Procs : Fork(p, c)) \/ startMLFQ(p)
             \/ (\E q \in Procs : PipeWake(p, q))
    BY <1>2, <2>1, StartKeeps
    DEF Fault, stopMLFQ, Reap, Fork, PipeWake, Wake, schedVars, cpuVars
  <2>2. CASE TimerYield(p)
    BY <1>1, <2>2
    DEF TimerYield, LeaveCpu, Running, CurRight, Scheduling, SwitchTo,
        procVars, infoVars, mlfqVars, schedVars, cpuVars
  <2>3. CASE WaitSleep(p)
    BY <1>1, <2>3
    DEF WaitSleep, LeaveCpu, May, Free, Running, CurRight, Scheduling,
        SwitchTo, procVars, infoVars, mlfqVars, schedVars, cpuVars
  <2>4. CASE SleepAgain(p)
    BY <1>1, <2>4
    DEF SleepAgain, LeaveCpu, Running, CurRight, Scheduling, SwitchTo,
        procVars, infoVars, mlfqVars, schedVars, cpuVars
  <2>5. CASE Exit(p)
    BY <1>1, <2>5
    DEF Exit, LeaveCpu, Running, CurRight, Scheduling, SwitchTo, procVars,
        infoVars, mlfqVars, schedVars, cpuVars
  <2>6. ASSUME NEW why \in {"dev", "pipe"}, Sleep(p, why)
        PROVE  CurRight'
    BY <1>1, <2>6
    DEF Sleep, LeaveCpu, Running, CurRight, Scheduling, SwitchTo, procVars,
        infoVars, mlfqVars, schedVars, cpuVars
  <2> QED BY <1>4, <2>1, <2>2, <2>3, <2>4, <2>5, <2>6 DEF ProcessStep
<1>5. ASSUME NEW q \in Procs, DeviceIntr(q) PROVE CurRight'
  BY <1>2, <1>5 DEF DeviceIntr, Wake, schedVars, cpuVars
<1>6. CASE UNCHANGED vars
  BY <1>2, <1>6 DEF vars, schedVars, cpuVars
<1> QED BY <1>3, <1>4, <1>5, <1>6 DEF Next

\* An admitted process stays admitted while it is not freed, and is freed as a
\* zombie only, which the scheduler resumes (and panics) before.
KeptStays == flag /\ pc \notin {"top", "rr"} =>
    \A e \in Procs : Kept(e) => Kept(e)'

LEMMA KeptNext == TypeOK /\ RunningIsCurrent /\ CurRight /\ [Next]_vars => KeptStays
<1> SUFFICES ASSUME TypeOK, RunningIsCurrent, CurRight, [Next]_vars
             PROVE  KeptStays
  OBVIOUS
<1>1. /\ TypeOK /\ RunningIsCurrent /\ CurRight /\ None \notin Procs
      /\ state \in [Procs -> States] /\ added \in [Procs -> BOOLEAN]
      /\ cpuProc \in Procs \cup {None}
  BY QueueTypes
<1>2. CASE UNCHANGED <<added, state, cpuProc, cur, pc>>
  BY <1>1, <1>2 DEF KeptStays, Kept, Scheduling, RunningIsCurrent, CurRight
<1>3. CASE SchedulerStep
  <2>1. CASE \/ BoostVisit
    BY <1>2, <2>1 DEF BoostVisit, procVars, infoVars, schedVars, cpuVars
  <2>2. CASE SchedulerTop
    BY <1>1, <2>2
    DEF SchedulerTop, FreshLocals, KeptStays, Kept, Scheduling,
        RunningIsCurrent, CurRight, procVars, infoVars, mlfqVars, schedVars,
        cpuVars
  <2>3. CASE RRVisit
    BY <1>1, <2>3
    DEF RRVisit, SwitchTo, KeptStays, Kept, Scheduling, RunningIsCurrent,
        CurRight, procVars, infoVars, mlfqVars, schedVars, cpuVars
  <2>4. CASE RRDone
    BY <1>1, <2>4
    DEF RRDone, KeptStays, Kept, Scheduling, RunningIsCurrent, CurRight,
        procVars, infoVars, mlfqVars, schedVars, cpuVars
  <2>5. CASE MLFQDone
    BY <1>1, <2>5
    DEF MLFQDone, KeptStays, Kept, Scheduling, RunningIsCurrent, CurRight,
        procVars, infoVars, mlfqVars, schedVars, cpuVars
  <2>6. CASE ChargeAndExpire
    BY <1>1, <2>6
    DEF ChargeAndExpire, Charged, KeptStays, Kept, Scheduling,
        RunningIsCurrent, CurRight, procVars, infoVars, mlfqVars, schedVars,
        cpuVars
  <2>7. CASE Charge
    BY <1>1, <2>7
    DEF Charge, Charged, KeptStays, Kept, Scheduling, RunningIsCurrent,
        CurRight, procVars, infoVars, mlfqVars, schedVars, cpuVars
  <2>8. CASE BoostDone
    BY <1>1, <2>8
    DEF BoostDone, KeptStays, Kept, Scheduling, RunningIsCurrent, CurRight,
        procVars, infoVars, mlfqVars, schedVars, cpuVars
  <2>9. CASE AdmitVisit
    BY <1>1, <2>9
    DEF AdmitVisit, KeptStays, Kept, Scheduling, RunningIsCurrent, CurRight,
        procVars, infoVars, mlfqVars, schedVars, cpuVars
  <2>10. CASE AdmitDone
    BY <1>1, <2>10
    DEF AdmitDone, KeptStays, Kept, Scheduling, RunningIsCurrent, CurRight,
        procVars, infoVars, mlfqVars, schedVars, cpuVars
  <2>11. CASE Pick
    BY <1>1, <2>11
    DEF Pick, SwitchTo, KeptStays, Kept, Scheduling, RunningIsCurrent,
        CurRight, procVars, infoVars, mlfqVars, schedVars, cpuVars
  <2>12. CASE Resume
    BY <1>1, <2>12
    DEF Resume, SwitchTo, KeptStays, Kept, Scheduling, RunningIsCurrent,
        CurRight, procVars, infoVars, mlfqVars, schedVars, cpuVars
  <2> QED BY <1>3, <2>1, <2>2, <2>3, <2>4, <2>5, <2>6, <2>7, <2>8, <2>9,
             <2>10, <2>11, <2>12 DEF SchedulerStep
<1>4. ASSUME NEW p \in Procs, ProcessStep(p) PROVE KeptStays
  <2>1. CASE Fault(p) \/ stopMLFQ(p) \/ startMLFQ(p)
    BY <1>2, <2>1, StartKeeps
    DEF Fault, stopMLFQ, procVars, infoVars, schedVars, cpuVars
  <2>2. CASE TimerYield(p)
    BY <1>1, <2>2
    DEF TimerYield, LeaveCpu, Running, KeptStays, Kept, Scheduling,
        RunningIsCurrent, CurRight, procVars, infoVars, mlfqVars, schedVars,
        cpuVars
  <2>3. CASE WaitSleep(p)
    BY <1>1, <2>3
    DEF WaitSleep, LeaveCpu, May, Free, Running, KeptStays, Kept, Scheduling,
        RunningIsCurrent, CurRight, procVars, infoVars, mlfqVars, schedVars,
        cpuVars
  <2>4. CASE SleepAgain(p)
    BY <1>1, <2>4
    DEF SleepAgain, LeaveCpu, Running, KeptStays, Kept, Scheduling,
        RunningIsCurrent, CurRight, procVars, infoVars, mlfqVars, schedVars,
        cpuVars
  <2>5. CASE Exit(p)
    BY <1>1, <2>5
    DEF Exit, LeaveCpu, Running, KeptStays, Kept, Scheduling,
        RunningIsCurrent, CurRight, procVars, infoVars, mlfqVars, schedVars,
        cpuVars
  <2>6. ASSUME NEW why \in {"dev", "pipe"}, Sleep(p, why)
        PROVE  KeptStays
    BY <1>1, <2>6
    DEF Sleep, LeaveCpu, Running, KeptStays, Kept, Scheduling,
        RunningIsCurrent, CurRight, procVars, infoVars, mlfqVars, schedVars,
        cpuVars
  <2>7. ASSUME NEW c \in Procs, Reap(p, c)
        PROVE  KeptStays
    BY <1>1, <2>7
    DEF Reap, May, Free, Running, Zombies, Children, KeptStays, Kept,
        Scheduling, RunningIsCurrent, CurRight, procVars, infoVars, mlfqVars,
        schedVars, cpuVars
  <2>8. ASSUME NEW c \in Procs, Fork(p, c)
        PROVE  KeptStays
    BY <1>1, <2>8
    DEF Fork, May, Free, Running, KeptStays, Kept, Scheduling,
        RunningIsCurrent, CurRight, procVars, infoVars, mlfqVars, schedVars,
        cpuVars
  <2>9. ASSUME NEW q \in Procs, PipeWake(p, q)
        PROVE  KeptStays
    BY <1>1, <2>9
    DEF PipeWake, Wake, Free, Running, KeptStays, Kept, Scheduling,
        RunningIsCurrent, CurRight, procVars, infoVars, mlfqVars, schedVars,
        cpuVars
  <2> QED BY <1>4, <2>1, <2>2, <2>3, <2>4, <2>5, <2>6, <2>7, <2>8, <2>9 DEF
             ProcessStep
<1>5. ASSUME NEW q \in Procs, DeviceIntr(q) PROVE KeptStays
  BY <1>1, <1>5
  DEF DeviceIntr, Wake, KeptStays, Kept, Scheduling, RunningIsCurrent,
      CurRight, procVars, infoVars, mlfqVars, schedVars, cpuVars
<1>6. CASE UNCHANGED vars
  BY <1>2, <1>6 DEF vars, procVars, infoVars, schedVars, cpuVars
<1> QED BY <1>3, <1>4, <1>5, <1>6 DEF Next

LEMMA EmptyNext ==
    TypeOK /\ StartInv /\ CurRight /\ EmptyRight /\ [Next]_vars => EmptyRight'
<1> SUFFICES ASSUME TypeOK, StartInv, CurRight, EmptyRight, [Next]_vars,
                    flag', Settled'
             PROVE  EmptyRight'
  BY DEF EmptyRight
<1>1. TypeOK /\ CurRight /\ EmptyRight
  OBVIOUS
<1>7. (\E p \in Procs : startMLFQ(p)) \/ Settled
  BY AsideStep, SettledStays
<1>8. ASSUME NEW p \in Procs, startMLFQ(p) PROVE EmptyRight'
  <2>1. pc' = pc
    BY <1>8, StartStepOf
  <2>2. CASE flag /\ Settled /\ \A l \in Levels : queue'[l] \in {queue[l], << >>}
    BY <1>1, <2>1, <2>2 DEF EmptyRight
  <2>3. CASE \A l \in Levels : queue'[l] = << >>
    BY <2>3 DEF EmptyRight
  <2> QED BY <1>8, <2>2, <2>3, Trusted
<1> SUFFICES ASSUME Settled PROVE EmptyRight'
  BY <1>7, <1>8
<1>2. CASE UNCHANGED <<flag, pc, queue>>
  BY <1>1, <1>2 DEF EmptyRight, Scheduling
<1>3. CASE SchedulerStep
  <2>1. CASE \/ RRVisit
    BY <1>2, <2>1 DEF RRVisit, SwitchTo, mlfqVars, schedVars
  <2>2. CASE SchedulerTop
    BY <1>1, <2>2
    DEF SchedulerTop, FreshLocals, EmptyRight, Scheduling, procVars, infoVars,
        mlfqVars, schedVars, cpuVars
  <2>3. CASE RRDone
    BY <1>1, <2>3
    DEF RRDone, EmptyRight, Scheduling, procVars, infoVars, mlfqVars,
        schedVars, cpuVars
  <2>4. CASE MLFQDone
    BY <1>1, <2>4
    DEF MLFQDone, EmptyRight, Scheduling, procVars, infoVars, mlfqVars,
        schedVars, cpuVars
  <2>5. CASE ChargeAndExpire
    BY <1>1, <2>5
    DEF ChargeAndExpire, Charged, EmptyRight, Scheduling, procVars, infoVars,
        mlfqVars, schedVars, cpuVars
  <2>6. CASE Charge
    BY <1>1, <2>6
    DEF Charge, Charged, EmptyRight, Scheduling, procVars, infoVars, mlfqVars,
        schedVars, cpuVars
  <2>7. CASE BoostVisit
    BY <1>1, <2>7
    DEF BoostVisit, EmptyRight, Scheduling, procVars, infoVars, mlfqVars,
        schedVars, cpuVars
  <2>8. CASE BoostDone
    BY <1>1, <2>8
    DEF BoostDone, EmptyRight, Scheduling, procVars, infoVars, mlfqVars,
        schedVars, cpuVars
  <2>9. CASE AdmitVisit
    BY <1>1, <2>9
    DEF AdmitVisit, EmptyRight, Scheduling, procVars, infoVars, mlfqVars,
        schedVars, cpuVars
  <2>10. CASE AdmitDone
    BY <1>1, <2>10
    DEF AdmitDone, EmptyRight, Scheduling, procVars, infoVars, mlfqVars,
        schedVars, cpuVars
  <2>11. CASE Pick
    BY <1>1, <2>11
    DEF Pick, SwitchTo, EmptyRight, Scheduling, procVars, infoVars, mlfqVars,
        schedVars, cpuVars
  <2>12. CASE Resume
    BY <1>1, <2>12
    DEF Resume, SwitchTo, EmptyRight, Scheduling, procVars, infoVars,
        mlfqVars, schedVars, cpuVars
  <2> QED BY <1>3, <2>1, <2>2, <2>3, <2>4, <2>5, <2>6, <2>7, <2>8, <2>9,
             <2>10, <2>11, <2>12 DEF SchedulerStep
<1>4. ASSUME NEW p \in Procs, ProcessStep(p) PROVE EmptyRight'
  <2>1. CASE \/ TimerYield(p) \/ WaitSleep(p) \/ SleepAgain(p) \/ Fault(p)
             \/ Exit(p) \/ (\E why \in {"dev", "pipe"} : Sleep(p, why))
             \/ (\E c \in Procs : Reap(p, c))
             \/ (\E c \in Procs : Fork(p, c))
             \/ (\E q \in Procs : PipeWake(p, q))
    BY <1>2, <2>1
    DEF TimerYield, WaitSleep, SleepAgain, Fault, Exit, Sleep, Reap, Fork,
        PipeWake, LeaveCpu, Wake, mlfqVars, schedVars
  <2>2. CASE stopMLFQ(p)
    BY <1>1, <2>2
    DEF stopMLFQ, May, Free, Running, EmptyRight, Scheduling, procVars,
        infoVars, mlfqVars, schedVars, cpuVars
  <2> QED BY <1>4, <1>8, <2>1, <2>2 DEF ProcessStep
<1>5. ASSUME NEW q \in Procs, DeviceIntr(q) PROVE EmptyRight'
  BY <1>2, <1>5 DEF DeviceIntr, Wake, mlfqVars, schedVars
<1>6. CASE UNCHANGED vars
  BY <1>2, <1>6 DEF vars, mlfqVars, schedVars
<1> QED BY <1>3, <1>4, <1>5, <1>6 DEF Next

LEMMA TopNext ==
    TypeOK /\ TicksRight /\ QuantumBound /\ NewAtTop /\ [Next]_vars => NewAtTop'
<1> SUFFICES ASSUME TypeOK, TicksRight, QuantumBound, NewAtTop, [Next]_vars
             PROVE  NewAtTop'
  OBVIOUS
<1>1. /\ TypeOK /\ TicksRight /\ QuantumBound /\ NewAtTop
      /\ added \in [Procs -> BOOLEAN] /\ prio \in [Procs -> Levels]
  BY QueueTypes
<1>2. CASE UNCHANGED <<added, prio>>
  BY <1>1, <1>2 DEF NewAtTop
<1>3. CASE SchedulerStep
  <2>1. CASE \/ SchedulerTop \/ RRVisit \/ RRDone \/ MLFQDone \/ Charge
             \/ BoostDone \/ AdmitDone \/ Pick \/ Resume
    BY <1>2, <2>1
    DEF SchedulerTop, RRVisit, RRDone, MLFQDone, Charge, BoostDone, AdmitDone,
        Pick, Resume, FreshLocals, SwitchTo, infoVars
  <2>2. CASE ChargeAndExpire
    <3> DEFINE l == prio[cur]
    <3>1. /\ cur \in Procs /\ l \in Nat /\ ticks[cur][l] \in Nat
          /\ ticks[cur][l] + 1 >= 2 * (l + 1) /\ pc = "loop"
      BY <2>2, QueueTypes DEF ChargeAndExpire, Charged, Quantum
    <3>2. ticks[cur][l] > 0
      BY <3>1
    <3>3. added[cur]
      BY <1>1, <3>1, <3>2 DEF TicksRight
    <3>4. added' = added /\ \A q \in Procs : q # cur => prio'[q] = prio[q]
      BY <1>1, <2>2 DEF ChargeAndExpire
    <3> QED BY <1>1, <3>3, <3>4 DEF NewAtTop
  <2>3. CASE BoostVisit
    <3>1. /\ added' = added
          /\ \/ prio' = prio
             \/ prio' = [prio EXCEPT ![Head(walk)] = 0]
      BY <2>3 DEF BoostVisit
    <3> QED BY <1>1, <3>1 DEF NewAtTop
  <2>4. CASE AdmitVisit
    BY <1>1, <2>4
    DEF AdmitVisit, NewAtTop, procVars, infoVars, mlfqVars, schedVars, cpuVars
  <2> QED BY <1>3, <2>1, <2>2, <2>3, <2>4 DEF SchedulerStep
<1>4. ASSUME NEW p \in Procs, ProcessStep(p) PROVE NewAtTop'
  <2>1. CASE \/ TimerYield(p) \/ WaitSleep(p) \/ SleepAgain(p) \/ Fault(p)
             \/ Exit(p) \/ stopMLFQ(p)
             \/ (\E why \in {"dev", "pipe"} : Sleep(p, why))
             \/ startMLFQ(p) \/ (\E q \in Procs : PipeWake(p, q))
    BY <1>2, <2>1, StartKeeps
    DEF TimerYield, WaitSleep, SleepAgain, Fault, Exit, stopMLFQ, Sleep,
        PipeWake, LeaveCpu, Wake, infoVars
  <2>2. ASSUME NEW c \in Procs, Reap(p, c)
        PROVE  NewAtTop'
    BY <1>1, <2>2
    DEF Reap, May, Free, Running, Zombies, Children, NewAtTop, procVars,
        infoVars, mlfqVars, schedVars, cpuVars
  <2>3. ASSUME NEW c \in Procs, Fork(p, c)
        PROVE  NewAtTop'
    BY <1>1, <2>3
    DEF Fork, May, Free, Running, NewAtTop, procVars, infoVars, mlfqVars,
        schedVars, cpuVars
  <2> QED BY <1>4, <2>1, <2>2, <2>3 DEF ProcessStep
<1>5. ASSUME NEW q \in Procs, DeviceIntr(q) PROVE NewAtTop'
  BY <1>2, <1>5 DEF DeviceIntr, Wake, infoVars
<1>6. CASE UNCHANGED vars
  BY <1>2, <1>6 DEF vars, infoVars
<1> QED BY <1>3, <1>4, <1>5, <1>6 DEF Next

LEMMA TicksNext ==
    TypeOK /\ RunningIsCurrent /\ QuantumBound /\ CurRight /\ TicksRight
       /\ [Next]_vars => TicksRight'
<1> SUFFICES ASSUME TypeOK, RunningIsCurrent, QuantumBound, CurRight,
                    TicksRight, [Next]_vars
             PROVE  TicksRight'
  OBVIOUS
<1>1. /\ TypeOK /\ RunningIsCurrent /\ QuantumBound /\ CurRight /\ TicksRight
      /\ state \in [Procs -> States] /\ added \in [Procs -> BOOLEAN]
      /\ prio \in [Procs -> Levels] /\ ticks \in [Procs -> [Levels -> Nat]]
      /\ cpuProc \in Procs \cup {None} /\ None \notin Procs /\ idx \in Nat
  BY QueueTypes
<1>2. CASE UNCHANGED <<added, prio, ticks, state, cur, pc, idx>>
  BY <1>1, <1>2 DEF TicksRight, Scheduling, CurRight, RunningIsCurrent
<1>3. CASE SchedulerStep
  <2>1. CASE SchedulerTop
    BY <1>1, <2>1
    DEF SchedulerTop, FreshLocals, TicksRight, Scheduling, CurRight,
        RunningIsCurrent, procVars, infoVars, mlfqVars, schedVars, cpuVars
  <2>2. CASE RRVisit
    BY <1>1, <2>2
    DEF RRVisit, SwitchTo, TicksRight, Scheduling, CurRight, RunningIsCurrent,
        procVars, infoVars, mlfqVars, schedVars, cpuVars
  <2>3. CASE RRDone
    BY <1>1, <2>3
    DEF RRDone, TicksRight, Scheduling, CurRight, RunningIsCurrent, procVars,
        infoVars, mlfqVars, schedVars, cpuVars
  <2>4. CASE MLFQDone
    BY <1>1, <2>4
    DEF MLFQDone, TicksRight, Scheduling, CurRight, RunningIsCurrent,
        procVars, infoVars, mlfqVars, schedVars, cpuVars
  <2>5. CASE ChargeAndExpire
    <3> DEFINE l == prio[cur]
    <3>1. cur \in Procs /\ l \in Levels /\ l \in Nat /\ m \in Nat /\ m <= MaxLevel
      BY <1>1, <2>5, QueueTypes DEF ChargeAndExpire, Charged
    <3>2. /\ pc = "loop" /\ UNCHANGED <<pc, added>>
          /\ ticks' = [ticks EXCEPT ![cur][l] = 0]
          /\ \/ prio' = prio
             \/ prio' = [prio EXCEPT ![cur] = l + 1] /\ l < m - 1
      BY <2>5 DEF ChargeAndExpire
    <3>3. l + 1 # l /\ (l < m - 1 => l + 1 \in Levels)
      BY <3>1, ConstantsAssumption DEF Levels
    <3>4. ticks'[cur][prio'[cur]] = 0
      BY <1>1, <3>1, <3>2, <3>3 DEF QuantumBound
    <3>5. \A e \in Procs : e # cur => ticks'[e] = ticks[e] /\ prio'[e] = prio[e]
      BY <1>1, <3>1, <3>2
    <3> QED BY <1>1, <3>1, <3>2, <3>4, <3>5 DEF TicksRight
  <2>6. CASE Charge
    BY <1>1, <2>6
    DEF Charge, Charged, TicksRight, Scheduling, CurRight, RunningIsCurrent,
        procVars, infoVars, mlfqVars, schedVars, cpuVars
  <2>7. CASE BoostVisit
    <3> DEFINE h == Head(walk)
    <3>1. /\ pc = "boost" /\ UNCHANGED <<pc, cur, added, state>>
          /\ \/ UNCHANGED <<ticks, prio>>
             \/ /\ ticks' = [ticks EXCEPT ![h] = BoostedTicks(ticks[h])]
                /\ prio' = [prio EXCEPT ![h] = 0]
      BY <1>1, <2>7 DEF BoostVisit, procVars
    <3>2. ASSUME NEW t \in [Levels -> Nat] PROVE BoostedTicks(t)[0] = 0
      BY <1>1, QueueTypes DEF BoostedTicks
    <3> HIDE DEF h
    <3>3. \A e \in Procs : \/ ticks'[e] = ticks[e] /\ prio'[e] = prio[e]
                           \/ ticks'[e][prio'[e]] = 0
      BY <1>1, <3>1, <3>2
    <3> QED BY <1>1, <3>1, <3>3 DEF TicksRight
  <2>8. CASE BoostDone
    <3>1. /\ pc = "boost" /\ pc' = "admit" /\ idx' = 1
          /\ UNCHANGED <<cur, added, state, ticks, prio>>
      BY <2>8 DEF BoostDone, procVars, infoVars
    <3>2. \A e \in Procs : 1 <= e
      BY DEF Procs
    <3> QED BY <1>1, <3>1, <3>2 DEF TicksRight
  <2>9. CASE AdmitVisit
    <3>1. /\ pc = "admit" /\ idx' = idx + 1 /\ UNCHANGED <<pc, cur, state, ticks, prio>>
          /\ \/ /\ state[idx] = "RUNNABLE" /\ ~added[idx]
                /\ added' = [added EXCEPT ![idx] = TRUE]
             \/ /\ ~(state[idx] = "RUNNABLE" /\ ~added[idx])
                /\ added' = added
      BY <2>9 DEF AdmitVisit, procVars
    <3>2. \A e \in Procs : e \in Nat
      BY DEF Procs
    <3> SUFFICES ASSUME NEW e \in Procs, ticks[e][prio[e]] > 0
                 PROVE  \/ added'[e]
                        \/ cur = e /\ state[e] = "RUNNABLE" /\ idx + 1 <= e
      BY <3>1 DEF TicksRight
    <3>3. added[e] \/ (cur = e /\ state[e] = "RUNNABLE" /\ idx <= e)
      BY <1>1, <3>1 DEF TicksRight
    <3>4. CASE e = idx
      BY <1>1, <3>1, <3>3, <3>4
    <3>5. CASE e # idx
      BY <1>1, <3>1, <3>2, <3>3, <3>5
    <3> QED BY <3>4, <3>5
  <2>10. CASE AdmitDone
    <3>1. \A e \in Procs : ~(NPROC + 1 <= e)
      BY ConstantsAssumption DEF Procs
    <3>2. /\ pc = "admit" /\ idx = NPROC + 1 /\ UNCHANGED <<added, ticks, prio>>
      BY <2>10 DEF AdmitDone, infoVars
    <3> QED BY <1>1, <3>1, <3>2 DEF TicksRight
  <2>11. CASE Pick
    BY <1>1, <2>11
    DEF Pick, SwitchTo, TicksRight, Scheduling, CurRight, RunningIsCurrent,
        procVars, infoVars, mlfqVars, schedVars, cpuVars
  <2>12. CASE Resume
    BY <1>1, <2>12
    DEF Resume, SwitchTo, TicksRight, Scheduling, CurRight, RunningIsCurrent,
        procVars, infoVars, mlfqVars, schedVars, cpuVars
  <2> QED BY <1>3, <2>1, <2>2, <2>3, <2>4, <2>5, <2>6, <2>7, <2>8, <2>9,
             <2>10, <2>11, <2>12 DEF SchedulerStep
<1>4. ASSUME NEW p \in Procs, ProcessStep(p) PROVE TicksRight'
  <2>1. CASE Fault(p) \/ stopMLFQ(p) \/ startMLFQ(p)
    BY <1>2, <2>1, StartKeeps
    DEF Fault, stopMLFQ, procVars, infoVars, schedVars
  <2>2. CASE TimerYield(p)
    BY <1>1, <2>2
    DEF TimerYield, LeaveCpu, Running, TicksRight, Scheduling, CurRight,
        RunningIsCurrent, procVars, infoVars, mlfqVars, schedVars, cpuVars
  <2>3. CASE WaitSleep(p)
    BY <1>1, <2>3
    DEF WaitSleep, LeaveCpu, May, Free, Running, TicksRight, Scheduling,
        CurRight, RunningIsCurrent, procVars, infoVars, mlfqVars, schedVars,
        cpuVars
  <2>4. CASE SleepAgain(p)
    BY <1>1, <2>4
    DEF SleepAgain, LeaveCpu, Running, TicksRight, Scheduling, CurRight,
        RunningIsCurrent, procVars, infoVars, mlfqVars, schedVars, cpuVars
  <2>5. CASE Exit(p)
    BY <1>1, <2>5
    DEF Exit, LeaveCpu, Running, TicksRight, Scheduling, CurRight,
        RunningIsCurrent, procVars, infoVars, mlfqVars, schedVars, cpuVars
  <2>6. ASSUME NEW why \in {"dev", "pipe"}, Sleep(p, why)
        PROVE  TicksRight'
    BY <1>1, <2>6
    DEF Sleep, LeaveCpu, Running, TicksRight, Scheduling, CurRight,
        RunningIsCurrent, procVars, infoVars, mlfqVars, schedVars, cpuVars
  <2>7. ASSUME NEW c \in Procs, Reap(p, c)
        PROVE  TicksRight'
    <3>1. /\ ticks' = [ticks EXCEPT ![c] = NoTicks] /\ prio' = [prio EXCEPT ![c] = 0]
          /\ added' = [added EXCEPT ![c] = FALSE]
          /\ state[c] # "RUNNABLE" /\ UNCHANGED schedVars
          /\ \A e \in Procs : e # c => state'[e] = state[e]
      BY <1>1, <2>7 DEF Reap, Zombies, Children
    <3>2. ticks'[c][prio'[c]] = 0
      BY <1>1, <3>1, QueueTypes DEF NoTicks
    <3>3. \A e \in Procs : e # c => /\ ticks'[e] = ticks[e] /\ prio'[e] = prio[e]
                                    /\ added'[e] = added[e]
      BY <1>1, <3>1
    <3> QED BY <1>1, <3>1, <3>2, <3>3 DEF TicksRight, schedVars
  <2>8. ASSUME NEW c \in Procs, Fork(p, c)
        PROVE  TicksRight'
    <3>1. /\ ticks' = [ticks EXCEPT ![c] = NoTicks] /\ prio' = [prio EXCEPT ![c] = 0]
          /\ added' = [added EXCEPT ![c] = FALSE]
          /\ state[c] # "RUNNABLE" /\ UNCHANGED schedVars
          /\ \A e \in Procs : e # c => state'[e] = state[e]
      BY <1>1, <2>8 DEF Fork
    <3>2. ticks'[c][prio'[c]] = 0
      BY <1>1, <3>1, QueueTypes DEF NoTicks
    <3>3. \A e \in Procs : e # c => /\ ticks'[e] = ticks[e] /\ prio'[e] = prio[e]
                                    /\ added'[e] = added[e]
      BY <1>1, <3>1
    <3> QED BY <1>1, <3>1, <3>2, <3>3 DEF TicksRight, schedVars
  <2>9. ASSUME NEW q \in Procs, PipeWake(p, q)
        PROVE  TicksRight'
    BY <1>1, <2>9
    DEF PipeWake, Wake, Free, Running, TicksRight, Scheduling, CurRight,
        RunningIsCurrent, procVars, infoVars, mlfqVars, schedVars, cpuVars
  <2> QED BY <1>4, <2>1, <2>2, <2>3, <2>4, <2>5, <2>6, <2>7, <2>8, <2>9 DEF
             ProcessStep
<1>5. ASSUME NEW q \in Procs, DeviceIntr(q) PROVE TicksRight'
  BY <1>1, <1>5
  DEF DeviceIntr, Wake, TicksRight, Scheduling, CurRight, RunningIsCurrent,
      procVars, infoVars, mlfqVars, schedVars, cpuVars
<1>6. CASE UNCHANGED vars
  BY <1>2, <1>6 DEF vars, procVars, infoVars, schedVars
<1> QED BY <1>3, <1>4, <1>5, <1>6 DEF Next

\* Whoever is in a queue while MLFQ is on stays admitted.
LEMMA InQueue ==
    ASSUME TypeOK, QueueInv, KeptStays, flag, Settled, NEW l \in Levels, NEW e \in Procs,
           Holds(queue[l], e)
    PROVE  Kept(e) /\ Kept(e)' /\ prio[e] = l
<1>1. prio[e] = l /\ Kept(e)
  BY DEF QueueInv, ListsRight
<1>2. queue[l] # << >>
  BY DEF Holds
<1>3. pc \notin {"top", "rr"}
  BY <1>2 DEF QueueInv, EmptyRight
<1> QED BY <1>1, <1>3 DEF KeptStays

\* A demotion moves an admitted process.
LEMMA Demoted ==
    ASSUME TypeOK, QueueInv, ChargeAndExpire
    PROVE  \E e \in Procs :
           /\ e = cur /\ Kept(e) /\ Kept(e)' /\ flag /\ UNCHANGED flag
           /\ UNCHANGED <<startVars, m, n, added, stay>>
           /\ \/ UNCHANGED <<queue, prio>>
              \/ /\ prio[e] \in Levels /\ prio[e] + 1 \in Levels
                 /\ prio[e] \in Nat /\ prio[e] < m - 1
                 /\ queue' = Moved(queue, prio[e] + 1, prio[e], e)
                 /\ prio' = [prio EXCEPT ![e] = prio[e] + 1]
<1>1. PICK e \in Procs : e = cur
  BY QueueTypes DEF ChargeAndExpire, Charged
<1> DEFINE l == prio[e]
<1>2. /\ l \in Levels /\ l \in Nat /\ ticks[e][l] \in Nat
      /\ m \in Nat /\ m <= MaxLevel
  BY QueueTypes
<1>3. /\ flag /\ pc = "loop" /\ state[e] \in {"RUNNABLE", "RUNNING"}
      /\ ticks[e][l] + 1 >= 2 * (l + 1)
      /\ UNCHANGED <<flag, startVars, m, n, added, stay, state>>
      /\ \/ /\ l < m - 1 /\ prio' = [prio EXCEPT ![e] = l + 1]
            /\ queue' = Moved(queue, l + 1, l, e)
         \/ UNCHANGED <<queue, prio>>
  BY <1>1 DEF ChargeAndExpire, Charged, Moved, procVars, Quantum
<1>4. ticks[e][l] > 0
  BY <1>2, <1>3
<1>5. added[e]
  BY <1>3, <1>4 DEF QueueInv, TicksRight
<1>6. Kept(e) /\ Kept(e)'
  BY <1>3, <1>5 DEF Kept
<1>7. l < m - 1 => l + 1 \in Levels
  BY <1>2, ConstantsAssumption DEF Levels
<1> QED BY <1>1, <1>2, <1>3, <1>6, <1>7

\* Rule 5 moves an admitted process, or counts for it.
LEMMA Boosted ==
    ASSUME TypeOK, QueueInv, KeptStays, BoostVisit, flag, Settled
    PROVE  \E e \in Procs :
           /\ e = Head(walk) /\ Kept(e) /\ Kept(e)' /\ walk # << >>
           /\ UNCHANGED <<flag, startVars, m, n, added, pc>> /\ pc = "boost"
           /\ \/ /\ UNCHANGED <<queue, prio, stay>> /\ walk' = Tail(walk)
                 /\ prio[e] # m - 1
              \/ /\ UNCHANGED <<queue, prio>> /\ walk' = Tail(walk)
                 /\ prio[e] = m - 1 /\ stay[e] + 1 < n
                 /\ stay' = [stay EXCEPT ![e] = stay[e] + 1]
              \/ /\ prio[e] = m - 1 /\ m - 1 \in Levels /\ 0 \in Levels
                 /\ queue' = Moved(queue, 0, m - 1, e)
                 /\ prio' = [prio EXCEPT ![e] = 0]
                 /\ stay' = [stay EXCEPT ![e] = 0]
                 /\ walk' \in {Tail(walk), Append(Tail(walk), e)}
<1>1. walk # << >> /\ walk \in Seq(Procs)
  BY QueueTypes DEF BoostVisit
<1>2. PICK e \in Procs : e = Head(walk) /\ e = walk[1]
  BY <1>1
<1>3. /\ walk # << >> /\ pc = "boost" /\ UNCHANGED <<flag, startVars, m, n, added, pc>>
      /\ \/ /\ UNCHANGED <<queue, prio, stay>> /\ walk' = Tail(walk)
            /\ prio[e] # m - 1
         \/ /\ UNCHANGED <<queue, prio>> /\ walk' = Tail(walk)
            /\ prio[e] = m - 1 /\ ~DueForBoost(e)
            /\ stay' = [stay EXCEPT ![e] = stay[e] + 1]
         \/ /\ prio[e] = m - 1
            /\ queue' = Moved(queue, 0, m - 1, e)
            /\ prio' = [prio EXCEPT ![e] = 0]
            /\ stay' = [stay EXCEPT ![e] = 0]
            /\ walk' \in {Tail(walk), Append(Tail(walk), e)}
  BY <1>2 DEF BoostVisit, Moved
<1>4. Holds(walk, e)
  <2>1. Len(walk) \in Nat /\ Len(walk) # 0
    BY <1>1, EmptySeq, LenProperties
  <2>2. 1 \in 1..Len(walk)
    BY <2>1
  <2> QED BY <1>2, <2>2 DEF Holds
<1>5. Kept(e) /\ Kept(e)'
  BY <1>3, <1>4 DEF QueueInv, WalkRight, KeptStays
<1>6. ~DueForBoost(e) => stay[e] + 1 < n
  <2>1. stay[e] \in Nat /\ n \in Nat
    BY QueueTypes
  <2> QED BY <2>1 DEF DueForBoost
<1>7. prio[e] \in Levels /\ 0 \in Levels
  BY QueueTypes
<1> QED BY <1>2, <1>3, <1>5, <1>6, <1>7

\* A step that leaves the queues and whoever is in one of them.
QuietStep ==
    /\ UNCHANGED queue
    /\ \A e \in Procs : \/ /\ prio'[e] = prio[e] /\ added'[e] = added[e]
                           /\ stay'[e] = stay[e]
                        \/ ~added'[e] /\ stay'[e] = 0 /\ ~Kept(e)' /\ ~Kept(e)

LEMMA QueueStep ==
    ASSUME TypeOK, [Next]_vars
    PROVE  \/ \E p \in Procs : startMLFQ(p)
           \/ Aside /\ (ChargeAndExpire \/ BoostVisit \/ AdmitVisit \/ QuietStep)
<1> SUFFICES ASSUME \A p \in Procs : ~startMLFQ(p)
             PROVE  ChargeAndExpire \/ BoostVisit \/ AdmitVisit \/ QuietStep
  BY AsideStep
<1>1. ASSUME UNCHANGED <<infoVars, queue>> PROVE QuietStep
  BY <1>1 DEF infoVars, QuietStep
<1>2. ASSUME \/ SchedulerTop \/ RRVisit \/ RRDone \/ MLFQDone \/ Charge
             \/ BoostDone \/ AdmitDone \/ Pick \/ Resume
      PROVE  QuietStep
  <2>1. UNCHANGED <<mlfqVars, added, prio, stay>>
    BY <1>2 DEF SchedulerTop, RRVisit, RRDone, MLFQDone, Charge, BoostDone,
                AdmitDone, Pick, Resume, infoVars
  <2> QED BY <2>1 DEF mlfqVars, QuietStep
<1>3. ASSUME NEW p \in Procs, ProcessStep(p) PROVE QuietStep
  <2>1. CASE TimerYield(p)
    BY <1>1, <2>1 DEF TimerYield
  <2>2. CASE WaitSleep(p) \/ SleepAgain(p) \/ Fault(p) \/ Exit(p)
    BY <1>1, <2>2 DEF WaitSleep, SleepAgain, Fault, Exit, mlfqVars
  <2>3. ASSUME NEW why \in {"dev", "pipe"}, Sleep(p, why) PROVE QuietStep
    BY <1>1, <2>3 DEF Sleep, mlfqVars
  <2>4. ASSUME NEW q \in Procs, PipeWake(p, q) PROVE QuietStep
    BY <1>1, <2>4 DEF PipeWake, Wake, mlfqVars
  <2>5. CASE stopMLFQ(p)
    BY <1>1, <2>5 DEF stopMLFQ
  <2>6. ASSUME NEW c \in Procs, Reap(p, c) \/ Fork(p, c) PROVE QuietStep
    <3>1. /\ added' = [added EXCEPT ![c] = FALSE] /\ prio' = [prio EXCEPT ![c] = 0]
          /\ stay' = [stay EXCEPT ![c] = 0] /\ UNCHANGED mlfqVars
          /\ cpuProc = p /\ state[c] \in {"ZOMBIE", "UNUSED"}
      BY <2>6 DEF Reap, Fork, May, Free, Running, Zombies, Children
    <3>2. ~Kept(c)
      BY <3>1, QueueTypes DEF Kept
    <3>3. ~added'[c] /\ stay'[c] = 0
      BY <3>1, QueueTypes
    <3>4. \A e \in Procs : e # c =>
              prio'[e] = prio[e] /\ added'[e] = added[e] /\ stay'[e] = stay[e]
      BY <3>1, QueueTypes
    <3>5. ~Kept(c)'
      BY <3>3 DEF Kept
    <3> QED BY <3>1, <3>2, <3>3, <3>4, <3>5 DEF mlfqVars, QuietStep
  <2>7. ~startMLFQ(p)
    OBVIOUS
  <2> QED BY <1>3, <2>1, <2>2, <2>3, <2>4, <2>5, <2>6, <2>7 DEF ProcessStep
<1>4. ASSUME NEW q \in Procs, DeviceIntr(q) PROVE QuietStep
  BY <1>1, <1>4 DEF DeviceIntr, Wake, mlfqVars
<1>5. ASSUME UNCHANGED vars PROVE QuietStep
  BY <1>1, <1>5 DEF vars, mlfqVars, infoVars
<1>6. ASSUME SchedulerStep
      PROVE  ChargeAndExpire \/ BoostVisit \/ AdmitVisit \/ QuietStep
  BY <1>2, <1>6 DEF SchedulerStep
<1>7. CASE Next
  BY <1>3, <1>4, <1>6, <1>7 DEF Next
<1> QED BY <1>5, <1>7

LEMMA ListsNext ==
    TypeOK /\ StartInv /\ QueueInv /\ KeptStays /\ [Next]_vars => ListsRight'
<1> SUFFICES ASSUME TypeOK, StartInv, QueueInv, KeptStays, [Next]_vars,
                    flag', Settled'
             PROVE  \A l \in Levels :
                       /\ NoneTwice(queue'[l])
                       /\ \A e \in Procs :
                             Holds(queue'[l], e) => prio'[e] = l /\ Kept(e)'
  BY DEF ListsRight
<1> DEFINE Goal == \A l \in Levels :
               /\ NoneTwice(queue'[l])
               /\ \A e \in Procs : Holds(queue'[l], e) => prio'[e] = l /\ Kept(e)'
<1>1. /\ prio \in [Procs -> Levels] /\ queue \in [Levels -> Seq(Procs)]
      /\ added \in [Procs -> BOOLEAN] /\ Levels \subseteq Nat /\ 0 \in Levels
  BY QueueTypes
<1>2. flag /\ Settled => \A l \in Levels :
          /\ NoneTwice(queue[l])
          /\ \A e \in Procs :
                Holds(queue[l], e) => prio[e] = l /\ Kept(e) /\ Kept(e)'
  <2>1. ASSUME flag, Settled, NEW l \in Levels PROVE NoneTwice(queue[l])
    BY <2>1 DEF QueueInv, ListsRight
  <2>2. ASSUME flag, Settled, NEW l \in Levels, NEW e \in Procs, Holds(queue[l], e)
        PROVE  prio[e] = l /\ Kept(e) /\ Kept(e)'
    BY <2>2, InQueue
  <2> QED BY <2>1, <2>2
\* e moves from level l to level k.
<1>3. ASSUME flag, Settled, NEW e \in Procs, NEW k \in Levels, NEW l \in Levels,
             prio[e] = l, Kept(e)',
             queue' = Moved(queue, k, l, e), prio' = [prio EXCEPT ![e] = k]
      PROVE  Goal
  <2>1. /\ \A h \in Levels : NoneTwice(queue[h])
        /\ k # l => ~Holds(queue[k], e)
    BY <1>2, <1>3
  <2> DEFINE ms == Moved(queue, k, l, e)
  <2>2. /\ \A h \in Levels : NoneTwice(ms[h])
        /\ \A h \in Levels, f \in Procs : f # e =>
              (Holds(ms[h], f) <=> Holds(queue[h], f))
        /\ \A h \in Levels : Holds(ms[h], e) =>
              IF k # l THEN h = k \/ (h # l /\ Holds(queue[h], e))
              ELSE Holds(queue[h], e)
    <3> HIDE DEF Goal
    <3> QED BY <1>1, <2>1, MovedIs
  <2>3. /\ \A h \in Levels : NoneTwice(queue'[h])
        /\ \A h \in Levels, f \in Procs : f # e =>
              (Holds(queue'[h], f) <=> Holds(queue[h], f))
        /\ \A h \in Levels : Holds(queue'[h], e) =>
              IF k # l THEN h = k \/ (h # l /\ Holds(queue[h], e))
              ELSE Holds(queue[h], e)
    BY <1>3, <2>2
  <2>4. ASSUME NEW h \in Levels, NEW f \in Procs, Holds(queue'[h], f), f # e
        PROVE  prio'[f] = h /\ Kept(f)'
    BY <1>1, <1>2, <1>3, <2>3, <2>4
  <2>5. ASSUME NEW h \in Levels, Holds(queue'[h], e) PROVE prio'[e] = h
    <3>1. h = k
      BY <1>2, <1>3, <2>3, <2>5
    <3> QED BY <1>1, <1>3, <3>1
  <2> QED BY <1>3, <2>3, <2>4, <2>5
<1>4. CASE Settled /\ ChargeAndExpire
  <2>1. PICK e \in Procs :
          /\ Kept(e)' /\ flag
          /\ \/ UNCHANGED <<queue, prio>>
             \/ /\ prio[e] \in Levels /\ prio[e] + 1 \in Levels
                /\ queue' = Moved(queue, prio[e] + 1, prio[e], e)
                /\ prio' = [prio EXCEPT ![e] = prio[e] + 1]
    BY <1>4, Demoted
  <2>2. CASE UNCHANGED <<queue, prio>>
    BY <1>2, <1>4, <2>1, <2>2
  <2> QED BY <1>3, <1>4, <2>1, <2>2
<1>5. CASE Settled /\ BoostVisit
  <2>1. flag
    BY <1>5 DEF BoostVisit
  <2>2. PICK e \in Procs :
          /\ Kept(e)'
          /\ \/ UNCHANGED <<queue, prio>>
             \/ /\ prio[e] = m - 1 /\ m - 1 \in Levels
                /\ queue' = Moved(queue, 0, m - 1, e)
                /\ prio' = [prio EXCEPT ![e] = 0]
    BY <1>5, <2>1, Boosted
  <2>3. CASE UNCHANGED <<queue, prio>>
    BY <1>2, <1>5, <2>1, <2>3
  <2> QED BY <1>1, <1>3, <1>5, <2>1, <2>2, <2>3
<1>6. CASE Settled /\ AdmitVisit
  <2>1. /\ flag /\ UNCHANGED <<prio, state>>
        /\ \/ UNCHANGED <<queue, added>>
           \/ /\ idx \in Procs /\ state[idx] = "RUNNABLE" /\ ~added[idx]
              /\ queue' = Enque(queue, 0, idx)
              /\ added' = [added EXCEPT ![idx] = TRUE]
    BY <1>6, QueueTypes DEF AdmitVisit, procVars
  <2>2. CASE UNCHANGED <<queue, added>>
    BY <1>2, <1>6, <2>1, <2>2
  <2>3. ASSUME NEW e \in Procs, state[e] = "RUNNABLE", ~added[e],
               queue' = Enque(queue, 0, e), added' = [added EXCEPT ![e] = TRUE]
        PROVE  Goal
    <3>1. /\ prio[e] = 0 /\ Kept(e)'
          /\ \A h \in Levels : NoneTwice(queue[h]) /\ ~Holds(queue[h], e)
      BY <1>1, <1>2, <1>6, <2>1, <2>3 DEF QueueInv, NewAtTop, Kept
    <3>2. /\ \A h \in Levels : NoneTwice(queue'[h])
          /\ \A h \in Levels, f \in Procs : Holds(queue'[h], f) =>
                Holds(queue[h], f) \/ (h = 0 /\ f = e)
      BY <1>1, <2>3, <3>1, EnqueIs
    <3> QED BY <1>2, <1>6, <2>1, <3>1, <3>2
  <2> QED BY <2>1, <2>2, <2>3
<1>7. ASSUME NEW p \in Procs, startMLFQ(p) PROVE Goal
  <2>1. CASE flag /\ Settled /\ \A l \in Levels : queue'[l] \in {queue[l], << >>}
    <3>1. \A e \in Procs : prio'[e] = prio[e]
      BY <1>7, StartStepOf
    <3>2. ASSUME NEW l \in Levels, queue'[l] = queue[l]
          PROVE  /\ NoneTwice(queue'[l])
                 /\ \A e \in Procs :
                       Holds(queue'[l], e) => prio'[e] = l /\ Kept(e)'
      BY <1>2, <2>1, <3>1, <3>2
    <3>3. ASSUME NEW l \in Levels, queue'[l] = << >>
          PROVE  NoneTwice(queue'[l]) /\ \A e \in Procs : ~Holds(queue'[l], e)
      BY <3>3 DEF NoneTwice, Holds
    <3> QED BY <2>1, <3>2, <3>3
  <2>2. CASE \A l \in Levels : queue'[l] = << >>
    BY <2>2 DEF NoneTwice, Holds
  <2> QED BY <1>7, <2>1, <2>2, Trusted
<1>8. ASSUME UNCHANGED queue, flag, Settled,
             \A e \in Procs : prio'[e] = prio[e] \/ ~Kept(e)'
      PROVE  Goal
  BY <1>2, <1>8
<1>9. CASE Settled /\ flag /\ QuietStep
  BY <1>8, <1>9 DEF QuietStep
<1>10. Aside => flag /\ Settled
  BY SettledStays DEF Aside
<1> QED BY <1>4, <1>5, <1>6, <1>7, <1>9, <1>10, QueueStep

LEMMA WalkNext ==
    TypeOK /\ QueueInv /\ KeptStays /\ [Next]_vars => WalkRight'
<1> SUFFICES ASSUME TypeOK, QueueInv, KeptStays, [Next]_vars, flag', Settled'
             PROVE  WalkRight'
  BY DEF WalkRight
<1>1. /\ queue \in [Levels -> Seq(Procs)] /\ walk \in Seq(Procs)
      /\ cpuProc \in Procs \cup {None} /\ None \notin Procs
  BY QueueTypes
\* startMLFQ() is executed by a process, not in the middle of Rule 5.
<1>9. ASSUME NEW p \in Procs, startMLFQ(p) PROVE WalkRight'
  <2>1. pc' = pc /\ cpuProc = p
    BY <1>9, StartStepOf
  <2>2. pc # "boost"
    BY <1>1, <2>1 DEF QueueInv, CurRight
  <2> QED BY <2>1, <2>2 DEF WalkRight
<1>10. (\A p \in Procs : ~startMLFQ(p)) => flag /\ Settled
  BY AsideStep, SettledStays DEF Aside
<1> SUFFICES ASSUME \A p \in Procs : ~startMLFQ(p), flag, Settled
             PROVE  WalkRight'
  BY <1>9, <1>10
<1>2. ASSUME UNCHANGED walk, pc' = "boost" => pc = "boost"
      PROVE  WalkRight'
  BY <1>2 DEF QueueInv, WalkRight, KeptStays
<1>3. CASE BoostVisit
  <2> SUFFICES ASSUME NEW p \in Procs, Holds(walk', p) PROVE Kept(p)'
    BY DEF WalkRight
  <2>2. PICK e \in Procs :
          /\ Kept(e)' /\ walk # << >> /\ pc = "boost"
          /\ walk' \in {Tail(walk), Append(Tail(walk), e)}
    BY <1>3, Boosted
  <2>3. /\ Tail(walk) \in Seq(Procs) /\ Len(walk) \in Nat
        /\ Len(Tail(walk)) = Len(walk) - 1
        /\ \A i \in 1..Len(Tail(walk)) : Tail(walk)[i] = walk[i + 1]
    BY <1>1, <2>2, HeadTailProperties, LenProperties
  <2>4. ASSUME Holds(Tail(walk), p) PROVE Kept(p)'
    <3>1. PICK i \in 1..Len(Tail(walk)) : Tail(walk)[i] = p
      BY <2>4 DEF Holds
    <3>2. i + 1 \in 1..Len(walk) /\ walk[i + 1] = p
      BY <2>3, <3>1
    <3>3. Holds(walk, p)
      BY <3>2 DEF Holds
    <3> QED BY <2>2, <3>3 DEF QueueInv, WalkRight, KeptStays
  <2>5. Holds(Append(Tail(walk), e), p) <=> Holds(Tail(walk), p) \/ p = e
    BY <2>3, AppendHolds
  <2> QED BY <2>2, <2>4, <2>5
<1>4. CASE Charge
  <2>1. CASE m > 0
    <3>1. m - 1 \in Levels /\ walk' = queue[m - 1]
      BY <1>4, <2>1, QueueTypes DEF Charge
    <3>2. \A p \in Procs : Holds(walk', p) => Kept(p)'
      BY <3>1, InQueue
    <3> QED BY <3>2 DEF WalkRight
  <2>2. CASE ~(m > 0)
    <3>1. walk' = << >>
      BY <1>4, <2>2 DEF Charge
    <3> QED BY <3>1 DEF WalkRight, Holds
  <2> QED BY <2>1, <2>2
<1>5. CASE \/ SchedulerTop \/ RRVisit \/ RRDone \/ MLFQDone \/ ChargeAndExpire
           \/ BoostDone \/ AdmitVisit \/ AdmitDone \/ Pick \/ Resume
  <2>1. UNCHANGED walk /\ (pc' = "boost" => pc = "boost")
    BY <1>5 DEF SchedulerTop, RRVisit, RRDone, MLFQDone, ChargeAndExpire,
                BoostDone, AdmitVisit, AdmitDone, Pick, Resume
  <2> QED BY <1>2, <2>1
<1>6. ASSUME NEW p \in Procs, ProcessStep(p) PROVE WalkRight'
  <2>1. UNCHANGED schedVars
    BY <1>6
    DEF ProcessStep, TimerYield, Sleep, WaitSleep, SleepAgain, Reap, Fork,
        Fault, Exit, stopMLFQ, PipeWake, Wake
  <2> QED BY <1>2, <2>1 DEF schedVars
<1>7. ASSUME NEW q \in Procs, DeviceIntr(q) PROVE WalkRight'
  <2>1. UNCHANGED schedVars
    BY <1>7 DEF DeviceIntr, Wake
  <2> QED BY <1>2, <2>1 DEF schedVars
<1>8. CASE UNCHANGED vars
  BY <1>2, <1>8 DEF vars, schedVars
<1> QED BY <1>3, <1>4, <1>5, <1>6, <1>7, <1>8 DEF Next, SchedulerStep

LEMMA QueueInit == Init => QueueInv
<1> SUFFICES ASSUME Init PROVE QueueInv
  OBVIOUS
<1>1. ListsRight /\ WalkRight
  BY DEF Init, ListsRight, WalkRight
<1>2. EmptyRight /\ CurRight
  BY DEF Init, EmptyRight, CurRight
<1>3. \A p \in Procs : ticks[p][prio[p]] = 0
  <2>1. 0 \in Levels
    BY ConstantsAssumption DEF Levels
  <2> QED BY <2>1 DEF Init, NoTicks
<1>4. TicksRight /\ NewAtTop
  BY <1>3 DEF Init, TicksRight, NewAtTop
<1> QED BY <1>1, <1>2, <1>4 DEF QueueInv

LEMMA QueueNext ==
    TypeOK /\ RunningIsCurrent /\ QuantumBound /\ StartInv /\ QueueInv
       /\ [Next]_vars => QueueInv'
<1> SUFFICES ASSUME TypeOK, RunningIsCurrent, QuantumBound, StartInv, QueueInv,
                    [Next]_vars
             PROVE  QueueInv'
  OBVIOUS
<1>1. CurRight /\ EmptyRight /\ TicksRight /\ NewAtTop
  BY DEF QueueInv
<1>2. KeptStays
  BY <1>1, KeptNext
<1>3. ListsRight' /\ WalkRight'
  BY <1>2, ListsNext, WalkNext
<1>4. CurRight' /\ EmptyRight' /\ TicksRight' /\ NewAtTop'
  BY <1>1, CurNext, EmptyNext, TicksNext, TopNext
<1> QED BY <1>3, <1>4 DEF QueueInv

(***************************************************************************)
(* While MLFQ is on, an element of a queue belongs to an admitted process  *)
(* of that priority and to no other queue, with any memory: a failed       *)
(* mlfq_enque() leaves a process in no queue, never in two                 *)
(* (proc.c:517-577, 650-655 and 706-709). Under the first start this holds *)
(* at every moment, whatever comes between the statements of startMLFQ()   *)
(* (proc.c:815-824). Under a later one it holds once startMLFQ() has       *)
(* returned without having been preempted after it set the flag: emptying  *)
(* the last queue completes what emptying each of the others began.        *)
(***************************************************************************)
THEOREM QueuesNeverLie == Spec => []QueueSound
<1>1. TypeOK /\ QueueInv => QueueSound
  <2> SUFFICES ASSUME TypeOK, QueueInv, flag, Settled, NEW l \in Levels,
                      NEW i \in 1..Len(queue[l]), NEW j \in 1..Len(queue[l])
               PROVE  /\ prio[queue[l][i]] = l /\ added[queue[l][i]]
                      /\ i # j => queue[l][i] # queue[l][j]
    BY DEF QueueSound
  <2>1. queue[l] \in Seq(Procs)
    BY QueueTypes
  <2>2. queue[l][i] \in Procs /\ Holds(queue[l], queue[l][i])
    BY <2>1 DEF Holds
  <2> QED BY <2>2 DEF QueueInv, ListsRight, NoneTwice, Kept
<1> QED
  BY <1>1, TypeInit, TypeNext, RunningInit, RunningNext, QuantumInit,
     QuantumNext, StartInit, StartNext, QueueInit, QueueNext, PTL DEF Spec

-----------------------------------------------------------------------------
(* The first start of MLFQ.                                                 *)

\* Under the first start the queues are to be trusted.
LEMMA FirstSettled == FirstStart => Settled /\ flag
BY DEF FirstStart, Settled

LEMMA CompleteNext ==
    ASSUME ~BoundedMemory
    PROVE  TypeOK /\ StartInv /\ QueueInv /\ KeptStays /\ QueueComplete
              /\ [Next]_vars => QueueComplete'
<1> SUFFICES ASSUME TypeOK, StartInv, QueueInv, KeptStays, QueueComplete,
                    [Next]_vars, FirstStart', ~torn'
             PROVE  \A e \in Procs : added'[e] => Holds(queue'[prio'[e]], e)
  BY DEF QueueComplete, Lost, Holds
<1>1. /\ prio \in [Procs -> Levels] /\ queue \in [Levels -> Seq(Procs)]
      /\ added \in [Procs -> BOOLEAN] /\ 0 \in Levels /\ CanAlloc
  BY QueueTypes DEF CanAlloc
<1> DEFINE First == FirstStart /\ ~torn
<1>2. First => /\ flag /\ Settled
               /\ \A e \in Procs : added[e] => Holds(queue[prio[e]], e)
  BY FirstSettled DEF QueueComplete, Lost, Holds
<1>3. First => \A h \in Levels :
          /\ NoneTwice(queue[h])
          /\ \A e \in Procs : Holds(queue[h], e) => prio[e] = h /\ added[e]
  BY <1>2 DEF QueueInv, ListsRight, Kept
\* e moves from level l to level k.
<1>4. ASSUME First, NEW e \in Procs, NEW k \in Levels, NEW l \in Levels,
             prio[e] = l, added[e], UNCHANGED added,
             queue' = Moved(queue, k, l, e), prio' = [prio EXCEPT ![e] = k]
      PROVE  \A f \in Procs : added'[f] => Holds(queue'[prio'[f]], f)
  <2>1. /\ \A h \in Levels : NoneTwice(queue[h])
        /\ k # l => ~Holds(queue[k], e)
        /\ Holds(queue[l], e)
    BY <1>2, <1>3, <1>4
  <2> DEFINE ms == Moved(queue, k, l, e)
  <2>2. queue \in [Levels -> Seq(Procs)]
    BY <1>1
  <2>3. /\ \A h \in Levels, f \in Procs : f # e =>
              (Holds(ms[h], f) <=> Holds(queue[h], f))
        /\ CanAlloc /\ Holds(queue[l], e) => Holds(ms[k], e)
    BY <2>1, <2>2, MovedIs
  <2>4. /\ \A h \in Levels, f \in Procs : f # e =>
              (Holds(ms[h], f) <=> Holds(queue[h], f))
        /\ Holds(ms[k], e)
    BY <1>1, <2>1, <2>3
  <2> HIDE DEF ms
  <2>5. queue' = ms
    BY <1>4 DEF ms
  <2>6. ASSUME NEW f \in Procs, f # e, added[f] PROVE Holds(queue'[prio'[f]], f)
    BY <1>1, <1>2, <1>4, <2>4, <2>5, <2>6
  <2>7. Holds(queue'[prio'[e]], e)
    BY <1>1, <1>4, <2>4, <2>5
  <2> QED BY <1>4, <2>6, <2>7
<1>5. CASE First /\ ChargeAndExpire
  <2>1. PICK e \in Procs :
          /\ Kept(e) /\ UNCHANGED added
          /\ \/ UNCHANGED <<queue, prio>>
             \/ /\ prio[e] \in Levels /\ prio[e] + 1 \in Levels
                /\ queue' = Moved(queue, prio[e] + 1, prio[e], e)
                /\ prio' = [prio EXCEPT ![e] = prio[e] + 1]
    BY <1>5, Demoted
  <2>2. added[e]
    BY <2>1 DEF Kept
  <2>3. CASE UNCHANGED <<queue, prio>>
    BY <1>2, <1>5, <2>1, <2>3
  <2> QED BY <1>4, <1>5, <2>1, <2>2, <2>3
<1>6. CASE First /\ BoostVisit
  <2>1. PICK e \in Procs :
          /\ Kept(e) /\ UNCHANGED added
          /\ \/ UNCHANGED <<queue, prio>>
             \/ /\ prio[e] = m - 1 /\ m - 1 \in Levels
                /\ queue' = Moved(queue, 0, m - 1, e)
                /\ prio' = [prio EXCEPT ![e] = 0]
    BY <1>2, <1>6, Boosted
  <2>2. added[e]
    BY <2>1 DEF Kept
  <2>3. CASE UNCHANGED <<queue, prio>>
    BY <1>2, <1>6, <2>1, <2>3
  <2> QED BY <1>1, <1>4, <1>6, <2>1, <2>2, <2>3
<1>7. CASE First /\ AdmitVisit
  <2>1. /\ UNCHANGED prio
        /\ \/ UNCHANGED <<queue, added>>
           \/ /\ idx \in Procs /\ ~added[idx]
              /\ queue' = Enque(queue, 0, idx)
              /\ added' = [added EXCEPT ![idx] = TRUE]
    BY <1>7, QueueTypes DEF AdmitVisit
  <2>2. CASE UNCHANGED <<queue, added>>
    BY <1>2, <1>7, <2>1, <2>2
  <2>3. ASSUME NEW e \in Procs, ~added[e],
               queue' = Enque(queue, 0, e), added' = [added EXCEPT ![e] = TRUE]
        PROVE  \A f \in Procs : added'[f] => Holds(queue'[prio'[f]], f)
    <3>1. /\ prio[e] = 0
          /\ \A h \in Levels : NoneTwice(queue[h])
          /\ ~Holds(queue[0], e)
      BY <1>1, <1>3, <1>7, <2>3 DEF QueueInv, NewAtTop
    <3> DEFINE es == Enque(queue, 0, e)
    <3>2. queue \in [Levels -> Seq(Procs)] /\ 0 \in Levels
      BY <1>1
    <3>3. /\ \A h \in Levels, f \in Procs : Holds(queue[h], f) => Holds(es[h], f)
          /\ CanAlloc => Holds(es[0], e)
      BY <3>1, <3>2, EnqueIs
    <3>4. /\ \A h \in Levels, f \in Procs : Holds(queue[h], f) => Holds(queue'[h], f)
          /\ Holds(queue'[0], e)
      BY <1>1, <2>3, <3>3
    <3> QED BY <1>1, <1>2, <1>7, <2>1, <2>3, <3>1, <3>4
  <2> QED BY <2>1, <2>2, <2>3
<1>8. CASE First /\ QuietStep
  BY <1>2, <1>8 DEF QuietStep
<1>9. ASSUME NEW p \in Procs, startMLFQ(p)
      PROVE  \A e \in Procs : added'[e] => Holds(queue'[prio'[e]], e)
  <2>1. /\ UNCHANGED <<added, prio>>
        /\ \/ starts' = starts + 1 /\ ~flag'
           \/ call[p] = "flag" /\ starts' = starts
           \/ call[p] \in {"m", "n"} /\ UNCHANGED <<starts, torn, flag, queue>>
           \/ call[p] = "reset" /\ UNCHANGED <<starts, torn>>
    BY <1>9, StartStepOf
  <2>2. CASE call[p] = "flag" /\ starts' = starts
    <3>1. NotYet
      BY <2>2 DEF NotYet, FirstStart
    <3> QED BY <2>1, <3>1 DEF StartInv, MarksRight
  <2>3. CASE call[p] \in {"m", "n"} /\ UNCHANGED <<starts, torn, flag, queue>>
    BY <1>2, <2>1, <2>3 DEF FirstStart
  <2>4. CASE call[p] = "reset" /\ UNCHANGED <<starts, torn>>
    <3>1. starts = 1 /\ ~torn /\ p \in Emptying
      BY <2>4 DEF FirstStart, Emptying
    <3> QED BY <2>1, <3>1 DEF StartInv, MarksRight
  <2> QED BY <2>1, <2>2, <2>3, <2>4 DEF FirstStart
<1>10. Aside => First
  BY DEF Aside, FirstStart
<1> HIDE DEF First
<1> QED BY <1>5, <1>6, <1>7, <1>8, <1>9, <1>10, QueueStep

LEMMA StayNext ==
    TypeOK /\ StartInv /\ QueueInv /\ KeptStays /\ StayBound /\ [Next]_vars
       => StayBound'
<1> SUFFICES ASSUME TypeOK, StartInv, QueueInv, KeptStays, StayBound,
                    [Next]_vars, FirstStart'
             PROVE  \A e \in Procs :
                       stay'[e] > 0 => prio'[e] = m' - 1 /\ stay'[e] < n'
  BY DEF StayBound
<1>1. /\ prio \in [Procs -> Levels] /\ stay \in [Procs -> Nat]
      /\ m \in Nat /\ n \in Nat /\ Levels \subseteq Nat
  BY QueueTypes
<1>2. FirstStart => /\ flag /\ Settled
                    /\ \A e \in Procs : stay[e] > 0 => prio[e] = m - 1 /\ stay[e] < n
  BY FirstSettled DEF StayBound
<1>10. Aside => FirstStart /\ UNCHANGED <<m, n>>
  BY DEF Aside, FirstStart
<1>3. CASE FirstStart /\ ChargeAndExpire
  <2>1. PICK e \in Procs :
          /\ UNCHANGED <<m, n, stay>>
          /\ \/ UNCHANGED prio
             \/ prio[e] < m - 1 /\ prio' = [prio EXCEPT ![e] = prio[e] + 1]
    BY <1>3, Demoted
  <2> QED BY <1>1, <1>2, <1>3, <2>1
<1>4. CASE FirstStart /\ BoostVisit
  <2>1. PICK e \in Procs :
          /\ UNCHANGED <<m, n>>
          /\ \/ UNCHANGED <<prio, stay>>
             \/ /\ UNCHANGED prio /\ prio[e] = m - 1 /\ stay[e] + 1 < n
                /\ stay' = [stay EXCEPT ![e] = stay[e] + 1]
             \/ /\ prio' = [prio EXCEPT ![e] = 0]
                /\ stay' = [stay EXCEPT ![e] = 0]
    BY <1>2, <1>4, Boosted
  <2> QED BY <1>1, <1>2, <1>4, <2>1
<1>5. CASE FirstStart /\ AdmitVisit
  <2>1. UNCHANGED <<prio, stay, m, n>>
    BY <1>5 DEF AdmitVisit
  <2> QED BY <1>2, <1>5, <2>1
<1>6. CASE Aside /\ QuietStep
  BY <1>2, <1>6, <1>10 DEF QuietStep
<1>7. ASSUME NEW p \in Procs, startMLFQ(p)
      PROVE  \A e \in Procs :
                stay'[e] > 0 => prio'[e] = m' - 1 /\ stay'[e] < n'
  <2>1. /\ UNCHANGED <<prio, stay>>
        /\ \/ ~flag'
           \/ call[p] \in {"flag", "m", "n"} /\ starts' = starts
           \/ call[p] = "reset" /\ UNCHANGED <<starts, flag, m, n>>
    BY <1>7, StartStepOf
  <2>2. CASE call[p] \in {"flag", "m", "n"} /\ starts' = starts
    <3>1. NotYet \/ (starts = 1 /\ \E q \in Procs : call[q] \in {"m", "n"})
      BY <2>2 DEF NotYet, FirstStart
    <3> QED BY <2>1, <3>1 DEF StartInv, StayRight
  <2>3. CASE call[p] = "reset" /\ UNCHANGED <<starts, flag, m, n>>
    BY <1>2, <2>1, <2>3 DEF FirstStart
  <2> QED BY <2>1, <2>2, <2>3 DEF FirstStart
<1> QED BY <1>3, <1>4, <1>5, <1>6, <1>7, <1>10, QueueStep

(***************************************************************************)
(* With memory for the queue elements, queues and marks agree both ways    *)
(* under a first start that was not preempted between setting the flag and *)
(* emptying the queues: whoever is marked addedToMLFQ is in the queue of   *)
(* its priority, so Rule 5 sees every process at the bottom                *)
(* (proc.c:638-721, 723-737).                                              *)
(***************************************************************************)
THEOREM QueuesAgree ==
    ASSUME ~BoundedMemory
    PROVE  Spec => []QueuesRight
<1>1. Init => QueueComplete
  BY DEF Init, QueueComplete, FirstStart
<1>2. TypeOK /\ RunningIsCurrent /\ StartInv /\ QueueInv /\ QueueComplete
         /\ [Next]_vars => QueueComplete'
  <2>1. QueueInv => CurRight
    BY DEF QueueInv
  <2> QED BY <2>1, KeptNext, CompleteNext
<1>3. Spec => []QueueComplete
  BY <1>1, <1>2, TypeInit, TypeNext, RunningInit, RunningNext, QuantumInit,
     QuantumNext, StartInit, StartNext, QueueInit, QueueNext, PTL DEF Spec
<1>4. QueueSound /\ QueueComplete => QueuesRight
  BY DEF QueuesRight
<1> QED BY <1>3, <1>4, QueuesNeverLie, PTL

(***************************************************************************)
(* Under the first start a process has counts at the bottom only, and      *)
(* fewer than n of them, so Rule 5 is never late: demotions come with none *)
(* and a boost takes them all (proc.c:688-721). A startMLFQ() that is      *)
(* preempted does not break it: until n is set, the n of Rule 5 is 0 and   *)
(* nothing is counted.                                                     *)
(***************************************************************************)
THEOREM StayBounded == Spec => []StayBound
<1>1. Init => StayBound
  BY DEF Init, StayBound, FirstStart
<1>2. TypeOK /\ RunningIsCurrent /\ StartInv /\ QueueInv /\ StayBound
         /\ [Next]_vars => StayBound'
  <2>1. QueueInv => CurRight
    BY DEF QueueInv
  <2> QED BY <2>1, KeptNext, StayNext
<1> QED
  BY <1>1, <1>2, TypeInit, TypeNext, RunningInit, RunningNext, QuantumInit,
     QuantumNext, StartInit, StartNext, QueueInit, QueueNext, PTL DEF Spec

-----------------------------------------------------------------------------
(* The candidates array.                                                    *)

\* A process that the scheduler may dispatch without looking at its state: its
\* slot is in use, and a zombie is the one that is resumed next.
Present(p) == /\ state[p] # "UNUSED"
              /\ state[p] = "ZOMBIE" => cpuProc = None /\ cur = p

SlotsRight == pc \notin {"top", "rr"} =>
    /\ cur # None => Present(cur)
    /\ \A k \in Procs : slots[k] # None => Present(slots[k])

\* A dispatch finds a slot in use.
UsedSlot == \A p \in Procs : cpuProc' = p /\ cpuProc # p => state[p] # "UNUSED"

LEMMA SlotsInit == Init => SlotsRight
BY DEF Init, SlotsRight

LEMMA SlotsNext ==
    TypeOK /\ RunningIsCurrent /\ CurRight /\ SlotsRight /\ [Next]_vars
       => SlotsRight' /\ UsedSlot
<1> SUFFICES ASSUME TypeOK, RunningIsCurrent, CurRight, SlotsRight, [Next]_vars
             PROVE  SlotsRight' /\ UsedSlot
  OBVIOUS
<1>1. /\ TypeOK /\ RunningIsCurrent /\ CurRight /\ SlotsRight
      /\ state \in [Procs -> States] /\ cpuProc \in Procs \cup {None}
      /\ slots \in [Procs -> Procs \cup {None}]
      /\ cur \in Procs \cup {None} /\ None \notin Procs
  BY QueueTypes DEF TypeOK
<1>2. CASE UNCHANGED <<state, cpuProc, cur, pc, slots>>
  BY <1>1, <1>2
  DEF SlotsRight, Present, UsedSlot, Scheduling, RunningIsCurrent, CurRight
<1>3. CASE SchedulerStep
  <2>1. CASE \/ BoostVisit \/ AdmitVisit
    BY <1>2, <2>1 DEF BoostVisit, AdmitVisit, procVars, schedVars, cpuVars
  <2>2. CASE SchedulerTop
    BY <1>1, <2>2
    DEF SchedulerTop, FreshLocals, SlotsRight, Present, UsedSlot, Scheduling,
        RunningIsCurrent, CurRight, procVars, infoVars, mlfqVars, schedVars,
        cpuVars
  <2>3. CASE RRVisit
    BY <1>1, <2>3
    DEF RRVisit, RRRuns, SwitchTo, SlotsRight, UsedSlot, Scheduling
  <2>4. CASE RRDone
    BY <1>1, <2>4
    DEF RRDone, SlotsRight, Present, UsedSlot, Scheduling, RunningIsCurrent,
        CurRight, procVars, infoVars, mlfqVars, schedVars, cpuVars
  <2>5. CASE MLFQDone
    BY <1>1, <2>5
    DEF MLFQDone, SlotsRight, Present, UsedSlot, Scheduling, RunningIsCurrent,
        CurRight, procVars, infoVars, mlfqVars, schedVars, cpuVars
  <2>6. CASE ChargeAndExpire
    BY <1>1, <2>6
    DEF ChargeAndExpire, Charged, SlotsRight, Present, UsedSlot, Scheduling,
        RunningIsCurrent, CurRight, procVars, infoVars, mlfqVars, schedVars,
        cpuVars
  <2>7. CASE Charge
    BY <1>1, <2>7
    DEF Charge, Charged, SlotsRight, Present, UsedSlot, Scheduling,
        RunningIsCurrent, CurRight, procVars, infoVars, mlfqVars, schedVars,
        cpuVars
  <2>8. CASE BoostDone
    BY <1>1, <2>8
    DEF BoostDone, SlotsRight, Present, UsedSlot, Scheduling,
        RunningIsCurrent, CurRight, procVars, infoVars, mlfqVars, schedVars,
        cpuVars
  <2>9. CASE AdmitDone
    BY <1>1, <2>9
    DEF AdmitDone, SlotsRight, Present, UsedSlot, Scheduling,
        RunningIsCurrent, CurRight, procVars, infoVars, mlfqVars, schedVars,
        cpuVars
  <2>10. CASE Pick
    <3> DEFINE fs == FilledSlots
    <3>1. /\ cpuProc = None /\ cur = None /\ pc = "pick" /\ slots' = fs
          /\ cur' # None => \E k \in Procs : cur' = fs[k]
          /\ \/ cur' = None /\ UNCHANGED <<state, cpuProc>>
             \/ /\ cur' # None /\ cpuProc' = cur'
                /\ state' = [state EXCEPT ![cur'] = "RUNNING"]
      <4>1. 1 \in Procs /\ rrIndex + 1 \in Procs
        BY <1>1, ConstantsAssumption DEF TypeOK, Procs
      <4>2. /\ cpuProc = None /\ cur = None /\ pc = "pick" /\ slots' = fs
            /\ cur' \in {fs[rrIndex + 1], fs[1], None}
            /\ IF cur' # None THEN SwitchTo(cur')
               ELSE UNCHANGED <<state, cpuProc, panicked>>
        BY <2>10 DEF Pick, Scheduling
      <4> HIDE DEF fs
      <4> QED BY <4>1, <4>2 DEF SwitchTo
    <3>2. \A k \in Procs : fs[k] # None =>
              fs[k] \in Procs /\ state[fs[k]] \notin {"UNUSED", "ZOMBIE"}
      <4> SUFFICES ASSUME NEW k \in Procs, fs[k] # None
                   PROVE  fs[k] \in Procs /\ state[fs[k]] \notin {"UNUSED", "ZOMBIE"}
        OBVIOUS
      <4>1. CASE \E p \in Top : Rank(p) = k - 1
        <5>1. fs[k] \in Top
          BY <4>1 DEF FilledSlots
        <5> HIDE DEF fs
        <5> QED BY <5>1 DEF Top, Runnable
      <4>2. CASE ~ \E p \in Top : Rank(p) = k - 1
        <5>1. fs[k] = slots[k]
          BY <4>2 DEF FilledSlots
        <5> HIDE DEF fs
        <5> QED BY <1>1, <3>1, <5>1 DEF SlotsRight, Present
      <4> QED BY <4>1, <4>2
    <3> HIDE DEF fs
    <3>3. UsedSlot
      BY <3>1, <3>2 DEF UsedSlot
    <3>4. cur' # None => state'[cur'] = "RUNNING" /\ cur' \in Procs
      BY <1>1, <3>1, <3>2
    <3>5. \A k \in Procs : fs[k] # None => state'[fs[k]] \notin {"UNUSED", "ZOMBIE"}
      BY <1>1, <3>1, <3>2, <3>4
    <3>6. SlotsRight'
      BY <3>1, <3>4, <3>5 DEF SlotsRight, Present
    <3> QED BY <3>3, <3>6
  <2>11. CASE Resume
    BY <1>1, <2>11
    DEF Resume, SwitchTo, SlotsRight, Present, UsedSlot, Scheduling,
        RunningIsCurrent, CurRight, procVars, infoVars, mlfqVars, schedVars,
        cpuVars
  <2> QED BY <1>3, <2>1, <2>2, <2>3, <2>4, <2>5, <2>6, <2>7, <2>8, <2>9,
             <2>10, <2>11 DEF SchedulerStep
<1>4. ASSUME NEW p \in Procs, ProcessStep(p) PROVE SlotsRight' /\ UsedSlot
  <2>1. CASE Fault(p) \/ stopMLFQ(p) \/ startMLFQ(p)
    BY <1>2, <2>1, StartKeeps DEF Fault, stopMLFQ, procVars, schedVars, cpuVars
  <2>2. CASE TimerYield(p)
    BY <1>1, <2>2
    DEF TimerYield, LeaveCpu, Running, SlotsRight, Present, UsedSlot,
        Scheduling, RunningIsCurrent, CurRight, procVars, infoVars, mlfqVars,
        schedVars, cpuVars
  <2>3. CASE WaitSleep(p)
    BY <1>1, <2>3
    DEF WaitSleep, LeaveCpu, May, Free, Running, SlotsRight, Present,
        UsedSlot, Scheduling, RunningIsCurrent, CurRight, procVars, infoVars,
        mlfqVars, schedVars, cpuVars
  <2>4. CASE SleepAgain(p)
    BY <1>1, <2>4
    DEF SleepAgain, LeaveCpu, Running, SlotsRight, Present, UsedSlot,
        Scheduling, RunningIsCurrent, CurRight, procVars, infoVars, mlfqVars,
        schedVars, cpuVars
  <2>5. CASE Exit(p)
    BY <1>1, <2>5
    DEF Exit, LeaveCpu, Running, SlotsRight, Present, UsedSlot, Scheduling,
        RunningIsCurrent, CurRight, procVars, infoVars, mlfqVars, schedVars,
        cpuVars
  <2>6. ASSUME NEW why \in {"dev", "pipe"}, Sleep(p, why)
        PROVE  SlotsRight' /\ UsedSlot
    BY <1>1, <2>6
    DEF Sleep, LeaveCpu, Running, SlotsRight, Present, UsedSlot, Scheduling,
        RunningIsCurrent, CurRight, procVars, infoVars, mlfqVars, schedVars,
        cpuVars
  <2>7. ASSUME NEW c \in Procs, Reap(p, c)
        PROVE  SlotsRight' /\ UsedSlot
    BY <1>1, <2>7
    DEF Reap, May, Free, Running, Zombies, Children, SlotsRight, Present,
        UsedSlot, Scheduling, RunningIsCurrent, CurRight, procVars, infoVars,
        mlfqVars, schedVars, cpuVars
  <2>8. ASSUME NEW c \in Procs, Fork(p, c)
        PROVE  SlotsRight' /\ UsedSlot
    BY <1>1, <2>8
    DEF Fork, May, Free, Running, SlotsRight, Present, UsedSlot, Scheduling,
        RunningIsCurrent, CurRight, procVars, infoVars, mlfqVars, schedVars,
        cpuVars
  <2>9. ASSUME NEW q \in Procs, PipeWake(p, q)
        PROVE  SlotsRight' /\ UsedSlot
    BY <1>1, <2>9
    DEF PipeWake, Wake, Free, Running, SlotsRight, Present, UsedSlot,
        Scheduling, RunningIsCurrent, CurRight, procVars, infoVars, mlfqVars,
        schedVars, cpuVars
  <2> QED BY <1>4, <2>1, <2>2, <2>3, <2>4, <2>5, <2>6, <2>7, <2>8, <2>9 DEF
             ProcessStep
<1>5. ASSUME NEW q \in Procs, DeviceIntr(q) PROVE SlotsRight' /\ UsedSlot
  BY <1>1, <1>5
  DEF DeviceIntr, Wake, SlotsRight, Present, UsedSlot, Scheduling,
      RunningIsCurrent, CurRight, procVars, infoVars, mlfqVars, schedVars,
      cpuVars
<1>6. CASE UNCHANGED vars
  BY <1>2, <1>6 DEF vars, procVars, schedVars, cpuVars
<1> QED BY <1>3, <1>4, <1>5, <1>6 DEF Next

(***************************************************************************)
(* No dispatch resumes the context of a slot that is not in use, although  *)
(* MLFQ_scheduler keeps p and the candidates array over many iterations:   *)
(* a process leaves the table only through exit() on the CPU, as the       *)
(* scheduler's current process, and that one is resumed and panics before  *)
(* it could be freed (proc.c:632, 752 and 784).                            *)
(***************************************************************************)
THEOREM DispatchIsOfUsedSlot == Spec => DispatchesUsedSlot
<1>1. QueueInv => CurRight
  BY DEF QueueInv
<1>2. TypeOK /\ RunningIsCurrent /\ QueueInv /\ SlotsRight /\ [Next]_vars
         => SlotsRight' /\ UsedSlot
  BY <1>1, SlotsNext
<1>3. TypeOK /\ RunningIsCurrent /\ QueueInv /\ SlotsRight /\ [Next]_vars
         => SlotsRight'
  BY <1>2
<1>4. TypeOK /\ RunningIsCurrent /\ QueueInv /\ SlotsRight /\ [Next]_vars
         => [\A p \in Procs : cpuProc' = p /\ cpuProc # p => state[p] # "UNUSED"]_vars
  BY <1>2 DEF UsedSlot
<1> QED
  BY <1>3, <1>4, TypeInit, TypeNext, RunningInit, RunningNext, QuantumInit,
     QuantumNext, StartInit, StartNext, QueueInit, QueueNext, SlotsInit, PTL
  DEF Spec, DispatchesUsedSlot

-----------------------------------------------------------------------------
(* The round robin alone.                                                   *)

RoundRobin == /\ ~flag /\ pc \in {"top", "rr"}
              /\ \A p \in Procs : call[p] = "no"

\* What a process state may become, as the comments on exit() and sleep() say.
StateMoves == \A p \in Procs :
    /\ state[p] = "ZOMBIE" => state'[p] \in {"ZOMBIE", "UNUSED"}
    /\ state[p] = "SLEEPING" => state'[p] # "RUNNING"

LEMMA RobinNext ==
    "start" \notin Workload /\ TypeOK /\ RunningIsCurrent /\ RoundRobin
       /\ [Next]_vars => RoundRobin' /\ StateMoves
<1> SUFFICES ASSUME "start" \notin Workload, TypeOK, RunningIsCurrent,
                    RoundRobin, [Next]_vars
             PROVE  RoundRobin' /\ StateMoves
  OBVIOUS
<1>1. /\ "start" \notin Workload /\ TypeOK /\ RunningIsCurrent /\ RoundRobin
      /\ state \in [Procs -> States] /\ cpuProc \in Procs \cup {None}
      /\ None \notin Procs
  BY QueueTypes
<1>2. CASE UNCHANGED <<state, flag, pc, call>>
  BY <1>1, <1>2
  DEF RoundRobin, StateMoves, Scheduling, RunningIsCurrent, RRRuns
<1>3. CASE SchedulerStep
  <2>1. CASE \/ ChargeAndExpire \/ BoostVisit \/ AdmitVisit
    BY <1>2, <2>1
    DEF ChargeAndExpire, BoostVisit, AdmitVisit, procVars, mlfqVars,
        startVars, schedVars
  <2>2. CASE SchedulerTop
    BY <1>1, <2>2
    DEF SchedulerTop, FreshLocals, RoundRobin, StateMoves, Scheduling,
        RunningIsCurrent, RRRuns, procVars, infoVars, mlfqVars, startVars,
        schedVars, cpuVars
  <2>3. CASE RRVisit
    BY <1>1, <2>3
    DEF RRVisit, SwitchTo, RoundRobin, StateMoves, Scheduling,
        RunningIsCurrent, RRRuns, procVars, infoVars, mlfqVars, startVars,
        schedVars, cpuVars
  <2>4. CASE RRDone
    BY <1>1, <2>4
    DEF RRDone, RoundRobin, StateMoves, Scheduling, RunningIsCurrent, RRRuns,
        procVars, infoVars, mlfqVars, startVars, schedVars, cpuVars
  <2>5. CASE MLFQDone
    BY <1>1, <2>5
    DEF MLFQDone, RoundRobin, StateMoves, Scheduling, RunningIsCurrent,
        RRRuns, procVars, infoVars, mlfqVars, startVars, schedVars, cpuVars
  <2>6. CASE Charge
    BY <1>1, <2>6
    DEF Charge, Charged, RoundRobin, StateMoves, Scheduling, RunningIsCurrent,
        RRRuns, procVars, infoVars, mlfqVars, startVars, schedVars, cpuVars
  <2>7. CASE BoostDone
    BY <1>1, <2>7
    DEF BoostDone, RoundRobin, StateMoves, Scheduling, RunningIsCurrent,
        RRRuns, procVars, infoVars, mlfqVars, startVars, schedVars, cpuVars
  <2>8. CASE AdmitDone
    BY <1>1, <2>8
    DEF AdmitDone, RoundRobin, StateMoves, Scheduling, RunningIsCurrent,
        RRRuns, procVars, infoVars, mlfqVars, startVars, schedVars, cpuVars
  <2>9. CASE Pick
    BY <1>1, <2>9
    DEF Pick, SwitchTo, RoundRobin, StateMoves, Scheduling, RunningIsCurrent,
        RRRuns, procVars, infoVars, mlfqVars, startVars, schedVars, cpuVars
  <2>10. CASE Resume
    BY <1>1, <2>10
    DEF Resume, SwitchTo, RoundRobin, StateMoves, Scheduling,
        RunningIsCurrent, RRRuns, procVars, infoVars, mlfqVars, startVars,
        schedVars, cpuVars
  <2> QED BY <1>3, <2>1, <2>2, <2>3, <2>4, <2>5, <2>6, <2>7, <2>8, <2>9, <2>10
             DEF SchedulerStep
<1>4. ASSUME NEW p \in Procs, ProcessStep(p) PROVE RoundRobin' /\ StateMoves
  <2>1. CASE \/ Fault(p)
    BY <1>2, <2>1 DEF Fault, procVars, mlfqVars, startVars, schedVars
  <2>2. CASE TimerYield(p)
    BY <1>1, <2>2
    DEF TimerYield, LeaveCpu, Running, RoundRobin, StateMoves, Scheduling,
        RunningIsCurrent, RRRuns, procVars, infoVars, mlfqVars, startVars,
        schedVars, cpuVars
  <2>3. CASE WaitSleep(p)
    BY <1>1, <2>3
    DEF WaitSleep, LeaveCpu, May, Free, Running, RoundRobin, StateMoves,
        Scheduling, RunningIsCurrent, RRRuns, procVars, infoVars, mlfqVars,
        startVars, schedVars, cpuVars
  <2>4. CASE SleepAgain(p)
    BY <1>1, <2>4
    DEF SleepAgain, LeaveCpu, Running, RoundRobin, StateMoves, Scheduling,
        RunningIsCurrent, RRRuns, procVars, infoVars, mlfqVars, startVars,
        schedVars, cpuVars
  <2>5. CASE Exit(p)
    BY <1>1, <2>5
    DEF Exit, LeaveCpu, Running, RoundRobin, StateMoves, Scheduling,
        RunningIsCurrent, RRRuns, procVars, infoVars, mlfqVars, startVars,
        schedVars, cpuVars
  <2>6. CASE stopMLFQ(p)
    BY <1>1, <2>6
    DEF stopMLFQ, May, Free, Running, RoundRobin, StateMoves, Scheduling,
        RunningIsCurrent, RRRuns, procVars, infoVars, mlfqVars, startVars,
        schedVars, cpuVars
  <2>7. ASSUME NEW why \in {"dev", "pipe"}, Sleep(p, why)
        PROVE  RoundRobin' /\ StateMoves
    BY <1>1, <2>7
    DEF Sleep, LeaveCpu, Running, RoundRobin, StateMoves, Scheduling,
        RunningIsCurrent, RRRuns, procVars, infoVars, mlfqVars, startVars,
        schedVars, cpuVars
  <2>8. ASSUME NEW c \in Procs, Reap(p, c)
        PROVE  RoundRobin' /\ StateMoves
    BY <1>1, <2>8
    DEF Reap, May, Free, Running, Zombies, Children, RoundRobin, StateMoves,
        Scheduling, RunningIsCurrent, RRRuns, procVars, infoVars, mlfqVars,
        startVars, schedVars, cpuVars
  <2>9. ASSUME NEW c \in Procs, Fork(p, c)
        PROVE  RoundRobin' /\ StateMoves
    BY <1>1, <2>9
    DEF Fork, May, Free, Running, RoundRobin, StateMoves, Scheduling,
        RunningIsCurrent, RRRuns, procVars, infoVars, mlfqVars, startVars,
        schedVars, cpuVars
  <2>10. CASE startMLFQ(p)
    BY <1>1, <2>10
    DEF startMLFQ, StartTest, StartFlag, StartM, StartN, StartReset, InStart,
        May, RoundRobin
  <2>11. ASSUME NEW q \in Procs, PipeWake(p, q)
        PROVE  RoundRobin' /\ StateMoves
    BY <1>1, <2>11
    DEF PipeWake, Wake, Free, Running, RoundRobin, StateMoves, Scheduling,
        RunningIsCurrent, RRRuns, procVars, infoVars, mlfqVars, startVars,
        schedVars, cpuVars
  <2> QED BY <1>4, <2>1, <2>2, <2>3, <2>4, <2>5, <2>6, <2>7, <2>8, <2>9,
             <2>10, <2>11 DEF ProcessStep
<1>5. ASSUME NEW q \in Procs, DeviceIntr(q) PROVE RoundRobin' /\ StateMoves
  BY <1>1, <1>5
  DEF DeviceIntr, Wake, RoundRobin, StateMoves, Scheduling, RunningIsCurrent,
      RRRuns, procVars, infoVars, mlfqVars, startVars, schedVars, cpuVars
<1>6. CASE UNCHANGED vars
  BY <1>2, <1>6 DEF vars, procVars, mlfqVars, startVars, schedVars
<1> QED BY <1>3, <1>4, <1>5, <1>6 DEF Next

(***************************************************************************)
(* "An exited process remains in the zombie state until its parent calls   *)
(* wait()." (proc.c:379-381): true as long as nobody calls startMLFQ().    *)
(***************************************************************************)
THEOREM ZombieStaysUnderRR ==
    ASSUME "start" \notin Workload
    PROVE  Spec => ZombieStays
<1>1. Init => RoundRobin
  BY DEF Init, RoundRobin
<1>2. TypeOK /\ RunningIsCurrent /\ RoundRobin /\ [Next]_vars
         => RoundRobin' /\ StateMoves
  BY RobinNext
<1>3. TypeOK /\ RunningIsCurrent /\ RoundRobin /\ [Next]_vars => RoundRobin'
  BY <1>2
<1>4. TypeOK /\ RunningIsCurrent /\ RoundRobin /\ [Next]_vars
         => [\A p \in Procs :
               state[p] = "ZOMBIE" => state'[p] \in {"ZOMBIE", "UNUSED"}]_vars
  BY <1>2 DEF StateMoves
<1> QED
  BY <1>1, <1>3, <1>4, TypeInit, TypeNext, RunningInit, RunningNext, PTL
  DEF Spec, ZombieStays

(***************************************************************************)
(* sleep() returns after a wake-up only (proc.c:919-920): the round robin  *)
(* runs RUNNABLE processes.                                                *)
(***************************************************************************)
THEOREM SleeperWaitsUnderRR ==
    ASSUME "start" \notin Workload
    PROVE  Spec => SleeperRunsAfterWakeup
<1>1. Init => RoundRobin
  BY DEF Init, RoundRobin
<1>2. TypeOK /\ RunningIsCurrent /\ RoundRobin /\ [Next]_vars
         => RoundRobin' /\ StateMoves
  BY RobinNext
<1>3. TypeOK /\ RunningIsCurrent /\ RoundRobin /\ [Next]_vars => RoundRobin'
  BY <1>2
<1>4. TypeOK /\ RunningIsCurrent /\ RoundRobin /\ [Next]_vars
         => [\A p \in Procs : state[p] = "SLEEPING" => state'[p] # "RUNNING"]_vars
  BY <1>2 DEF StateMoves
<1> QED
  BY <1>1, <1>3, <1>4, TypeInit, TypeNext, RunningInit, RunningNext, PTL
  DEF Spec, SleeperRunsAfterWakeup

===============================================================================
