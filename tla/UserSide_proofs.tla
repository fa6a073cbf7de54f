--------------------------- MODULE UserSide_proofs ---------------------------
(* Theorems about what user programs meet or bring along, for any values of *)
(* the constants.                                                           *)
(*   Tty      : for any processes, sizes of the buffers and width of the    *)
(*              counters that is a multiple of the input buffer's, nobody   *)
(*              waits in vain, and the input ring implements LineEditor.    *)
(*   Messages : for any number of children, nobody answers before it should *)
(*              and every round comes to its end.                           *)
(*   Umalloc  : for a heap and requests of any sizes, blocks never overlap, *)
(*              none is lost and the loops over the free list end.          *)
EXTENDS Tty, Messages, Umalloc, SequenceTheorems, WellFoundedInduction, TLAPS

Letters == {"x", "\n", "^D"}
Slots   == 0..(INPUT_BUF_SIZE - 1)
Places  == 0..(W - 1)

\* What a ring g holds between two counters.
Held(g, a, b) == [k \in 1..Count(a, b) |-> g[(a + k - 1) % INPUT_BUF_SIZE]]

\* The k-th place of it after a.
Nth(g, a, k) == g[(a + k - 1) % INPUT_BUF_SIZE]

\* With a character stored at c, and where the next one goes.
Put(g, c, x) == [g EXCEPT ![c % INPUT_BUF_SIZE] = x]
Past(c) == (c + 1) % W

Calls == [at : {"user", "write", "wsleep", "read", "rsleep"}, n : Nat, got : BOOLEAN]

TtyTypeOK ==
    /\ r \in Places /\ w \in Places /\ e \in Places /\ ring \in [Slots -> Letters]
    /\ rx \in Keys \cup {"none"}
    /\ txq \in Seq({"c"}) /\ idle \in BOOLEAN /\ uirq \in BOOLEAN /\ uintr \in BOOLEAN
    /\ io \in [Users -> Calls]

\* r, w and e follow each other, not more than a buffer apart.
RingRight == Count(r, w) + Count(w, e) = Count(r, e) /\ Count(r, e) <= INPUT_BUF_SIZE
AsksRight == \A p \in Users : io[p].at \in {"write", "wsleep"} => io[p].n > 0

IInv == TtyTypeOK /\ RingRight /\ AsksRight /\ IOGoesOn

\* A step of the ring as LineEditor has it.
Edits == [LE!Next]_<<Ring(r, w), Ring(w, e)>>

-----------------------------------------------------------------------------
(* Tty: remainders.                                                         *)

LEMMA Division ==
    ASSUME NEW x \in Nat, NEW b \in Nat \ {0}
    PROVE  x % b \in 0..(b - 1) /\ \E d \in Int : x = b * d + (x % b)
<1>1. x \div b \in Int /\ x = b * (x \div b) + (x % b)
  BY Z3
<1>2. x % b \in 0..(b - 1)
  BY Z3
<1> QED BY <1>1, <1>2

LEMMA Remainder ==
    ASSUME NEW x \in Int, NEW b \in Nat \ {0}, NEW d \in Int,
           NEW y \in 0..(b - 1), x = b * d + y
    PROVE  x % b = y
BY SMTT(20)

\* At most one turn forward or backward.
LEMMA OneTurn ==
    ASSUME NEW b \in Nat \ {0}, NEW x \in (0 - b)..(2 * b - 1)
    PROVE  x % b = IF x < 0 THEN x + b ELSE IF x < b THEN x ELSE x - b
<1>1. CASE x < 0
  <2>1. x + b \in 0..(b - 1) /\ x = b * (0 - 1) + (x + b)
    BY <1>1
  <2> DEFINE y == x + b  d == 0 - 1
  <2>2. y \in 0..(b - 1) /\ d \in Int /\ x \in Int /\ x = b * d + y
    BY <2>1
  <2> HIDE DEF y, d
  <2>3. x % b = y
    BY <2>2, Remainder
  <2> QED BY <1>1, <2>3 DEF y
<1>2. CASE x \in 0..(b - 1)
  BY <1>2, SMTT(20)
<1>3. CASE x >= b
  BY <1>3, SMTT(20)
<1> QED BY <1>1, <1>2, <1>3

\* A counter that wraps at a multiple of b points to the same slot.
LEMMA WrapSlot ==
    ASSUME NEW b \in Nat \ {0}, NEW m \in Nat, m % b = 0,
           NEW x \in Nat, x >= m
    PROVE  (x - m) % b = x % b
<1>1. PICK d \in Int : x = b * d + (x % b)
  BY Division
<1>2. PICK c \in Int : m = b * c
  <2>1. PICK c \in Int : m = b * c + (m % b)
    BY Division
  <2>2. b * c \in Int
    OBVIOUS
  <2>3. m = b * c
    BY <2>1, <2>2
  <2> QED BY <2>3
<1>3. x - m = b * (d - c) + (x % b)
  <2>1. b * (d - c) = b * d - b * c
    BY SMTT(20)
  <2>2. x % b \in Int
    BY Division
  <2> QED BY <1>1, <1>2, <2>1, <2>2
<1>4. x % b \in 0..(b - 1)
  BY Division
<1>5. d - c \in Int /\ x - m \in Nat
  OBVIOUS
<1> DEFINE y == x - m  f == d - c  z == x % b
<1>6. y \in Int /\ f \in Int /\ z \in 0..(b - 1) /\ y = b * f + z
  BY <1>3, <1>4, <1>5
<1> HIDE DEF y, f, z
<1>7. y % b = z
  BY <1>6, Remainder
<1> QED BY <1>7 DEF y, z

\* Fewer than b successive numbers have different remainders.
LEMMA Apart ==
    ASSUME NEW b \in Nat \ {0}, NEW x \in Nat, NEW y \in Nat, x < y, y < x + b
    PROVE  x % b # y % b
<1> SUFFICES ASSUME x % b = y % b PROVE FALSE
  OBVIOUS
<1>1. PICK d \in Int : x = b * d + (x % b)
  BY Division
<1>2. PICK f \in Int : y = b * f + (y % b)
  BY Division
<1>3. b * f - b * d = y - x
  <2>1. x % b \in Int /\ y % b \in Int
    BY Division
  <2>2. b * d \in Int /\ b * f \in Int
    OBVIOUS
  <2> QED BY <1>1, <1>2, <2>1, <2>2
<1>4. CASE f <= d
  <2>1. b * f <= b * d
    BY <1>4, SMTT(20)
  <2> QED BY <1>3, <2>1
<1>5. CASE f >= d + 1
  <2>1. b * f >= b * (d + 1)
    BY <1>5, SMTT(20)
  <2>2. b * (d + 1) = b * d + b
    BY SMTT(20)
  <2> QED BY <1>3, <2>1, <2>2
<1> QED BY <1>4, <1>5

LEMMA LeastIs ==
    ASSUME NEW T \in SUBSET Nat, T # {}
    PROVE  Min(T) \in T /\ \A y \in T : Min(T) <= y
<1> DEFINE R == {pair \in Nat \X Nat : pair[1] < pair[2]}
<1>1. IsWellFoundedOn(R, Nat)
  BY NatLessThanWellFounded DEF OpToRel
<1>2. \E x \in T : \A y \in T : ~ (<<y, x>> \in R)
  <2> HIDE DEF R
  <2> QED BY <1>1, WFMin
<1>3. PICK x \in T : \A y \in T : ~ (<<y, x>> \in R)
  BY <1>2
<1>4. ASSUME NEW y \in T PROVE x <= y
  <2>1. x \in Nat /\ y \in Nat
    OBVIOUS
  <2>2. <<y, x>> \in R <=> y < x
    BY <2>1
  <2> QED BY <1>3, <2>1, <2>2
<1> QED BY <1>4 DEF Min

-----------------------------------------------------------------------------
(* Tty: counters.                                                           *)

LEMMA CountIs ==
    ASSUME NEW a \in Places, NEW b \in Places
    PROVE  /\ Count(a, b) = IF a <= b THEN b - a ELSE b - a + W
           /\ Count(a, b) \in Places
<1> DEFINE x == b - a
<1>1. W \in Nat \ {0} /\ x \in (0 - W)..(2 * W - 1) /\ Count(a, b) = x % W
  BY TtyAssumption DEF Count, Places
<1> HIDE DEF x
<1>2. x % W = IF x < 0 THEN x + W ELSE IF x < W THEN x ELSE x - W
  BY <1>1, OneTurn
<1> QED BY <1>1, <1>2 DEF x, Places

LEMMA Ahead ==
    ASSUME NEW a \in Places, NEW j \in Places
    PROVE  /\ (a + j) % W = IF a + j < W THEN a + j ELSE a + j - W
           /\ (a + j) % W \in Places
<1> DEFINE x == a + j
<1>1. W \in Nat \ {0} /\ x \in (0 - W)..(2 * W - 1) /\ x >= 0
  BY TtyAssumption DEF Places
<1> HIDE DEF x
<1>2. x % W = IF x < 0 THEN x + W ELSE IF x < W THEN x ELSE x - W
  BY <1>1, OneTurn
<1>3. (x % W) \in Places /\ x % W = IF x < W THEN x ELSE x - W
  BY <1>1, <1>2 DEF Places
<1>4. a \in Int /\ j \in Int /\ W \in Int
  BY TtyAssumption DEF Places
<1> QED BY <1>3, <1>4 DEF x

LEMMA Behind ==
    ASSUME NEW a \in Places, NEW j \in Places
    PROVE  /\ (a - j) % W = IF a >= j THEN a - j ELSE a - j + W
           /\ (a - j) % W \in Places
<1> DEFINE x == a - j
<1>1. W \in Nat \ {0} /\ x \in (0 - W)..(2 * W - 1) /\ x < W
  BY TtyAssumption DEF Places
<1> HIDE DEF x
<1>2. x % W = IF x < 0 THEN x + W ELSE IF x < W THEN x ELSE x - W
  BY <1>1, OneTurn
<1>3. (x % W) \in Places /\ x % W = IF x < 0 THEN x + W ELSE x
  BY <1>1, <1>2 DEF Places
<1>4. x < 0 <=> ~(a >= j)
  BY TtyAssumption DEF x, Places
<1> QED BY <1>3, <1>4 DEF x

\* The slots on from where a counter goes, seen from where it was.
LEMMA SlotAhead ==
    ASSUME NEW a \in Places, NEW b \in Places, NEW k \in Nat
    PROVE  (b + k) % INPUT_BUF_SIZE = (a + Count(a, b) + k) % INPUT_BUF_SIZE
<1>1. /\ W \in Nat /\ INPUT_BUF_SIZE \in Nat \ {0} /\ W % INPUT_BUF_SIZE = 0
      /\ a \in Nat /\ b \in Nat /\ Count(a, b) \in Nat
  BY CountIs, TtyAssumption DEF Places
<1>2. Count(a, b) = IF a <= b THEN b - a ELSE b - a + W
  BY CountIs
<1>3. CASE a <= b
  <2>1. a + Count(a, b) + k = b + k
    BY <1>1, <1>2, <1>3
  <2> QED BY <2>1
<1>4. CASE ~(a <= b)
  <2> DEFINE x == a + Count(a, b) + k
  <2>1. x \in Nat /\ x >= W /\ x - W = b + k
    BY <1>1, <1>2, <1>4
  <2> HIDE DEF x
  <2>2. (x - W) % INPUT_BUF_SIZE = x % INPUT_BUF_SIZE
    BY <1>1, <2>1, WrapSlot
  <2> QED BY <2>1, <2>2 DEF x
<1> QED BY <1>3, <1>4

-----------------------------------------------------------------------------
(* Tty: what the ring holds.                                                *)

LEMMA NthIs ==
    ASSUME NEW g \in [Slots -> Letters], NEW a \in Places, NEW k \in Nat \ {0}
    PROVE  (a + k - 1) % INPUT_BUF_SIZE \in Slots /\ Nth(g, a, k) \in Letters
<1> DEFINE y == a + k - 1
<1>1. y \in Nat /\ INPUT_BUF_SIZE \in Nat \ {0}
  BY TtyAssumption DEF Places
<1> HIDE DEF y
<1>2. (y % INPUT_BUF_SIZE) \in Slots
  BY <1>1, Division DEF Slots
<1> QED BY <1>2 DEF y, Nth

LEMMA HeldIs ==
    ASSUME NEW g \in [Slots -> Letters], NEW a \in Places, NEW b \in Places
    PROVE  /\ Held(g, a, b) \in Seq(Letters) /\ Len(Held(g, a, b)) = Count(a, b)
           /\ Count(a, b) \in Nat
           /\ \A k \in 1..Count(a, b) : Held(g, a, b)[k] = Nth(g, a, k)
<1>1. Count(a, b) \in Nat
  BY CountIs, TtyAssumption DEF Places
<1>2. \A k \in 1..Count(a, b) : Nth(g, a, k) \in Letters
  BY <1>1, NthIs
<1>3. Held(g, a, b) = [k \in 1..Count(a, b) |-> Nth(g, a, k)]
  BY DEF Held, Nth
<1>4. Held(g, a, b) \in [1..Count(a, b) -> Letters]
  BY <1>2, <1>3
<1>5. Held(g, a, b) \in Seq(Letters)
  BY <1>1, <1>4
<1>6. Len(Held(g, a, b)) = Count(a, b)
  BY <1>1, <1>4, <1>5, LenProperties
<1> QED BY <1>1, <1>3, <1>5, <1>6

\* What follows b is what comes after a and b.
LEMMA NthAhead ==
    ASSUME NEW g, NEW a \in Places, NEW b \in Places, NEW k \in Nat \ {0}
    PROVE  Nth(g, b, k) = Nth(g, a, Count(a, b) + k)
<1> DEFINE j == k - 1
<1>1. j \in Nat /\ Count(a, b) \in Nat /\ a \in Nat /\ b \in Nat
  BY CountIs, TtyAssumption DEF Places
<1>2. b + k - 1 = b + j /\ a + (Count(a, b) + k) - 1 = a + Count(a, b) + j
  BY <1>1
<1> HIDE DEF j
<1>3. (b + j) % INPUT_BUF_SIZE = (a + Count(a, b) + j) % INPUT_BUF_SIZE
  BY <1>1, SlotAhead
<1> QED BY <1>2, <1>3 DEF Nth

LEMMA NthStays ==
    ASSUME NEW g \in [Slots -> Letters], NEW x \in Letters,
           NEW a \in Places, NEW c \in Places, Count(a, c) < INPUT_BUF_SIZE,
           NEW h, h = Put(g, c, x)
    PROVE  /\ h \in [Slots -> Letters] /\ Nth(h, a, Count(a, c) + 1) = x
           /\ \A k \in 1..Count(a, c) : Nth(h, a, k) = Nth(g, a, k)
<1> DEFINE n == Count(a, c)
           to == (a + (n + 1) - 1) % INPUT_BUF_SIZE
<1>1. n \in Nat /\ n < INPUT_BUF_SIZE /\ INPUT_BUF_SIZE \in Nat \ {0} /\ a \in Nat /\ c \in Nat
  BY CountIs, TtyAssumption DEF Places
<1>2. c % INPUT_BUF_SIZE = to
  <2>1. (c + 0) % INPUT_BUF_SIZE = (a + n + 0) % INPUT_BUF_SIZE
    BY SlotAhead
  <2>2. c + 0 = c /\ a + n + 0 = a + (n + 1) - 1
    BY <1>1
  <2> QED BY <2>1, <2>2
<1>3. to \in Slots
  <2>1. n + 1 \in Nat \ {0}
    BY <1>1
  <2> HIDE DEF n
  <2> QED BY <2>1, NthIs
<1>4. ASSUME NEW k \in 1..n PROVE (a + k - 1) % INPUT_BUF_SIZE # to
  <2> DEFINE y == a + k - 1  z == a + (n + 1) - 1
  <2>1. y \in Nat /\ z \in Nat /\ y < z /\ z < y + INPUT_BUF_SIZE
    BY <1>1
  <2> HIDE DEF y, z
  <2>2. y % INPUT_BUF_SIZE # z % INPUT_BUF_SIZE
    BY <1>1, <2>1, Apart
  <2> QED BY <2>2 DEF y, z
<1>5. \A k \in 1..n : (a + k - 1) % INPUT_BUF_SIZE \in Slots
  BY <1>1, NthIs
<1>6. h = [g EXCEPT ![to] = x]
  BY <1>2 DEF Put
<1>7. Nth(h, a, n + 1) = x
  <2>1. h[to] = x
    BY <1>3, <1>6
  <2> QED BY <2>1 DEF Nth
<1>8. ASSUME NEW k \in 1..n PROVE Nth(h, a, k) = Nth(g, a, k)
  <2> DEFINE i == (a + k - 1) % INPUT_BUF_SIZE
  <2>1. i \in Slots /\ i # to
    BY <1>4, <1>5
  <2> HIDE DEF i, to
  <2>2. h[i] = g[i]
    BY <1>6, <2>1
  <2> QED BY <2>2 DEF i, Nth
<1>9. h \in [Slots -> Letters]
  <2> HIDE DEF to
  <2> QED BY <1>3, <1>6
<1> QED BY <1>7, <1>8, <1>9

\* The counts after one or several characters more, or less.
LEMMA CountMore ==
    ASSUME NEW a \in Places, NEW c \in Places, Count(a, c) < INPUT_BUF_SIZE
    PROVE  (c + 1) % W \in Places /\ Count(a, (c + 1) % W) = Count(a, c) + 1
<1> DEFINE d == (c + 1) % W
<1>1. W \in Nat /\ W > INPUT_BUF_SIZE /\ INPUT_BUF_SIZE \in Nat \ {0} /\ 1 \in Places
  BY TtyAssumption DEF Places
<1>2. d = (IF c + 1 < W THEN c + 1 ELSE c + 1 - W) /\ d \in Places
  BY <1>1, Ahead
<1> HIDE DEF d
<1>3. Count(a, c) = IF a <= c THEN c - a ELSE c - a + W
  BY CountIs
<1>4. Count(a, d) = IF a <= d THEN d - a ELSE d - a + W
  BY <1>2, CountIs
<1>5. Count(a, d) = Count(a, c) + 1
  BY <1>1, <1>2, <1>3, <1>4 DEF Places
<1> QED BY <1>2, <1>5 DEF d

LEMMA CountLess ==
    ASSUME NEW a \in Places, NEW c \in Places, NEW j \in 0..Count(a, c)
    PROVE  (c - j) % W \in Places /\ Count(a, (c - j) % W) = Count(a, c) - j
<1> DEFINE d == (c - j) % W
<1>1. W \in Nat /\ j \in Places /\ Count(a, c) \in Places
  BY CountIs, TtyAssumption DEF Places
<1>2. d = (IF c >= j THEN c - j ELSE c - j + W) /\ d \in Places
  BY <1>1, Behind
<1> HIDE DEF d
<1>3. Count(a, c) = IF a <= c THEN c - a ELSE c - a + W
  BY CountIs
<1>4. Count(a, d) = IF a <= d THEN d - a ELSE d - a + W
  BY <1>2, CountIs
<1>5. Count(a, d) = Count(a, c) - j
  BY <1>1, <1>2, <1>3, <1>4 DEF Places
<1> QED BY <1>2, <1>5 DEF d

LEMMA CountTaken ==
    ASSUME NEW a \in Places, NEW c \in Places, NEW j \in 0..Count(a, c)
    PROVE  /\ (a + j) % W \in Places /\ Count((a + j) % W, c) = Count(a, c) - j
           /\ Count(a, (a + j) % W) = j
<1> DEFINE d == (a + j) % W
<1>1. W \in Nat /\ j \in Places /\ Count(a, c) \in Places
  BY CountIs, TtyAssumption DEF Places
<1>2. d = (IF a + j < W THEN a + j ELSE a + j - W) /\ d \in Places
  BY <1>1, Ahead
<1> HIDE DEF d
<1>3. Count(a, c) = IF a <= c THEN c - a ELSE c - a + W
  BY CountIs
<1>4. Count(d, c) = IF d <= c THEN c - d ELSE c - d + W
  BY <1>2, CountIs
<1>5. Count(a, d) = IF a <= d THEN d - a ELSE d - a + W
  BY <1>2, CountIs
<1>6. Count(d, c) = Count(a, c) - j
  BY <1>1, <1>2, <1>3, <1>4 DEF Places
<1>7. Count(a, d) = j
  BY <1>1, <1>2, <1>5 DEF Places
<1> QED BY <1>2, <1>6, <1>7 DEF d

LEMMA Empty ==
    ASSUME NEW g, NEW a \in Places
    PROVE  Count(a, a) = 0 /\ Held(g, a, a) = <<>>
<1>1. Count(a, a) = 0
  BY CountIs, TtyAssumption DEF Places
<1> QED BY <1>1 DEF Held

\* A character stored at c.
LEMMA StoreIs ==
    ASSUME NEW g \in [Slots -> Letters], NEW x \in Letters,
           NEW a \in Places, NEW b \in Places, NEW c \in Places,
           Count(a, b) + Count(b, c) = Count(a, c), Count(a, c) < INPUT_BUF_SIZE,
           NEW h, h = Put(g, c, x), NEW d, d = Past(c)
    PROVE  /\ Held(h, a, b) = Held(g, a, b)
           /\ Held(h, b, d) = Append(Held(g, b, c), x)
           /\ Held(h, a, d) = Held(g, a, b) \o Append(Held(g, b, c), x)
<1> DEFINE n == Count(a, b)  m == Count(b, c)
<1>1. /\ h \in [Slots -> Letters] /\ Nth(h, a, Count(a, c) + 1) = x
      /\ \A k \in 1..Count(a, c) : Nth(h, a, k) = Nth(g, a, k)
  BY NthStays
<1>2. n \in Nat /\ m \in Nat /\ n + m = Count(a, c) /\ m < INPUT_BUF_SIZE
  <2>1. n \in Nat /\ m \in Nat
    BY HeldIs
  <2>2. INPUT_BUF_SIZE \in Nat
    BY TtyAssumption
  <2>3. n + m = Count(a, c)
    OBVIOUS
  <2> HIDE DEF n, m
  <2> QED BY <2>1, <2>2, <2>3
<1>3. /\ d \in Places /\ Count(a, d) = n + m + 1 /\ Count(b, d) = m + 1
  BY <1>2, CountMore DEF Past
<1>4. /\ Held(g, a, b) \in Seq(Letters) /\ Len(Held(g, a, b)) = n
      /\ \A k \in 1..n : Held(g, a, b)[k] = Nth(g, a, k)
  BY HeldIs
<1>5. /\ Held(h, a, b) \in Seq(Letters) /\ Len(Held(h, a, b)) = n
      /\ \A k \in 1..n : Held(h, a, b)[k] = Nth(h, a, k)
  BY <1>1, HeldIs
<1>6. /\ Held(g, b, c) \in Seq(Letters) /\ Len(Held(g, b, c)) = m
      /\ \A k \in 1..m : Held(g, b, c)[k] = Nth(g, b, k)
  BY HeldIs
<1>7. /\ Held(h, b, d) \in Seq(Letters) /\ Len(Held(h, b, d)) = m + 1
      /\ \A k \in 1..(m + 1) : Held(h, b, d)[k] = Nth(h, b, k)
  <2>1. /\ Held(h, b, d) \in Seq(Letters) /\ Len(Held(h, b, d)) = Count(b, d)
        /\ \A k \in 1..Count(b, d) : Held(h, b, d)[k] = Nth(h, b, k)
    BY <1>1, <1>3, HeldIs
  <2> QED BY <1>3, <2>1
<1>8. /\ Held(h, a, d) \in Seq(Letters) /\ Len(Held(h, a, d)) = n + m + 1
      /\ \A k \in 1..(n + m + 1) : Held(h, a, d)[k] = Nth(h, a, k)
  <2>1. /\ Held(h, a, d) \in Seq(Letters) /\ Len(Held(h, a, d)) = Count(a, d)
        /\ \A k \in 1..Count(a, d) : Held(h, a, d)[k] = Nth(h, a, k)
    BY <1>1, <1>3, HeldIs
  <2> QED BY <1>3, <2>1
<1>9. \A k \in 1..(m + 1) : Nth(h, b, k) = Nth(h, a, n + k) /\ Nth(g, b, k) = Nth(g, a, n + k)
  BY <1>2, NthAhead
<1> DEFINE s == Append(Held(g, b, c), x)
<1>10. /\ s \in Seq(Letters) /\ Len(s) = m + 1 /\ s[m + 1] = x
       /\ \A k \in 1..m : s[k] = Nth(g, b, k)
  BY <1>6, AppendProperties
<1> HIDE DEF s, n, m
<1>11. Held(h, a, b) = Held(g, a, b)
  <2>1. \A k \in 1..n : Nth(h, a, k) = Nth(g, a, k)
    BY <1>1, <1>2
  <2> QED BY <1>4, <1>5, <2>1, SeqEqual
<1>12. Held(h, b, d) = s
  <2>1. ASSUME NEW k \in 1..(m + 1) PROVE Held(h, b, d)[k] = s[k]
    <3>1. CASE k \in 1..m
      <4>1. n + k \in 1..Count(a, c)
        BY <1>2, <3>1
      <4>2. Nth(h, a, n + k) = Nth(g, a, n + k)
        BY <1>1, <4>1
      <4> QED BY <1>7, <1>9, <1>10, <3>1, <4>2
    <3>2. CASE k = m + 1
      <4>1. n + k = Count(a, c) + 1
        BY <1>2, <3>2
      <4> QED BY <1>1, <1>7, <1>9, <1>10, <3>2, <4>1
    <3> QED BY <1>2, <3>1, <3>2
  <2> QED BY <1>7, <1>10, <2>1, SeqEqual
<1>13. Held(h, a, d) = Held(g, a, b) \o s
  <2> DEFINE t == Held(g, a, b) \o s
  <2>1. /\ t \in Seq(Letters) /\ Len(t) = n + m + 1
        /\ \A k \in 1..(n + m + 1) : t[k] = IF k <= n THEN Held(g, a, b)[k] ELSE s[k - n]
    <3> DEFINE o == Held(g, a, b)
    <3>1. o \in Seq(Letters) /\ s \in Seq(Letters) /\ Len(o) = n /\ Len(s) = m + 1
      BY <1>4, <1>10
    <3> HIDE DEF o
    <3>2. /\ o \o s \in Seq(Letters) /\ Len(o \o s) = n + (m + 1)
          /\ \A k \in 1..(n + (m + 1)) : (o \o s)[k] = IF k <= n THEN o[k] ELSE s[k - n]
      <4>1. /\ o \o s \in Seq(Letters) /\ Len(o \o s) = Len(o) + Len(s)
            /\ \A k \in 1..(Len(o) + Len(s)) : (o \o s)[k] = IF k <= Len(o) THEN o[k] ELSE s[k - Len(o)]
        BY <3>1, ConcatProperties
      <4> QED BY <3>1, <4>1
    <3>3. n + (m + 1) = n + m + 1
      BY <1>2
    <3> QED BY <3>2, <3>3 DEF o
  <2> HIDE DEF t
  <2>2. ASSUME NEW k \in 1..(n + m + 1) PROVE Held(h, a, d)[k] = t[k]
    <3>1. CASE k <= n
      <4>1. k \in 1..n /\ k \in 1..Count(a, c)
        BY <1>2, <3>1
      <4> QED BY <1>1, <1>4, <1>8, <2>1, <3>1, <4>1
    <3>2. CASE ~(k <= n)
      <4> DEFINE j == k - n
      <4>1. j \in 1..(m + 1) /\ k = n + j
        BY <1>2, <3>2
      <4> HIDE DEF j
      <4>2. t[k] = s[j]
        BY <1>2, <2>1, <3>2, <4>1
      <4>3. Held(h, b, d)[j] = s[j]
        BY <1>12
      <4>4. Nth(h, b, j) = s[j]
        BY <1>7, <4>1, <4>3
      <4>5. Nth(h, a, k) = s[j]
        BY <1>9, <4>1, <4>4
      <4> QED BY <1>8, <4>2, <4>5
    <3> QED BY <3>1, <3>2
  <2> QED BY <1>8, <2>1, <2>2, SeqEqual DEF t
<1> QED BY <1>11, <1>12, <1>13 DEF s

\* The last j characters erased.
LEMMA EraseIs ==
    ASSUME NEW g \in [Slots -> Letters], NEW b \in Places, NEW c \in Places,
           NEW j \in 0..Count(b, c)
    PROVE  Held(g, b, (c - j) % W) = SubSeq(Held(g, b, c), 1, Count(b, c) - j)
<1> DEFINE d == (c - j) % W  n == Count(b, c)  s == Held(g, b, c)  t == SubSeq(s, 1, n - j)
<1>1. d \in Places /\ Count(b, d) = n - j
  BY CountLess
<1> HIDE DEF d
<1>2. /\ s \in Seq(Letters) /\ n \in Nat /\ \A k \in 1..n : s[k] = Nth(g, b, k) /\ s[k] \in Letters
  <2>1. s \in Seq(Letters) /\ Len(s) = n /\ n \in Nat /\ \A k \in 1..n : s[k] = Nth(g, b, k)
    BY HeldIs
  <2> QED BY <2>1, NthIs
<1>3. /\ Held(g, b, d) \in Seq(Letters) /\ Len(Held(g, b, d)) = n - j
      /\ \A k \in 1..(n - j) : Held(g, b, d)[k] = Nth(g, b, k)
  <2>1. /\ Held(g, b, d) \in Seq(Letters) /\ Len(Held(g, b, d)) = Count(b, d)
        /\ \A k \in 1..Count(b, d) : Held(g, b, d)[k] = Nth(g, b, k)
    BY <1>1, HeldIs
  <2> QED BY <1>1, <2>1
<1>4. j \in 0..n
  OBVIOUS
<1> HIDE DEF s, n
<1>5. /\ t \in Seq(Letters) /\ Len(t) = n - j /\ \A k \in 1..(n - j) : t[k] = s[k]
  <2> DEFINE i == n - j
  <2>1. i \in Nat /\ \A k \in 1..i : s[k] \in Letters
    BY <1>2, <1>4
  <2> HIDE DEF i
  <2>2. /\ SubSeq(s, 1, i) \in Seq(Letters) /\ Len(SubSeq(s, 1, i)) = (IF 1 <= i THEN i - 1 + 1 ELSE 0)
        /\ \A k \in 1..(i - 1 + 1) : SubSeq(s, 1, i)[k] = s[1 + k - 1]
    BY <2>1, SubSeqProperties
  <2>3. Len(SubSeq(s, 1, i)) = i
    BY <2>1, <2>2
  <2>4. ASSUME NEW k \in 1..i PROVE SubSeq(s, 1, i)[k] = s[k]
    <3>1. k \in 1..(i - 1 + 1) /\ 1 + k - 1 = k
      BY <2>1
    <3> QED BY <2>2, <3>1
  <2> QED BY <2>2, <2>3, <2>4 DEF i
<1> HIDE DEF t
<1>6. \A k \in 1..(n - j) : Held(g, b, d)[k] = t[k]
  BY <1>2, <1>3, <1>4, <1>5
<1>7. Held(g, b, d) = t
  BY <1>3, <1>5, <1>6, SeqEqual
<1> QED BY <1>7 DEF d, t, s, n

\* The first j characters read.
LEMMA TakeIs ==
    ASSUME NEW g \in [Slots -> Letters], NEW a \in Places, NEW b \in Places,
           NEW j \in 0..Count(a, b)
    PROVE  Held(g, (a + j) % W, b) = SubSeq(Held(g, a, b), j + 1, Count(a, b))
<1> DEFINE d == (a + j) % W  n == Count(a, b)  s == Held(g, a, b)  t == SubSeq(s, j + 1, n)
<1>1. d \in Places /\ Count(d, b) = n - j /\ Count(a, d) = j
  BY CountTaken
<1> HIDE DEF d
<1>2. /\ s \in Seq(Letters) /\ n \in Nat /\ \A k \in 1..n : s[k] = Nth(g, a, k) /\ s[k] \in Letters
  <2>1. s \in Seq(Letters) /\ Len(s) = n /\ n \in Nat /\ \A k \in 1..n : s[k] = Nth(g, a, k)
    BY HeldIs
  <2> QED BY <2>1, NthIs
<1>3. /\ Held(g, d, b) \in Seq(Letters) /\ Len(Held(g, d, b)) = n - j
      /\ \A k \in 1..(n - j) : Held(g, d, b)[k] = Nth(g, d, k)
  <2>1. /\ Held(g, d, b) \in Seq(Letters) /\ Len(Held(g, d, b)) = Count(d, b)
        /\ \A k \in 1..Count(d, b) : Held(g, d, b)[k] = Nth(g, d, k)
    BY <1>1, HeldIs
  <2> QED BY <1>1, <2>1
<1>4. j \in 0..n
  OBVIOUS
<1>5. ASSUME NEW k \in 1..(n - j) PROVE Nth(g, d, k) = s[j + k]
  <2>1. k \in Nat \ {0} /\ j + k \in 1..n
    BY <1>2, <1>4
  <2>2. Nth(g, d, k) = Nth(g, a, Count(a, d) + k)
    BY <1>1, <2>1, NthAhead
  <2> QED BY <1>1, <1>2, <2>1, <2>2
<1> HIDE DEF s, n
<1>6. /\ t \in Seq(Letters) /\ Len(t) = n - j /\ \A k \in 1..(n - j) : t[k] = s[j + k]
  <2> DEFINE i == j + 1
  <2>1. i \in Int /\ n \in Int /\ \A k \in i..n : s[k] \in Letters
    BY <1>2, <1>4
  <2>5. i = j + 1
    OBVIOUS
  <2> HIDE DEF i
  <2>2. /\ SubSeq(s, i, n) \in Seq(Letters) /\ Len(SubSeq(s, i, n)) = (IF i <= n THEN n - i + 1 ELSE 0)
        /\ \A k \in 1..(n - i + 1) : SubSeq(s, i, n)[k] = s[i + k - 1]
    BY <2>1, SubSeqProperties
  <2>3. Len(SubSeq(s, i, n)) = n - j
    BY <1>4, <2>1, <2>2, <2>5
  <2>4. ASSUME NEW k \in 1..(n - j) PROVE SubSeq(s, i, n)[k] = s[j + k]
    <3>1. k \in 1..(n - i + 1) /\ i + k - 1 = j + k
      BY <1>4, <2>1, <2>5
    <3> QED BY <2>2, <3>1
  <2> QED BY <2>2, <2>3, <2>4 DEF i
<1> HIDE DEF t
<1>7. \A k \in 1..(n - j) : Held(g, d, b)[k] = t[k]
  BY <1>3, <1>5, <1>6
<1>8. Held(g, d, b) = t
  BY <1>3, <1>6, <1>7, SeqEqual
<1> QED BY <1>8 DEF d, t, s, n

-----------------------------------------------------------------------------
(* Tty: steps that leave the ring alone.                                    *)

LEMMA RingsAre ==
    /\ Ring(r, w) = Held(ring, r, w) /\ Ring(w, e) = Held(ring, w, e)
    /\ Ring(r, w)' = Held(ring', r', w') /\ Ring(w, e)' = Held(ring', w', e')
BY DEF Ring, Held, At, Count

LEMMA CalmEdits == UNCHANGED cons => Edits
BY RingsAre DEF cons, Edits

LEMMA WokenIs ==
    ASSUME io \in [Users -> Calls], NEW s, NEW on \in {"write", "read"}
    PROVE  /\ Woken(s, on) \in [Users -> Calls]
           /\ \A p \in Users : /\ Woken(s, on)[p].n = io[p].n
                               /\ Woken(s, on)[p].at = IF io[p].at = s THEN on ELSE io[p].at
<1>1. ASSUME NEW p \in Users
      PROVE  LET c == [io[p] EXCEPT !.at = IF @ = s THEN on ELSE @]
             IN  c \in Calls /\ c.n = io[p].n /\ c.at = IF io[p].at = s THEN on ELSE io[p].at
  <2>1. io[p] \in Calls
    OBVIOUS
  <2> QED BY <2>1 DEF Calls
<1> QED BY <1>1 DEF Woken

\* Only p does something, which is no reason to wait.
LEMMA QuietKeeps ==
    ASSUME IInv, NEW p \in Users, NEW c \in Calls, io' = [io EXCEPT ![p] = c],
           UNCHANGED <<cons, rx, uart>>,
           c.at \in {"write", "wsleep"} => c.n > 0,
           c.at = "wsleep" => Len(txq) = UART_TX_BUF_SIZE, c.at = "rsleep" => r = w
    PROVE  IInv' /\ Edits
<1>1. UNCHANGED <<r, w, e, ring, rx, txq, idle, uirq, uintr>>
  BY DEF cons, uart
<1>2. io \in [Users -> Calls]
  BY DEF IInv, TtyTypeOK
<1>3. io' \in [Users -> Calls] /\ \A q \in Users : io'[q] = IF q = p THEN c ELSE io[q]
  BY <1>2
<1>4. TtyTypeOK'
  BY <1>1, <1>3 DEF IInv, TtyTypeOK
<1>5. RingRight'
  BY <1>1 DEF IInv, RingRight, Count
<1>6. AsksRight'
  BY <1>3 DEF IInv, AsksRight
<1>7. IOGoesOn'
  BY <1>1, <1>3 DEF IInv, IOGoesOn
<1> QED BY <1>4, <1>5, <1>6, <1>7, CalmEdits DEF IInv

LEMMA CallKeeps ==
    ASSUME IInv, NEW p \in Users, consolewrite(p) \/ consoleread(p)
    PROVE  IInv' /\ Edits
<1>1. PICK n \in Nat : n > 0 /\ (Do(p, "write", n, FALSE) \/ Do(p, "read", n, FALSE))
  <2>1. MaxRead \in Nat /\ MaxWrite \in Nat
    BY TtyAssumption
  <2>2. CASE consolewrite(p)
    <3>1. PICK n \in 1..MaxWrite : Do(p, "write", n, FALSE)
      BY <2>2 DEF consolewrite
    <3>2. n \in Nat /\ n > 0
      BY <2>1
    <3> QED BY <3>1, <3>2
  <2>3. CASE consoleread(p)
    <3>1. PICK n \in 1..MaxRead : Do(p, "read", n, FALSE)
      BY <2>3 DEF consoleread
    <3>2. n \in Nat /\ n > 0
      BY <2>1
    <3> QED BY <3>1, <3>2
  <2> QED BY <2>2, <2>3
<1>2. UNCHANGED <<cons, rx, uart>>
  BY DEF consolewrite, consoleread
<1>3. PICK at \in {"write", "read"} : io' = [io EXCEPT ![p] = [at |-> at, n |-> n, got |-> FALSE]]
  BY <1>1 DEF Do
<1> DEFINE c == [at |-> at, n |-> n, got |-> FALSE]
<1>4. c \in Calls /\ c.n > 0 /\ c.at \notin {"wsleep", "rsleep"} /\ io' = [io EXCEPT ![p] = c]
  BY <1>1, <1>3 DEF Calls
<1> HIDE DEF c
<1> QED BY <1>2, <1>4, QuietKeeps

LEMMA KillKeeps ==
    ASSUME IInv, NEW p \in Users, ttykill(p)
    PROVE  IInv' /\ Edits
<1>1. UNCHANGED <<cons, rx, uart>>
  BY DEF ttykill
<1>2. io[p] \in Calls /\ (io[p].at = "wsleep" => io[p].n > 0)
  BY DEF IInv, TtyTypeOK, AsksRight
<1>3. PICK c : /\ io' = [io EXCEPT ![p] = c]
               /\ \/ c = [at |-> "write", n |-> io[p].n, got |-> FALSE] /\ io[p].at = "wsleep"
                  \/ c = [at |-> "user", n |-> 0, got |-> FALSE]
                  \/ c = [at |-> "read", n |-> io[p].n, got |-> io[p].got]
  BY DEF ttykill, Do
<1>4. c \in Calls /\ c.at \in {"write", "user", "read"} /\ (c.at = "write" => c.n > 0)
  <2>1. CASE c = [at |-> "write", n |-> io[p].n, got |-> FALSE] /\ io[p].at = "wsleep"
    BY <1>2, <2>1 DEF Calls
  <2>2. CASE c = [at |-> "user", n |-> 0, got |-> FALSE]
    BY <2>2 DEF Calls
  <2>3. CASE c = [at |-> "read", n |-> io[p].n, got |-> io[p].got]
    <3>1. io[p].n \in Nat /\ io[p].got \in BOOLEAN
      BY <1>2 DEF Calls
    <3> DEFINE n == io[p].n  got == io[p].got
    <3> HIDE DEF n, got
    <3>2. n \in Nat /\ got \in BOOLEAN /\ c = [at |-> "read", n |-> n, got |-> got]
      BY <2>3, <3>1 DEF n, got
    <3> QED BY <3>2 DEF Calls
  <2> QED BY <1>3, <2>1, <2>2, <2>3
<1> QED BY <1>1, <1>3, <1>4, QuietKeeps

\* uartstart() sends, or cannot.
LEMMA StartIs ==
    ASSUME NEW q \in Seq({"c"}), idle \in BOOLEAN, uartstart(q)
    PROVE  /\ txq' \in Seq({"c"}) /\ idle' \in BOOLEAN /\ (txq' # <<>> => ~idle')
           /\ ~Sends(q) => txq' = q
<1>1. CASE Sends(q)
  <2>1. txq' = Tail(q) /\ idle' = FALSE /\ q # <<>>
    BY <1>1 DEF uartstart, Sends
  <2>2. Tail(q) \in Seq({"c"})
    BY <2>1, HeadTailProperties
  <2> QED BY <1>1, <2>1, <2>2
<1>2. CASE ~Sends(q)
  <2>1. txq' = q /\ idle' = idle /\ (q = <<>> \/ ~idle)
    BY <1>2 DEF uartstart, Sends
  <2> QED BY <1>2, <2>1
<1> QED BY <1>1, <1>2

\* Those who wait for the transmit buffer go on if a character is sent.
LEMMA WritersGoOn ==
    ASSUME io \in [Users -> Calls], NEW q
    PROVE  LET woken == IF Sends(q) THEN Woken("wsleep", "write") ELSE io
           IN  /\ woken \in [Users -> Calls]
               /\ \A p \in Users : /\ woken[p].n = io[p].n
                                   /\ woken[p].at = "rsleep" => io[p].at = "rsleep"
                                   /\ woken[p].at = "write" => io[p].at \in {"write", "wsleep"}
                                   /\ woken[p].at = "wsleep" => io[p].at = "wsleep" /\ ~Sends(q)
<1>1. CASE Sends(q)
  <2> DEFINE x == Woken("wsleep", "write")
  <2>1. /\ x \in [Users -> Calls]
        /\ \A p \in Users : x[p].n = io[p].n /\ x[p].at = IF io[p].at = "wsleep" THEN "write" ELSE io[p].at
    BY WokenIs
  <2> HIDE DEF x
  <2>2. \A p \in Users : /\ x[p].n = io[p].n /\ x[p].at # "wsleep"
                         /\ x[p].at = "rsleep" => io[p].at = "rsleep"
                         /\ x[p].at = "write" => io[p].at \in {"write", "wsleep"}
    BY <2>1
  <2> QED BY <1>1, <2>1, <2>2 DEF x
<1>2. CASE ~Sends(q)
  BY <1>2
<1> QED BY <1>1, <1>2

LEMMA PutcKeeps ==
    ASSUME IInv, NEW p \in Users, uartputc(p)
    PROVE  IInv' /\ Edits
<1>1. /\ io[p].at = "write" /\ UNCHANGED <<cons, rx, uirq, uintr>>
      /\ io[p] \in Calls /\ io[p].n \in Nat /\ io[p].n > 0
      /\ io \in [Users -> Calls] /\ txq \in Seq({"c"}) /\ idle \in BOOLEAN
  BY DEF uartputc, IInv, TtyTypeOK, AsksRight, Calls
<1>2. CASE Len(txq) = UART_TX_BUF_SIZE
  <2> DEFINE n == io[p].n  c == [at |-> "wsleep", n |-> n, got |-> FALSE]
  <2>1. n \in Nat /\ n > 0 /\ io' = [io EXCEPT ![p] = c] /\ UNCHANGED <<txq, idle>>
    BY <1>1, <1>2 DEF uartputc, Do
  <2>2. UNCHANGED <<cons, rx, uart>>
    BY <1>1, <2>1 DEF uart
  <2>3. c \in Calls /\ c.at = "wsleep" /\ c.n > 0
    <3> HIDE DEF n
    <3> QED BY <2>1 DEF Calls
  <2> HIDE DEF c
  <2> QED BY <1>2, <2>1, <2>2, <2>3, QuietKeeps
<1>3. CASE Len(txq) # UART_TX_BUF_SIZE
  <2> DEFINE q == Append(txq, "c")
             woken == IF Sends(q) THEN Woken("wsleep", "write") ELSE io
             n == io[p].n
             c == [at |-> IF n = 1 THEN "user" ELSE "write", n |-> n - 1, got |-> FALSE]
  <2>1. uartstart(q) /\ io' = [woken EXCEPT ![p] = c]
    BY <1>3 DEF uartputc
  <2>2. q \in Seq({"c"}) /\ n \in Nat /\ n > 0
    BY <1>1
  <2>3. c \in Calls /\ c.at \in {"user", "write"} /\ (c.at = "write" => c.n > 0)
    <3> HIDE DEF n
    <3> DEFINE m == n - 1  at == IF n = 1 THEN "user" ELSE "write"
    <3>1. m \in Nat /\ at \in {"user", "write"} /\ (at = "write" => m > 0)
      BY <2>2
    <3> HIDE DEF m, at
    <3>2. LET d == [at |-> at, n |-> m, got |-> FALSE]
          IN  d \in Calls /\ d.at = at /\ d.n = m
      BY <3>1 DEF Calls
    <3> QED BY <3>1, <3>2 DEF m, at
  <2> HIDE DEF c, n
  <2>4. /\ woken \in [Users -> Calls]
        /\ \A u \in Users : /\ woken[u].n = io[u].n
                            /\ woken[u].at = "rsleep" => io[u].at = "rsleep"
                            /\ woken[u].at = "write" => io[u].at \in {"write", "wsleep"}
                            /\ woken[u].at = "wsleep" => io[u].at = "wsleep" /\ ~Sends(q)
    <3> HIDE DEF q
    <3> QED BY <1>1, WritersGoOn, Zenon
  <2>5. /\ txq' \in Seq({"c"}) /\ idle' \in BOOLEAN /\ (txq' # <<>> => ~idle')
    <3> HIDE DEF q
    <3> QED BY <1>1, <2>1, <2>2, StartIs
  <2> HIDE DEF woken, q
  <2>6. io' \in [Users -> Calls] /\ \A u \in Users : io'[u] = IF u = p THEN c ELSE woken[u]
    BY <2>1, <2>3, <2>4
  <2>7. TtyTypeOK'
    BY <1>1, <2>5, <2>6 DEF IInv, TtyTypeOK, cons
  <2>8. RingRight'
    BY <1>1 DEF IInv, RingRight, cons, Count
  <2>9. AsksRight'
    BY <2>3, <2>4, <2>6 DEF IInv, AsksRight
  <2>10. IOGoesOn'
    <3>1. ASSUME NEW u \in Users, io'[u].at = "wsleep" PROVE FALSE
      <4>1. u # p /\ woken[u].at = "wsleep" /\ io[u].at = "wsleep"
        BY <2>3, <2>4, <2>6, <3>1
      <4> QED BY <1>3, <4>1 DEF IInv, IOGoesOn
    <3>2. ASSUME NEW u \in Users, io'[u].at = "rsleep" PROVE r' = w'
      <4>1. io[u].at = "rsleep"
        BY <2>3, <2>4, <2>6, <3>2
      <4> QED BY <1>1, <4>1 DEF IInv, IOGoesOn, cons
    <3> QED BY <2>5, <3>1, <3>2 DEF IOGoesOn
  <2> QED BY <1>1, <2>7, <2>8, <2>9, <2>10, CalmEdits DEF IInv
<1> QED BY <1>2, <1>3

\* Steps of the hardware, and where the handler begins and ends.
LEMMA LineKeeps ==
    ASSUME IInv, Transmitted \/ (\E c \in Keys : Type(c)) \/ uartintr
    PROVE  IInv' /\ Edits
<1>1. UNCHANGED <<cons, txq, io>>
  BY DEF Transmitted, Type, uartintr
<1>2. /\ rx' \in Keys \cup {"none"} /\ idle' \in BOOLEAN /\ uirq' \in BOOLEAN /\ uintr' \in BOOLEAN
      /\ uirq' \/ uintr'
  BY DEF Transmitted, Type, uartintr, IInv, TtyTypeOK
<1>3. TtyTypeOK'
  BY <1>1, <1>2 DEF IInv, TtyTypeOK, cons
<1>4. RingRight'
  BY <1>1 DEF IInv, RingRight, cons, Count
<1>5. AsksRight'
  BY <1>1 DEF IInv, AsksRight
<1>6. IOGoesOn'
  BY <1>1, <1>2 DEF IInv, IOGoesOn, cons
<1> QED BY <1>1, <1>3, <1>4, <1>5, <1>6, CalmEdits DEF IInv

LEMMA EndKeeps ==
    ASSUME IInv, uartintr_end
    PROVE  IInv' /\ Edits
<1> DEFINE woken == IF Sends(txq) THEN Woken("wsleep", "write") ELSE io
<1>1. uintr' = FALSE /\ uartstart(txq) /\ io' = woken /\ UNCHANGED <<cons, rx, uirq>>
  BY DEF uartintr_end
<1>2. io \in [Users -> Calls] /\ txq \in Seq({"c"}) /\ idle \in BOOLEAN
  BY DEF IInv, TtyTypeOK
<1>3. /\ woken \in [Users -> Calls]
      /\ \A u \in Users : /\ woken[u].n = io[u].n
                          /\ woken[u].at = "rsleep" => io[u].at = "rsleep"
                          /\ woken[u].at = "write" => io[u].at \in {"write", "wsleep"}
                          /\ woken[u].at = "wsleep" => io[u].at = "wsleep" /\ ~Sends(txq)
  BY <1>2, WritersGoOn, Zenon
<1> HIDE DEF woken
<1>4. /\ txq' \in Seq({"c"}) /\ idle' \in BOOLEAN /\ (txq' # <<>> => ~idle')
      /\ ~Sends(txq) => txq' = txq
  BY <1>1, <1>2, StartIs
<1>5. TtyTypeOK'
  BY <1>1, <1>3, <1>4 DEF IInv, TtyTypeOK, cons
<1>6. RingRight'
  BY <1>1 DEF IInv, RingRight, cons, Count
<1>7. AsksRight'
  BY <1>1, <1>3 DEF IInv, AsksRight
<1>8. IOGoesOn'
  <2>1. ASSUME NEW u \in Users, io'[u].at = "wsleep" PROVE Len(txq') = UART_TX_BUF_SIZE
    <3>1. ~Sends(txq) /\ io[u].at = "wsleep"
      BY <1>1, <1>3, <2>1
    <3> QED BY <1>4, <3>1 DEF IInv, IOGoesOn
  <2>2. ASSUME NEW u \in Users, io'[u].at = "rsleep" PROVE r' = w'
    <3>1. io[u].at = "rsleep"
      BY <1>1, <1>3, <2>2
    <3> QED BY <1>1, <3>1 DEF IInv, IOGoesOn, cons
  <2> QED BY <1>4, <2>1, <2>2 DEF IOGoesOn
<1> QED BY <1>1, <1>5, <1>6, <1>7, <1>8, CalmEdits DEF IInv

-----------------------------------------------------------------------------
(* Tty: steps that edit the ring.                                           *)

\* A character typed, which may end the line or fill the buffer.
LEMMA StoreEdits ==
    ASSUME TtyTypeOK, RingRight, NEW c \in Letters, Fits, r' = r, Stores(c)
    PROVE  /\ w' \in Places /\ e' \in Places /\ ring' \in [Slots -> Letters]
           /\ RingRight' /\ LE!Type(c)
<1> DEFINE h == Put(ring, e, c)  d == Past(e)  n == Count(r, w)  m == Count(w, e)
           lines == Held(ring, r, w)  line == Held(ring, w, e)
           ends == c \in {"\n", "^D"} \/ Count(r, d) = INPUT_BUF_SIZE
<1>1. /\ r \in Places /\ w \in Places /\ e \in Places /\ ring \in [Slots -> Letters]
      /\ Count(r, w) + Count(w, e) = Count(r, e) /\ Count(r, e) < INPUT_BUF_SIZE
  BY DEF TtyTypeOK, RingRight, Fits
<1>2. /\ lines \in Seq(Letters) /\ Len(lines) = n /\ n \in Nat
      /\ line \in Seq(Letters) /\ Len(line) = m /\ m \in Nat
  BY <1>1, HeldIs
<1>3. ring' = h /\ e' = d /\ w' = IF ends THEN d ELSE w
  BY DEF Stores, Put, Past
<1>4. h \in [Slots -> Letters]
  BY <1>1, NthStays
<1>5. /\ d \in Places /\ Count(r, d) = n + m + 1 /\ Count(w, d) = m + 1
  <2>1. Count(w, e) < INPUT_BUF_SIZE /\ INPUT_BUF_SIZE \in Nat
    BY <1>1, <1>2, TtyAssumption
  <2>2. d \in Places /\ Count(r, d) = Count(r, e) + 1 /\ Count(w, d) = Count(w, e) + 1
    BY <1>1, <2>1, CountMore DEF Past
  <2> QED BY <1>1, <2>2
<1>6. /\ Held(h, r, w) = lines /\ Held(h, w, d) = Append(line, c)
      /\ Held(h, r, d) = lines \o Append(line, c)
  <2>1. h = Put(ring, e, c) /\ d = Past(e)
    OBVIOUS
  <2> HIDE DEF h, d
  <2>2. /\ Held(h, r, w) = Held(ring, r, w) /\ Held(h, w, d) = Append(Held(ring, w, e), c)
        /\ Held(h, r, d) = Held(ring, r, w) \o Append(Held(ring, w, e), c)
    <3> HIDE DEF n, m, lines, line, ends
    <3>1. /\ r \in Places /\ w \in Places /\ e \in Places /\ ring \in [Slots -> Letters]
          /\ Count(r, w) + Count(w, e) = Count(r, e)
          /\ Count(r, e) < INPUT_BUF_SIZE
      BY <1>1
    <3>2. PICK a, b, z, g, i, j : a = r /\ b = w /\ z = e /\ g = ring /\ i = h /\ j = d
      OBVIOUS
    <3>3. a \in Places /\ b \in Places /\ z \in Places /\ g \in [Slots -> Letters]
      BY <3>1, <3>2
    <3>4. Count(a, b) + Count(b, z) = Count(a, z) /\ Count(a, z) < INPUT_BUF_SIZE /\ i = Put(g, z, c) /\ j = Past(z)
      BY <2>1, <3>1, <3>2
    <3>5. /\ Held(i, a, b) = Held(g, a, b) /\ Held(i, b, j) = Append(Held(g, b, z), c)
          /\ Held(i, a, j) = Held(g, a, b) \o Append(Held(g, b, z), c)
      BY <3>3, <3>4, StoreIs
    <3> QED BY <3>2, <3>5
  <2> QED BY <2>2
<1>7. Len(Append(line, c)) = m + 1
  BY <1>2, AppendProperties
<1>8. Ring(r, w) = lines /\ Ring(w, e) = line /\ Ring(r, w)' = Held(h, r, w') /\ Ring(w, e)' = Held(h, w', d)
  BY <1>3, RingsAre
<1>9. INPUT_BUF_SIZE \in Nat /\ n + m < INPUT_BUF_SIZE
  BY <1>1, TtyAssumption
<1>10. ends <=> c \in {"\n", "^D"} \/ n + (m + 1) = INPUT_BUF_SIZE
  BY <1>2, <1>5
<1> HIDE DEF h, d, lines, line, ends
<1>11. CASE ends
  <2>1. w' = d /\ Count(d, d) = 0 /\ Held(h, d, d) = <<>>
    BY <1>3, <1>5, <1>11, Empty
  <2>2. RingRight'
    <3>1. Count(r, w)' = n + m + 1 /\ Count(w, e)' = 0 /\ Count(r, e)' = n + m + 1
      BY <1>3, <1>5, <2>1 DEF Count
    <3> HIDE DEF n, m
    <3> QED BY <1>2, <1>9, <3>1 DEF RingRight
  <2>3. LE!Type(c)
    <3>1. Ring(r, w)' = lines \o Append(line, c) /\ Ring(w, e)' = <<>>
      BY <1>6, <1>8, <2>1
    <3> HIDE DEF n, m
    <3> QED BY <1>2, <1>7, <1>8, <1>9, <1>10, <1>11, <3>1 DEF LE!Type
  <2> QED BY <1>3, <1>4, <1>5, <2>1, <2>2, <2>3
<1>12. CASE ~ends
  <2>1. w' = w
    BY <1>3, <1>12
  <2>2. RingRight'
    <3>1. Count(r, w)' = n /\ Count(w, e)' = m + 1 /\ Count(r, e)' = n + m + 1
      BY <1>3, <1>5, <2>1 DEF Count
    <3> HIDE DEF n, m
    <3> QED BY <1>2, <1>9, <3>1 DEF RingRight
  <2>3. LE!Type(c)
    <3>1. Ring(r, w)' = lines /\ Ring(w, e)' = Append(line, c)
      BY <1>6, <1>8, <2>1
    <3> HIDE DEF n, m
    <3> QED BY <1>2, <1>7, <1>8, <1>9, <1>10, <1>12, <3>1 DEF LE!Type
  <2> QED BY <1>1, <1>3, <1>4, <1>5, <2>1, <2>2, <2>3
<1> QED BY <1>11, <1>12

\* How far ^U and backspace go back.
LEMMA BackIs ==
    ASSUME TtyTypeOK, NEW c \in {"^U", "^H"}
    PROVE  \E j \in 0..Count(w, e) : Erased(c) = (e - j) % W
<1>1. w \in Places /\ e \in Places /\ Count(w, e) \in Nat
  BY CountIs DEF TtyTypeOK, Places
<1>2. CASE c = "^U"
  <2> DEFINE stop == {k \in 0..Count(w, e) : k = Count(w, e) \/ At((e - k - 1) % W) = "\n"}
  <2>1. stop \in SUBSET Nat /\ Count(w, e) \in stop
    BY <1>1
  <2>2. Erased(c) = (e - Min(stop)) % W
    BY <1>2 DEF Erased, KillLine
  <2>3. \A k \in stop : k \in 0..Count(w, e)
    OBVIOUS
  <2> HIDE DEF stop
  <2>4. Min(stop) \in stop
    BY <2>1, LeastIs
  <2> QED BY <2>2, <2>3, <2>4
<1>3. CASE c = "^H"
  <2>1. CASE e = w
    <3>1. Erased(c) = e
      BY <1>3, <2>1 DEF Erased
    <3>2. (e - 0) % W = e
      <4>1. 0 \in Places /\ e >= 0 /\ e - 0 = e
        BY <1>1, TtyAssumption DEF Places
      <4> QED BY <1>1, <4>1, Behind
    <3>3. 0 \in 0..Count(w, e)
      BY <1>1
    <3> QED BY <3>1, <3>2, <3>3
  <2>2. CASE e # w
    <3>1. Erased(c) = (e - 1) % W
      BY <1>3, <2>2 DEF Erased, Back
    <3>2. Count(w, e) = IF w <= e THEN e - w ELSE e - w + W
      BY <1>1, CountIs
    <3>3. 1 \in 0..Count(w, e)
      BY <1>1, <2>2, <3>2, TtyAssumption DEF Places
    <3> QED BY <3>1, <3>3
  <2> QED BY <2>1, <2>2
<1> QED BY <1>2, <1>3

LEMMA EraseEdits ==
    ASSUME TtyTypeOK, RingRight, NEW j \in 0..Count(w, e),
           UNCHANGED <<r, w, ring>>, e' = (e - j) % W
    PROVE  e' \in Places /\ RingRight' /\ Edits
<1> DEFINE n == Count(r, w)  m == Count(w, e)  d == (e - j) % W  line == Held(ring, w, e)
<1>1. /\ r \in Places /\ w \in Places /\ e \in Places /\ ring \in [Slots -> Letters]
      /\ n + m = Count(r, e) /\ Count(r, e) <= INPUT_BUF_SIZE /\ INPUT_BUF_SIZE \in Nat
  BY TtyAssumption DEF TtyTypeOK, RingRight
<1>2. /\ line \in Seq(Letters) /\ Len(line) = m /\ m \in Nat /\ n \in Nat
  BY <1>1, HeldIs
<1>3. d \in Places /\ Count(w, d) = m - j
  BY <1>1, CountLess
<1>4. Count(r, d) = Count(r, e) - j
  <2>1. j \in 0..Count(r, e)
    BY <1>1, <1>2
  <2> QED BY <1>1, <2>1, CountLess
<1>5. Held(ring, w, d) = SubSeq(line, 1, m - j)
  BY <1>1, EraseIs
<1>6. e' = d
  OBVIOUS
<1> HIDE DEF d
<1>7. RingRight'
  <2>1. Count(r, w)' = n /\ Count(w, e)' = m - j /\ Count(r, e)' = n + m - j
    <3>1. Count(r, w)' = n /\ Count(w, e)' = Count(w, d) /\ Count(r, e)' = Count(r, d)
      BY <1>6 DEF Count
    <3> QED BY <1>1, <1>2, <1>3, <1>4, <3>1
  <2>2. j \in 0..m
    OBVIOUS
  <2> HIDE DEF n, m
  <2> QED BY <1>1, <1>2, <2>1, <2>2 DEF RingRight
<1>8. Edits
  <2>1. CASE j = 0
    <3>1. 0 \in Places /\ e >= 0 /\ e - 0 = e
      BY <1>1, TtyAssumption DEF Places
    <3>2. d = e
      BY <1>1, <2>1, <3>1, Behind DEF d
    <3> QED BY <1>6, <3>2, CalmEdits DEF cons
  <2>2. CASE j # 0
    <3>1. /\ Ring(w, e) = line /\ Ring(w, e)' = SubSeq(line, 1, m - j)
          /\ Ring(r, w)' = Ring(r, w)
      BY <1>5, <1>6, RingsAre
    <3>2. m - j \in 0..(Len(line) - 1)
      BY <1>2, <2>2
    <3> HIDE DEF line, m
    <3>3. LE!Erase
      BY <3>1, <3>2 DEF LE!Erase
    <3> QED BY <3>3 DEF Edits, LE!Next
  <2> QED BY <2>1, <2>2
<1> QED BY <1>3, <1>6, <1>7, <1>8

\* What io is when a step of the handler leaves it alone or wakes readers.
LEMMA ReadersGoOn ==
    ASSUME IInv, UNCHANGED <<r, txq, uirq, uintr>>, uintr, w' \in Places, e' \in Places,
           ring' \in [Slots -> Letters], rx' = "none", idle' \in BOOLEAN, RingRight', Edits,
           (io' = io /\ w' = w) \/ io' = Woken("rsleep", "read")
    PROVE  IInv' /\ Edits
<1>1. io \in [Users -> Calls] /\ txq' = txq /\ r' = r
  BY DEF IInv, TtyTypeOK
<1>2. /\ io' \in [Users -> Calls]
      /\ \A p \in Users : /\ io'[p].n = io[p].n
                          /\ io'[p].at \in {"write", "wsleep"} => io[p].at \in {"write", "wsleep"}
                          /\ io'[p].at = "wsleep" => io[p].at = "wsleep"
                          /\ io'[p].at = "rsleep" => io[p].at = "rsleep" /\ w' = w
  <2>1. CASE io' = io /\ w' = w
    BY <1>1, <2>1
  <2>2. CASE io' = Woken("rsleep", "read")
    <3> DEFINE x == Woken("rsleep", "read")
    <3>1. /\ x \in [Users -> Calls]
          /\ \A p \in Users : x[p].n = io[p].n /\ x[p].at = IF io[p].at = "rsleep" THEN "read" ELSE io[p].at
      BY <1>1, WokenIs
    <3>2. io' = x
      BY <2>2
    <3> HIDE DEF x
    <3> QED BY <3>1, <3>2
  <2> QED BY <2>1, <2>2
<1>3. TtyTypeOK'
  BY <1>1, <1>2 DEF IInv, TtyTypeOK
<1>4. AsksRight'
  BY <1>2 DEF IInv, AsksRight
<1>5. IOGoesOn'
  BY <1>1, <1>2 DEF IInv, IOGoesOn
<1> QED BY <1>3, <1>4, <1>5 DEF IInv

LEMMA GetcKeeps ==
    ASSUME IInv, uartintr_getc
    PROVE  IInv' /\ Edits
<1>1. /\ TtyTypeOK /\ RingRight /\ uintr /\ rx \in Keys /\ rx' = "none" /\ consoleintr(rx)
      /\ UNCHANGED <<r, txq, uirq, uintr>>
      /\ w \in Places /\ e \in Places /\ ring \in [Slots -> Letters] /\ idle \in BOOLEAN
  BY DEF uartintr_getc, IInv, TtyTypeOK
<1>2. CASE rx \in {"^U", "^H"}
  <2>1. e' = Erased(rx) /\ UNCHANGED <<ring, w, io>> /\ idle' = (idle /\ e' = e)
    BY <1>1, <1>2 DEF consoleintr
  <2>2. PICK j \in 0..Count(w, e) : Erased(rx) = (e - j) % W
    BY <1>1, <1>2, BackIs
  <2>3. e' = (e - j) % W /\ UNCHANGED <<r, w, ring>>
    BY <1>1, <2>1, <2>2
  <2>4. e' \in Places /\ RingRight' /\ Edits
    BY <1>1, <2>3, EraseEdits
  <2>5. idle' \in BOOLEAN
    BY <2>1
  <2> QED BY <1>1, <2>1, <2>4, <2>5, ReadersGoOn
<1>3. CASE rx \notin {"^U", "^H"} /\ Fits
  <2>1. idle' = FALSE /\ Stores(rx) /\ r' = r
    BY <1>1, <1>3 DEF consoleintr
  <2>2. rx \in Letters
    BY <1>1, <1>3 DEF Keys, Letters
  <2>3. SUFFICES ASSUME NEW c \in Letters, c = rx PROVE IInv' /\ Edits
    BY <2>2
  <2>4. Stores(c)
    BY <2>1, <2>3
  <2>5. /\ w' \in Places /\ e' \in Places /\ ring' \in [Slots -> Letters]
        /\ RingRight' /\ LE!Type(c)
    BY <1>1, <1>3, <2>1, <2>4, StoreEdits
  <2>6. Edits
    BY <2>5 DEF Edits, LE!Next, Letters
  <2>7. (io' = io /\ w' = w) \/ io' = Woken("rsleep", "read")
    BY <2>1 DEF Stores
  <2> QED BY <1>1, <2>1, <2>5, <2>6, <2>7, ReadersGoOn
<1>4. CASE rx \notin {"^U", "^H"} /\ ~Fits
  <2>1. UNCHANGED <<ring, w, e, io, idle>>
    BY <1>1, <1>4 DEF consoleintr
  <2>2. RingRight'
    BY <1>1, <2>1 DEF RingRight, Count
  <2>3. Edits
    BY <1>1, <2>1, CalmEdits DEF cons
  <2> QED BY <1>1, <2>1, <2>2, <2>3, ReadersGoOn
<1> QED BY <1>2, <1>3, <1>4

\* The characters at the front of the ring go to a reader, up to what ends
\* their line.
LEMMA TakeEdits ==
    ASSUME TtyTypeOK, RingRight, NEW j \in 0..Count(r, w),
           \A i \in 1..(j - 1) : Nth(ring, r, i) \notin {"\n", "^D"},
           UNCHANGED <<w, e, ring>>, r' = (r + j) % W
    PROVE  r' \in Places /\ Count(r', w) = Count(r, w) - j /\ RingRight' /\ Edits
<1> DEFINE n == Count(r, w)  m == Count(w, e)  d == (r + j) % W  lines == Held(ring, r, w)
<1>1. /\ r \in Places /\ w \in Places /\ e \in Places /\ ring \in [Slots -> Letters]
      /\ n + m = Count(r, e) /\ Count(r, e) <= INPUT_BUF_SIZE /\ INPUT_BUF_SIZE \in Nat
  BY TtyAssumption DEF TtyTypeOK, RingRight
<1>2. /\ lines \in Seq(Letters) /\ Len(lines) = n /\ n \in Nat /\ m \in Nat
      /\ \A i \in 1..n : lines[i] = Nth(ring, r, i)
  BY <1>1, HeldIs
<1>3. d \in Places /\ Count(d, w) = n - j
  BY <1>1, CountTaken
<1>4. Count(d, e) = Count(r, e) - j
  <2>1. j \in 0..Count(r, e)
    BY <1>1, <1>2
  <2> QED BY <1>1, <2>1, CountTaken
<1>5. Held(ring, d, w) = SubSeq(lines, j + 1, n)
  BY <1>1, TakeIs
<1>6. r' = d
  OBVIOUS
<1> HIDE DEF d
<1>7. RingRight'
  <2>1. Count(r, w)' = n - j /\ Count(w, e)' = m /\ Count(r, e)' = n + m - j
    <3>1. Count(r, w)' = Count(d, w) /\ Count(w, e)' = m /\ Count(r, e)' = Count(d, e)
      BY <1>6 DEF Count
    <3> QED BY <1>1, <1>2, <1>3, <1>4, <3>1
  <2>2. j \in 0..n
    OBVIOUS
  <2> HIDE DEF n, m
  <2> QED BY <1>1, <1>2, <2>1, <2>2 DEF RingRight
<1>8. Edits
  <2>1. CASE j = 0
    <3>1. 0 \in Places /\ r + 0 = r /\ r < W
      BY <1>1, TtyAssumption DEF Places
    <3>2. d = r
      BY <1>1, <2>1, <3>1, Ahead DEF d
    <3> QED BY <1>6, <3>2, CalmEdits DEF cons
  <2>2. CASE j # 0
    <3>1. /\ Ring(r, w) = lines /\ Ring(r, w)' = SubSeq(lines, j + 1, n)
          /\ Ring(w, e)' = Ring(w, e)
      BY <1>5, <1>6, RingsAre
    <3>2. j \in 1..n
      BY <1>2, <2>2
    <3>3. \A i \in 1..(j - 1) : lines[i] \notin {"\n", "^D"}
      BY <1>2, <3>2
    <3> HIDE DEF lines, n
    <3>4. LE!Read
      BY <1>2, <3>1, <3>2, <3>3 DEF LE!Read
    <3> QED BY <3>4 DEF Edits, LE!Next
  <2> QED BY <2>1, <2>2
<1> QED BY <1>3, <1>6, <1>7, <1>8

\* What consoleread() copies, puts back and does next.
LEMMA ReadIs ==
    ASSUME IInv, NEW p \in Users, consoleread_loop(p)
    PROVE  \E j \in 0..Count(r, w), c \in Calls :
              /\ r' = (r + j) % W /\ io' = [io EXCEPT ![p] = c]
              /\ \A i \in 1..(j - 1) : Nth(ring, r, i) \notin {"\n", "^D"}
              /\ c.at \in {"user", "rsleep"} /\ (c.at = "rsleep" => j = Count(r, w))
<1> DEFINE n == io[p].n
           have == Count(r, w)
           c(k) == At(r + k - 1)
           ends == {k \in 1..have : c(k) \in {"\n", "^D"}}
           last == IF ends = {} THEN have ELSE Min(ends)
           T == {last, n}
           k == Min(T)
           eof == k > 0 /\ c(k) = "^D"
           some == io[p].got \/ k > 1
           back == IF eof /\ some THEN 1 ELSE 0
           j == k - back
<1>1. /\ r' = (r + k - back) % W
      /\ IF k = n \/ (k > 0 /\ k \in ends) THEN Do(p, "user", 0, FALSE)
         ELSE Do(p, "rsleep", n - k, io[p].got \/ k > 0)
  BY DEF consoleread_loop
<1>2. /\ r \in Places /\ r \in Nat /\ w \in Places /\ have \in Nat
      /\ io[p] \in Calls /\ n \in Nat /\ io[p].got \in BOOLEAN
  <2>1. r \in Places /\ w \in Places /\ io[p] \in Calls
    BY DEF IInv, TtyTypeOK
  <2>2. W \in Nat /\ r \in Nat
    BY <2>1, TtyAssumption DEF Places
  <2>3. have \in Nat
    <3>1. have \in Places
      BY <2>1, CountIs
    <3> HIDE DEF have
    <3> QED BY <2>2, <3>1 DEF Places
  <2>4. n \in Nat /\ io[p].got \in BOOLEAN
    BY <2>1 DEF Calls
  <2> QED BY <2>1, <2>2, <2>3, <2>4
<1>3. \A i \in 1..have : Nth(ring, r, i) = c(i)
  BY DEF Nth, At
<1>4. /\ last \in Nat /\ last <= have /\ (ends # {} => last \in ends) /\ (ends = {} => last = have)
      /\ \A i \in 1..have : i < last => i \notin ends
  <2>1. ends \in SUBSET Nat /\ \A i \in ends : i \in 1..have
    BY <1>2
  <2> HIDE DEF ends
  <2>2. CASE ends = {}
    BY <1>2, <2>2
  <2>3. CASE ends # {}
    <3>1. Min(ends) \in ends /\ \A y \in ends : Min(ends) <= y
      BY <2>1, <2>3, LeastIs
    <3>2. last = Min(ends)
      BY <2>3
    <3> HIDE DEF last, have
    <3>3. last \in ends /\ last \in 1..have /\ \A y \in ends : last <= y
      BY <2>1, <3>1, <3>2
    <3>4. \A i \in 1..have : i < last => i \notin ends
      BY <1>2, <3>3
    <3> QED BY <1>2, <2>3, <3>3, <3>4
  <2> QED BY <2>2, <2>3
<1>5. \A i \in 1..have : i \in ends <=> c(i) \in {"\n", "^D"}
  OBVIOUS
<1> HIDE DEF c, ends, last, n, have
<1>6. k \in Nat /\ k <= last /\ k <= n /\ (k = last \/ k = n)
  <2>1. T \in SUBSET Nat /\ T # {} /\ last \in T /\ n \in T /\ \A y \in T : y = last \/ y = n
    BY <1>2, <1>4
  <2> HIDE DEF T
  <2>2. Min(T) \in T /\ \A y \in T : Min(T) <= y
    BY <2>1, LeastIs
  <2> QED BY <2>1, <2>2
<1> HIDE DEF k
<1>7. back \in {0, 1} /\ (back = 1 => k > 0 /\ c(k) = "^D")
  OBVIOUS
<1> HIDE DEF back
<1>8. j \in 0..have /\ r + k - back = r + j /\ j <= k
  BY <1>2, <1>4, <1>6, <1>7
<1>9. \A i \in 1..(j - 1) : Nth(ring, r, i) \notin {"\n", "^D"}
  <2>1. ASSUME NEW i \in 1..(j - 1) PROVE i \in 1..have /\ i < last
    BY <1>2, <1>4, <1>6, <1>8
  <2> HIDE DEF j
  <2> QED BY <1>3, <1>4, <1>5, <2>1
<1>10. CASE k = n \/ (k > 0 /\ k \in ends)
  <2> DEFINE x == [at |-> "user", n |-> 0, got |-> FALSE]
  <2>1. io' = [io EXCEPT ![p] = x]
    BY <1>1, <1>10 DEF Do
  <2>2. x \in Calls /\ x.at = "user"
    BY DEF Calls
  <2> HIDE DEF x, j
  <2>3. r' = (r + j) % W
    BY <1>1, <1>8
  <2> QED BY <1>8, <1>9, <2>1, <2>2, <2>3 DEF have
<1>11. CASE ~(k = n \/ (k > 0 /\ k \in ends))
  <2>1. k = last /\ k < n
    BY <1>2, <1>6, <1>11
  <2>2. ends = {}
    BY <1>2, <1>4, <1>11, <2>1 DEF ends
  <2>3. k = have
    BY <1>4, <2>1, <2>2
  <2>4. back = 0
    <3> SUFFICES ASSUME back = 1 PROVE FALSE
      BY <1>7
    <3>1. k \in 1..have
      BY <1>2, <1>7, <2>3
    <3> QED BY <1>5, <1>7, <2>2, <3>1
  <2>5. j = have
    BY <1>2, <2>3, <2>4
  <2> DEFINE l == n - k  got == io[p].got \/ k > 0
             x == [at |-> "rsleep", n |-> l, got |-> got]
  <2>6. l \in Nat
    BY <1>2, <1>6
  <2>7. got \in BOOLEAN
    OBVIOUS
  <2>8. io' = [io EXCEPT ![p] = x]
    BY <1>1, <1>11 DEF Do
  <2> HIDE DEF l, got
  <2>9. x \in Calls /\ x.at = "rsleep"
    BY <2>6, <2>7 DEF Calls
  <2> HIDE DEF x, j
  <2>10. r' = (r + j) % W
    BY <1>1, <1>8
  <2> QED BY <1>8, <1>9, <2>5, <2>8, <2>9, <2>10 DEF have
<1> QED BY <1>10, <1>11

LEMMA ReadKeeps ==
    ASSUME IInv, NEW p \in Users, consoleread_loop(p)
    PROVE  IInv' /\ Edits
<1>1. UNCHANGED <<w, e, ring, rx, txq, idle, uirq, uintr>>
  BY DEF consoleread_loop, uart
<1>2. /\ r \in Places /\ w \in Places /\ io \in [Users -> Calls]
      /\ TtyTypeOK /\ RingRight /\ AsksRight /\ IOGoesOn
  BY DEF IInv, TtyTypeOK
<1>3. PICK j \in 0..Count(r, w), c \in Calls :
          /\ r' = (r + j) % W /\ io' = [io EXCEPT ![p] = c]
          /\ \A i \in 1..(j - 1) : Nth(ring, r, i) \notin {"\n", "^D"}
          /\ c.at \in {"user", "rsleep"} /\ (c.at = "rsleep" => j = Count(r, w))
  BY ReadIs
<1>4. r' \in Places /\ Count(r', w) = Count(r, w) - j /\ RingRight' /\ Edits
  BY <1>1, <1>2, <1>3, TakeEdits
<1>5. io' \in [Users -> Calls] /\ \A q \in Users : io'[q] = IF q = p THEN c ELSE io[q]
  BY <1>2, <1>3
<1>6. TtyTypeOK'
  BY <1>1, <1>2, <1>4, <1>5 DEF TtyTypeOK
<1>7. AsksRight'
  BY <1>2, <1>3, <1>5 DEF AsksRight
<1>8. ASSUME NEW q \in Users, io'[q].at = "rsleep" PROVE r' = w'
  <2>1. j = Count(r, w)
    <3>1. CASE q = p
      BY <1>3, <1>5, <1>8, <3>1
    <3>2. CASE q # p
      <4>1. r = w
        BY <1>2, <1>5, <1>8, <3>2 DEF IOGoesOn
      <4>2. Count(r, w) = 0
        BY <1>2, <4>1, Empty
      <4> QED BY <1>3, <4>2
    <3> QED BY <3>1, <3>2
  <2>2. Count(r', w) = 0
    BY <1>2, <1>4, <2>1, CountIs DEF Places
  <2>3. Count(r', w) = IF r' <= w THEN w - r' ELSE w - r' + W
    BY <1>2, <1>4, CountIs
  <2>4. r' = w
    BY <1>2, <1>4, <2>2, <2>3, TtyAssumption DEF Places
  <2> QED BY <1>1, <2>4
<1>9. IOGoesOn'
  <2>1. ASSUME NEW q \in Users, io'[q].at = "wsleep" PROVE Len(txq') = UART_TX_BUF_SIZE
    BY <1>1, <1>2, <1>3, <1>5, <2>1 DEF IOGoesOn
  <2> QED BY <1>1, <1>2, <1>8, <2>1 DEF IOGoesOn
<1> QED BY <1>4, <1>6, <1>7, <1>9 DEF IInv

-----------------------------------------------------------------------------
(* Tty: the theorems.                                                       *)

LEMMA StartsRight == ASSUME consoleinit PROVE IInv /\ LE!Init
<1>1. 0 \in Places /\ INPUT_BUF_SIZE \in Nat /\ "x" \in Letters
  BY TtyAssumption DEF Places, Letters
<1>2. Count(0, 0) = 0 /\ Held(ring, 0, 0) = <<>>
  BY <1>1, Empty
<1>3. TtyTypeOK
  <2>1. ring \in [Slots -> Letters] /\ txq \in Seq({"c"}) /\ rx \in Keys \cup {"none"}
    BY <1>1 DEF consoleinit, Slots
  <2>2. io \in [Users -> Calls]
    BY DEF consoleinit, Calls
  <2> QED BY <1>1, <2>1, <2>2 DEF consoleinit, TtyTypeOK
<1>4. RingRight
  BY <1>1, <1>2 DEF consoleinit, RingRight
<1>5. AsksRight /\ IOGoesOn
  BY DEF consoleinit, AsksRight, IOGoesOn
<1>6. LE!Init
  BY <1>2, RingsAre DEF consoleinit, LE!Init
<1> QED BY <1>3, <1>4, <1>5, <1>6 DEF IInv

LEMMA StepsKeep == ASSUME IInv, [TtyNext]_ttyVars PROVE IInv' /\ Edits
<1>1. ASSUME NEW p \in Users,
             consolewrite(p) \/ uartputc(p) \/ consoleread(p) \/ consoleread_loop(p) \/ ttykill(p)
      PROVE  IInv' /\ Edits
  BY <1>1, CallKeeps, PutcKeeps, ReadKeeps, KillKeeps
<1>2. ASSUME Transmitted \/ (\E c \in Keys : Type(c)) \/ uartintr \/ uartintr_getc \/ uartintr_end
      PROVE  IInv' /\ Edits
  BY <1>2, LineKeeps, GetcKeeps, EndKeeps
<1>3. ASSUME UNCHANGED ttyVars PROVE IInv' /\ Edits
  <2>1. UNCHANGED <<r, w, e, ring, rx, txq, idle, uirq, uintr, io>>
    BY <1>3 DEF ttyVars
  <2>2. IInv'
    BY <2>1 DEF IInv, TtyTypeOK, RingRight, AsksRight, IOGoesOn, Count
  <2> QED BY <2>1, <2>2, CalmEdits DEF cons
<1> QED BY <1>1, <1>2, <1>3 DEF TtyNext

\* Output that waits has a transmitter at work or an interrupt to come,
\* writers sleep only for a full transmit buffer and readers only for an
\* empty ring, for any processes, buffers and counters (uart.c:83-190,
\* console.c:79-179).
THEOREM NobodyWaitsInVain == TtySpec => []IOGoesOn
<1>1. consoleinit => IInv
  BY StartsRight
<1>2. IInv /\ [TtyNext]_ttyVars => IInv'
  BY StepsKeep
<1>3. IInv => IOGoesOn
  BY DEF IInv
<1> QED BY <1>1, <1>2, <1>3, PTL DEF TtySpec

\* The input ring implements LineEditor: each step of the console types,
\* erases or reads as it does, or does nothing that readers can see, also
\* when the counters wrap (console.c:79-179).
THEOREM ConsoleIsLineEditor == TtySpec => IsLineEditor
<1>1. consoleinit => IInv /\ LE!Init
  BY StartsRight
<1>2. IInv /\ [TtyNext]_ttyVars => IInv' /\ [LE!Next]_<<Ring(r, w), Ring(w, e)>>
  BY StepsKeep DEF Edits
<1> QED BY <1>1, <1>2, PTL DEF TtySpec, IsLineEditor, LE!Spec

-----------------------------------------------------------------------------
(* Messages: the sum of the flags.                                          *)

\* What holds at 0 and goes on from j to j + 1 holds up to N.
LEMMA UpTo ==
    ASSUME NEW N \in Nat, NEW S,
           0 \in S, \A j \in 0..N : j < N /\ j \in S => j + 1 \in S
    PROVE  0..N \subseteq S
<1> DEFINE missing == {j \in 0..N : j \notin S}
<1>1. SUFFICES ASSUME missing # {} PROVE FALSE
  OBVIOUS
<1>2. PICK x \in missing : \A y \in missing : x <= y
  <2>1. missing \in SUBSET Nat
    OBVIOUS
  <2> HIDE DEF missing
  <2> QED BY <1>1, <2>1, LeastIs
<1>3. x \in 1..N /\ x - 1 \in 0..N /\ x - 1 < N
  OBVIOUS
<1>4. x - 1 \in S
  BY <1>2, <1>3
<1> QED BY <1>3, <1>4

LEMMA SameValues ==
    ASSUME NEW D, NEW F(_), NEW G(_), \A j \in D : F(j) = G(j)
    PROVE  [j \in D |-> F(j)] = [j \in D |-> G(j)]
OBVIOUS

\* The function defined by the loop exists and adds one flag after another.
LEMMA SumsStep ==
    ASSUME NEW f
    PROVE  /\ Sums(f)[0] = 0
           /\ \A j \in 1..MAX_NUM_RECEIVERS : Sums(f)[j] = Sums(f)[j - 1] + f[j - 1]
<1> DEFINE N == MAX_NUM_RECEIVERS
           Is(g, n) == g = [j \in 0..n |-> IF j = 0 THEN 0 ELSE g[j - 1] + f[j - 1]]
           S == {n \in 0..N : \E g : Is(g, n)}
<1>0. N \in Nat
  BY MessagesAssumption
<1>1. 0 \in S
  <2> DEFINE g == [j \in 0..0 |-> 0]
  <2>1. \A j \in 0..0 : g[j] = IF j = 0 THEN 0 ELSE g[j - 1] + f[j - 1]
    OBVIOUS
  <2>2. Is(g, 0)
    <3> DEFINE v(j) == IF j = 0 THEN 0 ELSE g[j - 1] + f[j - 1]
    <3>1. \A j \in 0..0 : 0 = v(j)
      OBVIOUS
    <3> HIDE DEF v
    <3>2. [j \in 0..0 |-> 0] = [j \in 0..0 |-> v(j)]
      BY <3>1
    <3> QED BY <3>2 DEF v
  <2> HIDE DEF Is, g, N
  <2> QED BY <1>0, <2>2
<1>2. ASSUME NEW n \in 0..N, n < N, n \in S PROVE n + 1 \in S
  <2>1. PICK g : Is(g, n)
    BY <1>2
  <2> DEFINE h == [j \in 0..(n + 1) |-> IF j = n + 1 THEN g[n] + f[n] ELSE g[j]]
  <2>2. ASSUME NEW j \in 0..(n + 1)
        PROVE  h[j] = IF j = 0 THEN 0 ELSE h[j - 1] + f[j - 1]
    <3>1. CASE j = n + 1
      BY <1>0, <1>2, <3>1
    <3>2. CASE j # n + 1
      <4>1. j \in 0..n /\ (j # 0 => j - 1 \in 0..n)
        BY <1>0, <3>2
      <4>2. g[j] = IF j = 0 THEN 0 ELSE g[j - 1] + f[j - 1]
        BY <2>1, <4>1
      <4> QED BY <1>0, <3>2, <4>1, <4>2
    <3> QED BY <3>1, <3>2
  <2>3. Is(h, n + 1)
    <3> DEFINE u(j) == IF j = n + 1 THEN g[n] + f[n] ELSE g[j]
               v(j) == IF j = 0 THEN 0 ELSE h[j - 1] + f[j - 1]
    <3>1. \A j \in 0..(n + 1) : u(j) = v(j)
      BY <2>2
    <3>2. h = [j \in 0..(n + 1) |-> u(j)]
      OBVIOUS
    <3> HIDE DEF u, v, h
    <3>3. h = [j \in 0..(n + 1) |-> v(j)]
      BY <3>1, <3>2
    <3> QED BY <3>3 DEF v
  <2> HIDE DEF Is, h, N
  <2>4. n + 1 \in 0..N
    BY <1>0, <1>2
  <2> QED BY <2>3, <2>4
<1>3. N \in S
  <2> HIDE DEF S, N
  <2>1. 0..N \subseteq S
    BY <1>0, <1>1, <1>2, UpTo
  <2> QED BY <1>0, <2>1
<1>4. \E g : Is(g, N)
  BY <1>3
<1>5. Is(Sums(f), N)
  BY <1>4 DEF Sums
<1>6. ASSUME NEW j \in 0..N PROVE Sums(f)[j] = IF j = 0 THEN 0 ELSE Sums(f)[j - 1] + f[j - 1]
  <2> DEFINE g == Sums(f)
  <2>1. Is(g, N)
    BY <1>5
  <2> HIDE DEF g
  <2>2. g[j] = IF j = 0 THEN 0 ELSE g[j - 1] + f[j - 1]
    BY <2>1
  <2> QED BY <2>2 DEF g
<1> QED BY <1>0, <1>6

\* Flags that are never negative add up to zero only if each is zero.
LEMMA ZeroSum ==
    ASSUME NEW f, \A k \in Flags : f[k] \in Nat
    PROVE  AllReceived(f) <=> \A k \in Flags : f[k] = 0
<1> DEFINE N == MAX_NUM_RECEIVERS
           g == Sums(f)
           S == {n \in 0..N : g[n] \in Nat /\ \A k \in 0..(n - 1) : f[k] <= g[n]}
           Z == {n \in 0..N : g[n] = 0}
<1>0. N \in Nat /\ Flags = 0..(N - 1)
  BY MessagesAssumption DEF Flags
<1>1. g[0] = 0 /\ \A j \in 1..N : g[j] = g[j - 1] + f[j - 1]
  BY SumsStep
<1>2. AllReceived(f) <=> g[N] = 0
  BY DEF AllReceived
<1> HIDE DEF g, N
<1>3. 0 \in S
  BY <1>0, <1>1
<1>4. ASSUME NEW n \in 0..N, n < N, n \in S PROVE n + 1 \in S
  <2>1. n + 1 \in 1..N /\ (n + 1) - 1 = n /\ n \in Flags
    BY <1>0, <1>4
  <2>2. g[n + 1] = g[n] + f[n]
    BY <1>1, <2>1
  <2>3. f[n] \in Nat /\ g[n] \in Nat /\ \A k \in 0..(n - 1) : f[k] <= g[n]
    BY <1>4, <2>1
  <2>4. ASSUME NEW k \in 0..n PROVE f[k] <= g[n + 1]
    <3>1. k \in Flags /\ f[k] \in Nat
      BY <1>0, <1>4
    <3>2. k = n \/ k \in 0..(n - 1)
      BY <1>0
    <3> QED BY <2>2, <2>3, <3>1, <3>2
  <2> QED BY <1>0, <2>1, <2>2, <2>3, <2>4
<1>5. 0..N \subseteq S
  <2> HIDE DEF S
  <2> QED BY <1>0, <1>3, <1>4, UpTo
<1>6. g[N] \in Nat /\ \A k \in Flags : f[k] <= g[N]
  BY <1>0, <1>5
<1>7. ASSUME g[N] = 0 PROVE \A k \in Flags : f[k] = 0
  BY <1>6, <1>7
<1>8. ASSUME \A k \in Flags : f[k] = 0 PROVE g[N] = 0
  <2>1. 0 \in Z
    BY <1>0, <1>1
  <2>2. ASSUME NEW n \in 0..N, n < N, n \in Z PROVE n + 1 \in Z
    <3>1. n + 1 \in 1..N /\ (n + 1) - 1 = n /\ n \in Flags
      BY <1>0, <2>2
    <3>2. g[n + 1] = g[n] + f[n] /\ f[n] = 0 /\ g[n] = 0
      BY <1>1, <1>8, <2>2, <3>1
    <3> QED BY <3>1, <3>2
  <2>3. 0..N \subseteq Z
    <3> HIDE DEF Z
    <3> QED BY <1>0, <2>1, <2>2, UpTo
  <2> QED BY <1>0, <2>3
<1> QED BY <1>2, <1>7, <1>8

-----------------------------------------------------------------------------
(* The invariant of Messages: the message is in one place at a time, and    *)
(* its flags say who has not read it yet.                                   *)

\* What uninitialised flags must not do for an answer to mean what it says,
\* and for it to come at all.
GarbageCounts == numReceiver = MAX_NUM_RECEIVERS \/ Garbage \subseteq Nat
NoGarbage     == numReceiver = MAX_NUM_RECEIVERS \/ Garbage = {0}

Message == [Flags -> Int]

MessagesTypeOK ==
    /\ receiverId \in ReceiverIds \cup {All}
    /\ parent \in {"fork", "failed", "read", "done"}
    /\ child \in [Receivers -> {"none", "read", "write", "done"}]
    /\ forked \in 0..numReceiver
    /\ toReceivers \in Seq(Message)
    /\ fromReceivers \in Seq(Receivers)
    /\ msg \in [Receivers -> Message \cup {<<>>}]

Writers == {k \in Receivers : child[k] = "write"}

Forking ==
    /\ \A k \in Receivers : child[k] = "none" <=> k >= forked
    /\ parent \in {"read", "done"} => forked = numReceiver

Unsent == toReceivers = <<>> /\ fromReceivers = <<>> /\ \A k \in Receivers : child[k] \in {"none", "read"}

UnderWay(f) ==
    /\ fromReceivers = <<>> /\ parent = "read"
    /\ receiverId = All =>
          \A k \in Flags : IF k \in Receivers THEN f[k] = (IF child[k] = "read" THEN 1 ELSE 0)
                           ELSE f[k] \in Garbage
    /\ receiverId \in Receivers => child[receiverId] # "done"

InPipe ==
    /\ Len(toReceivers) = 1 /\ Writers = {} /\ UnderWay(toReceivers[1])
    /\ receiverId = All /\ NoGarbage => \E k \in Receivers : child[k] = "read"
InHand == toReceivers = <<>> /\ \E k \in Receivers : Writers = {k} /\ msg[k] \in Message /\ UnderWay(msg[k])
Answered ==
    /\ toReceivers = <<>> /\ Writers = {}
    /\ (parent = "read" /\ Len(fromReceivers) = 1) \/ (parent = "done" /\ fromReceivers = <<>>)
    /\ receiverId = All /\ GarbageCounts => \A k \in Receivers : child[k] = "done"
    /\ receiverId # All => receiverId \in Receivers /\ child[receiverId] = "done"

MessagesInv ==
    /\ MessagesTypeOK /\ Forking
    /\ IF parent \in {"fork", "failed"} THEN Unsent ELSE InPipe \/ InHand \/ Answered

\* A receiver is one of the flags.
LEMMA ReceiversAreFlags ==
    /\ Receivers \subseteq Flags /\ numReceiver \in Nat \ {0}
    /\ \A k \in Receivers : k \in Nat /\ k < numReceiver
    /\ \A k \in Nat : k < numReceiver => k \in Receivers
    /\ numReceiver = MAX_NUM_RECEIVERS => Flags = Receivers
BY MessagesAssumption DEF Receivers, Flags

\* An initial message, in the pipe to the receivers.
LEMMA QueueOfOne ==
    ASSUME NEW S, NEW x \in S
    PROVE  /\ Append(<<>>, x) \in Seq(S) /\ Append(<<>>, x) # <<>>
           /\ Len(Append(<<>>, x)) = 1 /\ Append(<<>>, x)[1] = x
OBVIOUS

LEMMA TakenFromOne ==
    ASSUME NEW S, NEW q \in Seq(S), Len(q) = 1
    PROVE  Tail(q) = <<>> /\ Head(q) = q[1] /\ q[1] \in S /\ q # <<>>
<1>1. q # <<>> /\ q[1] \in S
  OBVIOUS
<1>2. Len(Tail(q)) = 0 /\ Tail(q) \in Seq(S)
  BY <1>1, HeadTailProperties
<1>3. Tail(q) = <<>>
  BY <1>2, EmptySeq
<1> QED BY <1>1, <1>3

LEMMA MessagesInitially == MessagesInit => MessagesInv
<1> SUFFICES ASSUME MessagesInit PROVE MessagesInv
  OBVIOUS
<1>1. MessagesTypeOK
  BY ReceiversAreFlags DEF MessagesInit, MessagesTypeOK
<1>2. Forking
  BY ReceiversAreFlags DEF MessagesInit, Forking
<1>3. Unsent /\ parent = "fork"
  BY DEF MessagesInit, Unsent
<1> QED BY <1>1, <1>2, <1>3 DEF MessagesInv

LEMMA ForkKeeps == MessagesInv /\ (Fork \/ ForkFails) => MessagesInv'
<1> SUFFICES ASSUME MessagesInv, Fork \/ ForkFails PROVE MessagesInv'
  OBVIOUS
<1>1. /\ MessagesTypeOK /\ Forking /\ Unsent /\ parent = "fork" /\ forked < numReceiver
      /\ UNCHANGED <<receiverId, toReceivers, fromReceivers, msg>>
  BY DEF MessagesInv, Fork, ForkFails
<1>2. forked \in Receivers
  BY <1>1, ReceiversAreFlags DEF MessagesTypeOK
<1>3. CASE Fork
  <2>1. MessagesTypeOK'
    BY <1>1, <1>2, <1>3, ReceiversAreFlags DEF Fork, MessagesTypeOK
  <2>2. Forking'
    <3>1. forked' = forked + 1 /\ parent' = "fork" /\ forked \in Nat
          /\ child' = [child EXCEPT ![forked] = "read"]
      BY <1>1, <1>3 DEF Fork, MessagesTypeOK
    <3>2. ASSUME NEW k \in Receivers PROVE child'[k] = "none" <=> k >= forked + 1
      <4>1. k \in Nat /\ (child[k] = "none" <=> k >= forked)
        BY <1>1, ReceiversAreFlags DEF Forking
      <4>2. child'[k] = IF k = forked THEN "read" ELSE child[k]
        BY <1>1, <3>1 DEF MessagesTypeOK
      <4> QED BY <3>1, <4>1, <4>2
    <3> QED BY <3>1, <3>2 DEF Forking
  <2>3. Unsent' /\ parent' = "fork"
    BY <1>1, <1>2, <1>3 DEF Unsent, Fork, MessagesTypeOK
  <2> QED BY <2>1, <2>2, <2>3 DEF MessagesInv
<1>4. CASE ForkFails
  <2>1. MessagesTypeOK' /\ Forking' /\ Unsent' /\ parent' = "failed"
    BY <1>1, <1>4 DEF ForkFails, MessagesTypeOK, Forking, Unsent
  <2> QED BY <2>1 DEF MessagesInv
<1> QED BY <1>3, <1>4

LEMMA SendKeeps == MessagesInv /\ Send => MessagesInv'
<1> SUFFICES ASSUME MessagesInv, Send PROVE MessagesInv'
  OBVIOUS
<1>1. /\ MessagesTypeOK /\ Forking /\ Unsent /\ parent = "fork" /\ forked = numReceiver
      /\ parent' = "read" /\ UNCHANGED <<receiverId, child, forked, fromReceivers, msg>>
  BY DEF MessagesInv, Send
<1>2. PICK f \in [Flags -> Garbage \cup {1}] : Fresh(f) /\ toReceivers' = Append(toReceivers, f)
  BY DEF Send
<1>3. f \in Message
  <2>1. Garbage \cup {1} \subseteq Int
    BY MessagesAssumption
  <2> QED BY <1>2, <2>1 DEF Message
<1>4. /\ toReceivers' \in Seq(Message) /\ Len(toReceivers') = 1 /\ toReceivers'[1] = f
      /\ fromReceivers' = <<>>
  BY <1>1, <1>2, <1>3, QueueOfOne DEF Unsent
<1>5. \A k \in Receivers : child[k] = "read"
  <2> SUFFICES ASSUME NEW k \in Receivers PROVE child[k] = "read"
    OBVIOUS
  <2>1. k \in Nat /\ k < numReceiver /\ numReceiver \in Nat
    BY ReceiversAreFlags
  <2>2. child[k] # "none"
    BY <1>1, <2>1 DEF Forking
  <2> QED BY <1>1, <2>2 DEF Unsent
<1>6. MessagesTypeOK' /\ Forking'
  BY <1>1, <1>4 DEF MessagesTypeOK, Forking
<1>7. InPipe'
  <2>1. Writers' = {} /\ parent' = "read" /\ fromReceivers' = <<>>
    BY <1>1, <1>4, <1>5 DEF Writers
  <2>2. \A k \in Flags : IF k \in Receivers THEN f[k] = (IF child[k] = "read" THEN 1 ELSE 0)
                         ELSE f[k] \in Garbage
    BY <1>2, <1>5 DEF Fresh
  <2>3. (receiverId \in Receivers => child[receiverId] # "done") /\ \E k \in Receivers : child[k] = "read"
    BY <1>5, ReceiversAreFlags
  <2> QED BY <1>1, <1>4, <2>1, <2>2, <2>3 DEF InPipe, UnderWay
<1> QED BY <1>1, <1>6, <1>7 DEF MessagesInv

LEMMA HearKeeps == MessagesInv /\ Hear => MessagesInv'
<1> SUFFICES ASSUME MessagesInv, Hear PROVE MessagesInv'
  OBVIOUS
<1>1. /\ MessagesTypeOK /\ Forking /\ parent = "read" /\ fromReceivers # <<>> /\ parent' = "done"
      /\ fromReceivers' = Tail(fromReceivers)
      /\ UNCHANGED <<receiverId, child, forked, toReceivers, msg>>
  BY DEF MessagesInv, Hear
<1>2. Answered /\ Len(fromReceivers) = 1
  BY <1>1 DEF MessagesInv, InPipe, InHand, UnderWay, Answered
<1>3. fromReceivers' = <<>>
  BY <1>1, <1>2, TakenFromOne DEF MessagesTypeOK
<1>4. MessagesTypeOK' /\ Forking'
  BY <1>1, <1>3 DEF MessagesTypeOK, Forking
<1>5. Answered'
  BY <1>1, <1>2, <1>3 DEF Answered, Writers
<1> QED BY <1>1, <1>4, <1>5 DEF MessagesInv

LEMMA ReceiveKeeps ==
    ASSUME MessagesInv, NEW c \in Receivers, Receive(c)
    PROVE  MessagesInv'
<1> DEFINE f == Head(toReceivers)
           g == IF receiverId = All THEN Marked(c, f) ELSE f
<1>1. /\ MessagesTypeOK /\ Forking /\ child[c] = "read" /\ toReceivers # <<>>
      /\ msg' = [msg EXCEPT ![c] = g] /\ toReceivers' = Tail(toReceivers)
      /\ child' = [child EXCEPT ![c] = "write"]
      /\ UNCHANGED <<receiverId, parent, forked, fromReceivers>>
  BY DEF MessagesInv, Receive
<1>2. InPipe /\ parent \notin {"fork", "failed"}
  BY <1>1 DEF MessagesInv, Unsent, InHand, Answered
<1>3. toReceivers' = <<>> /\ f = toReceivers[1] /\ f \in Message
  BY <1>1, <1>2, TakenFromOne DEF InPipe, MessagesTypeOK
<1>4. UnderWay(f) /\ Writers = {}
  BY <1>2, <1>3 DEF InPipe
<1>5. PICK m \in Message :
         m = g /\ (receiverId = All => \A k \in Flags : m[k] = IF k = c THEN 0 ELSE f[k])
  <2> HIDE DEF f
  <2>1. f \in [Flags -> Int] /\ c \in Flags
    BY <1>3, ReceiversAreFlags DEF Message
  <2>2. /\ Marked(c, f) \in [Flags -> Int]
        /\ \A k \in Flags : Marked(c, f)[k] = IF k = c THEN 0 ELSE f[k]
    BY <2>1 DEF Marked
  <2>3. g \in Message
    BY <2>1, <2>2 DEF Message
  <2> QED BY <2>2, <2>3
<1>6. \A k \in Receivers : child'[k] = IF k = c THEN "write" ELSE child[k]
  BY <1>1 DEF MessagesTypeOK
<1> HIDE DEF f, g
<1>7. MessagesTypeOK'
  BY <1>1, <1>3, <1>5 DEF MessagesTypeOK
<1>8. Forking'
  BY <1>1, <1>6 DEF Forking
<1>9. InHand'
  <2>1. Writers' = {c}
    BY <1>4, <1>6 DEF Writers
  <2>2. msg'[c] = m
    BY <1>1, <1>5 DEF MessagesTypeOK
  <2>3. UnderWay(m)'
    <3>1. ASSUME receiverId = All, NEW k \in Flags
          PROVE  IF k \in Receivers THEN m[k] = (IF child'[k] = "read" THEN 1 ELSE 0)
                 ELSE m[k] \in Garbage
      BY <1>4, <1>5, <1>6, <3>1 DEF UnderWay
    <3>2. receiverId \in Receivers => child'[receiverId] # "done"
      BY <1>4, <1>6 DEF UnderWay
    <3> QED BY <1>1, <1>4, <3>1, <3>2 DEF UnderWay
  <2> QED BY <1>3, <1>5, <2>1, <2>2, <2>3 DEF InHand
<1> QED BY <1>1, <1>2, <1>7, <1>8, <1>9 DEF MessagesInv

\* The writer has the message: what a child in "write" may rely on.
LEMMA Holder ==
    ASSUME MessagesInv, NEW c \in Receivers, child[c] = "write"
    PROVE  /\ toReceivers = <<>> /\ Writers = {c} /\ msg[c] \in Message /\ UnderWay(msg[c])
           /\ \A k \in Receivers : k # c => child[k] \in {"read", "done"}
<1>1. c \in Writers /\ MessagesTypeOK /\ Forking
  BY DEF Writers, MessagesInv
<1>2. InHand /\ parent \in {"read", "done"}
  BY <1>1 DEF MessagesInv, MessagesTypeOK, Unsent, InPipe, Answered
<1>3. PICK k \in Receivers : Writers = {k} /\ msg[k] \in Message /\ UnderWay(msg[k])
  BY <1>2 DEF InHand
<1>4. k = c
  BY <1>1, <1>3
<1>5. ASSUME NEW j \in Receivers, j # c PROVE child[j] \in {"read", "done"}
  <2>1. child[j] # "write" /\ child[j] \in {"none", "read", "write", "done"}
    BY <1>1, <1>3, <1>4, <1>5 DEF Writers, MessagesTypeOK
  <2>2. child[j] # "none"
    BY <1>1, <1>2, ReceiversAreFlags DEF Forking
  <2> QED BY <2>1, <2>2
<1> QED BY <1>2, <1>3, <1>4, <1>5 DEF InHand

\* When no garbage can cancel a flag, the sum is zero only if nobody has the
\* message still to read, and zero then if nothing else was in it.
LEMMA SumTells ==
    ASSUME MessagesInv, NEW c \in Receivers, child[c] = "write", receiverId = All
    PROVE  /\ GarbageCounts /\ AllReceived(msg[c]) => \A k \in Receivers : child[k] # "read"
           /\ NoGarbage /\ ~AllReceived(msg[c]) => \E k \in Receivers : child[k] = "read"
<1> DEFINE f == msg[c]
<1>1. \A k \in Flags : IF k \in Receivers THEN f[k] = (IF child[k] = "read" THEN 1 ELSE 0)
                       ELSE f[k] \in Garbage
  BY Holder DEF UnderWay
<1> HIDE DEF f
<1>2. ASSUME GarbageCounts PROVE \A k \in Flags : f[k] \in Nat
  BY <1>1, <1>2, ReceiversAreFlags DEF GarbageCounts
<1>3. ASSUME GarbageCounts, AllReceived(f) PROVE \A k \in Receivers : child[k] # "read"
  <2>1. \A k \in Flags : f[k] = 0
    BY <1>2, <1>3, ZeroSum
  <2> QED BY <1>1, <2>1, ReceiversAreFlags
<1>4. ASSUME NoGarbage, ~AllReceived(f) PROVE \E k \in Receivers : child[k] = "read"
  <2>1. GarbageCounts
    BY <1>4 DEF NoGarbage, GarbageCounts
  <2>2. PICK k \in Flags : f[k] # 0
    BY <1>2, <1>4, <2>1, ZeroSum
  <2>3. k \in Receivers
    BY <1>1, <1>4, <2>2, ReceiversAreFlags DEF NoGarbage
  <2> QED BY <1>1, <2>2, <2>3
<1> QED BY <1>3, <1>4 DEF f

LEMMA AcknowledgeKeeps ==
    ASSUME MessagesInv, NEW c \in Receivers, Acknowledge(c)
    PROVE  MessagesInv'
<1>1. /\ MessagesTypeOK /\ Forking /\ child[c] = "write" /\ Answers(c)
      /\ fromReceivers' = Append(fromReceivers, c)
      /\ child' = [child EXCEPT ![c] = "done"]
      /\ UNCHANGED <<receiverId, parent, forked, toReceivers, msg>>
  BY DEF MessagesInv, Acknowledge
<1>2. /\ toReceivers = <<>> /\ Writers = {c} /\ UnderWay(msg[c])
      /\ \A k \in Receivers : k # c => child[k] \in {"read", "done"}
  BY <1>1, Holder
<1>3. fromReceivers = <<>> /\ parent = "read"
  BY <1>2 DEF UnderWay
<1>4. fromReceivers' \in Seq(Receivers) /\ Len(fromReceivers') = 1
  BY <1>1, <1>3, QueueOfOne
<1>5. \A k \in Receivers : child'[k] = IF k = c THEN "done" ELSE child[k]
  BY <1>1 DEF MessagesTypeOK
<1>6. MessagesTypeOK' /\ Forking'
  BY <1>1, <1>4, <1>5 DEF MessagesTypeOK, Forking
<1>7. Answered'
  <2>1. Writers' = {}
    BY <1>2, <1>5 DEF Writers
  <2>2. ASSUME receiverId = All, GarbageCounts, NEW k \in Receivers PROVE child'[k] = "done"
    <3>1. AllReceived(msg[c])
      BY <1>1, <2>2 DEF Answers
    <3>2. child[k] # "read"
      BY <1>1, <2>2, <3>1, SumTells
    <3> QED BY <1>2, <1>5, <3>2
  <2>3. receiverId # All => receiverId \in Receivers /\ child'[receiverId] = "done"
    BY <1>1, <1>5 DEF Answers, ForMe
  <2> QED BY <1>1, <1>2, <1>3, <1>4, <2>1, <2>2, <2>3 DEF Answered
<1> QED BY <1>1, <1>3, <1>6, <1>7 DEF MessagesInv

LEMMA PassOnKeeps ==
    ASSUME MessagesInv, NEW c \in Receivers, PassOn(c)
    PROVE  MessagesInv'
<1>1. /\ MessagesTypeOK /\ Forking /\ child[c] = "write" /\ ~Answers(c)
      /\ toReceivers' = Append(toReceivers, msg[c])
      /\ child' = [child EXCEPT ![c] = "done"]
      /\ UNCHANGED <<receiverId, parent, forked, fromReceivers, msg>>
  BY DEF MessagesInv, PassOn
<1>2. /\ toReceivers = <<>> /\ Writers = {c} /\ UnderWay(msg[c]) /\ msg[c] \in Message
      /\ \A k \in Receivers : k # c => child[k] \in {"read", "done"}
  BY <1>1, Holder
<1>3. fromReceivers = <<>> /\ parent = "read"
  BY <1>2 DEF UnderWay
<1>4. toReceivers' \in Seq(Message) /\ Len(toReceivers') = 1 /\ toReceivers'[1] = msg[c]
  BY <1>1, <1>2, QueueOfOne
<1>5. \A k \in Receivers : child'[k] = IF k = c THEN "done" ELSE child[k]
  BY <1>1 DEF MessagesTypeOK
<1>6. MessagesTypeOK' /\ Forking'
  BY <1>1, <1>4, <1>5 DEF MessagesTypeOK, Forking
<1>7. InPipe'
  <2>1. Writers' = {}
    BY <1>2, <1>5 DEF Writers
  <2>2. UnderWay(msg[c])'
    <3>1. receiverId # c \/ receiverId = All
      BY <1>1 DEF Answers, ForMe
    <3>2. receiverId \in Receivers => receiverId # All
      BY MessagesAssumption DEF Receivers
    <3>3. receiverId \in Receivers => child'[receiverId] # "done"
      BY <1>2, <1>5, <3>1, <3>2 DEF UnderWay
    <3>4. \A k \in Receivers : child'[k] = "read" <=> child[k] = "read"
      BY <1>1, <1>5
    <3> QED BY <1>1, <1>2, <3>3, <3>4 DEF UnderWay
  <2>3. receiverId = All /\ NoGarbage => \E k \in Receivers : child'[k] = "read"
    <3>1. ASSUME receiverId = All, NoGarbage PROVE \E k \in Receivers : child'[k] = "read"
      <4>1. ~AllReceived(msg[c])
        BY <1>1, <3>1 DEF Answers
      <4>2. PICK k \in Receivers : child[k] = "read"
        BY <1>1, <3>1, <4>1, SumTells
      <4> QED BY <1>1, <1>5, <4>2
    <3> QED BY <3>1
  <2>4. toReceivers'[1] = msg'[c]
    BY <1>1, <1>4
  <2> QED BY <1>1, <1>4, <2>1, <2>2, <2>3, <2>4 DEF InPipe
<1> QED BY <1>1, <1>3, <1>6, <1>7 DEF MessagesInv

(***************************************************************************)
(* The message is unsent, in the pipe, in the hands of one child or        *)
(* answered, and its flags are right (broadcast.c:57-116,                  *)
(* unicast.c:63-119).                                                      *)
(***************************************************************************)
THEOREM MessagesInvariant == MessagesSpec => []MessagesInv
<1>1. ASSUME MessagesInv, MessagesNext PROVE MessagesInv'
  <2>1. CASE Fork \/ ForkFails
    BY <1>1, <2>1, ForkKeeps
  <2>2. CASE Send
    BY <1>1, <2>2, SendKeeps
  <2>3. CASE Hear
    BY <1>1, <2>3, HearKeeps
  <2>4. CASE \E c \in Receivers : Receiver(c)
    <3>1. PICK c \in Receivers : Receiver(c)
      BY <2>4
    <3> QED BY <1>1, <3>1, ReceiveKeeps, AcknowledgeKeeps, PassOnKeeps DEF Receiver
  <2> QED BY <1>1, <2>1, <2>2, <2>3, <2>4 DEF MessagesNext
<1>2. ASSUME MessagesInv, UNCHANGED messagesVars PROVE MessagesInv'
  BY <1>2 DEF messagesVars, MessagesInv, MessagesTypeOK, Forking, Unsent, InPipe, InHand, Answered,
     UnderWay, Writers
<1>3. MessagesInv /\ [MessagesNext]_messagesVars => MessagesInv'
  BY <1>1, <1>2
<1> QED BY MessagesInitially, <1>3, PTL DEF MessagesSpec

\* Each child is where main() can be, and each pipe holds whole messages
\* (broadcast.c:25-116).
THEOREM MessagesTypes == MessagesSpec => []MessagesTypeOK
<1>1. MessagesInv => MessagesTypeOK
  BY DEF MessagesInv
<1> QED BY <1>1, MessagesInvariant, PTL

\* AnswerIsGenuine holds whatever is in the flags.
LEMMA GenuineHolds == MessagesInv => AnswerIsGenuine
<1> SUFFICES ASSUME MessagesInv, receiverId # All, Heard
             PROVE  /\ receiverId \in Receivers /\ child[receiverId] = "done"
                    /\ toReceivers = <<>> /\ \A k \in Receivers : child[k] # "write"
  BY DEF AnswerIsGenuine
<1>1. Answered
  BY DEF Heard, MessagesInv, Unsent, InPipe, InHand, UnderWay
<1> QED BY <1>1 DEF Answered, Writers

LEMMA AckHolds == MessagesInv /\ GarbageCounts => AckMeansAll
<1> SUFFICES ASSUME MessagesInv, GarbageCounts, receiverId = All, Heard, NEW k \in Receivers
             PROVE  child[k] \in {"write", "done"}
  BY DEF AckMeansAll
<1>1. Answered
  BY DEF Heard, MessagesInv, Unsent, InPipe, InHand, UnderWay
<1> QED BY <1>1 DEF Answered

LEMMA CompletesHolds == MessagesInv /\ NoGarbage => Completes
<1> SUFFICES ASSUME MessagesInv, NoGarbage, Stopped, parent # "failed"
             PROVE  /\ receiverId = All => parent = "done" /\ \A k \in Receivers : child[k] = "done"
                    /\ receiverId \in Receivers => parent = "done"
  BY DEF Completes
<1>1. parent \in {"read", "done"} /\ Forking
  BY DEF Stopped, MessagesInv, MessagesTypeOK
<1>2. \A k \in Receivers : child[k] # "none"
  BY <1>1, ReceiversAreFlags DEF Forking
<1>3. \A k \in Receivers : child[k] # "write"
  BY DEF Stopped
<1>4. CASE InPipe
  <2>1. \A k \in Receivers : child[k] = "done"
    <3>1. toReceivers # <<>>
      BY <1>4 DEF InPipe
    <3> QED BY <1>2, <3>1 DEF Stopped
  <2> QED BY <1>4, <2>1 DEF InPipe, UnderWay
<1>5. CASE InHand
  BY <1>3, <1>5 DEF InHand, Writers
<1>6. CASE Answered
  <2>1. parent = "done"
    BY <1>1, <1>6 DEF Stopped, Answered
  <2>2. GarbageCounts
    BY DEF NoGarbage, GarbageCounts
  <2> QED BY <1>6, <2>1, <2>2 DEF Answered
<1> QED BY <1>1, <1>4, <1>5, <1>6 DEF MessagesInv

(***************************************************************************)
(* An answer means what it says, for any number of children: in unicast    *)
(* always; in broadcast (broadcast.c:76-83) when no uninitialised flag is  *)
(* negative, which holds too when there are no flags beyond the receivers. *)
(***************************************************************************)
THEOREM AnswersAreRight == ASSUME GarbageCounts PROVE MessagesSpec => []AnswersRight
<1>1. MessagesInv => AnswersRight
  BY GenuineHolds, AckHolds DEF AnswersRight
<1> QED BY <1>1, MessagesInvariant, PTL

(***************************************************************************)
(* In unicast it is the addressee that answers, whatever is in the flags   *)
(* (unicast.c:74-92).                                                      *)
(***************************************************************************)
THEOREM UnicastAnswersAreGenuine == MessagesSpec => []AnswerIsGenuine
BY GenuineHolds, MessagesInvariant, PTL

(***************************************************************************)
(* The parent hears from its children, however many there are and in       *)
(* whatever order they read, when the flags beyond the receivers are zero  *)
(* or there are none (broadcast.c:78-90).                                  *)
(***************************************************************************)
THEOREM MessagesComplete == ASSUME NoGarbage PROVE MessagesSpec => []Completes
<1>1. MessagesInv => Completes
  BY CompletesHolds
<1> QED BY <1>1, MessagesInvariant, PTL

-----------------------------------------------------------------------------
(* Umalloc: pieces of memory.                                               *)

\* Two pieces that touch, at a and b, become one.
OneOfTwo(t, s, D, a, b) ==
    /\ a # base /\ b = a + s[a]
    /\ t \in [D \ {b} -> Nat]
    /\ \A x \in D \ {b} : t[x] = IF x = a THEN s[a] + s[b] ELSE s[x]

LEMMA TilesJoin ==
    ASSUME NEW D \in SUBSET Nat, NEW s \in [D -> Nat], NEW top \in Nat, Tiles(s, top),
           NEW a \in D, NEW b \in D, NEW t, OneOfTwo(t, s, D, a, b)
    PROVE  Tiles(t, top)
<1>0. /\ a # base /\ b = a + s[a] /\ t \in [D \ {b} -> Nat]
      /\ \A x \in D \ {b} : t[x] = IF x = a THEN s[a] + s[b] ELSE s[x]
  BY DEF OneOfTwo
<1>1. /\ \A x \in D : x \in Nat /\ s[x] \in Nat /\ (s[x] = 0 <=> x = base) /\ x + s[x] <= top
      /\ \A x, y \in D : x < y => x + s[x] <= y
      /\ \A u \in 1..(top - 1) : \E x \in D : x <= u /\ u < x + s[x]
  BY DEF Tiles
<1>2. a \in D \ {b} /\ b > a /\ s[a] > 0 /\ t[a] = s[a] + s[b]
  BY <1>0, <1>1
<1>3. ASSUME NEW x \in D \ {b} PROVE (t[x] = 0 <=> x = base) /\ x + t[x] <= top
  <2>1. CASE x = a
    BY <1>0, <1>1, <1>2, <2>1
  <2>2. CASE x # a
    BY <1>0, <1>1, <2>2
  <2> QED BY <1>0, <2>1, <2>2
<1>4. ASSUME NEW x \in D \ {b}, NEW y \in D \ {b}, x < y PROVE x + t[x] <= y
  <2>1. CASE x = a
    <3>1. b <= y /\ b # y
      BY <1>0, <1>1, <1>4, <2>1
    <3>2. b < y /\ b + s[b] <= y
      BY <1>0, <1>1, <3>1
    <3> QED BY <1>0, <1>1, <1>2, <2>1, <3>2
  <2>2. CASE x # a
    BY <1>0, <1>1, <1>4, <2>2
  <2> QED BY <1>0, <2>1, <2>2
<1>5. ASSUME NEW u \in 1..(top - 1) PROVE \E x \in D \ {b} : x <= u /\ u < x + t[x]
  <2>1. PICK x \in D : x <= u /\ u < x + s[x]
    BY <1>0, <1>1
  <2>2. CASE x \in {a, b}
    BY <1>0, <1>1, <1>2, <2>1, <2>2
  <2>3. CASE x \notin {a, b}
    BY <1>0, <2>1, <2>3
  <2> QED BY <1>0, <2>2, <2>3
<1> QED BY <1>0, <1>3, <1>4, <1>5 DEF Tiles

\* The piece at a is cut in two, of which the second is at b.
TwoOfOne(t, s, D, a, b) ==
    /\ a < b /\ b < a + s[a]
    /\ t \in [D \cup {b} -> Nat]
    /\ a + t[a] = b /\ b + t[b] = a + s[a]
    /\ \A x \in D : x # a => t[x] = s[x]

LEMMA TilesCut ==
    ASSUME NEW D \in SUBSET Nat, NEW s \in [D -> Nat], NEW top \in Nat, Tiles(s, top),
           NEW a \in D, NEW b \in Nat, NEW t, TwoOfOne(t, s, D, a, b)
    PROVE  Tiles(t, top) /\ b \notin D
<1>1. /\ \A x \in D : x \in Nat /\ s[x] \in Nat /\ (s[x] = 0 <=> x = base) /\ x + s[x] <= top
      /\ \A x, y \in D : x < y => x + s[x] <= y
      /\ \A u \in 1..(top - 1) : \E x \in D : x <= u /\ u < x + s[x]
  BY DEF Tiles
<1>5. /\ a < b /\ b < a + s[a] /\ a + t[a] = b /\ b + t[b] = a + s[a]
      /\ t \in [D \cup {b} -> Nat] /\ \A x \in D : x # a => t[x] = s[x]
  BY DEF TwoOfOne
<1>2. /\ a # base /\ b > a /\ b + t[b] = a + s[a] /\ t[b] > 0 /\ t[b] \in Nat
      /\ t[a] > 0 /\ t[a] \in Nat
  <2>1. a \in Nat /\ s[a] \in Nat /\ t[a] \in Nat /\ t[b] \in Nat /\ (s[a] = 0 <=> a = base)
    BY <1>1, <1>5
  <2> QED BY <1>5, <2>1
<1>3. b \notin D
  BY <1>1, <1>2, <1>5
<1>4. \A x \in D \cup {b} : x \in Nat /\ t[x] \in Nat
  BY <1>1, <1>5
<1>6. ASSUME NEW x \in D \cup {b} PROVE (t[x] = 0 <=> x = base) /\ x + t[x] <= top
  <2>1. CASE x = a
    BY <1>1, <1>2, <1>5, <2>1
  <2>2. CASE x = b
    BY <1>1, <1>2, <2>2 DEF base
  <2>3. CASE x \notin {a, b}
    BY <1>1, <1>5, <2>3
  <2> QED BY <2>1, <2>2, <2>3
<1>7. ASSUME NEW x \in D \cup {b}, NEW y \in D \cup {b}, x < y PROVE x + t[x] <= y
  <2>1. CASE x = a
    <3>1. y = b \/ a + s[a] <= y
      BY <1>1, <1>7, <2>1
    <3> QED BY <1>1, <1>2, <1>5, <2>1, <3>1
  <2>2. CASE x = b
    <3>1. y \in D /\ a < y
      BY <1>1, <1>2, <1>7, <2>2
    <3>2. a + s[a] <= y
      BY <1>1, <3>1
    <3> QED BY <1>2, <2>2, <3>2
  <2>3. CASE x \notin {a, b}
    <3>1. x \in D /\ t[x] = s[x]
      BY <1>5, <2>3
    <3>2. CASE y = b
      <4>1. x < a \/ a < x
        BY <1>1, <2>3, <3>1
      <4>2. x < a
        BY <1>1, <1>2, <1>7, <3>1, <3>2, <4>1
      <4>3. x + s[x] <= a
        BY <1>1, <3>1, <4>2
      <4> QED BY <1>1, <1>2, <3>1, <3>2, <4>3
    <3>3. CASE y # b
      BY <1>1, <1>7, <3>1, <3>3
    <3> QED BY <3>2, <3>3
  <2> QED BY <2>1, <2>2, <2>3
<1>8. ASSUME NEW u \in 1..(top - 1) PROVE \E x \in D \cup {b} : x <= u /\ u < x + t[x]
  <2>1. PICK x \in D : x <= u /\ u < x + s[x]
    BY <1>1
  <2>2. CASE x = a
    <3>1. u < b \/ b <= u
      BY <1>2
    <3> QED BY <1>1, <1>2, <1>5, <2>1, <2>2, <3>1
  <2>3. CASE x # a
    BY <1>5, <2>1, <2>3
  <2> QED BY <2>2, <2>3
<1>9. Tiles(t, top)
  BY <1>5, <1>6, <1>7, <1>8 DEF Tiles
<1> QED BY <1>3, <1>9

\* A new piece at the top.
LEMMA TilesGrow ==
    ASSUME NEW D \in SUBSET Nat, NEW s \in [D -> Nat], NEW top \in Nat, top # 0, Tiles(s, top),
           NEW n \in Nat, n # 0,
           NEW t \in [D \cup {top} -> Nat], t[top] = n, \A x \in D : t[x] = s[x]
    PROVE  Tiles(t, top + n)
<1>1. /\ \A x \in D : x \in Nat /\ s[x] \in Nat /\ (s[x] = 0 <=> x = base) /\ x + s[x] <= top
      /\ \A x, y \in D : x < y => x + s[x] <= y
      /\ \A u \in 1..(top - 1) : \E x \in D : x <= u /\ u < x + s[x]
  BY DEF Tiles
<1>2. ASSUME NEW x \in D \cup {top} PROVE (t[x] = 0 <=> x = base) /\ x + t[x] <= top + n
  <2>1. CASE x = top
    BY <2>1 DEF base
  <2>2. CASE x # top
    BY <1>1, <2>2
  <2> QED BY <2>1, <2>2
<1>3. ASSUME NEW x \in D \cup {top}, NEW y \in D \cup {top}, x < y PROVE x + t[x] <= y
  <2>1. x \in D
    <3>1. y <= top
      BY <1>1
    <3> QED BY <1>1, <1>3, <3>1
  <2>2. CASE y = top
    BY <1>1, <2>1, <2>2
  <2>3. CASE y # top
    BY <1>1, <1>3, <2>1, <2>3
  <2> QED BY <2>2, <2>3
<1>4. ASSUME NEW u \in 1..(top + n - 1) PROVE \E x \in D \cup {top} : x <= u /\ u < x + t[x]
  <2>1. CASE u < top
    <3>1. PICK x \in D : x <= u /\ u < x + s[x]
      BY <1>1, <2>1
    <3> QED BY <3>1
  <2>2. CASE u >= top
    BY <2>2
  <2> QED BY <2>1, <2>2
<1> QED BY <1>2, <1>3, <1>4 DEF Tiles

-----------------------------------------------------------------------------
(* Umalloc: headers.                                                        *)

\* What is in memory: headers at natural numbers.
Headers(h) ==
    /\ DOMAIN h \in SUBSET Nat /\ base \in DOMAIN h
    /\ \A a \in DOMAIN h : h[a].ptr \in Nat \cup {Unset} /\ h[a].size \in Nat

\* g is h but for the header at a.
Elsewhere(g, h, a) == \A x \in DOMAIN g : x # a => g[x] = h[x]

\* Of g, which is h with an assignment to the header at a.
Assigned(g, h, a, ptr, size) ==
    /\ DOMAIN g = DOMAIN h \cup {a}
    /\ g[a].ptr = ptr /\ g[a].size = size /\ Elsewhere(g, h, a)

LEMMA HeaderIs ==
    ASSUME NEW h, NEW a, NEW ptr, NEW size
    PROVE  Assigned(Header(h, a, ptr, size), h, a, ptr, size)
BY DEF Header, Elsewhere, Assigned

LEMMA LinkIs ==
    ASSUME NEW h, NEW a \in DOMAIN h, NEW ptr
    PROVE  Assigned(Link(h, a, ptr), h, a, ptr, h[a].size)
BY HeaderIs DEF Link

\* The block at bp after it has been joined with the one above.
JoinedAbove(g, h, bp, next) ==
    /\ Elsewhere(g, h, bp) /\ bp \in DOMAIN g
    /\ IF bp + h[bp].size = next
       THEN /\ DOMAIN g = DOMAIN h \ {next}
            /\ g[bp].ptr = h[next].ptr /\ g[bp].size = h[bp].size + h[next].size
       ELSE /\ DOMAIN g = DOMAIN h
            /\ g[bp].ptr = next /\ g[bp].size = h[bp].size

LEMMA UpperIs ==
    ASSUME NEW h, NEW bp \in DOMAIN h, NEW next \in DOMAIN h, next # bp
    PROVE  JoinedAbove(Upper(h, bp, next), h, bp, next)
<1>0. PICK g : g = Upper(h, bp, next)
  OBVIOUS
<1> DEFINE k == Gone(h, next)
<1>1. DOMAIN k = DOMAIN h \ {next} /\ \A x \in DOMAIN k : k[x] = h[x]
  BY DEF Gone
<1>2. ASSUME bp + h[bp].size = next PROVE JoinedAbove(g, h, bp, next)
  <2> DEFINE ptr == h[next].ptr
             size == h[bp].size + h[next].size
  <2>1. g = Header(k, bp, ptr, size)
    BY <1>0, <1>2 DEF Upper
  <2> HIDE DEF k, ptr, size
  <2>2. DOMAIN g = DOMAIN k \cup {bp} /\ g[bp].ptr = ptr /\ g[bp].size = size /\ Elsewhere(g, k, bp)
    <3>1. Assigned(g, k, bp, ptr, size)
      BY <2>1, HeaderIs
    <3> QED BY <3>1 DEF Assigned
  <2>3. DOMAIN g = DOMAIN h \ {next} /\ bp \in DOMAIN g
    BY <1>1, <2>2
  <2>4. Elsewhere(g, h, bp)
    BY <1>1, <2>2, <2>3 DEF Elsewhere
  <2> QED BY <1>2, <2>2, <2>3, <2>4 DEF ptr, size, JoinedAbove
<1>3. ASSUME bp + h[bp].size # next PROVE JoinedAbove(g, h, bp, next)
  <2>1. Assigned(g, h, bp, next, h[bp].size)
    BY <1>0, <1>3, LinkIs DEF Upper
  <2> QED BY <1>3, <2>1 DEF Assigned, JoinedAbove
<1>4. JoinedAbove(g, h, bp, next)
  BY <1>2, <1>3
<1> QED BY <1>0, <1>4

\* The block at p after it has been joined with bp.
JoinedBelow(g, h, bp, p) ==
    /\ Elsewhere(g, h, p) /\ p \in DOMAIN g
    /\ IF p + h[p].size = bp
       THEN /\ DOMAIN g = DOMAIN h \ {bp}
            /\ g[p].ptr = h[bp].ptr /\ g[p].size = h[p].size + h[bp].size
       ELSE /\ DOMAIN g = DOMAIN h
            /\ g[p].ptr = bp /\ g[p].size = h[p].size

LEMMA LowerIs ==
    ASSUME NEW h, NEW bp \in DOMAIN h, NEW p \in DOMAIN h, p # bp
    PROVE  JoinedBelow(Lower(h, bp, p), h, bp, p)
<1>0. PICK g : g = Lower(h, bp, p)
  OBVIOUS
<1> DEFINE k == Gone(h, bp)
<1>1. DOMAIN k = DOMAIN h \ {bp} /\ \A x \in DOMAIN k : k[x] = h[x]
  BY DEF Gone
<1>2. ASSUME p + h[p].size = bp PROVE JoinedBelow(g, h, bp, p)
  <2> DEFINE ptr == h[bp].ptr
             size == h[p].size + h[bp].size
  <2>1. g = Header(k, p, ptr, size)
    BY <1>0, <1>2 DEF Lower
  <2> HIDE DEF k, ptr, size
  <2>2. DOMAIN g = DOMAIN k \cup {p} /\ g[p].ptr = ptr /\ g[p].size = size /\ Elsewhere(g, k, p)
    <3>1. Assigned(g, k, p, ptr, size)
      BY <2>1, HeaderIs
    <3> QED BY <3>1 DEF Assigned
  <2>3. DOMAIN g = DOMAIN h \ {bp} /\ p \in DOMAIN g
    BY <1>1, <2>2
  <2>4. Elsewhere(g, h, p)
    BY <1>1, <2>2, <2>3 DEF Elsewhere
  <2> QED BY <1>2, <2>2, <2>3, <2>4 DEF ptr, size, JoinedBelow
<1>3. ASSUME p + h[p].size # bp PROVE JoinedBelow(g, h, bp, p)
  <2>1. Assigned(g, h, p, bp, h[p].size)
    BY <1>0, <1>3, LinkIs DEF Lower
  <2> QED BY <1>3, <2>1 DEF Assigned, JoinedBelow
<1>4. JoinedBelow(g, h, bp, p)
  BY <1>2, <1>3
<1> QED BY <1>0, <1>4

\* All that is in memory is in pieces which do not overlap.
Laid(h, taken, top) ==
    /\ Headers(h) /\ taken \subseteq Nat /\ DOMAIN h \cap taken = {} /\ top \in Nat \ {0}
    /\ Tiles(Pieces(h, taken), top)

Filled(h, taken, top, s) ==
    /\ s \in [DOMAIN h \cup taken -> Nat] /\ DOMAIN h \cup taken \in SUBSET Nat
    /\ \A a \in DOMAIN h : s[a] = h[a].size /\ a \in Nat
    /\ \A a \in taken : s[a] = 1 /\ a \in Nat
    /\ \A a \in DOMAIN h : h[a].size \in Nat /\ (h[a].size = 0 <=> a = base) /\ a + h[a].size <= top
    /\ \A a, b \in DOMAIN h : a < b => a + h[a].size <= b
    /\ top \notin DOMAIN h \cup taken

LEMMA LaidIs ==
    ASSUME NEW h, NEW taken, NEW top, Laid(h, taken, top)
    PROVE  Filled(h, taken, top, Pieces(h, taken))
<1>1. /\ Pieces(h, taken) \in [DOMAIN h \cup taken -> Nat] /\ DOMAIN h \cup taken \in SUBSET Nat
      /\ \A a \in DOMAIN h : Pieces(h, taken)[a] = h[a].size /\ a \in Nat
      /\ \A a \in taken : Pieces(h, taken)[a] = 1 /\ a \in Nat
  BY DEF Laid, Headers, Pieces
<1> DEFINE s == Pieces(h, taken)
<1>2. DOMAIN s = DOMAIN h \cup taken /\ Tiles(s, top) /\ base \in DOMAIN h /\ base \notin taken
      /\ top \in Nat \ {0}
  BY <1>1 DEF Laid, Headers
<1> HIDE DEF s
<1>3. /\ \A a \in DOMAIN s : (s[a] = 0 <=> a = base) /\ a + s[a] <= top
      /\ \A a, b \in DOMAIN s : a < b => a + s[a] <= b
  BY <1>2 DEF Tiles
<1>4. \A a \in DOMAIN h : s[a] = h[a].size /\ a \in Nat /\ h[a].size \in Nat /\ a \in DOMAIN s
  BY <1>1, <1>2 DEF s, Laid, Headers
<1>5. top \notin DOMAIN s
  <2> SUFFICES ASSUME top \in DOMAIN s PROVE FALSE
    OBVIOUS
  <2>1. s[top] \in Nat /\ top + s[top] <= top /\ top # base
    BY <1>1, <1>2, <1>3 DEF base, s
  <2>2. s[top] = 0
    BY <1>2, <2>1
  <2> QED BY <1>3, <2>1, <2>2
<1>6. Pieces(h, taken) = s
  BY DEF s
<1> QED BY <1>1, <1>2, <1>3, <1>4, <1>5, <1>6 DEF Filled

LEMMA SizesAre ==
    ASSUME NEW h, NEW taken, NEW top, Laid(h, taken, top)
    PROVE  \A a \in DOMAIN h : a \in Nat /\ h[a].size \in Nat /\ (h[a].size = 0 <=> a = base)
<1>1. Filled(h, taken, top, Pieces(h, taken))
  BY LaidIs
<1>2. PICK s : Filled(h, taken, top, s)
  BY <1>1
<1> QED BY ONLY <1>2 DEF Filled

\* Only the links differ.
LEMMA LaidSame ==
    ASSUME NEW h, NEW taken, NEW top, Laid(h, taken, top),
           NEW g, DOMAIN g = DOMAIN h,
           \A a \in DOMAIN g : g[a].ptr \in Nat \cup {Unset} /\ g[a].size = h[a].size
    PROVE  Laid(g, taken, top)
<1>1. Headers(g)
  BY DEF Laid, Headers
<1>2. Pieces(g, taken) = Pieces(h, taken)
  BY DEF Pieces
<1> QED BY <1>1, <1>2 DEF Laid

\* The block at b has become part of the one at a.
LEMMA LaidJoin ==
    ASSUME NEW h, NEW taken, NEW top, Laid(h, taken, top),
           NEW a \in DOMAIN h, NEW b \in DOMAIN h, a # base, b = a + h[a].size,
           NEW g, DOMAIN g = DOMAIN h \ {b}, Elsewhere(g, h, a),
           g[a].ptr \in Nat \cup {Unset}, g[a].size = h[a].size + h[b].size
    PROVE  Laid(g, taken, top)
<1> DEFINE s == Pieces(h, taken)
           t == Pieces(g, taken)
           D == DOMAIN h \cup taken
<1>1. /\ D \in SUBSET Nat /\ s \in [D -> Nat] /\ top \in Nat /\ Tiles(s, top)
      /\ \A x \in DOMAIN h : s[x] = h[x].size /\ h[x].size \in Nat /\ x \in Nat
      /\ DOMAIN h \cap taken = {} /\ h[a].size # 0
  <2>1. DOMAIN h \cap taken = {} /\ top \in Nat /\ Tiles(s, top)
    BY DEF Laid
  <2>2. D \in SUBSET Nat /\ s \in [D -> Nat]
    BY LaidIs DEF Filled
  <2>3. \A x \in DOMAIN h : s[x] = h[x].size /\ x \in Nat
    BY LaidIs DEF Filled
  <2>4. \A x \in DOMAIN h : h[x].size \in Nat /\ (h[x].size = 0 <=> x = base)
    BY LaidIs DEF Filled
  <2> QED BY <2>1, <2>2, <2>3, <2>4
<1>2. a # b /\ a \in DOMAIN g /\ b # base /\ b \notin taken
  BY <1>1 DEF base
<1>3. Headers(g)
  <2>1. DOMAIN g \in SUBSET Nat /\ base \in DOMAIN g
    BY <1>1, <1>2 DEF Laid, Headers
  <2>2. ASSUME NEW x \in DOMAIN g PROVE g[x].ptr \in Nat \cup {Unset} /\ g[x].size \in Nat
    <3>1. CASE x = a
      BY <1>1, <3>1
    <3>2. CASE x # a
      BY <3>2 DEF Laid, Headers, Elsewhere
    <3> QED BY <3>1, <3>2
  <2> QED BY <2>1, <2>2 DEF Headers
<1>4. /\ t \in [D \ {b} -> Nat]
      /\ \A x \in D \ {b} : t[x] = IF x = a THEN s[a] + s[b] ELSE s[x]
  <2>1. D \ {b} = DOMAIN g \cup taken
    BY <1>2
  <2>2. DOMAIN t = D \ {b}
    BY <2>1 DEF Pieces
  <2>3. t = [x \in D \ {b} |-> t[x]]
    BY <2>1 DEF Pieces
  <2>4. ASSUME NEW x \in D \ {b} PROVE t[x] \in Nat /\ t[x] = IF x = a THEN s[a] + s[b] ELSE s[x]
    <3>1. CASE x \in taken
      <4>1. t[x] = 1 /\ s[x] = 1 /\ x # a
        BY <1>1, <3>1 DEF Pieces
      <4> QED BY <4>1
    <3>2. CASE x \notin taken
      <4>1. x \in DOMAIN g /\ t[x] = g[x].size
        BY <2>1, <3>2 DEF Pieces
      <4>2. g[x].size \in Nat /\ (x # a => g[x] = h[x])
        BY <1>3, <4>1 DEF Headers, Elsewhere
      <4> QED BY <1>1, <4>1, <4>2
    <3> QED BY <3>1, <3>2
  <2> HIDE DEF t, s
  <2> QED BY <2>3, <2>4
<1>5. Tiles(t, top)
  <2>1. b = a + s[a] /\ a \in D /\ b \in D
    BY <1>1
  <2> HIDE DEF t, s, D
  <2>2. D \in SUBSET Nat /\ s \in [D -> Nat] /\ top \in Nat /\ Tiles(s, top)
    BY <1>1
  <2>3. OneOfTwo(t, s, D, a, b)
    BY <1>4, <2>1 DEF OneOfTwo
  <2> QED BY <2>1, <2>2, <2>3, TilesJoin
<1> QED BY <1>1, <1>3, <1>5 DEF Laid

-----------------------------------------------------------------------------
(* Umalloc: the list.                                                       *)

\* A free list in memory.
Listed(h, list) == list \subseteq DOMAIN h /\ base \in list /\ Sorted(h, list)

\* The place at which the loop of free() stops.
Spot(h, list, bp, p) ==
    /\ p < bp /\ p + h[p].size <= bp
    /\ h[p].ptr \in list
    /\ IF h[p].ptr = base THEN \A q \in list : q <= p
       ELSE /\ bp < h[p].ptr /\ bp + h[bp].size <= h[p].ptr
            /\ \A q \in list : q <= p \/ q >= h[p].ptr

LEMMA SpotFound ==
    ASSUME NEW h, NEW taken, NEW top, Laid(h, taken, top), NEW list, Listed(h, list),
           NEW bp \in DOMAIN h \ list, NEW p \in list, Belongs(h, bp, p)
    PROVE  Spot(h, list, bp, p)
<1> DEFINE next == h[p].ptr
<1>1. /\ next \in list
      /\ IF next = base THEN \A q \in list : q <= p
         ELSE p + h[p].size < next /\ \A q \in list : q <= p \/ q >= next
  BY DEF Listed, Sorted, Follows
<1>2. /\ p \in DOMAIN h /\ next \in DOMAIN h /\ p \in Nat /\ next \in Nat /\ bp \in Nat /\ h[p].size \in Nat
      /\ \A a, b \in DOMAIN h : a < b => a + h[a].size <= b
  BY <1>1, LaidIs DEF Filled, Listed
<1>3. (bp > p /\ bp < next) \/ (p >= next /\ (bp > p \/ bp < next))
  BY DEF Belongs
<1> HIDE DEF next
<1>4. bp > p /\ (next # base => bp < next)
  <2>1. CASE bp > p /\ bp < next
    BY <2>1
  <2>2. CASE p >= next /\ (bp > p \/ bp < next)
    <3>1. next = base
      BY <1>1, <1>2, <2>2
    <3> QED BY <1>2, <2>2, <3>1 DEF base
  <2> QED BY <1>3, <2>1, <2>2
<1>5. p + h[p].size <= bp /\ (next # base => bp + h[bp].size <= next)
  BY <1>2, <1>4
<1> QED BY <1>1, <1>2, <1>4, <1>5 DEF next, Spot

\* No two blocks are followed by the same one, unless by base.
LEMMA OneBefore ==
    ASSUME NEW h, NEW list \in SUBSET Nat, \A x \in list : h[x].size \in Nat, Sorted(h, list)
    PROVE  \A x, y \in list : h[x].ptr = h[y].ptr /\ h[x].ptr # base => x = y
<1> SUFFICES ASSUME NEW x \in list, NEW y \in list, h[x].ptr = h[y].ptr, h[x].ptr # base
             PROVE  x = y
  OBVIOUS
<1> DEFINE next == h[x].ptr
<1>1. /\ next \in list
      /\ x + h[x].size < next /\ \A q \in list : q <= x \/ q >= next
  BY DEF Sorted, Follows
<1>2. /\ y + h[y].size < next /\ \A q \in list : q <= y \/ q >= next
  BY DEF Sorted, Follows
<1> HIDE DEF next
<1>3. x \in Nat /\ y \in Nat /\ next \in Nat /\ h[x].size \in Nat /\ h[y].size \in Nat
  BY <1>1
<1>4. x < next /\ y < next
  BY <1>1, <1>2, <1>3
<1>5. y <= x /\ x <= y
  BY <1>1, <1>2, <1>3, <1>4
<1> QED BY <1>3, <1>5

\* bp hangs behind p and before the rest of the list, into which p does not
\* link it yet.
Hangs(h, list, bp, p) ==
    /\ list \subseteq DOMAIN h /\ base \in list /\ p \in list /\ bp \in DOMAIN h \ list
    /\ p < bp /\ p + h[p].size <= bp
    /\ h[bp].ptr \in list
    /\ IF h[bp].ptr = base THEN \A q \in list : q <= p
       ELSE bp + h[bp].size < h[bp].ptr /\ \A q \in list : q <= p \/ q >= h[bp].ptr
    /\ \A x \in list : x # p => Follows(h, list, x)

LEMMA UpperHangs ==
    ASSUME NEW h, NEW taken, NEW top, Laid(h, taken, top), NEW list, Listed(h, list),
           NEW bp \in DOMAIN h \ list, NEW p \in list, Spot(h, list, bp, p),
           NEW g, g = Upper(h, bp, h[p].ptr)
    PROVE  /\ Laid(g, taken, top) /\ Hangs(g, list \cap DOMAIN g, bp, p)
           /\ DOMAIN h \ list \subseteq DOMAIN g /\ DOMAIN g \subseteq DOMAIN h
           /\ Elsewhere(g, h, bp)
<1> DEFINE next == h[p].ptr
           rest == list \cap DOMAIN g
<1>1. /\ p < bp /\ p + h[p].size <= bp /\ next \in list /\ p # bp
      /\ IF next = base THEN \A q \in list : q <= p
         ELSE /\ bp < next /\ bp + h[bp].size <= next
              /\ \A q \in list : q <= p \/ q >= next
  BY DEF Spot
<1>2. /\ list \in SUBSET Nat /\ list \subseteq DOMAIN h /\ base \in list /\ Sorted(h, list)
      /\ next \in DOMAIN h /\ bp \in Nat /\ p \in Nat /\ next \in Nat /\ next # bp
      /\ \A x \in DOMAIN h : h[x].size \in Nat /\ h[x].ptr \in Nat \cup {Unset} /\ (h[x].size = 0 <=> x = base)
  <2>1. list \subseteq DOMAIN h /\ base \in list /\ Sorted(h, list) /\ next \in DOMAIN h
    BY <1>1 DEF Listed
  <2>2. \A x \in DOMAIN h : x \in Nat /\ h[x].size \in Nat /\ (h[x].size = 0 <=> x = base)
    BY SizesAre
  <2>3. \A x \in DOMAIN h : h[x].ptr \in Nat \cup {Unset}
    BY DEF Laid, Headers
  <2>4. next # bp
    BY <1>1
  <2> QED BY <2>1, <2>2, <2>3, <2>4
<1>3. bp # base /\ h[bp].size # 0
  BY <1>1, <1>2 DEF base
<1>4. /\ Elsewhere(g, h, bp) /\ bp \in DOMAIN g
      /\ IF bp + h[bp].size = next
         THEN /\ DOMAIN g = DOMAIN h \ {next}
              /\ g[bp].ptr = h[next].ptr /\ g[bp].size = h[bp].size + h[next].size
         ELSE DOMAIN g = DOMAIN h /\ g[bp].ptr = next /\ g[bp].size = h[bp].size
  <2>1. JoinedAbove(g, h, bp, next)
    BY <1>2, UpperIs
  <2> HIDE DEF next
  <2> QED BY <2>1 DEF JoinedAbove
<1> HIDE DEF next
<1>5. \A x \in DOMAIN g : x # bp => g[x] = h[x]
  BY <1>4 DEF Elsewhere
<1>6. DOMAIN h \ list \subseteq DOMAIN g /\ DOMAIN g \subseteq DOMAIN h
  BY <1>1, <1>4
<1>7. CASE bp + h[bp].size = next
  <2>1. next # base /\ bp < next
    BY <1>1, <1>2, <1>3, <1>7 DEF base
  <2>2. rest = list \ {next} /\ base \in rest /\ p \in rest /\ rest \subseteq DOMAIN g
    <3>1. p # next
      BY <1>1, <1>2, <2>1
    <3>2. rest = list \ {next}
      BY <1>2, <1>4, <1>7
    <3> QED BY <1>2, <2>1, <3>1, <3>2
  <2> DEFINE after == h[next].ptr
  <2>3. /\ after \in list
        /\ IF after = base THEN \A q \in list : q <= next
           ELSE next + h[next].size < after /\ \A q \in list : q <= next \/ q >= after
    BY <1>1, <1>2 DEF Sorted, Follows
  <2> HIDE DEF after
  <2>4. after \in Nat /\ h[next].size \in Nat /\ h[bp].size \in Nat /\ \A q \in list : q \in Nat
    BY <1>1, <1>2, <2>3
  <2>5. after # next /\ after \in rest
    BY <1>2, <2>1, <2>2, <2>3, <2>4
  <2>6. g[bp].ptr = after /\ g[bp].size = h[bp].size + h[next].size
    BY <1>4, <1>7 DEF after
  <2>7. IF after = base THEN \A q \in rest : q <= p
        ELSE bp + g[bp].size < after /\ \A q \in rest : q <= p \/ q >= after
    <3>1. \A q \in rest : q \in list /\ q \in Nat /\ q # next /\ (q <= p \/ q >= next)
      BY <1>1, <2>1, <2>2, <2>4
    <3>2. CASE after = base
      BY <1>2, <2>3, <3>1, <3>2
    <3>3. CASE after # base
      <4>1. bp + g[bp].size < after
        BY <1>2, <1>7, <2>3, <2>4, <2>6, <3>3
      <4>2. ASSUME NEW q \in rest PROVE q <= p \/ q >= after
        BY <1>2, <2>3, <2>4, <3>1, <3>3
      <4> QED BY <3>3, <4>1, <4>2
    <3> QED BY <3>2, <3>3
  <2>8. ASSUME NEW x \in rest, x # p PROVE Follows(g, rest, x)
    <3>1. x \in list /\ g[x] = h[x] /\ x # next
      BY <1>5, <2>2
    <3>2. h[x].ptr # next
      <4> SUFFICES ASSUME h[x].ptr = h[p].ptr, h[x].ptr # base PROVE FALSE
        BY <2>1 DEF next
      <4>1. \A y \in list : h[y].size \in Nat
        BY <1>2
      <4>2. list \in SUBSET Nat /\ Sorted(h, list) /\ x \in list
        BY <1>2, <3>1
      <4>3. \A y, z \in list : h[y].ptr = h[z].ptr /\ h[y].ptr # base => y = z
        BY <4>1, <4>2, OneBefore
      <4>4. x = p
        BY <4>2, <4>3
      <4> QED BY <2>8, <4>4
    <3>3. Follows(h, list, x)
      BY <1>2, <3>1 DEF Sorted
    <3> QED BY <2>2, <3>1, <3>2, <3>3 DEF Follows
  <2>9. p + g[p].size <= bp /\ bp \in DOMAIN g \ rest
    BY <1>1, <1>4, <1>5, <2>2
  <2>10. Hangs(g, rest, bp, p)
    BY <1>1, <2>2, <2>5, <2>6, <2>7, <2>8, <2>9 DEF Hangs
  <2>11. Laid(g, taken, top)
    <3>1. next = bp + h[bp].size /\ DOMAIN g = DOMAIN h \ {next} /\ g[bp].ptr \in Nat \cup {Unset}
      BY <1>4, <1>7, <2>4, <2>6
    <3> QED BY <1>2, <1>3, <1>4, <2>6, <3>1, LaidJoin
  <2> QED BY <1>4, <1>6, <2>10, <2>11
<1>8. CASE bp + h[bp].size # next
  <2>1. DOMAIN g = DOMAIN h /\ g[bp].ptr = next /\ g[bp].size = h[bp].size /\ rest = list
    BY <1>2, <1>4, <1>8
  <2>2. \A x \in list : g[x] = h[x] /\ x \in Nat
    BY <1>2, <1>5, <2>1
  <2>3. ASSUME NEW x \in list PROVE Follows(g, list, x)
    <3>1. Follows(h, list, x)
      BY <1>2 DEF Sorted
    <3> QED BY <2>2, <3>1 DEF Follows
  <2>4. IF next = base THEN \A q \in list : q <= p
        ELSE bp + g[bp].size < next /\ \A q \in list : q <= p \/ q >= next
    BY <1>1, <1>2, <1>8, <2>1
  <2>5. Hangs(g, rest, bp, p)
    BY <1>1, <1>2, <2>1, <2>2, <2>3, <2>4 DEF Hangs
  <2>6. Laid(g, taken, top)
    <3>1. \A x \in DOMAIN g : g[x].ptr \in Nat \cup {Unset} /\ g[x].size = h[x].size
      BY <1>2, <1>5, <2>1
    <3> QED BY <2>1, <3>1, LaidSame
  <2> QED BY <1>4, <1>6, <2>5, <2>6
<1> QED BY <1>7, <1>8

LEMMA LowerLists ==
    ASSUME NEW h, NEW taken, NEW top, Laid(h, taken, top), NEW list,
           NEW bp, NEW p, Hangs(h, list, bp, p),
           NEW g, g = Lower(h, bp, p)
    PROVE  /\ Laid(g, taken, top) /\ Listed(g, (list \cup {bp}) \cap DOMAIN g)
           /\ p \in DOMAIN g /\ DOMAIN h \ {bp} \subseteq DOMAIN g /\ DOMAIN g \subseteq DOMAIN h
           /\ Elsewhere(g, h, p)
<1> DEFINE next == h[bp].ptr
           all == (list \cup {bp}) \cap DOMAIN g
<1>1. /\ list \subseteq DOMAIN h /\ base \in list /\ p \in list /\ bp \in DOMAIN h \ list
      /\ p < bp /\ p + h[p].size <= bp /\ p # bp
      /\ next \in list
      /\ IF next = base THEN \A q \in list : q <= p
         ELSE bp + h[bp].size < next /\ \A q \in list : q <= p \/ q >= next
      /\ \A x \in list : x # p => Follows(h, list, x)
  BY DEF Hangs
<1>2. /\ \A x \in DOMAIN h : x \in Nat /\ h[x].size \in Nat /\ h[x].ptr \in Nat \cup {Unset}
      /\ bp \in Nat /\ p \in Nat /\ next \in Nat /\ h[p].size \in Nat /\ h[bp].size \in Nat
      /\ p \in DOMAIN h
  <2>1. \A x \in DOMAIN h : x \in Nat /\ h[x].size \in Nat /\ h[x].ptr \in Nat \cup {Unset}
    BY DEF Laid, Headers
  <2> QED BY <1>1, <2>1
<1>3. /\ Elsewhere(g, h, p) /\ p \in DOMAIN g
      /\ IF p + h[p].size = bp
         THEN /\ DOMAIN g = DOMAIN h \ {bp}
              /\ g[p].ptr = next /\ g[p].size = h[p].size + h[bp].size
         ELSE DOMAIN g = DOMAIN h /\ g[p].ptr = bp /\ g[p].size = h[p].size
  <2>1. JoinedBelow(g, h, bp, p)
    BY <1>1, <1>2, LowerIs
  <2> QED BY <2>1 DEF JoinedBelow
<1> HIDE DEF next
<1>4. \A x \in DOMAIN g : x # p => g[x] = h[x]
  BY <1>3 DEF Elsewhere
<1>5. DOMAIN h \ {bp} \subseteq DOMAIN g /\ DOMAIN g \subseteq DOMAIN h
  BY <1>3
<1>6. CASE p + h[p].size = bp
  <2>1. /\ DOMAIN g = DOMAIN h \ {bp} /\ g[p].ptr = next /\ g[p].size = h[p].size + h[bp].size
        /\ all = list
    BY <1>1, <1>3, <1>6
  <2>2. Follows(g, list, p)
    BY <1>1, <1>2, <1>6, <2>1 DEF Follows
  <2>3. ASSUME NEW x \in list, x # p PROVE Follows(g, list, x)
    <3>1. Follows(h, list, x) /\ g[x] = h[x]
      BY <1>1, <1>4, <2>1, <2>3
    <3> QED BY <3>1 DEF Follows
  <2>4. Listed(g, all)
    BY <1>1, <2>1, <2>2, <2>3 DEF Listed, Sorted
  <2>5. Laid(g, taken, top)
    <3>1. p # base
      <4>1. p = base => h[p].size = 0
        BY <1>2, LaidIs DEF Filled
      <4> QED BY <1>1, <1>2, <1>6, <4>1 DEF base
    <3>2. g[p].ptr \in Nat \cup {Unset} /\ bp = p + h[p].size /\ bp \in DOMAIN h
      BY <1>1, <1>2, <1>6, <2>1
    <3> QED BY <1>2, <1>3, <2>1, <3>1, <3>2, LaidJoin
  <2> QED BY <1>3, <1>5, <2>4, <2>5
<1>7. CASE p + h[p].size # bp
  <2>1. /\ DOMAIN g = DOMAIN h /\ g[p].ptr = bp /\ g[p].size = h[p].size
        /\ all = list \cup {bp}
    BY <1>1, <1>3, <1>7
  <2>2. bp # base
    BY <1>1
  <2>3. Follows(g, all, p)
    <3>1. p + g[p].size < bp
      BY <1>1, <1>2, <1>7, <2>1
    <3>2. ASSUME NEW q \in all PROVE q <= p \/ q >= bp
      <4>1. q \in Nat
        BY <1>1, <1>2, <2>1
      <4>2. CASE q = bp
        BY <1>2, <4>2
      <4>3. CASE q # bp
        <5>1. q \in list
          BY <2>1, <4>3
        <5>2. CASE next = base
          BY <1>1, <5>1, <5>2
        <5>3. CASE next # base
          BY <1>1, <1>2, <4>1, <5>1, <5>3
        <5> QED BY <5>2, <5>3
      <4> QED BY <4>2, <4>3
    <3> QED BY <2>1, <2>2, <3>1, <3>2 DEF Follows
  <2>4. Follows(g, all, bp)
    <3>1. g[bp] = h[bp]
      BY <1>1, <1>4, <2>1
    <3>2. next \in all
      BY <1>1, <2>1
    <3>3. CASE next = base
      <4>1. \A q \in all : q <= bp
        BY <1>1, <1>2, <2>1, <3>3
      <4> QED BY <3>1, <3>2, <3>3, <4>1 DEF Follows, next
    <3>4. CASE next # base
      <4>1. bp + h[bp].size < next
        BY <1>1, <3>4
      <4>2. \A q \in all : q <= bp \/ q >= next
        BY <1>1, <1>2, <2>1, <3>4
      <4> QED BY <3>1, <3>2, <3>4, <4>1, <4>2 DEF Follows, next
    <3> QED BY <3>3, <3>4
  <2>5. ASSUME NEW x \in list, x # p PROVE Follows(g, all, x)
    <3>1. Follows(h, list, x) /\ g[x] = h[x] /\ x \in Nat
      BY <1>1, <1>2, <1>4, <2>1, <2>5
    <3> DEFINE after == h[x].ptr
    <3>2. /\ after \in list /\ after \in Nat
          /\ IF after = base THEN \A q \in list : q <= x
             ELSE x + h[x].size < after /\ \A q \in list : q <= x \/ q >= after
      BY <1>1, <1>2, <3>1 DEF Follows
    <3> HIDE DEF after
    <3>3. x <= p \/ bp <= x
      BY <1>1, <1>2, <3>1
    <3>4. CASE after = base
      <4>1. p <= x
        BY <1>1, <3>2, <3>4
      <4>2. bp <= x
        BY <1>2, <2>5, <3>1, <3>3, <4>1
      <4>3. \A q \in all : q <= x
        BY <2>1, <3>2, <3>4, <4>2
      <4> QED BY <2>1, <3>1, <3>2, <3>4, <4>3 DEF Follows, after
    <3>5. CASE after # base
      <4>1. bp <= x \/ bp >= after
        <5>1. CASE bp <= x
          BY <5>1
        <5>2. CASE x <= p
          <6>1. p <= x \/ p >= after
            BY <1>1, <3>2, <3>5
          <6> QED BY <1>1, <1>2, <2>5, <3>1, <3>2, <5>2, <6>1
        <5> QED BY <3>3, <5>1, <5>2
      <4>2. \A q \in all : q <= x \/ q >= after
        BY <2>1, <3>2, <3>5, <4>1
      <4>3. x + h[x].size < after
        BY <3>2, <3>5
      <4> QED BY <2>1, <3>1, <3>2, <3>5, <4>2, <4>3 DEF Follows, after
    <3> QED BY <3>4, <3>5
  <2>6. Listed(g, all)
    BY <1>1, <2>1, <2>3, <2>4, <2>5 DEF Listed, Sorted
  <2>7. Laid(g, taken, top)
    <3>1. \A x \in DOMAIN g : g[x].ptr \in Nat \cup {Unset} /\ g[x].size = h[x].size
      BY <1>2, <1>4, <2>1
    <3> QED BY <2>1, <3>1, LaidSame
  <2> QED BY <1>3, <1>5, <2>6, <2>7
<1> QED BY <1>6, <1>7

\* free() keeps memory laid out and puts bp into the list, where the loop
\* has stopped.
LEMMA JoinedIs ==
    ASSUME NEW h, NEW taken, NEW top, Laid(h, taken, top), NEW list, Listed(h, list),
           NEW bp \in DOMAIN h \ list, NEW p \in list, Belongs(h, bp, p),
           NEW g, g = Joined(h, bp, p)
    PROVE  /\ Laid(g, taken, top) /\ Listed(g, (list \cup {bp}) \cap DOMAIN g) /\ p \in DOMAIN g
           /\ DOMAIN g \subseteq DOMAIN h
           /\ \A x \in DOMAIN h : x \notin list /\ x # bp => x \in DOMAIN g /\ g[x] = h[x]
<1>1. PICK k : k = Upper(h, bp, h[p].ptr)
  OBVIOUS
<1>2. g = Lower(k, bp, p)
  BY <1>1 DEF Joined
<1>3. Spot(h, list, bp, p)
  BY SpotFound
<1>4. /\ Laid(k, taken, top) /\ Hangs(k, list \cap DOMAIN k, bp, p)
      /\ DOMAIN h \ list \subseteq DOMAIN k /\ DOMAIN k \subseteq DOMAIN h
      /\ Elsewhere(k, h, bp)
  BY <1>1, <1>3, UpperHangs
<1>5. PICK rest : rest = list \cap DOMAIN k
  OBVIOUS
<1>6. /\ Laid(g, taken, top) /\ Listed(g, (rest \cup {bp}) \cap DOMAIN g)
      /\ p \in DOMAIN g /\ DOMAIN k \ {bp} \subseteq DOMAIN g /\ DOMAIN g \subseteq DOMAIN k
      /\ Elsewhere(g, k, p)
  BY <1>2, <1>4, <1>5, LowerLists
<1>7. (rest \cup {bp}) \cap DOMAIN g = (list \cup {bp}) \cap DOMAIN g
  BY <1>5, <1>6
<1>8. ASSUME NEW x \in DOMAIN h, x \notin list, x # bp PROVE x \in DOMAIN g /\ g[x] = h[x]
  <2>1. x \in DOMAIN k /\ x \in DOMAIN g /\ x # p
    BY <1>4, <1>6, <1>8
  <2> QED BY <1>4, <1>6, <1>8, <2>1 DEF Elsewhere
<1> QED BY <1>4, <1>6, <1>7, <1>8

\* A set of numbers with an upper bound has a greatest.
LEMMA Greatest ==
    ASSUME NEW S \in SUBSET Nat, S # {}, NEW N \in Nat, \A x \in S : x <= N
    PROVE  \E m \in S : \A x \in S : x <= m
<1> SUFFICES ASSUME \A m \in S : \E x \in S : x > m PROVE FALSE
  OBVIOUS
<1> DEFINE Z == {j \in 0..N : \A x \in S : x <= N - j}
<1>1. 0 \in Z
  OBVIOUS
<1>2. ASSUME NEW j \in 0..N, j < N, j \in Z PROVE j + 1 \in Z
  <2>1. N - j \notin S
    BY <1>2
  <2>2. ASSUME NEW x \in S PROVE x <= N - (j + 1)
    BY <1>2, <2>1
  <2> QED BY <1>2, <2>2
<1>3. N \in Z
  <2> HIDE DEF Z
  <2>1. 0..N \subseteq Z
    BY <1>1, <1>2, UpTo
  <2> QED BY <2>1
<1>4. \A x \in S : x = 0
  BY <1>3
<1>5. PICK m : m \in S
  OBVIOUS
<1>6. PICK x \in S : x > m
  BY <1>5
<1> QED BY <1>4, <1>5, <1>6

\* There is a place for every block: behind the last free one below it.
LEMMA PlaceFor ==
    ASSUME NEW h, NEW taken, NEW top, Laid(h, taken, top), NEW list, Listed(h, list),
           NEW bp \in DOMAIN h \ list
    PROVE  \E p \in list : Belongs(h, bp, p)
<1>1. /\ bp \in Nat /\ list \in SUBSET Nat /\ base \in list /\ bp # base
      /\ \A p \in list : h[p].size \in Nat
  BY LaidIs DEF Filled, Listed
<1> DEFINE S == {p \in list : p <= bp}
<1>2. PICK p \in S : \A x \in S : x <= p
  <2>1. S \in SUBSET Nat /\ S # {} /\ \A x \in S : x <= bp
    <3>1. base \in S
      BY <1>1 DEF base
    <3> QED BY <1>1, <3>1
  <2> HIDE DEF S
  <2> QED BY <1>1, <2>1, Greatest
<1> DEFINE next == h[p].ptr
<1>3. /\ next \in list
      /\ next # base => p + h[p].size < next
  BY DEF Listed, Sorted, Follows
<1>4. p \in Nat /\ h[p].size \in Nat /\ next \in Nat /\ next # bp /\ p # bp
  BY <1>1, <1>3
<1>5. CASE next = base
  BY <1>1, <1>4, <1>5 DEF Belongs, base
<1>6. CASE next # base
  <2>1. next > p
    BY <1>3, <1>4, <1>6
  <2>2. next > bp
    <3>1. next <= bp => next \in S
      BY <1>3
    <3>2. ~(next <= p)
      BY <1>4, <2>1
    <3>3. ~(next <= bp)
      BY <1>2, <3>1, <3>2
    <3> QED BY <1>1, <1>4, <3>3
  <2>3. bp > p
    BY <1>1, <1>4
  <2> HIDE DEF S
  <2>4. bp < next
    BY <1>1, <1>4, <2>2
  <2>5. p \in list
    BY DEF S
  <2> QED BY <2>3, <2>4, <2>5 DEF Belongs
<1> QED BY <1>5, <1>6

-----------------------------------------------------------------------------
(* Umalloc: what malloc() does to memory and to the list.                   *)

\* The tail of the block at a, of n units, has become a block of its own, at b.
CutOff(g, h, a, b, rest, n) ==
    /\ h[a].size = rest + n /\ b = a + rest
    /\ DOMAIN g = DOMAIN h \cup {b}
    /\ \A x \in DOMAIN h : g[x].ptr = h[x].ptr /\ (x # a => g[x].size = h[x].size)
    /\ g[a].size = rest /\ g[b].ptr = Unset /\ g[b].size = n

LEMMA LaidCut ==
    ASSUME NEW h, NEW taken, NEW top, Laid(h, taken, top), NEW a \in DOMAIN h, NEW b,
           NEW n \in Nat \ {0}, NEW rest \in Nat \ {0}, NEW g, CutOff(g, h, a, b, rest, n)
    PROVE  Laid(g, taken, top) /\ b \notin DOMAIN h
<1> DEFINE s == Pieces(h, taken)
           t == Pieces(g, taken)
           D == DOMAIN h \cup taken
<1>0. /\ h[a].size = rest + n /\ b = a + rest /\ DOMAIN g = DOMAIN h \cup {b}
      /\ \A x \in DOMAIN h : g[x].ptr = h[x].ptr /\ (x # a => g[x].size = h[x].size)
      /\ g[a].size = rest /\ g[b].ptr = Unset /\ g[b].size = n
  BY DEF CutOff
<1>1. /\ D \in SUBSET Nat /\ s \in [D -> Nat] /\ top \in Nat /\ Tiles(s, top) /\ DOMAIN h \cap taken = {}
      /\ \A x \in DOMAIN h : s[x] = h[x].size /\ h[x].size \in Nat /\ x \in Nat
      /\ \A x \in taken : s[x] = 1
  <2>1. DOMAIN h \cap taken = {} /\ top \in Nat /\ Tiles(s, top)
    BY DEF Laid
  <2>2. D \in SUBSET Nat /\ s \in [D -> Nat] /\ \A x \in taken : s[x] = 1
    BY LaidIs DEF Filled
  <2>3. \A x \in DOMAIN h : s[x] = h[x].size /\ x \in Nat
    BY LaidIs DEF Filled
  <2>4. \A x \in DOMAIN h : h[x].size \in Nat
    BY SizesAre
  <2> QED BY <2>1, <2>2, <2>3, <2>4
<1>2. a \in D /\ s[a] = rest + n /\ a \in Nat /\ b \in Nat /\ s[a] - rest = n /\ 0 < rest /\ rest < s[a]
  BY <1>0, <1>1
<1>3. b \notin D
  <2>1. \A x, y \in D : x < y => x + s[x] <= y
    BY <1>0, <1>1 DEF Tiles
  <2> HIDE DEF s, D
  <2>2. a < b /\ b < a + s[a]
    BY <1>0, <1>2
  <2> QED BY <1>0, <1>2, <2>1, <2>2
<1>4. \A x \in DOMAIN g : x \in Nat /\ g[x].size \in Nat /\ g[x].ptr \in Nat \cup {Unset}
  <2>1. \A x \in DOMAIN h : h[x].ptr \in Nat \cup {Unset}
    BY DEF Laid, Headers
  <2> QED BY <1>0, <1>1, <1>2, <2>1
<1>5. t \in [D \cup {b} -> Nat]
  BY <1>0, <1>4 DEF Pieces
<1>6. t[a] = rest /\ t[b] = n
  BY <1>0, <1>1, <1>3 DEF Pieces
<1>7. ASSUME NEW x \in D, x # a PROVE t[x] = s[x]
  <2>1. CASE x \in taken
    BY <1>0, <1>1, <2>1 DEF Pieces
  <2>2. CASE x \notin taken
    BY <1>0, <1>1, <1>7, <2>2 DEF Pieces
  <2> QED BY <2>1, <2>2
<1>8. Tiles(t, top)
  <2> HIDE DEF s, t, D
  <2>1. TwoOfOne(t, s, D, a, b)
    BY <1>0, <1>2, <1>5, <1>6, <1>7 DEF TwoOfOne
  <2>2. D \in SUBSET Nat /\ s \in [D -> Nat] /\ top \in Nat /\ Tiles(s, top) /\ a \in D /\ b \in Nat
    BY <1>0, <1>1, <1>2
  <2> QED BY <2>1, <2>2, TilesCut
<1>9. base \in DOMAIN g /\ DOMAIN g \in SUBSET Nat
  BY <1>0, <1>4 DEF Laid, Headers
<1> QED BY <1>0, <1>1, <1>3, <1>4, <1>8, <1>9 DEF Laid, Headers

\* sbrk() has made room for n units more, with a header or not.
LEMMA LaidGrow ==
    ASSUME NEW h, NEW taken, NEW top, Laid(h, taken, top), NEW n \in Nat \ {0},
           NEW g, NEW more \in SUBSET Nat,
           DOMAIN g \cap more = {}, DOMAIN g \cup more = DOMAIN h \cup taken \cup {top},
           DOMAIN h \subseteq DOMAIN g, taken \subseteq more,
           \A x \in DOMAIN h : g[x] = h[x],
           top \in DOMAIN g => g[top].ptr = Unset /\ g[top].size = n,
           top \in more => n = 1
    PROVE  Laid(g, more, top + n)
<1> DEFINE s == Pieces(h, taken)
           t == Pieces(g, more)
           D == DOMAIN h \cup taken
<1>1. /\ D \in SUBSET Nat /\ s \in [D -> Nat] /\ top \in Nat \ {0} /\ Tiles(s, top)
      /\ \A x \in DOMAIN h : s[x] = h[x].size /\ h[x].size \in Nat /\ h[x].ptr \in Nat \cup {Unset}
      /\ \A x \in taken : s[x] = 1
      /\ top \notin D /\ DOMAIN h \cap taken = {} /\ base \in DOMAIN h
  <2>1. DOMAIN h \cap taken = {} /\ top \in Nat \ {0} /\ Tiles(s, top) /\ base \in DOMAIN h
    BY DEF Laid, Headers
  <2>0. Filled(h, taken, top, s)
    BY LaidIs
  <2> HIDE DEF s
  <2>2. D \in SUBSET Nat /\ s \in [D -> Nat] /\ \A x \in taken : s[x] = 1
    BY <2>0 DEF Filled
  <2>3. \A x \in DOMAIN h : s[x] = h[x].size
    BY <2>0 DEF Filled
  <2>4. \A x \in DOMAIN h : h[x].size \in Nat /\ h[x].ptr \in Nat \cup {Unset}
    BY DEF Laid, Headers
  <2>5. top \notin D
    BY <2>0 DEF Filled
  <2> QED BY <2>1, <2>2, <2>3, <2>4, <2>5
<1>2. /\ \A x \in DOMAIN g : x = top \/ x \in DOMAIN h
      /\ \A x \in more : x = top \/ x \in taken
  BY <1>1
<1>3. Headers(g)
  <2>1. \A x \in DOMAIN g : x \in Nat /\ g[x].size \in Nat /\ g[x].ptr \in Nat \cup {Unset}
    BY <1>1, <1>2
  <2> QED BY <1>1, <2>1 DEF Headers
<1>4. DOMAIN t = D \cup {top} /\ \A x \in D \cup {top} : t[x] = IF x \in more THEN 1 ELSE g[x].size
  BY DEF Pieces
<1>5. \A x \in D : t[x] = s[x]
  BY <1>1, <1>2, <1>4
<1>6. t[top] = n
  BY <1>4
<1>7. t \in [D \cup {top} -> Nat]
  <2>1. t = [x \in D \cup {top} |-> t[x]]
    BY <1>4 DEF Pieces
  <2>2. \A x \in D \cup {top} : t[x] \in Nat
    BY <1>1, <1>5, <1>6
  <2> HIDE DEF t, D
  <2> QED BY <2>1, <2>2
<1>8. Tiles(t, top + n)
  <2>1. /\ D \in SUBSET Nat /\ s \in [D -> Nat] /\ top \in Nat /\ top # 0 /\ Tiles(s, top)
        /\ n \in Nat /\ n # 0
    BY <1>1
  <2> HIDE DEF s, t, D
  <2> QED BY ONLY <1>5, <1>6, <1>7, <2>1, TilesGrow
<1> QED BY <1>1, <1>3, <1>8 DEF Laid

\* The block at p, behind prev, is taken out of the list.
TakenOut(g, h, list, prev, p) ==
    /\ p = h[prev].ptr /\ p # base /\ list \ {p} \subseteq DOMAIN g
    /\ \A x \in list \ {p} : /\ g[x].size = h[x].size
                             /\ g[x].ptr = IF x = prev THEN h[p].ptr ELSE h[x].ptr

LEMMA ListedTake ==
    ASSUME NEW h, NEW list \in SUBSET Nat, \A x \in list : h[x].size \in Nat, Listed(h, list),
           NEW prev \in list, NEW p \in list, NEW g, TakenOut(g, h, list, prev, p)
    PROVE  Listed(g, list \ {p}) /\ prev # p
<1> DEFINE rest == list \ {p}
           after == h[p].ptr
<1>0. /\ p = h[prev].ptr /\ p # base /\ rest \subseteq DOMAIN g
      /\ \A x \in rest : g[x].size = h[x].size /\ g[x].ptr = IF x = prev THEN after ELSE h[x].ptr
  BY DEF TakenOut
<1>1. Sorted(h, list) /\ base \in rest
  BY <1>0 DEF Listed
<1>2. prev + h[prev].size < p /\ \A q \in list : q <= prev \/ q >= p
  BY <1>0, <1>1 DEF Sorted, Follows
<1>3. /\ after \in list
      /\ IF after = base THEN \A q \in list : q <= p
         ELSE p + h[p].size < after /\ \A q \in list : q <= p \/ q >= after
  BY <1>0, <1>1 DEF Sorted, Follows
<1>4. /\ prev \in Nat /\ p \in Nat /\ after \in Nat /\ h[prev].size \in Nat /\ h[p].size \in Nat
      /\ \A q \in list : q \in Nat
  BY <1>3
<1>5. prev < p /\ prev \in rest /\ after \in rest
  BY <1>0, <1>2, <1>3, <1>4
<1> HIDE DEF after
<1>6. Follows(g, rest, prev)
  <2>1. g[prev].ptr = after /\ g[prev].size = h[prev].size
    BY <1>0, <1>5
  <2>2. \A q \in rest : q \in list /\ q # p /\ q \in Nat
    BY <1>4
  <2>3. CASE after = base
    <3>1. \A q \in rest : q <= prev
      BY <1>2, <1>3, <1>4, <2>2, <2>3
    <3> QED BY <1>5, <2>1, <2>3, <3>1 DEF Follows
  <2>4. CASE after # base
    <3>1. prev + h[prev].size < after
      BY <1>2, <1>3, <1>4, <2>4
    <3>2. \A q \in rest : q <= prev \/ q >= after
      BY <1>2, <1>3, <1>4, <2>2, <2>4
    <3> QED BY <1>5, <2>1, <2>4, <3>1, <3>2 DEF Follows
  <2> QED BY <2>3, <2>4
<1>7. ASSUME NEW x \in rest, x # prev PROVE Follows(g, rest, x)
  <2>1. g[x].ptr = h[x].ptr /\ g[x].size = h[x].size /\ x \in list
    BY <1>0, <1>7
  <2>2. Follows(h, list, x)
    BY <1>1, <2>1 DEF Sorted
  <2>3. h[x].ptr # p
    <3>1. \A y, z \in list : h[y].ptr = h[z].ptr /\ h[y].ptr # base => y = z
      BY <1>1, OneBefore
    <3> QED BY <1>0, <1>7, <2>1, <3>1
  <2> QED BY <2>1, <2>2, <2>3 DEF Follows
<1>8. Sorted(g, rest)
  BY <1>6, <1>7 DEF Sorted
<1> QED BY <1>0, <1>1, <1>4, <1>5, <1>8 DEF Listed

\* Nothing but sizes has changed, and those have not grown.
LEMMA ListedSame ==
    ASSUME NEW h, NEW list \in SUBSET Nat, \A x \in list : h[x].size \in Nat, Listed(h, list),
           NEW g, list \subseteq DOMAIN g,
           \A x \in list : g[x].ptr = h[x].ptr /\ g[x].size \in Nat /\ g[x].size <= h[x].size
    PROVE  Listed(g, list)
<1> SUFFICES ASSUME NEW x \in list PROVE Follows(g, list, x)
  BY DEF Listed, Sorted
<1>1. Follows(h, list, x)
  BY DEF Listed, Sorted
<1>2. h[x].ptr \in list
  BY <1>1 DEF Follows
<1>3. g[x].ptr = h[x].ptr /\ x \in Nat /\ h[x].ptr \in Nat /\ h[x].size \in Nat
      /\ g[x].size \in Nat /\ g[x].size <= h[x].size
  BY <1>2
<1>4. x + h[x].size < h[x].ptr => x + g[x].size < h[x].ptr
  BY <1>3
<1> QED BY <1>1, <1>3, <1>4 DEF Follows

-----------------------------------------------------------------------------
(* Umalloc: the invariant.                                                  *)

HeapTypeOK ==
    /\ Headers(heap)
    /\ freep \in Nat \cup {Unset} /\ brk \in Nat \ {0}
    /\ blocks \subseteq [at : Nat, size : Nat \ {0}] /\ others \subseteq Nat
    /\ call \in [loop : {"none", "malloc", "free"}, n : Sizes \cup {0},
                 prevp : Nat \cup {Unset}, p : Nat \cup {Unset}, bp : Nat \cup {Unset}]

\* malloc() has not forgotten how large a block is, nor given one twice.
Remembered(h, given) ==
    /\ \A b \in given : b.at \in DOMAIN h /\ b.at # base /\ h[b.at].size = b.size
    /\ \A b, c \in given : b.at = c.at => b = c

CallRight ==
    /\ In("none") => call = Returned
    /\ IF freep = Unset THEN In("none") /\ blocks = {} ELSE freep \in FreeList
    /\ In("malloc") => /\ call.bp = Unset /\ call.n \in Sizes
                       /\ call.prevp \in FreeList /\ call.p = heap[call.prevp].ptr
    /\ In("free") => call.bp \in DOMAIN heap /\ call.bp \notin Given /\ call.p \in FreeList

HeapInv ==
    /\ HeapTypeOK
    /\ Laid(heap, others, brk) /\ Remembered(heap, blocks)
    /\ Listed(heap, FreeList)
    /\ CallRight

\* What every action may use.
LEMMA InvGives ==
    ASSUME HeapInv
    PROVE  /\ FreeList \in SUBSET Nat /\ FreeList \subseteq DOMAIN heap /\ base \in FreeList
           /\ Given \subseteq Nat /\ Unset \notin DOMAIN heap
           /\ \A x \in DOMAIN heap : x \in Nat /\ heap[x].size \in Nat /\ (heap[x].size = 0 <=> x = base)
           /\ \A x \in FreeList : heap[x].ptr \in FreeList
           /\ ~In("free") => call.bp = Unset /\ FreeList = DOMAIN heap \ Given
<1>1. HeapTypeOK /\ Laid(heap, others, brk) /\ Listed(heap, FreeList) /\ CallRight
  BY DEF HeapInv
<1>2. \A x \in DOMAIN heap : x \in Nat /\ heap[x].size \in Nat /\ (heap[x].size = 0 <=> x = base)
  BY <1>1, SizesAre
<1>3. Given \subseteq Nat
  BY <1>1 DEF HeapTypeOK, Given
<1>4. \A x \in FreeList : heap[x].ptr \in FreeList
  BY <1>1 DEF Listed, Sorted, Follows
<1>5. Unset \notin DOMAIN heap
  BY <1>2, HeapAssumption
<1>6. ASSUME ~In("free") PROVE call.bp = Unset
  <2>1. In("none") \/ In("malloc")
    BY <1>1, <1>6 DEF In, HeapTypeOK
  <2> QED BY <1>1, <2>1 DEF CallRight, Returned
<1> QED BY <1>1, <1>2, <1>3, <1>4, <1>5, <1>6 DEF Listed, FreeList

LEMMA HeapInitially == HeapInit => HeapInv
<1> SUFFICES ASSUME HeapInit PROVE HeapInv
  OBVIOUS
<1>1. /\ DOMAIN heap = {base} /\ heap[base].ptr = base /\ heap[base].size = 0
      /\ freep = Unset /\ brk = 1 /\ blocks = {} /\ others = {} /\ call = Returned
  BY DEF HeapInit
<1>2. base \in Nat /\ base = 0
  BY DEF base
<1>3. Headers(heap)
  BY <1>1, <1>2 DEF Headers
<1>4. HeapTypeOK
  BY <1>1, <1>3 DEF HeapTypeOK, Returned
<1>5. FreeList = {base}
  BY <1>1, <1>2, HeapAssumption DEF FreeList, Given, Returned
<1>6. Laid(heap, others, brk)
  <2> DEFINE s == Pieces(heap, others)
  <2>1. DOMAIN s = {base} /\ s[base] = 0
    BY <1>1 DEF Pieces
  <2> HIDE DEF s
  <2>2. Tiles(s, brk)
    BY <1>1, <1>2, <2>1 DEF Tiles
  <2> QED BY <1>1, <1>3, <2>2 DEF Laid, s
<1>7. Listed(heap, FreeList)
  BY <1>1, <1>2, <1>5 DEF Listed, Sorted, Follows
<1>8. CallRight /\ Remembered(heap, blocks)
  BY <1>1 DEF CallRight, In, Returned, Remembered
<1> QED BY <1>4, <1>6, <1>7, <1>8 DEF HeapInv

\* A call that only moves on: memory, the program's blocks and the list stay.
LEMMA HeapStays ==
    ASSUME HeapInv, UNCHANGED <<heap, brk, blocks, others>>,
           HeapTypeOK', FreeList' = FreeList, CallRight'
    PROVE  HeapInv'
BY DEF HeapInv

LEMMA mallocKeeps ==
    ASSUME HeapInv, NEW n \in Sizes, malloc(n)
    PROVE  HeapInv'
<1>1. /\ In("none") /\ freep' = Entry
      /\ call' = [Returned EXCEPT !.loop = "malloc", !.n = n, !.prevp = Entry, !.p = heap[Entry].ptr]
      /\ UNCHANGED <<heap, brk, blocks, others>>
  BY DEF malloc
<1>2. HeapTypeOK /\ CallRight /\ ~In("free")
  BY <1>1 DEF HeapInv, In
<1>3. Entry \in FreeList /\ Entry \in Nat /\ heap[Entry].ptr \in FreeList /\ heap[Entry].ptr \in Nat
      /\ Entry # Unset
  BY <1>2, InvGives, HeapAssumption DEF Entry, CallRight
<1>4. /\ call'.loop = "malloc" /\ call'.n = n /\ call'.prevp = Entry /\ call'.p = heap[Entry].ptr
      /\ call'.bp = Unset
      /\ call' \in [loop : {"none", "malloc", "free"}, n : Sizes \cup {0},
                    prevp : Nat \cup {Unset}, p : Nat \cup {Unset}, bp : Nat \cup {Unset}]
  BY <1>1, <1>3 DEF Returned
<1>5. FreeList' = FreeList
  BY <1>1, <1>2, <1>4, InvGives DEF FreeList, Given
<1>6. HeapTypeOK'
  BY <1>1, <1>2, <1>3, <1>4 DEF HeapTypeOK
<1>7. CallRight'
  BY <1>1, <1>3, <1>4, <1>5 DEF CallRight, In
<1> QED BY <1>1, <1>5, <1>6, <1>7, HeapStays

LEMMA mallocNextKeeps ==
    ASSUME HeapInv, malloc_next
    PROVE  HeapInv'
<1>1. /\ In("malloc") /\ call' = [call EXCEPT !.prevp = call.p, !.p = heap[call.p].ptr]
      /\ UNCHANGED <<heap, freep, brk, blocks, others>>
  BY DEF malloc_next
<1>2. HeapTypeOK /\ CallRight /\ ~In("free") /\ ~In("none")
  BY <1>1 DEF HeapInv, In
<1>3. /\ call.p \in FreeList /\ call.p \in Nat /\ heap[call.p].ptr \in FreeList /\ heap[call.p].ptr \in Nat
      /\ call.n \in Sizes /\ call.bp = Unset
  BY <1>1, <1>2, InvGives DEF CallRight
<1>4. /\ call'.loop = "malloc" /\ call'.n = call.n /\ call'.prevp = call.p /\ call'.p = heap[call.p].ptr
      /\ call'.bp = Unset
      /\ call' \in [loop : {"none", "malloc", "free"}, n : Sizes \cup {0},
                    prevp : Nat \cup {Unset}, p : Nat \cup {Unset}, bp : Nat \cup {Unset}]
  BY <1>1, <1>2, <1>3 DEF HeapTypeOK, In
<1>5. FreeList' = FreeList
  BY <1>1, <1>2, <1>4, InvGives DEF FreeList, Given
<1>6. HeapTypeOK'
  BY <1>1, <1>2, <1>4 DEF HeapTypeOK
<1>7. CallRight'
  BY <1>1, <1>2, <1>3, <1>4, <1>5 DEF CallRight, In
<1> QED BY <1>1, <1>5, <1>6, <1>7, HeapStays

LEMMA freeKeeps ==
    ASSUME HeapInv, NEW bp \in Nat, free(bp)
    PROVE  HeapInv'
<1>1. /\ In("none") /\ bp \in Given /\ blocks' = {b \in blocks : b.at # bp}
      /\ call' = [Returned EXCEPT !.loop = "free", !.p = freep, !.bp = bp]
      /\ UNCHANGED <<heap, freep, brk, others>>
  BY DEF free
<1>2. HeapTypeOK /\ CallRight /\ ~In("free") /\ Remembered(heap, blocks)
  BY <1>1 DEF HeapInv, In
<1>3. freep \in FreeList /\ freep # Unset
  BY <1>1, <1>2 DEF CallRight, Given
<1>4. /\ call'.loop = "free" /\ call'.n = 0 /\ call'.p = freep /\ call'.bp = bp
      /\ call' \in [loop : {"none", "malloc", "free"}, n : Sizes \cup {0},
                    prevp : Nat \cup {Unset}, p : Nat \cup {Unset}, bp : Nat \cup {Unset}]
  BY <1>1, <1>2, <1>3 DEF Returned, HeapTypeOK
<1>5. Given' = Given \ {bp} /\ bp \in DOMAIN heap
  <2>1. Given' = Given \ {bp}
    BY <1>1 DEF Given
  <2> QED BY <1>1, <1>2, <2>1 DEF Remembered, Given
<1>6. FreeList' = FreeList
  BY <1>1, <1>2, <1>4, <1>5, InvGives DEF FreeList
<1>7. HeapTypeOK'
  BY <1>1, <1>2, <1>4 DEF HeapTypeOK
<1>8. CallRight'
  BY <1>1, <1>3, <1>4, <1>5, <1>6 DEF CallRight, In
<1>9. Remembered(heap, blocks)'
  BY <1>1, <1>2 DEF Remembered
<1> QED BY <1>1, <1>6, <1>7, <1>8, <1>9 DEF HeapInv

LEMMA freeNextKeeps ==
    ASSUME HeapInv, free_next
    PROVE  HeapInv'
<1>1. /\ In("free") /\ call' = [call EXCEPT !.p = heap[call.p].ptr]
      /\ UNCHANGED <<heap, freep, brk, blocks, others>>
  BY DEF free_next
<1>2. HeapTypeOK /\ CallRight /\ ~In("none") /\ ~In("malloc")
  BY <1>1 DEF HeapInv, In
<1>3. heap[call.p].ptr \in FreeList /\ heap[call.p].ptr \in Nat
  BY <1>1, <1>2, InvGives DEF CallRight
<1>4. /\ call'.loop = "free" /\ call'.bp = call.bp /\ call'.p = heap[call.p].ptr
      /\ call' \in [loop : {"none", "malloc", "free"}, n : Sizes \cup {0},
                    prevp : Nat \cup {Unset}, p : Nat \cup {Unset}, bp : Nat \cup {Unset}]
  BY <1>1, <1>2, <1>3 DEF HeapTypeOK, In
<1>5. FreeList' = FreeList /\ Given' = Given
  BY <1>1, <1>4 DEF FreeList, Given
<1>6. HeapTypeOK'
  BY <1>1, <1>2, <1>4 DEF HeapTypeOK
<1>7. CallRight'
  BY <1>1, <1>2, <1>3, <1>4, <1>5 DEF CallRight, In
<1> QED BY <1>1, <1>5, <1>6, <1>7, HeapStays

LEMMA freeJoinKeeps ==
    ASSUME HeapInv, free_join
    PROVE  HeapInv'
<1>1. /\ In("free") /\ Belongs(heap, call.bp, call.p)
      /\ heap' = Joined(heap, call.bp, call.p) /\ freep' = call.p
      /\ call' = IF call.n = 0 THEN Returned
                 ELSE [call EXCEPT !.loop = "malloc", !.prevp = call.p, !.p = heap'[call.p].ptr,
                                   !.bp = Unset]
      /\ UNCHANGED <<brk, blocks, others>>
  BY DEF free_join
<1>2. /\ HeapTypeOK /\ CallRight /\ Remembered(heap, blocks) /\ Laid(heap, others, brk)
      /\ Listed(heap, FreeList)
  BY DEF HeapInv
<1>3. PICK g, bp, p, list : g = heap' /\ bp = call.bp /\ p = call.p /\ list = FreeList
  OBVIOUS
<1>4. /\ bp \in DOMAIN heap \ list /\ bp \notin Given /\ p \in list /\ p \in Nat
      /\ list = DOMAIN heap \ (Given \cup {bp})
  BY <1>1, <1>2, <1>3, InvGives DEF CallRight, FreeList
<1>5. /\ Laid(g, others, brk) /\ Listed(g, (list \cup {bp}) \cap DOMAIN g) /\ p \in DOMAIN g
      /\ DOMAIN g \subseteq DOMAIN heap
      /\ \A x \in DOMAIN heap : x \notin list /\ x # bp => x \in DOMAIN g /\ g[x] = heap[x]
  <2>1. Belongs(heap, bp, p) /\ g = Joined(heap, bp, p) /\ Listed(heap, list)
    BY <1>1, <1>2, <1>3
  <2> QED BY <1>2, <1>4, <2>1, JoinedIs
<1>6. PICK all : all = (list \cup {bp}) \cap DOMAIN g
  OBVIOUS
<1>7. all = DOMAIN g \ Given /\ p \in all
  BY <1>4, <1>5, <1>6
<1>8. \A x \in all : g[x].ptr \in all /\ g[x].ptr \in Nat
  <2>1. DOMAIN g \in SUBSET Nat
    BY <1>5 DEF Laid, Headers
  <2> QED BY <1>5, <1>6, <2>1 DEF Listed, Sorted, Follows
<1>9. /\ call'.bp = Unset
      /\ (call' = Returned) \/ (/\ call'.loop = "malloc" /\ call'.n \in Sizes /\ call'.prevp = p
                                /\ call'.p = g[p].ptr)
      /\ call' \in [loop : {"none", "malloc", "free"}, n : Sizes \cup {0},
                    prevp : Nat \cup {Unset}, p : Nat \cup {Unset}, bp : Nat \cup {Unset}]
  <2>1. CASE call.n = 0
    BY <1>1, <2>1 DEF Returned
  <2>2. CASE call.n # 0
    BY <1>1, <1>2, <1>3, <1>4, <1>7, <1>8, <2>2 DEF HeapTypeOK
  <2> QED BY <2>1, <2>2
<1>10. FreeList' = all /\ Given' = Given
  <2>1. Given' = Given
    BY <1>1 DEF Given
  <2>2. Unset \notin DOMAIN g
    BY <1>5, InvGives
  <2> QED BY <1>3, <1>7, <1>9, <2>1, <2>2 DEF FreeList
<1>11. HeapTypeOK'
  <2>1. Headers(heap')
    BY <1>3, <1>5 DEF Laid
  <2> QED BY <1>1, <1>2, <1>3, <1>4, <1>9, <2>1 DEF HeapTypeOK
<1>12. Remembered(heap, blocks)'
  <2>1. ASSUME NEW b \in blocks
        PROVE  b.at \in DOMAIN g /\ b.at # base /\ g[b.at].size = b.size
    <3>1. b.at \in DOMAIN heap /\ b.at # base /\ heap[b.at].size = b.size /\ b.at \in Given
      BY <1>2 DEF Remembered, Given
    <3>2. b.at \notin list /\ b.at # bp
      BY <1>4, <3>1
    <3> QED BY <1>5, <3>1, <3>2
  <2> QED BY <1>1, <1>2, <1>3, <2>1 DEF Remembered
<1>13. CallRight'
  <2>1. freep' = p /\ p # Unset
    BY <1>1, <1>3, <1>4, HeapAssumption
  <2> QED BY <1>3, <1>7, <1>8, <1>9, <1>10, <2>1 DEF CallRight, In, Returned
<1>14. Laid(heap, others, brk)' /\ Listed(heap, FreeList)'
  BY <1>1, <1>3, <1>5, <1>6, <1>10
<1> QED BY <1>11, <1>12, <1>13, <1>14 DEF HeapInv

\* The whole block leaves the list.
LEMMA TakeWhole ==
    ASSUME NEW h, NEW taken, NEW top, Laid(h, taken, top), NEW list, Listed(h, list),
           NEW prev \in list, NEW p \in list, p = h[prev].ptr, p # base,
           NEW g, g = Whole(h, prev, p)
    PROVE  /\ Laid(g, taken, top) /\ Listed(g, list \ {p}) /\ DOMAIN g = DOMAIN h /\ prev # p
           /\ \A x \in DOMAIN h : g[x].size = h[x].size
<1>1. /\ list \subseteq DOMAIN h /\ list \in SUBSET Nat
      /\ \A x \in DOMAIN h : x \in Nat /\ h[x].size \in Nat
  BY SizesAre DEF Listed
<1>2. \A x \in list : h[x].ptr \in list
  BY DEF Listed, Sorted, Follows
<1>3. PICK after : after = h[p].ptr
  OBVIOUS
<1>4. PICK k : k = Link(h, prev, after)
  OBVIOUS
<1>5. g = Link(k, p, Unset)
  BY <1>3, <1>4 DEF Whole
<1>6. DOMAIN k = DOMAIN h /\ k[prev].ptr = after /\ k[prev].size = h[prev].size /\ Elsewhere(k, h, prev)
  <2>1. prev \in DOMAIN h
    BY <1>1
  <2>2. Assigned(k, h, prev, after, h[prev].size)
    BY <1>4, <2>1, LinkIs
  <2> QED BY <2>1, <2>2 DEF Assigned
<1>7. DOMAIN g = DOMAIN h /\ g[p].ptr = Unset /\ g[p].size = k[p].size /\ Elsewhere(g, k, p)
  <2>1. p \in DOMAIN k
    BY <1>1, <1>6
  <2>2. Assigned(g, k, p, Unset, k[p].size)
    BY <1>5, <2>1, LinkIs
  <2> QED BY <1>6, <2>1, <2>2 DEF Assigned
<1>8. ASSUME NEW x \in DOMAIN h
      PROVE  /\ g[x].size = h[x].size
             /\ x # p => g[x].ptr = IF x = prev THEN after ELSE h[x].ptr
  <2>1. x # p => g[x] = k[x]
    BY <1>7 DEF Elsewhere
  <2>2. x # prev => k[x] = h[x]
    BY <1>6 DEF Elsewhere
  <2> QED BY <1>6, <1>7, <2>1, <2>2
<1>9. Laid(g, taken, top)
  <2>1. after \in Nat /\ \A x \in DOMAIN h : h[x].ptr \in Nat \cup {Unset}
    BY <1>1, <1>2, <1>3 DEF Laid, Headers
  <2>2. \A x \in DOMAIN g : g[x].ptr \in Nat \cup {Unset} /\ g[x].size = h[x].size
    BY <1>7, <1>8, <2>1
  <2> QED BY <1>7, <2>2, LaidSame
<1>10. Listed(g, list \ {p}) /\ prev # p
  <2>1. \A x \in list : h[x].size \in Nat
    BY <1>1
  <2>2. list \ {p} \subseteq DOMAIN g
    BY <1>1, <1>7
  <2>3. TakenOut(g, h, list, prev, p)
    BY <1>1, <1>3, <1>8, <2>2 DEF TakenOut
  <2> QED BY <1>1, <2>1, <2>3, ListedTake
<1> QED BY <1>7, <1>8, <1>9, <1>10

\* The tail of the block is cut off.
TailCut(g, h, p, b, rest, n) == h[p].size = rest + n /\ b = p + rest /\ g = Cut(h, p, rest, n)

TailIs(g, h, p, b, n) ==
    /\ DOMAIN g = DOMAIN h \cup {b} /\ b \notin DOMAIN h /\ g[b].size = n
    /\ \A x \in DOMAIN h : x # p => g[x] = h[x]

LEMMA TakeTail ==
    ASSUME NEW h, NEW taken, NEW top, Laid(h, taken, top), NEW list, Listed(h, list),
           NEW p \in list, NEW n \in Nat \ {0}, NEW rest \in Nat \ {0}, NEW b,
           NEW g, TailCut(g, h, p, b, rest, n)
    PROVE  Laid(g, taken, top) /\ Listed(g, list) /\ TailIs(g, h, p, b, n)
<1>0. h[p].size = rest + n /\ b = p + rest /\ g = Cut(h, p, rest, n)
  BY DEF TailCut
<1>1. /\ list \subseteq DOMAIN h /\ list \in SUBSET Nat
      /\ \A x \in DOMAIN h : x \in Nat /\ h[x].size \in Nat
  BY SizesAre DEF Listed
<1>2. p \in DOMAIN h /\ p \in Nat /\ b # p /\ b \in Nat
  BY <1>0, <1>1
<1>3. PICK k, after : after = h[p].ptr /\ k = Header(h, p, after, rest)
  OBVIOUS
<1>4. g = Header(k, b, Unset, n)
  BY <1>0, <1>3 DEF Cut
<1>5. DOMAIN k = DOMAIN h /\ k[p].ptr = after /\ k[p].size = rest /\ Elsewhere(k, h, p)
  <2>1. Assigned(k, h, p, after, rest)
    BY <1>0, <1>3, HeaderIs
  <2>2. DOMAIN h \cup {p} = DOMAIN h
    BY <1>0, <1>2
  <2> QED BY <2>1, <2>2 DEF Assigned
<1>6. DOMAIN g = DOMAIN h \cup {b} /\ g[b].ptr = Unset /\ g[b].size = n /\ Elsewhere(g, k, b)
  <2>1. Assigned(g, k, b, Unset, n)
    BY <1>0, <1>4, HeaderIs
  <2> QED BY <1>0, <1>5, <2>1 DEF Assigned
<1>7. g[p] = k[p]
  BY <1>0, <1>2, <1>6 DEF Elsewhere
<1>8. \A x \in DOMAIN h : x # p /\ x # b => g[x] = h[x]
  BY <1>0, <1>5, <1>6 DEF Elsewhere
<1>9. b \notin DOMAIN h
  <2>1. Filled(h, taken, top, Pieces(h, taken))
    BY LaidIs
  <2>2. \A x, y \in DOMAIN h : x < y => x + h[x].size <= y
    BY <2>1 DEF Filled
  <2>3. p < b /\ b < p + h[p].size /\ h[p].size \in Nat
    BY <1>0, <1>1, <1>2
  <2> QED BY <1>0, <1>2, <2>2, <2>3
<1>10. \A x \in DOMAIN h : x # p => g[x] = h[x]
  BY <1>0, <1>8, <1>9
<1>11. Laid(g, taken, top)
  <2>1. \A x \in DOMAIN h : g[x].ptr = h[x].ptr /\ (x # p => g[x].size = h[x].size)
    BY <1>0, <1>3, <1>5, <1>7, <1>10
  <2>2. g[p].size = rest
    BY <1>0, <1>5, <1>7
  <2>3. CutOff(g, h, p, b, rest, n)
    BY <1>0, <1>6, <2>1, <2>2 DEF CutOff
  <2> QED BY <1>0, <1>2, <2>3, LaidCut
<1>12. Listed(g, list)
  <2>1. \A x \in list : h[x].size \in Nat
    BY <1>0, <1>1
  <2>2. list \subseteq DOMAIN g
    BY <1>0, <1>1, <1>6
  <2>3. ASSUME NEW x \in list PROVE g[x].ptr = h[x].ptr /\ g[x].size \in Nat /\ g[x].size <= h[x].size
    <3>1. CASE x = p
      BY <1>0, <1>1, <1>2, <1>3, <1>5, <1>7, <3>1
    <3>2. CASE x # p
      BY <1>0, <1>1, <1>10, <3>2
    <3> QED BY <3>1, <3>2
  <2> QED BY <1>0, <1>1, <2>1, <2>2, <2>3, ListedSame
<1> QED BY <1>6, <1>9, <1>10, <1>11, <1>12 DEF TailIs

LEMMA mallocReturnKeeps ==
    ASSUME HeapInv, malloc_return
    PROVE  HeapInv'
<1>1. PICK p, prev, n, rest, b, g, list :
         /\ p = call.p /\ prev = call.prevp /\ n = call.n /\ rest = heap[p].size - n
         /\ b = (IF rest = 0 THEN p ELSE p + rest) /\ g = heap' /\ list = FreeList
  OBVIOUS
<1>2. /\ In("malloc") /\ heap[p].size >= n
      /\ g = IF rest = 0 THEN Whole(heap, prev, p) ELSE Cut(heap, p, rest, n)
      /\ blocks' = blocks \cup {[at |-> b, size |-> n]}
      /\ freep' = prev /\ call' = Returned
      /\ UNCHANGED <<brk, others>>
  BY <1>1 DEF malloc_return, Enough
<1>3. /\ HeapTypeOK /\ CallRight /\ Remembered(heap, blocks) /\ Laid(heap, others, brk)
      /\ Listed(heap, list) /\ ~In("free")
  BY <1>1, <1>2 DEF HeapInv, In
<1>4. n \in Sizes /\ prev \in list /\ p = heap[prev].ptr
  BY <1>1, <1>2, <1>3 DEF CallRight
<1>5. /\ p \in list /\ p \in DOMAIN heap /\ p \in Nat /\ n \in Nat \ {0}
      /\ heap[p].size \in Nat /\ p # base /\ prev \in Nat
      /\ list = DOMAIN heap \ Given /\ base \in list
  <2>1. n \in Nat \ {0}
    BY <1>4, HeapAssumption
  <2>2. p \in list /\ p \in DOMAIN heap /\ p \in Nat /\ heap[p].size \in Nat
        /\ (heap[p].size = 0 <=> p = base)
    BY <1>1, <1>4, InvGives
  <2>3. list = DOMAIN heap \ Given /\ base \in list /\ prev \in Nat
    BY <1>1, <1>3, <1>4, InvGives
  <2> QED BY <1>2, <2>1, <2>2, <2>3
<1>6. /\ Laid(g, others, brk) /\ Listed(g, list \ {b}) /\ DOMAIN g = DOMAIN heap \cup {b}
      /\ prev \in list \ {b} /\ g[b].size = n /\ b \in Nat \ {base} /\ b \notin Given
      /\ \A x \in DOMAIN heap : x # p => g[x].size = heap[x].size
  <2>1. CASE rest = 0
    <3>1. b = p /\ g = Whole(heap, prev, p) /\ heap[p].size = n
      BY <1>1, <1>2, <1>5, <2>1
    <3>2. /\ Laid(g, others, brk) /\ Listed(g, list \ {p}) /\ DOMAIN g = DOMAIN heap /\ prev # p
          /\ \A x \in DOMAIN heap : g[x].size = heap[x].size
      BY <1>3, <1>4, <1>5, <3>1, TakeWhole
    <3> QED BY <1>4, <1>5, <3>1, <3>2
  <2>2. CASE rest # 0
    <3>1. b = p + rest /\ g = Cut(heap, p, rest, n) /\ rest \in Nat \ {0} /\ heap[p].size = rest + n
      BY <1>1, <1>2, <1>5, <2>2
    <3>2. /\ Laid(g, others, brk) /\ Listed(g, list) /\ DOMAIN g = DOMAIN heap \cup {b}
          /\ b \notin DOMAIN heap /\ g[b].size = n
          /\ \A x \in DOMAIN heap : x # p => g[x] = heap[x]
      <4>1. TailCut(g, heap, p, b, rest, n)
        BY <3>1 DEF TailCut
      <4>2. n \in Nat \ {0} /\ rest \in Nat \ {0} /\ p \in list
        BY <1>5, <3>1
      <4>3. Laid(heap, others, brk) /\ Listed(heap, list)
        BY <1>3
      <4>4. Laid(g, others, brk) /\ Listed(g, list) /\ TailIs(g, heap, p, b, n)
        BY <4>1, <4>2, <4>3, TakeTail
      <4> QED BY <4>4 DEF TailIs
    <3>3. list \ {b} = list /\ b \notin Given
      <4>1. Given \subseteq DOMAIN heap
        BY <1>3 DEF Remembered, Given
      <4> QED BY <1>5, <3>2, <4>1
    <3>4. b \in Nat \ {base}
      BY <1>5, <3>1, <3>2
    <3> QED BY <1>4, <3>2, <3>3, <3>4
  <2> QED BY <2>1, <2>2
<1>7. Given' = Given \cup {b}
  <2>1. PICK c : c = [at |-> b, size |-> n]
    OBVIOUS
  <2>2. c.at = b /\ blocks' = blocks \cup {c}
    BY <1>2, <2>1
  <2>3. {d.at : d \in blocks \cup {c}} = {d.at : d \in blocks} \cup {c.at}
    OBVIOUS
  <2> QED BY <2>2, <2>3 DEF Given
<1>8. FreeList' = list \ {b}
  <2>1. Unset \notin DOMAIN g /\ call'.bp = Unset
    BY <1>2, <1>5, <1>6, InvGives, HeapAssumption DEF Returned
  <2>2. p \in Given' => p = b
    BY <1>5, <1>7
  <2> QED BY <1>1, <1>5, <1>6, <1>7, <2>1 DEF FreeList
<1>9. HeapTypeOK'
  <2>1. Headers(heap')
    BY <1>1, <1>6 DEF Laid
  <2>2. [at |-> b, size |-> n] \in [at : Nat, size : Nat \ {0}]
    BY <1>5, <1>6
  <2>3. call' \in [loop : {"none", "malloc", "free"}, n : Sizes \cup {0},
                   prevp : Nat \cup {Unset}, p : Nat \cup {Unset}, bp : Nat \cup {Unset}]
    BY <1>2 DEF Returned
  <2> QED BY <1>2, <1>3, <1>5, <2>1, <2>2, <2>3 DEF HeapTypeOK
<1>10. Remembered(heap, blocks)'
  <2>1. \A c \in blocks : /\ c.at \in DOMAIN heap /\ c.at # base /\ heap[c.at].size = c.size
                          /\ c.at \in Given
    BY <1>3 DEF Remembered, Given
  <2>2. \A c \in blocks : c.at \in DOMAIN g /\ c.at # base /\ g[c.at].size = c.size /\ c.at # b
    <3>1. p \notin Given
      BY <1>5
    <3> QED BY <1>6, <2>1, <3>1
  <2>3. \A c, d \in blocks : c.at = d.at => c = d
    BY <1>3 DEF Remembered
  <2>4. ASSUME NEW c \in blocks' PROVE c.at \in DOMAIN g /\ c.at # base /\ g[c.at].size = c.size
    BY <1>2, <1>6, <2>2
  <2>5. ASSUME NEW c \in blocks', NEW d \in blocks', c.at = d.at PROVE c = d
    BY <1>2, <2>2, <2>3, <2>5
  <2> QED BY <1>1, <2>4, <2>5 DEF Remembered
<1>11. CallRight'
  <2>1. prev # Unset
    BY <1>5, HeapAssumption
  <2> QED BY <1>2, <1>6, <1>8, <2>1 DEF CallRight, In, Returned
<1>12. Laid(heap, others, brk)' /\ Listed(heap, FreeList)'
  BY <1>1, <1>2, <1>6, <1>8
<1> QED BY <1>9, <1>10, <1>11, <1>12 DEF HeapInv

LEMMA morecoreKeeps ==
    ASSUME HeapInv, morecore
    PROVE  HeapInv'
<1>1. PICK nu, g : nu = (IF call.n < More THEN More ELSE call.n) /\ g = heap'
  OBVIOUS
<1>2. /\ In("malloc") /\ call.p = freep
      /\ IF brk + nu <= Top
         THEN /\ g = Header(heap, brk, Unset, nu) /\ brk' = brk + nu
              /\ call' = [call EXCEPT !.loop = "free", !.bp = brk]
         ELSE call' = Returned /\ UNCHANGED <<heap, brk>>
      /\ UNCHANGED <<freep, blocks, others>>
  BY <1>1 DEF morecore
<1>3. /\ HeapTypeOK /\ CallRight /\ Remembered(heap, blocks) /\ Laid(heap, others, brk)
      /\ Listed(heap, FreeList) /\ ~In("free") /\ ~In("none")
  BY <1>2 DEF HeapInv, In
<1>4. /\ freep # Unset /\ freep \in FreeList /\ call.n \in Sizes /\ brk \in Nat \ {0}
      /\ call.n \in Nat \ {0} /\ nu \in Nat \ {0}
  BY <1>1, <1>2, <1>3, HeapAssumption DEF CallRight, HeapTypeOK
<1>5. FreeList = DOMAIN heap \ Given /\ call.bp = Unset /\ Unset \notin DOMAIN heap
  BY <1>3, InvGives
<1>6. CASE brk + nu <= Top
  <2>1. DOMAIN g = DOMAIN heap \cup {brk} /\ g[brk].ptr = Unset /\ g[brk].size = nu
        /\ Elsewhere(g, heap, brk)
    <3>1. Assigned(g, heap, brk, Unset, nu)
      BY <1>2, <1>6, HeaderIs
    <3> QED BY <3>1 DEF Assigned
  <2>2. brk \notin DOMAIN heap /\ brk \notin others
    <3>1. Filled(heap, others, brk, Pieces(heap, others))
      BY <1>3, LaidIs
    <3> QED BY <3>1 DEF Filled
  <2>3. \A x \in DOMAIN heap : x \in DOMAIN g /\ g[x] = heap[x]
    BY <2>1, <2>2 DEF Elsewhere
  <2>4. Laid(g, others, brk + nu)
    <3>1. /\ others \in SUBSET Nat /\ DOMAIN heap \cap others = {} /\ DOMAIN heap \subseteq DOMAIN g
          /\ others \subseteq others
      BY <1>3, <2>1 DEF Laid
    <3>2. DOMAIN g \cap others = {} /\ DOMAIN g \cup others = DOMAIN heap \cup others \cup {brk}
      BY <2>1, <2>2, <3>1
    <3>3. /\ \A x \in DOMAIN heap : g[x] = heap[x]
          /\ brk \in DOMAIN g => g[brk].ptr = Unset /\ g[brk].size = nu
          /\ brk \in others => nu = 1
      BY <2>1, <2>2, <2>3
    <3> QED BY <1>3, <1>4, <3>1, <3>2, <3>3, LaidGrow
  <2>5. /\ call'.loop = "free" /\ call'.bp = brk /\ call'.p = freep
        /\ call' \in [loop : {"none", "malloc", "free"}, n : Sizes \cup {0},
                      prevp : Nat \cup {Unset}, p : Nat \cup {Unset}, bp : Nat \cup {Unset}]
    BY <1>2, <1>3, <1>4, <1>6 DEF HeapTypeOK
  <2>6. Given' = Given /\ Given \subseteq DOMAIN heap
    BY <1>2, <1>3 DEF Given, Remembered
  <2>7. FreeList' = FreeList
    BY <1>1, <1>5, <2>1, <2>2, <2>5, <2>6 DEF FreeList
  <2>8. HeapTypeOK'
    <3>1. Headers(heap') /\ brk' \in Nat \ {0}
      BY <1>1, <1>2, <1>4, <1>6, <2>4 DEF Laid
    <3> QED BY <1>2, <1>3, <2>5, <3>1 DEF HeapTypeOK
  <2>9. Remembered(heap, blocks)'
    BY <1>1, <1>2, <1>3, <2>3 DEF Remembered
  <2>10. CallRight'
    BY <1>1, <1>2, <1>4, <2>1, <2>2, <2>5, <2>6, <2>7 DEF CallRight, In
  <2>11. Listed(g, FreeList)
    <3>1. FreeList \in SUBSET Nat /\ FreeList \subseteq DOMAIN heap
          /\ \A x \in FreeList : heap[x].size \in Nat
      BY InvGives
    <3>2. FreeList \subseteq DOMAIN g
      BY <2>1, <3>1
    <3>3. \A x \in FreeList : g[x].ptr = heap[x].ptr /\ g[x].size \in Nat /\ g[x].size <= heap[x].size
      BY <2>3, <3>1
    <3> QED BY <1>3, <3>1, <3>2, <3>3, ListedSame
  <2>12. Laid(heap, others, brk)' /\ Listed(heap, FreeList)'
    BY <1>1, <1>2, <1>6, <2>4, <2>7, <2>11
  <2> QED BY <2>8, <2>9, <2>10, <2>12 DEF HeapInv
<1>7. CASE ~(brk + nu <= Top)
  <2>1. call' = Returned /\ UNCHANGED <<heap, brk, freep, blocks, others>>
    BY <1>2, <1>7
  <2>2. FreeList' = FreeList
    BY <1>5, <2>1 DEF FreeList, Given, Returned
  <2>3. HeapTypeOK'
    BY <1>3, <2>1 DEF HeapTypeOK, Returned
  <2>4. CallRight'
    BY <1>4, <2>1, <2>2 DEF CallRight, In, Returned
  <2> QED BY <2>1, <2>2, <2>3, <2>4, HeapStays
<1> QED BY <1>6, <1>7

LEMMA sbrkKeeps ==
    ASSUME HeapInv, sbrk
    PROVE  HeapInv'
<1>1. /\ In("none") /\ others' = others \cup {brk} /\ brk' = brk + 1
      /\ UNCHANGED <<heap, freep, blocks, call>>
  BY DEF sbrk
<1>2. HeapTypeOK /\ CallRight /\ Remembered(heap, blocks) /\ Laid(heap, others, brk)
      /\ Listed(heap, FreeList)
  BY DEF HeapInv
<1>3. brk \in Nat \ {0} /\ others \subseteq Nat /\ DOMAIN heap \cap others = {}
  BY <1>2 DEF HeapTypeOK, Laid
<1>4. brk \notin DOMAIN heap /\ brk \notin others
  <2>1. Filled(heap, others, brk, Pieces(heap, others))
    BY <1>2, LaidIs
  <2> QED BY <2>1 DEF Filled
<1>5. Laid(heap, others', brk + 1)
  <2>1. /\ others' \in SUBSET Nat /\ DOMAIN heap \cap others' = {} /\ others \subseteq others'
        /\ DOMAIN heap \cup others' = DOMAIN heap \cup others \cup {brk} /\ 1 \in Nat \ {0}
    BY <1>1, <1>3, <1>4
  <2>2. PICK more : more = others'
    OBVIOUS
  <2>3. /\ DOMAIN heap \subseteq DOMAIN heap /\ \A x \in DOMAIN heap : heap[x] = heap[x]
        /\ brk \in DOMAIN heap => heap[brk].ptr = Unset /\ heap[brk].size = 1
        /\ brk \in more => 1 = 1
    BY <1>4
  <2>4. Laid(heap, more, brk + 1)
    BY <1>2, <2>1, <2>2, <2>3, LaidGrow
  <2> QED BY <2>2, <2>4
<1>6. FreeList' = FreeList /\ Given' = Given
  BY <1>1 DEF FreeList, Given
<1>7. HeapTypeOK' /\ CallRight' /\ Remembered(heap, blocks)'
  BY <1>1, <1>2, <1>3, <1>6 DEF HeapTypeOK, CallRight, In, Remembered
<1> QED BY <1>1, <1>2, <1>5, <1>6, <1>7 DEF HeapInv

-----------------------------------------------------------------------------
(* Umalloc: the theorems.                                                   *)

(***************************************************************************)
(* Memory is laid out in blocks that do not overlap, the free ones are in  *)
(* the list in the order of their addresses, and the loops are in the list *)
(* (umalloc.c:24-90).                                                      *)
(***************************************************************************)
THEOREM HeapInvariant == HeapSpec => []HeapInv
<1>1. ASSUME HeapInv, HeapNext PROVE HeapInv'
  <2>1. CASE \E n \in Sizes : malloc(n)
    BY <1>1, <2>1, mallocKeeps
  <2>2. CASE malloc_next
    BY <1>1, <2>2, mallocNextKeeps
  <2>3. CASE malloc_return
    BY <1>1, <2>3, mallocReturnKeeps
  <2>4. CASE morecore
    BY <1>1, <2>4, morecoreKeeps
  <2>5. CASE \E bp \in 1..Top : free(bp)
    <3>1. \A bp \in 1..Top : bp \in Nat
      OBVIOUS
    <3> QED BY <1>1, <2>5, <3>1, freeKeeps
  <2>6. CASE free_next
    BY <1>1, <2>6, freeNextKeeps
  <2>7. CASE free_join
    BY <1>1, <2>7, freeJoinKeeps
  <2>8. CASE sbrk
    BY <1>1, <2>8, sbrkKeeps
  <2> QED BY <1>1, <2>1, <2>2, <2>3, <2>4, <2>5, <2>6, <2>7, <2>8 DEF HeapNext
<1>2. ASSUME HeapInv, UNCHANGED heapVars PROVE HeapInv'
  <2>1. UNCHANGED <<heap, freep, brk, blocks, others, call>>
    BY <1>2 DEF heapVars
  <2>2. FreeList' = FreeList
    BY <2>1 DEF FreeList, Given
  <2>3. HeapTypeOK' /\ CallRight'
    BY <1>2, <2>1, <2>2 DEF HeapInv, HeapTypeOK, CallRight, In, Given
  <2> QED BY <1>2, <2>1, <2>2, <2>3, HeapStays
<1>3. HeapInv /\ [HeapNext]_heapVars => HeapInv'
  BY <1>1, <1>2
<1> QED BY HeapInitially, <1>3, PTL DEF HeapSpec

\* Headers hold addresses and sizes, and a call under way is in one of the
\* loops (umalloc.c:15-90).
THEOREM HeapTypes == HeapSpec => []HeapTypeOK
<1>1. HeapInv => HeapTypeOK
  BY DEF HeapInv
<1> QED BY <1>1, HeapInvariant, PTL

LEMMA SoundFromInv == HeapInv => HeapSound
<1> SUFFICES ASSUME HeapInv PROVE HeapSound
  OBVIOUS
<1>1. /\ HeapTypeOK /\ CallRight /\ Remembered(heap, blocks) /\ Laid(heap, others, brk)
      /\ Listed(heap, FreeList)
  BY DEF HeapInv
<1>2. ListSorted
  BY <1>1 DEF ListSorted, Listed
<1>3. Partition
  BY <1>1 DEF Partition, Remembered, Laid
<1>4. LoopsEnd
  <2>1. In("none") \/ In("malloc") \/ In("free")
    BY <1>1 DEF In, HeapTypeOK
  <2>2. ~In("none") => freep \in FreeList /\ call.p \in FreeList
    <3>1. \A x \in FreeList : heap[x].ptr \in FreeList
      BY InvGives
    <3> QED BY <1>1, <2>1, <3>1 DEF CallRight
  <2>3. ASSUME In("free") PROVE \E p \in FreeList : Belongs(heap, call.bp, p)
    <3>1. PICK bp, list : bp = call.bp /\ list = FreeList
      OBVIOUS
    <3>2. bp \in DOMAIN heap \ list /\ Listed(heap, list)
      BY <1>1, <2>3, <3>1 DEF CallRight, FreeList
    <3>3. \E p \in list : Belongs(heap, bp, p)
      BY <1>1, <3>2, PlaceFor
    <3> QED BY <3>1, <3>3
  <2> QED BY <2>2, <2>3 DEF LoopsEnd
<1> QED BY <1>2, <1>3, <1>4 DEF HeapSound

(***************************************************************************)
(* Whatever sequence of calls a program makes, and for every size of the   *)
(* heap and of the requests: no two blocks overlap, none is lost,          *)
(* neighbours are joined, and the loops of malloc() and free() stay in the *)
(* list, where they find a place to stop (umalloc.c:24-90).                *)
(***************************************************************************)
THEOREM HeapIsSound == HeapSpec => []HeapSound
BY SoundFromInv, HeapInvariant, PTL

-----------------------------------------------------------------------------
(* Umalloc: the loops end.                                                  *)

Stops(p) == IF In("free") THEN Belongs(heap, call.bp, p) ELSE p = freep

\* What is between p and goal, and goal, on the way round the list.
Remaining(list, p, goal) == {q \in list : IF p <= goal THEN p < q /\ q <= goal ELSE p < q \/ q <= goal}

Nearer ==
    \A goal \in FreeList : Stops(goal) =>
        /\ call.p' \in Remaining(FreeList, call.p, goal)
        /\ Remaining(FreeList, call.p', goal) \subseteq Remaining(FreeList, call.p, goal) \ {call.p'}

\* Every turn of a loop brings it nearer to the place where it stops, which it
\* cannot miss, also where the list wraps: no call searches for ever
\* (umalloc.c:30-32, 74-89).
LoopsAdvance == [][malloc_next \/ free_next => Nearer]_heapVars

\* The next block is nearer to any other one than p is.
LEMMA NextIsNearer ==
    ASSUME NEW h, NEW list \in SUBSET Nat, \A x \in list : h[x].size \in Nat, Listed(h, list),
           NEW p \in list, NEW goal \in list, p # goal
    PROVE  /\ h[p].ptr \in Remaining(list, p, goal)
           /\ Remaining(list, h[p].ptr, goal) \subseteq Remaining(list, p, goal) \ {h[p].ptr}
<1> DEFINE next == h[p].ptr
<1>1. /\ next \in list /\ p \in Nat /\ goal \in Nat /\ next \in Nat
      /\ IF next = base THEN \A q \in list : q <= p
         ELSE p + h[p].size < next /\ \A q \in list : q <= p \/ q >= next
  BY DEF Listed, Sorted, Follows
<1>2. h[p].size \in Nat
  OBVIOUS
<1> HIDE DEF next
<1>3. CASE next = base
  <2>1. goal < p /\ \A q \in list : q \in Nat /\ q <= p
    BY <1>1, <1>3
  <2>2. next = 0
    BY <1>3 DEF base
  <2> QED BY <1>1, <2>1, <2>2 DEF Remaining, next
<1>4. CASE next # base
  <2>1. p < next /\ \A q \in list : q \in Nat /\ (q <= p \/ q >= next)
    BY <1>1, <1>2, <1>4
  <2>2. CASE p <= goal
    <3>1. next <= goal
      BY <1>1, <2>1, <2>2
    <3>2. next \in Remaining(list, p, goal)
      BY <1>1, <2>1, <2>2, <3>1 DEF Remaining
    <3>3. ASSUME NEW q \in Remaining(list, next, goal)
          PROVE  q \in Remaining(list, p, goal) /\ q # next
      BY <1>1, <2>1, <2>2, <3>1 DEF Remaining
    <3> QED BY <3>2, <3>3 DEF next
  <2>3. CASE ~ (p <= goal)
    <3>1. ~ (next <= goal)
      BY <1>1, <2>1, <2>3
    <3>2. next \in Remaining(list, p, goal)
      BY <1>1, <2>1, <2>3, <3>1 DEF Remaining
    <3>3. ASSUME NEW q \in Remaining(list, next, goal)
          PROVE  q \in Remaining(list, p, goal) /\ q # next
      BY <1>1, <2>1, <2>3, <3>1 DEF Remaining
    <3> QED BY <3>2, <3>3 DEF next
  <2> QED BY <2>2, <2>3
<1> QED BY <1>3, <1>4

LEMMA TurnIsNearer == HeapInv /\ (malloc_next \/ free_next) => Nearer
<1> SUFFICES ASSUME HeapInv, malloc_next \/ free_next, NEW goal \in FreeList, Stops(goal)
             PROVE  /\ call.p' \in Remaining(FreeList, call.p, goal)
                    /\ Remaining(FreeList, call.p', goal) \subseteq Remaining(FreeList, call.p, goal) \ {call.p'}
  BY DEF Nearer
<1>1. HeapTypeOK /\ CallRight /\ Laid(heap, others, brk) /\ Listed(heap, FreeList)
  BY DEF HeapInv
<1>2. call.p' = heap[call.p].ptr
  BY <1>1 DEF malloc_next, free_next, HeapTypeOK
<1>3. call.p # goal
  BY DEF malloc_next, free_next, Stops, In
<1>4. call.p \in FreeList
  <2>1. \A x \in FreeList : heap[x].ptr \in FreeList
    BY InvGives
  <2> QED BY <1>1, <2>1 DEF malloc_next, free_next, In, CallRight
<1>5. FreeList \in SUBSET Nat /\ \A x \in FreeList : heap[x].size \in Nat
  BY <1>1, SizesAre DEF FreeList
<1> QED BY ONLY <1>1, <1>2, <1>3, <1>4, <1>5, goal \in FreeList, NextIsNearer

(***************************************************************************)
(* The loops of malloc() and free() come nearer to the place where they    *)
(* stop with every turn, in a heap and a list of any length                *)
(* (umalloc.c:30-32, 74-89).                                               *)
(***************************************************************************)
THEOREM LoopsDoAdvance == HeapSpec => LoopsAdvance
<1>1. HeapInv /\ [HeapNext]_heapVars => [malloc_next \/ free_next => Nearer]_heapVars
  BY TurnIsNearer
<1> QED BY <1>1, HeapInvariant, PTL DEF HeapSpec, LoopsAdvance

=============================================================================
