------------------------- MODULE ClusterNodesProofs ------------------------
(***************************************************************************)
(* Proofs about redis-cli --cluster create, add-node and del-node, for any    *)
(* number of nodes, hosts, replicas, slots, commands and failing links.       *)
(* First what the plan of a new cluster promises: the slots are divided       *)
(* without a gap, the interleaved list names every node once, and only nodes  *)
(* that are not masters are given to a master.  Then the steps that begin a   *)
(* command, and what holds when it has returned.                             *)
(***************************************************************************)
EXTENDS ClusterNodesInvariant, FiniteSetTheorems

\* A set of natural numbers that is not empty has a least member.
LEMMA LeastNatural ==
    ASSUME NEW T \in SUBSET Nat, T # {}
    PROVE  \E x \in T : \A y \in T : x <= y
<1>1. PICK x \in T : \A y \in T : ~(<<y, x>> \in OpToRel(<, Nat))
  BY NatLessThanWellFounded, WFMin, Zenon
<1>2. ASSUME NEW y \in T PROVE x <= y
  <2>1. <<y, x>> \in Nat \X Nat /\ ~(<<y, x>> \in OpToRel(<, Nat))
    BY <1>1, Zenon
  <2>2. ~(y < x)
    BY <2>1 DEF OpToRel
  <2> QED
    BY <2>2
<1> QED
  BY <1>2

\* Min finds the least member.
LEMMA MinIsLeast ==
    ASSUME NEW T \in SUBSET Nat, T # {}
    PROVE  Min(T) \in T /\ \A y \in T : Min(T) <= y
BY LeastNatural, Zenon DEF Min

-----------------------------------------------------------------------------
(* Division.                                                               *)

\* What rounding down means.
LEMMA Quotient ==
    ASSUME NEW a \in Nat, NEW b \in Nat \ {0}
    PROVE  /\ a \div b \in Nat
           /\ (a \div b) * b <= a
           /\ a < (a \div b) * b + b
BY Z3

\* The quotient is the largest number that fits.
LEMMA QuotientIsLargest ==
    ASSUME NEW a \in Nat, NEW b \in Nat \ {0}, NEW c \in Nat, c * b <= a
    PROVE  c <= a \div b
<1> DEFINE q == a \div b
<1>1. q \in Nat /\ a < q * b + b
  BY Quotient
<1>2. SUFFICES ASSUME q + 1 <= c PROVE FALSE
  BY <1>1
<1> HIDE DEF q
<1>3. PICK d \in Nat : c = q + 1 + d
  BY <1>1, <1>2
<1>4. c * b = q * b + b + d * b /\ d * b \in Nat
  BY <1>1, <1>3
<1> QED
  BY <1>1, <1>4

-----------------------------------------------------------------------------
(* The slots.                                                              *)

\* A product grows with its factors.
LEMMA ProductGrows ==
    ASSUME NEW a \in Nat, NEW b \in Nat, NEW c \in Nat, a <= b
    PROVE  a * c <= b * c /\ c * a <= c * b /\ a * c \in Nat /\ c * a \in Nat
<1>1. PICK d \in Nat : b = a + d
  OBVIOUS
<1>2. b * c = a * c + d * c /\ c * b = c * a + c * d /\ d * c \in Nat /\ c * d \in Nat
  BY <1>1
<1>3. a * c \in Nat /\ c * a \in Nat
  OBVIOUS
<1> QED
  BY <1>2, <1>3

\* And a factor is smaller when the product is.
LEMMA FactorIsSmaller ==
    ASSUME NEW a \in Nat, NEW b \in Nat, NEW c \in Nat \ {0}
    PROVE  /\ c * a < c * b => a < b
           /\ c * a <= c * b => a <= b
<1>1. ASSUME b <= a PROVE c * b <= c * a
  BY <1>1, ProductGrows
<1>2. ASSUME b < a PROVE c * b < c * a
  <2>1. PICK d \in Nat : a = b + 1 + d
    BY <1>2
  <2>2. c * a = c * b + c + c * d /\ c * d \in Nat /\ c * b \in Nat
    BY <2>1
  <2> QED
    BY <2>2
<1>3. c * a \in Nat /\ c * b \in Nat
  OBVIOUS
<1> QED
  BY <1>1, <1>2, <1>3

\* Rounding to a float is off by half the distance of the floats at most.
LEMMA NearestIsNear ==
    ASSUME NEW n \in Nat, NEW d \in Nat \ {0}, NEW h \in Spacings, n <= 2 * One * h * d
    PROVE  /\ Nearest(n, d) \in Nat
           /\ 2 * (d * Nearest(n, d)) <= 2 * n + d * h
           /\ 2 * n <= 2 * (d * Nearest(n, d)) + d * h
<1> DEFINE T == {x \in Spacings : n <= 2 * One * x * d}
           q == Spacing(n, d)
           e == d * q
           k == n \div e
           P == k * e
           N == Nearest(n, d)
<1>1. q \in Nat \ {0} /\ q <= h /\ h \in Nat
  <2>1. T \in SUBSET Nat /\ h \in T /\ T \subseteq Nat \ {0}
    BY FloatAssumption
  <2>2. Min(T) \in T /\ Min(T) <= h
    <3> HIDE DEF T
    <3> QED
      BY <2>1, MinIsLeast
  <2> QED
    BY <2>1, <2>2 DEF Spacing
<1>2. N = IF 2 * (n - P) > e \/ (2 * (n - P) = e /\ k % 2 = 1) THEN (k + 1) * q ELSE k * q
  BY DEF Nearest
<1> HIDE DEF q, N
<1>3. e \in Nat \ {0} /\ e <= d * h /\ d * h \in Nat
  <2>1. d * q \in Nat /\ d * q <= d * h /\ d * h \in Nat
    BY <1>1, ProductGrows
  <2>2. d * q # 0
    BY <1>1
  <2> QED
    BY <2>1, <2>2
<1>4. k \in Nat /\ P <= n /\ n < P + e
  <2> HIDE DEF e
  <2> QED
    BY <1>3, Quotient
<1>5. P \in Nat /\ d * (k * q) = P /\ d * ((k + 1) * q) = P + e
  <2> HIDE DEF k
  <2> QED
    BY <1>1, <1>4
<1>6. k * q \in Nat /\ (k + 1) * q \in Nat
  <2> HIDE DEF k
  <2> QED
    BY <1>1, <1>4
<1>7. \/ N \in Nat /\ d * N = P + e /\ 2 * (n - P) >= e
      \/ N \in Nat /\ d * N = P /\ 2 * (n - P) <= e
  <2> HIDE DEF e, k, P
  <2>1. CASE 2 * (n - P) > e \/ (2 * (n - P) = e /\ k % 2 = 1)
    BY <1>2, <1>3, <1>5, <1>6, <2>1
  <2>2. CASE ~(2 * (n - P) > e \/ (2 * (n - P) = e /\ k % 2 = 1))
    BY <1>2, <1>3, <1>5, <1>6, <2>2
  <2> QED
    BY <2>1, <2>2
<1> HIDE DEF e, k, P
<1> QED
  BY <1>3, <1>4, <1>5, <1>7 DEF N

\* Rounding to whole numbers.
LEMMA LRoundFacts ==
    ASSUME NEW c \in Nat
    PROVE  /\ LRound(c) \in Nat
           /\ LRound(0) = 0
           /\ c >= One => LRound(c - One) + 1 = LRound(c)
           /\ \A d \in Nat : c + One <= d => LRound(c) < LRound(d)
           /\ \A s \in Nat : 2 * c < (2 * s - 1) * One => LRound(c) < s
<1> DEFINE b == 2 * One
           R(x) == (2 * x + One) \div b
<1>1. One \in Nat \ {0} /\ b \in Nat \ {0}
  BY FloatAssumption
<1>2. ASSUME NEW x \in Nat PROVE R(x) \in Nat /\ R(x) * b <= 2 * x + One /\ 2 * x + One < R(x) * b + b
  <2>1. 2 * x + One \in Nat
    BY <1>1
  <2> HIDE DEF b
  <2> QED
    BY <1>1, <2>1, Quotient
<1>3. ASSUME NEW x \in Nat, NEW y \in Nat, y * b <= 2 * x + One PROVE y <= R(x)
  <2>1. 2 * x + One \in Nat
    BY <1>1
  <2> HIDE DEF b
  <2> QED
    BY <1>1, <1>3, <2>1, QuotientIsLargest
<1>4. ASSUME NEW x \in Nat, NEW y \in Nat, 2 * x + One < y * b PROVE R(x) < y
  <2>1. R(x) * b < y * b /\ R(x) \in Nat
    <3>1. R(x) \in Nat /\ R(x) * b <= 2 * x + One
      BY <1>2
    <3>2. R(x) * b \in Nat /\ y * b \in Nat
      BY <1>1, <3>1
    <3> HIDE DEF R, b
    <3> QED
      BY <1>1, <1>4, <3>1, <3>2
  <2>2. b * R(x) < b * y
    <3> HIDE DEF R, b
    <3> QED
      BY <1>1, <2>1
  <2> HIDE DEF R, b
  <2> QED
    BY <1>1, <2>1, <2>2, FactorIsSmaller
<1>5. ASSUME NEW x \in Nat, NEW y \in Nat, x + One <= y PROVE R(x) + 1 <= R(y)
  <2>1. (R(x) + 1) * b = R(x) * b + b
    <3> HIDE DEF R, b
    <3> QED
      BY <1>1, <1>2
  <2>2. (R(x) + 1) * b <= 2 * y + One /\ R(x) + 1 \in Nat
    <3>1. R(x) * b <= 2 * x + One /\ R(x) \in Nat /\ R(x) * b \in Nat
      BY <1>1, <1>2
    <3>2. 2 * x + One + b <= 2 * y + One
      BY <1>1, <1>5
    <3> HIDE DEF R, b
    <3> QED
      BY <1>1, <2>1, <3>1, <3>2
  <2> HIDE DEF R, b
  <2> QED
    BY <1>3, <2>2
<1>6. R(0) = 0
  <2>1. 2 * 0 + One < 1 * b
    BY <1>1
  <2>2. R(0) < 1 /\ R(0) \in Nat
    BY <1>2, <1>4, <2>1
  <2> QED
    BY <2>2
<1>7. ASSUME c >= One PROVE R(c - One) + 1 = R(c)
  <2>1. c - One \in Nat /\ (c - One) + One <= c
    BY <1>1, <1>7
  <2>2. R(c - One) + 1 <= R(c) /\ R(c - One) \in Nat /\ R(c) \in Nat
    BY <1>2, <1>5, <2>1
  <2>3. 2 * c + One < (R(c - One) + 2) * b
    <3>1. 2 * (c - One) + One < R(c - One) * b + b
      BY <1>2, <2>1
    <3>2. (R(c - One) + 2) * b = R(c - One) * b + b + b /\ R(c - One) * b \in Nat
      <4> HIDE DEF R, b
      <4> QED
        BY <1>1, <2>2
    <3>3. 2 * (c - One) + One + b = 2 * c + One
      BY <1>1
    <3> HIDE DEF R
    <3> QED
      BY <1>1, <2>2, <3>1, <3>2, <3>3
  <2>4. R(c) < R(c - One) + 2
    <3>1. R(c - One) + 2 \in Nat
      BY <2>2
    <3> HIDE DEF R, b
    <3> QED
      BY <1>4, <2>3, <3>1
  <2> HIDE DEF R
  <2> QED
    BY <2>2, <2>4
<1>8. ASSUME NEW s \in Nat, 2 * c < (2 * s - 1) * One PROVE R(c) < s
  <2>1. (2 * s - 1) * One + One = s * b
    BY <1>1
  <2>2. 2 * c + One < s * b
    <3>1. (2 * s - 1) * One \in Int
      BY <1>1
    <3> QED
      BY <1>1, <1>8, <2>1, <3>1
  <2> HIDE DEF R, b
  <2> QED
    BY <1>4, <2>2
<1>9. \A x : LRound(x) = R(x)
  BY DEF LRound
<1>10. \A d \in Nat : c + One <= d => R(c) < R(d)
  <2> SUFFICES ASSUME NEW d \in Nat, c + One <= d PROVE R(c) < R(d)
    OBVIOUS
  <2>1. R(c) + 1 <= R(d) /\ R(c) \in Nat /\ R(d) \in Nat
    BY <1>2, <1>5
  <2> HIDE DEF R
  <2> QED
    BY <2>1
<1> HIDE DEF R
<1> QED
  BY <1>2, <1>6, <1>7, <1>8, <1>9, <1>10

\* What one turn of the loop adds to the cursor, when the floats lie close enough and the
\* master is not the last one: a whole slot at least, and never so much that the sums
\* reach the last slot.
LEMMA CursorAdvances ==
    ASSUME NEW m \in Nat \ {0}, NEW S \in Nat, NEW h \in Spacings,
           S <= 2 * h, m * (One + h) <= S * One, 2 * (m - 1) * m * h < (2 * S - m) * One,
           NEW i \in Nat, i + 1 < m, NEW c \in Nat, m * c <= i * (S * One + m * h),
           NEW d, d = Nearest(c + Nearest(S * One, m), 1)
    PROVE  /\ d \in Nat /\ c + One <= d
           /\ m * d <= (i + 1) * (S * One + m * h)
           /\ 2 * d < (2 * S - 1) * One
<1> DEFINE A == S * One
           H == m * h
           spn == Nearest(A, m)
           X == m * spn
           Y == m * c
           Z == i * (A + H)
<1>1. One \in Nat \ {0} /\ h \in Nat \ {0} /\ A \in Nat /\ H \in Nat
  <2>1. One \in Nat \ {0} /\ h \in Nat \ {0}
    BY FloatAssumption
  <2> QED
    BY <2>1
<1>2. A <= 2 * h * One /\ 2 * h * One \in Nat
  BY <1>1, ProductGrows
<1>3. A <= 2 * One * h * m
  <2>1. 1 <= m /\ 2 * h * One \in Nat /\ 1 * (2 * h * One) <= m * (2 * h * One)
    BY <1>1, ProductGrows
  <2>2. m * (2 * h * One) = 2 * One * h * m /\ 1 * (2 * h * One) = 2 * h * One
    BY <1>1
  <2> QED
    BY <1>1, <1>2, <2>1, <2>2
<1> HIDE DEF A
<1>4. spn \in Nat /\ 2 * X <= 2 * A + H /\ 2 * A <= 2 * X + H
  BY <1>1, <1>3, NearestIsNear
<1> HIDE DEF spn
<1>5. X \in Nat /\ Y \in Nat /\ Z \in Nat /\ Y <= Z
  <2>1. A + H \in Nat
    BY <1>1
  <2>2. Z \in Nat
    <3> HIDE DEF H
    <3> QED
      BY <2>1
  <2> QED
    BY <1>4, <2>2 DEF A
<1>6. 2 * ((m - 1) * H) < 2 * A - m * One
  <2>1. 2 * (m - 1) * m * h = 2 * ((m - 1) * H)
    BY <1>1
  <2>2. (2 * S - m) * One = 2 * A - m * One
    BY <1>1 DEF A
  <2> QED
    BY <2>1, <2>2
<1>7. m * (One + h) = m * One + H /\ m * One \in Nat
  BY <1>1
<1>8. m * One + H <= A
  BY <1>7 DEF A
<1> HIDE DEF H
<1>9. Z + A + H <= (m - 1) * (A + H) /\ (i + 1) * (A + H) = Z + A + H
  <2>1. A + H \in Nat /\ m - 1 \in Nat /\ i + 1 \in Nat /\ i + 1 <= m - 1
    BY <1>1
  <2>2. (i + 1) * (A + H) <= (m - 1) * (A + H)
    BY <2>1, ProductGrows
  <2>3. (i + 1) * (A + H) = Z + A + H
    BY <1>1
  <2> QED
    BY <2>2, <2>3
<1>10. (m - 1) * (A + H) = m * A - A + (m - 1) * H /\ m * A \in Nat /\ (m - 1) * H \in Nat
  BY <1>1
<1>11. 2 * (Z + A + H) < 2 * (m * A) - m * One
  <2> DEFINE mA == m * A
             mH == (m - 1) * H
             mO == m * One
             L == (m - 1) * (A + H)
  <2>1. /\ mA \in Nat /\ mH \in Nat /\ mO \in Nat /\ L = mA - A + mH
        /\ 2 * mH < 2 * A - mO /\ Z + A + H <= L
    BY <1>6, <1>7, <1>9, <1>10
  <2> HIDE DEF mA, mH, mO, L, Z
  <2>2. 2 * (Z + A + H) < 2 * mA - mO
    BY <1>1, <1>5, <2>1
  <2> QED
    BY <2>2 DEF mA, mO
<1>12. m * (c + spn) = Y + X
  BY <1>4
<1> DEFINE s == c + spn
<1>13. s \in Nat /\ s <= 2 * One * h * 1
  <2>1. s \in Nat
    BY <1>4
  <2>2. m * s < m * A
    <3> DEFINE mA == m * A
               mO == m * One
               ms == m * s
    <3>1. mA \in Nat /\ mO \in Nat /\ ms = Y + X /\ 2 * (Z + A + H) < 2 * mA - mO
      BY <1>7, <1>10, <1>11, <1>12
    <3> HIDE DEF mA, mO, ms, X, Y, Z, s
    <3>2. ms < mA
      BY <1>1, <1>4, <1>5, <3>1
    <3> QED
      BY <3>2 DEF mA, ms
  <2>3. s < A
    <3> HIDE DEF s
    <3> QED
      BY <1>1, <2>1, <2>2, FactorIsSmaller
  <2>4. 2 * One * h * 1 = 2 * h * One
    BY <1>1
  <2> HIDE DEF s
  <2> QED
    BY <1>1, <1>2, <2>1, <2>3, <2>4
<1>14. d = Nearest(s, 1)
  BY DEF spn, A
<1>15. d \in Nat /\ 2 * d <= 2 * s + h /\ 2 * s <= 2 * d + h
  <2> HIDE DEF s
  <2>1. 1 \in Nat \ {0}
    OBVIOUS
  <2>2. d \in Nat /\ 2 * (1 * d) <= 2 * s + 1 * h /\ 2 * s <= 2 * (1 * d) + 1 * h
    BY <1>13, <1>14, <2>1, NearestIsNear
  <2> QED
    BY <1>1, <2>2
<1>16. /\ 2 * (m * d) <= 2 * (Y + X) + H /\ 2 * (Y + X) <= 2 * (m * d) + H
       /\ m * d \in Nat
  <2> HIDE DEF s
  <2>1. m * (2 * d) <= m * (2 * s + h) /\ m * (2 * s) <= m * (2 * d + h)
    BY <1>1, <1>13, <1>15, ProductGrows
  <2>2. /\ m * (2 * d) = 2 * (m * d) /\ m * (2 * s + h) = 2 * (m * s) + H
        /\ m * (2 * s) = 2 * (m * s) /\ m * (2 * d + h) = 2 * (m * d) + H
        /\ m * d \in Nat
    BY <1>1, <1>13, <1>15 DEF H
  <2>3. m * s = Y + X
    BY <1>12 DEF s
  <2> QED
    BY <2>1, <2>2, <2>3
<1> DEFINE md == m * d
           mO == m * One
           mA == m * A
<1>17. md \in Nat /\ mO \in Nat /\ mA \in Nat
  BY <1>7, <1>10, <1>16
<1>18. md <= Z + A + H /\ Y + mO <= md /\ 2 * md < 2 * mA - mO
  <2>1. /\ 2 * md <= 2 * (Y + X) + H /\ 2 * (Y + X) <= 2 * md + H
        /\ 2 * (Z + A + H) < 2 * mA - mO /\ mO + H <= A
    BY <1>8, <1>11, <1>16
  <2> HIDE DEF md, mO, mA, X, Y, Z
  <2>2. md <= Z + A + H
    BY <1>1, <1>4, <1>5, <1>17, <2>1
  <2>3. Y + mO <= md
    BY <1>1, <1>4, <1>5, <1>17, <2>1
  <2>4. 2 * md < 2 * mA - mO
    BY <1>1, <1>5, <1>17, <2>1, <2>2
  <2> QED
    BY <2>2, <2>3, <2>4
<1>19. c + One <= d
  <2>1. m * (c + One) <= m * d /\ c + One \in Nat
    <3>1. m * (c + One) = Y + mO /\ c + One \in Nat
      BY <1>1
    <3> QED
      BY <1>18, <3>1
  <2> QED
    BY <1>15, <2>1, FactorIsSmaller
<1>20. 2 * d < (2 * S - 1) * One
  <2>1. S # 0
    <3>1. 0 * One = 0
      BY <1>1
    <3>2. mO # 0
      BY <1>1
    <3> QED
      BY <1>1, <1>8, <1>17, <3>1, <3>2 DEF A
  <2>2. (2 * S - 1) * One \in Nat
    BY <1>1, <2>1
  <2>3. m * (2 * d) = 2 * md /\ m * ((2 * S - 1) * One) = 2 * mA - mO
    BY <1>1, <1>15 DEF A
  <2>4. 2 * d \in Nat
    BY <1>15
  <2> QED
    BY <1>18, <2>2, <2>3, <2>4, FactorIsSmaller
<1>21. m * d <= (i + 1) * (S * One + m * h)
  <2>1. (i + 1) * (A + H) = (i + 1) * (S * One + m * h)
    BY DEF A, H
  <2> QED
    BY <1>9, <1>18, <2>1
<1> QED
  BY <1>15, <1>19, <1>20, <1>21

\* The function that SlotRanges computes: the loop's variables after every master.
IsAfter(g, n, masters, numslots) ==
    g = [i \in 0..n |-> IF i = 0 THEN [cursor |-> 0, first |-> 0]
                        ELSE Advanced(g[i - 1], i, masters, numslots)]

LEMMA AfterExists ==
    ASSUME NEW masters, NEW numslots, NEW n \in Nat
    PROVE  \E g : IsAfter(g, n, masters, numslots)
<1> DEFINE T == {k \in Nat : ~\E g : IsAfter(g, k, masters, numslots)}
           start == [cursor |-> 0, first |-> 0]
           next(v, i) == Advanced(v, i, masters, numslots)
<1>1. SUFFICES ASSUME T # {} PROVE FALSE
  OBVIOUS
<1>2. PICK k \in T : \A j \in T : k <= j
  BY <1>1, LeastNatural, Zenon
<1>3. k # 0
  <2> DEFINE g == [i \in 0..0 |-> start]
  <2>1. IsAfter(g, 0, masters, numslots)
    BY DEF IsAfter
  <2> QED
    BY <1>2, <2>1
<1>4. k - 1 \in Nat /\ k - 1 \notin T
  BY <1>2, <1>3
<1>5. PICK g : IsAfter(g, k - 1, masters, numslots)
  BY <1>4
<1> DEFINE h == [i \in 0..k |-> IF i = k THEN next(g[k - 1], k) ELSE g[i]]
<1>6. k \in Nat
  BY <1>2
<1>7. \A i \in 0..(k - 1) : g[i] = IF i = 0 THEN start ELSE next(g[i - 1], i)
  BY <1>5 DEF IsAfter
<1>8. ASSUME NEW i \in 0..k PROVE h[i] = IF i = 0 THEN start ELSE next(h[i - 1], i)
  <2> HIDE DEF start, next
  <2>1. CASE i = k
    <3>1. h[i] = next(g[k - 1], k) /\ h[k - 1] = g[k - 1]
      BY <1>3, <1>6, <2>1
    <3> QED
      BY <1>3, <2>1, <3>1
  <2>2. CASE i # k /\ i = 0
    BY <1>3, <1>6, <1>7, <2>2
  <2>3. CASE i # k /\ i # 0
    <3>1. i \in 0..(k - 1) /\ i - 1 \in 0..k /\ i - 1 # k
      BY <1>6, <2>3
    <3>2. h[i] = g[i] /\ h[i - 1] = g[i - 1]
      BY <2>3, <3>1
    <3> QED
      BY <1>7, <2>3, <3>1, <3>2
  <2> QED
    BY <2>1, <2>2, <2>3
<1>9. IsAfter(h, k, masters, numslots)
  <2>1. h = [i \in 0..k |-> h[i]]
    OBVIOUS
  <2> HIDE DEF h
  <2> QED
    BY <1>8, <2>1 DEF IsAfter
<1> QED
  BY <1>2, <1>9

\* Every range ends where the next one begins: f[i] is the first slot after the i-th
\* master.  Neither of the corrections of "last" is needed.
LEMMA RangesFollow ==
    ASSUME NEW masters \in Nat \ {0}, NEW numslots \in Nat, CloseEnough(masters, numslots)
    PROVE  \E f \in [0..masters -> Nat] :
              /\ f[0] = 0 /\ f[masters] = numslots
              /\ \A i \in 1..masters : f[i - 1] < f[i]
              /\ SlotRanges(masters, numslots) = [i \in 1..masters |-> <<f[i - 1], f[i] - 1>>]
<1> DEFINE G == CHOOSE g : IsAfter(g, masters, masters, numslots)
           c(i) == G[i].cursor
           first(i) == G[i].first
<1>1. SlotRanges(masters, numslots) = [i \in 1..masters |-> <<first(i - 1), first(i) - 1>>]
  BY Zenon DEF SlotRanges, IsAfter
<1>2. IsAfter(G, masters, masters, numslots)
  BY AfterExists
<1> HIDE DEF G
<1>3. G[0] = [cursor |-> 0, first |-> 0]
  BY <1>2 DEF IsAfter
<1>4. ASSUME NEW i \in 1..masters
      PROVE  /\ c(i) = Nearest(c(i - 1) + Nearest(numslots * One, masters), 1)
             /\ first(i) = LastSlot(i, c(i), first(i - 1), masters, numslots) + 1
  <2>1. G[i] = Advanced(G[i - 1], i, masters, numslots)
    BY <1>2 DEF IsAfter
  <2> PICK cursor : cursor = Nearest(c(i - 1) + Nearest(numslots * One, masters), 1)
    OBVIOUS
  <2> PICK next : next = LastSlot(i, cursor, first(i - 1), masters, numslots) + 1
    OBVIOUS
  <2>2. G[i] = [cursor |-> cursor, first |-> next]
    BY <2>1 DEF Advanced
  <2>3. c(i) = cursor /\ first(i) = next
    BY <2>2
  <2> QED
    BY <2>3, Zenon
<1>5. One \in Nat \ {0}
  BY FloatAssumption
<1>6. PICK h \in Spacings : /\ numslots <= 2 * h
                            /\ masters * (One + h) <= numslots * One
                            /\ 2 * (masters - 1) * masters * h < (2 * numslots - masters) * One
  BY DEF CloseEnough
<1>7. c(0) = 0 /\ first(0) = 0
  BY <1>3
<1> DEFINE Good(i) == /\ c(i) \in Nat
                      /\ masters * c(i) <= i * (numslots * One + masters * h)
                      /\ first(i) = LRound(c(i))
                      /\ first(i) < numslots
<1>8. numslots # 0
  <2>1. masters * (One + h) \in Nat \ {0}
    BY <1>5, <1>6, FloatAssumption
  <2>2. 0 * One = 0
    BY <1>5
  <2> QED
    BY <1>6, <2>1, <2>2
<1>9. Good(0)
  <2>1. LRound(0) = 0
    BY LRoundFacts
  <2>2. masters * 0 = 0 /\ 0 * (numslots * One + masters * h) = 0
    BY <1>5, <1>6, FloatAssumption
  <2> QED
    BY <1>7, <1>8, <2>1, <2>2
<1> HIDE DEF c, first
<1>10. ASSUME NEW i \in Nat, i + 1 < masters, Good(i)
       PROVE  Good(i + 1) /\ first(i) < first(i + 1)
  <2>1. i + 1 \in 1..masters /\ (i + 1) - 1 = i /\ i + 1 # masters
    BY <1>10
  <2>2. /\ c(i + 1) = Nearest(c(i) + Nearest(numslots * One, masters), 1)
        /\ first(i + 1) = LastSlot(i + 1, c(i + 1), first(i), masters, numslots) + 1
    BY <1>4, <2>1
  <2>3. /\ c(i + 1) \in Nat /\ c(i) + One <= c(i + 1)
        /\ masters * c(i + 1) <= (i + 1) * (numslots * One + masters * h)
        /\ 2 * c(i + 1) < (2 * numslots - 1) * One
    BY <1>6, <1>10, <2>2, CursorAdvances
  <2>4. c(i + 1) >= One
    BY <1>5, <1>10, <2>3
  <2>5. /\ LRound(c(i + 1)) \in Nat /\ LRound(c(i + 1) - One) + 1 = LRound(c(i + 1))
        /\ LRound(c(i + 1)) < numslots
    BY <2>3, <2>4, LRoundFacts
  <2>6. LRound(c(i)) \in Nat /\ LRound(c(i)) < LRound(c(i + 1))
    BY <1>10, <2>3, LRoundFacts
  <2>7. LRound(c(i + 1) - One) \in Nat
    <3>1. c(i + 1) - One \in Nat
      BY <1>5, <2>3, <2>4
    <3> QED
      BY <3>1, LRoundFacts
  <2>8. first(i + 1) = LRound(c(i + 1))
    <3> PICK r : r = LRound(c(i + 1) - One)
      OBVIOUS
    <3>1. r \in Nat /\ ~(r > numslots) /\ ~(r < first(i))
      BY <1>10, <2>5, <2>6, <2>7
    <3>2. LastSlot(i + 1, c(i + 1), first(i), masters, numslots) = r
      BY <2>1, <3>1 DEF LastSlot
    <3> QED
      BY <2>2, <2>5, <3>2
  <2> QED
    BY <1>10, <2>3, <2>5, <2>6, <2>8
<1>11. \A i \in Nat : i < masters => Good(i)
  <2> DEFINE T == {i \in Nat : i < masters /\ ~Good(i)}
  <2> HIDE DEF Good
  <2>1. SUFFICES ASSUME T # {} PROVE FALSE
    OBVIOUS
  <2>2. PICK i \in T : \A j \in T : i <= j
    BY <2>1, LeastNatural, Zenon
  <2>3. i \in Nat /\ i < masters /\ ~Good(i) /\ i # 0
    BY <1>9, <2>2
  <2>4. i - 1 \in Nat /\ i - 1 < masters /\ (i - 1) + 1 = i /\ ~(i <= i - 1)
    BY <2>3
  <2>5. Good(i - 1)
    BY <2>2, <2>4
  <2> QED
    BY <1>10, <2>3, <2>4, <2>5
<1>12. \A i \in Nat : i < masters => first(i) \in Nat /\ first(i) < numslots
  <2> SUFFICES ASSUME NEW i \in Nat, i < masters PROVE first(i) \in Nat /\ first(i) < numslots
    OBVIOUS
  <2>1. c(i) \in Nat /\ first(i) = LRound(c(i)) /\ first(i) < numslots
    BY <1>11
  <2> QED
    BY <2>1, LRoundFacts
<1>13. first(masters) = numslots
  <2>1. masters - 1 \in Nat /\ masters - 1 < masters /\ masters \in 1..masters
    OBVIOUS
  <2>2. first(masters - 1) \in Nat /\ first(masters - 1) < numslots
    BY <1>12, <2>1
  <2>3. LastSlot(masters, c(masters), first(masters - 1), masters, numslots) = numslots - 1
    BY <2>2 DEF LastSlot
  <2> QED
    BY <1>4, <2>1, <2>3
<1>14. \A i \in 1..masters : first(i - 1) < first(i)
  <2> SUFFICES ASSUME NEW i \in 1..masters PROVE first(i - 1) < first(i)
    OBVIOUS
  <2>1. i - 1 \in Nat /\ i - 1 < masters /\ (i - 1) + 1 = i
    OBVIOUS
  <2>2. CASE i = masters
    BY <1>12, <1>13, <2>1, <2>2
  <2>3. CASE i # masters
    <3>1. Good(i - 1) /\ (i - 1) + 1 < masters
      BY <1>11, <2>1, <2>3
    <3> HIDE DEF Good
    <3> QED
      BY <1>10, <2>1, <3>1
  <2> QED
    BY <2>2, <2>3
<1> DEFINE f == [i \in 0..masters |-> first(i)]
<1>15. f \in [0..masters -> Nat]
  BY <1>12, <1>13
<1>16. /\ f[0] = 0 /\ f[masters] = numslots
       /\ \A i \in 1..masters : f[i - 1] = first(i - 1) /\ f[i] = first(i)
  BY <1>7, <1>13 DEF first
<1> HIDE DEF f
<1>17. SlotRanges(masters, numslots) = [i \in 1..masters |-> <<f[i - 1], f[i] - 1>>]
  BY <1>1, <1>16 DEF first
<1> QED
  BY <1>14, <1>15, <1>16, <1>17

\* The ranges follow each other, from the first slot to the last.
LEMMA RangesChain ==
    ASSUME NEW masters \in Nat \ {0}, NEW numslots \in Nat, CloseEnough(masters, numslots)
    PROVE  LET r == SlotRanges(masters, numslots)
           IN  /\ \A i \in 1..masters : r[i] \in Nat \X Nat /\ r[i] # <<>>
               /\ \A i \in 1..masters : r[i][1] <= r[i][2] /\ r[i][2] < numslots
               /\ r[1][1] = 0 /\ r[masters][2] = numslots - 1
               /\ \A i \in 1..(masters - 1) : r[i + 1][1] = r[i][2] + 1
               /\ \A i, j \in 1..masters : i < j => r[i][2] < r[j][1]
<1> DEFINE r == SlotRanges(masters, numslots)
<1>1. PICK f \in [0..masters -> Nat] :
        /\ f[0] = 0 /\ f[masters] = numslots
        /\ \A i \in 1..masters : f[i - 1] < f[i]
        /\ r = [i \in 1..masters |-> <<f[i - 1], f[i] - 1>>]
  BY RangesFollow
<1> HIDE DEF r
<1>2. ASSUME NEW i \in 0..masters, NEW j \in 0..masters, i <= j PROVE f[i] <= f[j]
  <2> DEFINE T == {k \in 0..masters : i <= k /\ ~(f[i] <= f[k])}
  <2>1. SUFFICES ASSUME T # {} PROVE FALSE
    BY <1>2
  <2>2. T \in SUBSET Nat
    OBVIOUS
  <2>3. PICK k \in T : \A l \in T : k <= l
    BY <2>1, <2>2, LeastNatural, Zenon
  <2>4. k \in 0..masters /\ i <= k /\ ~(f[i] <= f[k]) /\ k # i /\ f[i] \in Nat /\ f[k] \in Nat
    BY <2>3
  <2>5. k \in 1..masters /\ k - 1 \in 0..masters /\ i <= k - 1 /\ ~(k <= k - 1)
    BY <2>4
  <2>6. f[i] <= f[k - 1] /\ f[k - 1] < f[k] /\ f[k - 1] \in Nat
    BY <1>1, <2>3, <2>5
  <2> QED
    BY <2>4, <2>6
<1>3. ASSUME NEW i \in 1..masters
      PROVE  /\ r[i] = <<f[i - 1], f[i] - 1>>
             /\ r[i][1] = f[i - 1] /\ r[i][2] = f[i] - 1
             /\ f[i - 1] \in Nat /\ f[i] \in Nat /\ f[i - 1] < f[i] /\ f[i] <= numslots
  <2>1. i - 1 \in 0..masters /\ i \in 0..masters /\ i <= masters /\ masters \in 0..masters
    OBVIOUS
  <2>2. f[i - 1] \in Nat /\ f[i] \in Nat /\ f[i - 1] < f[i]
    BY <1>1, <2>1
  <2>3. f[i] <= numslots
    BY <1>1, <1>2, <2>1
  <2>4. r[i] = <<f[i - 1], f[i] - 1>>
    BY <1>1
  <2> QED
    BY <2>2, <2>3, <2>4
<1>4. ASSUME NEW i \in 1..masters PROVE r[i] \in Nat \X Nat /\ r[i] # <<>>
  <2>1. f[i - 1] \in Nat /\ f[i] - 1 \in Nat
    BY <1>3
  <2>2. r[i] = <<f[i - 1], f[i] - 1>>
    BY <1>3
  <2> QED
    BY <2>1, <2>2
<1>5. ASSUME NEW i \in 1..masters PROVE r[i][1] <= r[i][2] /\ r[i][2] < numslots
  BY <1>3
<1>6. r[1][1] = 0 /\ r[masters][2] = numslots - 1
  <2>1. 1 \in 1..masters /\ masters \in 1..masters /\ 1 - 1 = 0
    OBVIOUS
  <2>2. r[1][1] = f[1 - 1] /\ r[masters][2] = f[masters] - 1
    BY <1>3, <2>1
  <2> QED
    BY <1>1, <2>1, <2>2
<1>7. ASSUME NEW i \in 1..(masters - 1) PROVE r[i + 1][1] = r[i][2] + 1
  <2>1. i \in 1..masters /\ i + 1 \in 1..masters /\ (i + 1) - 1 = i
    OBVIOUS
  <2>2. r[i + 1][1] = f[i] /\ r[i][2] = f[i] - 1 /\ f[i] \in Nat
    BY <1>3, <2>1
  <2> QED
    BY <2>2
<1>8. ASSUME NEW i \in 1..masters, NEW j \in 1..masters, i < j PROVE r[i][2] < r[j][1]
  <2>1. i \in 0..masters /\ j - 1 \in 0..masters /\ i <= j - 1
    BY <1>8
  <2>2. f[i] <= f[j - 1]
    BY <1>2, <2>1
  <2>3. r[i][2] = f[i] - 1 /\ r[j][1] = f[j - 1] /\ f[i] \in Nat /\ f[j - 1] \in Nat
    BY <1>3
  <2> QED
    BY <2>2, <2>3
<1> QED
  BY <1>4, <1>5, <1>6, <1>7, <1>8 DEF r

\* The masters of a new cluster divide the slots among them: every slot is in the range
\* of exactly one master, and no range is empty (clusterManagerCommandCreate), although
\* the bounds are sums of floats that are rounded again with every master.  This is so
\* for every number of masters for which what is lost stays below half a slot; for more
\* masters it need not be.
THEOREM SlotsAreDivided ==
    ASSUME NEW masters \in Nat \ {0}, NEW numslots \in Nat, CloseEnough(masters, numslots)
    PROVE  LET r == SlotRanges(masters, numslots)
           IN  /\ \A i \in 1..masters : 0 <= r[i][1] /\ r[i][1] <= r[i][2] /\ r[i][2] < numslots
               /\ \A s \in 0..(numslots - 1) :
                    \E i \in 1..masters :
                        /\ r[i][1] <= s /\ s <= r[i][2]
                        /\ \A j \in 1..masters : r[j][1] <= s /\ s <= r[j][2] => j = i
<1> DEFINE r == SlotRanges(masters, numslots)
<1>1. /\ \A i \in 1..masters : r[i] \in Nat \X Nat
      /\ \A i \in 1..masters : r[i][1] <= r[i][2] /\ r[i][2] < numslots
      /\ r[1][1] = 0 /\ r[masters][2] = numslots - 1
      /\ \A i \in 1..(masters - 1) : r[i + 1][1] = r[i][2] + 1
      /\ \A i, j \in 1..masters : i < j => r[i][2] < r[j][1]
  BY RangesChain
<1> HIDE DEF r
<1>2. \A i \in 1..masters : r[i][1] \in Nat /\ r[i][2] \in Nat
  BY <1>1
<1>3. ASSUME NEW s \in 0..(numslots - 1)
      PROVE  \E i \in 1..masters :
                /\ r[i][1] <= s /\ s <= r[i][2]
                /\ \A j \in 1..masters : r[j][1] <= s /\ s <= r[j][2] => j = i
  <2> DEFINE T == {k \in 1..masters : s <= r[k][2]}
  <2>1. masters \in T /\ T \in SUBSET Nat
    BY <1>1
  <2>2. PICK i \in T : \A k \in T : i <= k
    BY <2>1, LeastNatural, Zenon
  <2>3. i \in 1..masters /\ s <= r[i][2]
    BY <2>2
  <2>4. r[i][1] <= s
    <3>1. CASE i = 1
      BY <1>1, <3>1
    <3>2. CASE i # 1
      <4>1. i - 1 \in 1..(masters - 1) /\ i - 1 \in 1..masters /\ (i - 1) + 1 = i /\ ~(i <= i - 1)
        BY <2>3, <3>2
      <4>2. ~(s <= r[i - 1][2])
        BY <2>2, <4>1
      <4>3. r[i][1] = r[i - 1][2] + 1
        BY <1>1, <4>1
      <4>4. r[i - 1][2] \in Nat
        BY <1>2, <4>1
      <4> QED
        BY <4>2, <4>3, <4>4
    <3> QED
      BY <3>1, <3>2
  <2>5. ASSUME NEW j \in 1..masters, r[j][1] <= s, s <= r[j][2] PROVE j = i
    <3>1. i <= j
      BY <2>2, <2>5
    <3>2. ~(i < j)
      <4>1. i < j => r[i][2] < r[j][1]
        BY <1>1, <2>3
      <4>2. r[i][2] \in Nat /\ r[j][1] \in Nat
        BY <1>2, <2>3
      <4> QED
        BY <2>3, <2>5, <4>1, <4>2
    <3> QED
      BY <2>3, <3>1, <3>2
  <2> QED
    BY <2>3, <2>4, <2>5
<1> QED
  BY <1>1, <1>2, <1>3 DEF r

-----------------------------------------------------------------------------
(* The interleaved list.                                                   *)

LEMMA HostType ==
    ASSUME NEW ips, NEW n \in Nat \ {0}
    PROVE  /\ HostOf(ips, n) \in 1..n /\ ips[HostOf(ips, n)] = ips[n]
           /\ RoundOf(ips, n) \in Nat
<1>1. HostOf(ips, n) \in {m \in 1..n : ips[m] = ips[n]}
  <2> DEFINE T == {m \in 1..n : ips[m] = ips[n]}
  <2>1. n \in T /\ T \in SUBSET Nat
    OBVIOUS
  <2>2. Min(T) \in T
    BY <2>1, MinIsLeast
  <2> QED
    BY <2>2 DEF HostOf
<1>2. RoundOf(ips, n) \in Nat
  <2> DEFINE T == {m \in 1..(n - 1) : ips[m] = ips[n]}
  <2>1. IsFiniteSet(1..(n - 1)) /\ T \in SUBSET (1..(n - 1))
    BY FS_Interval
  <2>2. IsFiniteSet(T)
    BY ONLY <2>1, FS_Subset
  <2> QED
    BY <2>2, FS_CardinalityType DEF RoundOf
<1> QED
  BY <1>1, <1>2

\* A later node of the same host is taken in a later round.
LEMMA RoundsRise ==
    ASSUME NEW ips, NEW m \in Nat \ {0}, NEW n \in Nat \ {0}, m < n, ips[m] = ips[n]
    PROVE  RoundOf(ips, m) < RoundOf(ips, n)
<1> DEFINE A == {k \in 1..(m - 1) : ips[k] = ips[m]}
           B == {k \in 1..(n - 1) : ips[k] = ips[n]}
<1>1. IsFiniteSet(A) /\ IsFiniteSet(B)
  <2>1. A \in SUBSET (1..(m - 1)) /\ B \in SUBSET (1..(n - 1))
    OBVIOUS
  <2>2. m - 1 \in Int /\ n - 1 \in Int /\ 1 \in Int
    OBVIOUS
  <2>3. IsFiniteSet(1..(m - 1)) /\ IsFiniteSet(1..(n - 1))
    BY ONLY <2>2, FS_Interval
  <2> HIDE DEF A, B
  <2> QED
    BY <2>1, <2>3, FS_Subset, Zenon
<1>2. m \notin A /\ A \cup {m} \in SUBSET B
  OBVIOUS
<1>3. Cardinality(A) = RoundOf(ips, m) /\ Cardinality(B) = RoundOf(ips, n)
  BY DEF RoundOf
<1> HIDE DEF A, B
<1>4. Cardinality(A \cup {m}) = Cardinality(A) + 1
  BY <1>1, <1>2, FS_AddElement, Zenon
<1>5. Cardinality(A \cup {m}) <= Cardinality(B)
  BY <1>1, <1>2, FS_Subset
<1>6. Cardinality(A) \in Nat /\ Cardinality(B) \in Nat
  BY <1>1, FS_CardinalityType
<1> QED
  BY <1>3, <1>4, <1>5, <1>6

\* TakenBefore orders the nodes.
LEMMA TakenInOrder ==
    ASSUME NEW ips, NEW m \in Nat \ {0}, NEW n \in Nat \ {0}
    PROVE  /\ ~TakenBefore(ips, n, n)
           /\ m # n => TakenBefore(ips, m, n) \/ TakenBefore(ips, n, m)
           /\ \A k \in Nat \ {0} :
                TakenBefore(ips, k, m) /\ TakenBefore(ips, m, n) => TakenBefore(ips, k, n)
<1>1. \A k \in Nat \ {0} : RoundOf(ips, k) \in Nat /\ HostOf(ips, k) \in Nat
  BY HostType
<1>2. ~TakenBefore(ips, n, n)
  BY <1>1 DEF TakenBefore
<1>3. ASSUME m # n, ~TakenBefore(ips, m, n), ~TakenBefore(ips, n, m) PROVE FALSE
  <2>1. RoundOf(ips, m) = RoundOf(ips, n) /\ HostOf(ips, m) = HostOf(ips, n)
    BY <1>1, <1>3 DEF TakenBefore
  <2>2. ips[m] = ips[n]
    BY <2>1, HostType
  <2>3. RoundOf(ips, m) < RoundOf(ips, n) \/ RoundOf(ips, n) < RoundOf(ips, m)
    <3>1. m < n \/ n < m
      BY <1>3
    <3> QED
      BY <2>2, <3>1, RoundsRise
  <2> QED
    BY <1>1, <2>1, <2>3
<1>4. ASSUME NEW k \in Nat \ {0}, TakenBefore(ips, k, m), TakenBefore(ips, m, n)
      PROVE  TakenBefore(ips, k, n)
  BY <1>1, <1>4 DEF TakenBefore
<1> QED
  BY <1>2, <1>3, <1>4

\* The interleaved list names every node once.
LEMMA InterleavedOnce ==
    ASSUME NEW ips, Len(ips) \in Nat
    PROVE  /\ InterleaveHosts(ips) \in Seq(1..Len(ips))
           /\ Len(InterleaveHosts(ips)) = Len(ips)
           /\ \A i, j \in 1..Len(ips) : i # j => InterleaveHosts(ips)[i] # InterleaveHosts(ips)[j]
<1> DEFINE L == Len(ips)
           S == 1..L
           before(n) == {m \in S : TakenBefore(ips, m, n)}
           place == [n \in S |-> Cardinality(before(n)) + 1]
<1>1. IsFiniteSet(S) /\ Cardinality(S) = L /\ S \subseteq Nat \ {0}
  <2>1. L \in Nat /\ L \in Int /\ 1 \in Int
    OBVIOUS
  <2> HIDE DEF L
  <2>2. IsFiniteSet(1..L) /\ Cardinality(1..L) = IF 1 > L THEN 0 ELSE L - 1 + 1
    BY ONLY <2>1, FS_Interval
  <2> QED
    BY <2>1, <2>2
<1>2. ASSUME NEW n \in S
      PROVE  /\ IsFiniteSet(before(n)) /\ n \notin before(n)
             /\ Cardinality(before(n)) \in Nat
             /\ Cardinality(before(n)) + 1 <= L
  <2>1. before(n) \in SUBSET S /\ n \notin before(n) /\ before(n) \cup {n} \in SUBSET S
    BY <1>1, TakenInOrder
  <2> HIDE DEF before, S, L
  <2>2. IsFiniteSet(before(n))
    BY <1>1, <2>1, FS_Subset
  <2>3. Cardinality(before(n) \cup {n}) = Cardinality(before(n)) + 1
    BY <2>1, <2>2, FS_AddElement, Zenon
  <2>4. Cardinality(before(n) \cup {n}) <= Cardinality(S)
    BY <1>1, <2>1, FS_Subset
  <2>5. Cardinality(before(n)) \in Nat
    BY <2>2, FS_CardinalityType
  <2> QED
    BY <1>1, <2>1, <2>2, <2>3, <2>4, <2>5
<1>3. place \in [S -> S]
  <2>1. ASSUME NEW n \in S PROVE Cardinality(before(n)) + 1 \in S
    <3>1. Cardinality(before(n)) \in Nat /\ Cardinality(before(n)) + 1 <= L
      BY <1>2, Zenon
    <3> HIDE DEF before
    <3> QED
      BY <3>1
  <2> HIDE DEF before, S
  <2> QED
    BY <2>1
<1>4. ASSUME NEW m \in S, NEW n \in S, TakenBefore(ips, m, n) PROVE place[m] < place[n]
  <2>1. before(m) \cup {m} \in SUBSET before(n)
    <3>1. ASSUME NEW k \in before(m) PROVE k \in before(n)
      BY <1>1, <1>4, <3>1, TakenInOrder
    <3> QED
      BY <1>4, <3>1
  <2>2. /\ IsFiniteSet(before(m)) /\ m \notin before(m) /\ Cardinality(before(m)) \in Nat
        /\ IsFiniteSet(before(n)) /\ Cardinality(before(n)) \in Nat
    BY <1>2
  <2>3. place[m] = Cardinality(before(m)) + 1 /\ place[n] = Cardinality(before(n)) + 1
    OBVIOUS
  <2> HIDE DEF before, place
  <2>4. Cardinality(before(m) \cup {m}) = Cardinality(before(m)) + 1
    BY <2>2, FS_AddElement, Zenon
  <2>5. Cardinality(before(m) \cup {m}) <= Cardinality(before(n))
    BY <2>1, <2>2, FS_Subset
  <2> QED
    BY <2>2, <2>3, <2>4, <2>5
<1>5. ASSUME NEW m \in S, NEW n \in S, m # n PROVE place[m] # place[n]
  <2>1. TakenBefore(ips, m, n) \/ TakenBefore(ips, n, m)
    BY <1>1, <1>5, TakenInOrder
  <2>2. place[m] \in Nat /\ place[n] \in Nat
    <3> HIDE DEF place
    <3> QED
      BY <1>1, <1>3
  <2>3. place[m] < place[n] \/ place[n] < place[m]
    BY <1>4, <2>1
  <2> HIDE DEF place
  <2> QED
    BY <2>2, <2>3
<1>6. ASSUME NEW i \in S PROVE \E n \in S : place[n] = i
  <2> HIDE DEF place, S
  <2>1. place \in Injection(S, S)
    BY <1>3, <1>5 DEF Injection, IsInjective
  <2>2. place \in Surjection(S, S)
    BY <1>1, <2>1, FS_Injection
  <2> QED
    BY <2>2 DEF Surjection
<1> DEFINE f == InterleaveHosts(ips)
<1>7. f = [i \in S |-> CHOOSE n \in S : place[n] = i]
  <2>1. \A n \in S : place[n] = Cardinality(before(n)) + 1
    OBVIOUS
  <2>2. f = [i \in S |-> CHOOSE n \in S : Cardinality(before(n)) + 1 = i]
    BY Zenon DEF InterleaveHosts
  <2>3. ASSUME NEW i \in S
        PROVE  (CHOOSE n \in S : Cardinality(before(n)) + 1 = i) = (CHOOSE n \in S : place[n] = i)
    <3> HIDE DEF place, before
    <3> QED
      BY <2>1
  <2> HIDE DEF f, place, before, S
  <2> QED
    BY <2>2, <2>3
<1> HIDE DEF f, place
<1>8. ASSUME NEW i \in S PROVE f[i] \in S /\ place[f[i]] = i
  BY <1>6, <1>7, Zenon
<1>9. f \in [S -> S]
  BY <1>7, <1>8, Zenon
<1>10. f \in Seq(S) /\ Len(f) = L
  BY <1>9
<1>11. \A i, j \in S : i # j => f[i] # f[j]
  BY <1>8
<1> QED
  BY <1>10, <1>11 DEF f

-----------------------------------------------------------------------------
(* The replicas.                                                           *)

\* Every turn is that of a master.
LEMMA TurnsAreMasters ==
    ASSUME NEW M, NEW masters \in Seq(M), NEW replicas \in Nat
    PROVE  Turns(masters, replicas) \in Seq(M)
<1> DEFINE k == Len(masters)
           at(t) == (t - 1) \div replicas + 1
           first == [t \in 1..(k * replicas) |-> masters[at(t)]]
<1>1. k \in Nat /\ k * replicas \in Nat
  OBVIOUS
<1>2. ASSUME NEW t \in 1..(k * replicas) PROVE at(t) \in 1..k
  <2>1. replicas # 0
    BY <1>1
  <2>2. t - 1 \in Nat /\ t - 1 < k * replicas
    BY <1>1
  <2> DEFINE q == (t - 1) \div replicas
  <2>3. q \in Nat /\ q * replicas <= t - 1
    BY <2>1, <2>2, Quotient
  <2>4. at(t) = q + 1
    OBVIOUS
  <2> HIDE DEF q, at, k
  <2>5. q < k
    <3>1. SUFFICES ASSUME k <= q PROVE FALSE
      BY <1>1, <2>3
    <3>2. PICK d \in Nat : q = k + d
      BY <1>1, <2>3, <3>1
    <3>3. q * replicas = k * replicas + d * replicas /\ d * replicas \in Nat
      BY <1>1, <3>2
    <3> QED
      BY <1>1, <2>2, <2>3, <3>3
  <2> QED
    BY <1>1, <2>3, <2>4, <2>5
<1>3. \A t \in 1..(k * replicas) : masters[at(t)] \in M
  <2>1. \A i \in 1..k : masters[i] \in M
    OBVIOUS
  <2> HIDE DEF at, k
  <2> QED
    BY <1>2, <2>1
<1>4. first \in Seq(M)
  <2>1. first \in [1..(k * replicas) -> M]
    BY <1>3
  <2> HIDE DEF first, k
  <2> QED
    BY <1>1, <2>1
<1>5. Turns(masters, replicas) = first \o (IF replicas = 0 THEN <<>> ELSE masters)
  BY DEF Turns
<1>6. (IF replicas = 0 THEN <<>> ELSE masters) \in Seq(M)
  OBVIOUS
<1> HIDE DEF first
<1> QED
  BY <1>4, <1>5, <1>6

\* What turn i makes of the replicas that are taken.
Taken(turns, rest, ips, i, b) ==
    IF Range(rest) \subseteq Range(b) THEN b
    ELSE Append(b, rest[PickReplica(rest, Range(b), turns[i], ips)])

\* g lists what is taken after every turn up to n.
IsTaken(g, n, turns, rest, ips) ==
    g = [i \in 0..n |-> IF i = 0 THEN <<>> ELSE Taken(turns, rest, ips, i, g[i - 1])]

LEMMA TakenExists ==
    ASSUME NEW turns, NEW rest, NEW ips, NEW n \in Nat
    PROVE  \E g : IsTaken(g, n, turns, rest, ips)
<1> DEFINE T == {k \in Nat : ~\E g : IsTaken(g, k, turns, rest, ips)}
<1>1. SUFFICES ASSUME T # {} PROVE FALSE
  OBVIOUS
<1>2. PICK k \in T : \A j \in T : k <= j
  BY <1>1, LeastNatural, Zenon
<1>3. k # 0
  <2> DEFINE g == [i \in 0..0 |-> <<>>]
  <2>1. IsTaken(g, 0, turns, rest, ips)
    BY DEF IsTaken
  <2> QED
    BY <1>2, <2>1
<1>4. k - 1 \in Nat /\ k - 1 \notin T
  BY <1>2, <1>3
<1>5. PICK g : IsTaken(g, k - 1, turns, rest, ips)
  BY <1>4
<1> DEFINE h == [i \in 0..k |-> IF i = k THEN Taken(turns, rest, ips, k, g[k - 1]) ELSE g[i]]
<1>6. k \in Nat
  BY <1>2
<1>7. \A i \in 0..(k - 1) : g[i] = IF i = 0 THEN <<>> ELSE Taken(turns, rest, ips, i, g[i - 1])
  BY <1>5 DEF IsTaken
<1>8. ASSUME NEW i \in 0..k
      PROVE  h[i] = IF i = 0 THEN <<>> ELSE Taken(turns, rest, ips, i, h[i - 1])
  <2>1. CASE i = k
    <3>1. h[i] = Taken(turns, rest, ips, k, g[k - 1]) /\ h[k - 1] = g[k - 1]
      BY <1>3, <1>6, <2>1
    <3> QED
      BY <1>3, <2>1, <3>1
  <2>2. CASE i # k /\ i = 0
    BY <1>3, <1>6, <1>7, <2>2
  <2>3. CASE i # k /\ i # 0
    <3>1. i \in 0..(k - 1) /\ i - 1 \in 0..k /\ i - 1 # k
      BY <1>6, <2>3
    <3>2. h[i] = g[i] /\ h[i - 1] = g[i - 1]
      BY <2>3, <3>1
    <3> QED
      BY <1>7, <2>3, <3>1, <3>2
  <2> QED
    BY <2>1, <2>2, <2>3
<1>9. IsTaken(h, k, turns, rest, ips)
  <2>1. h = [i \in 0..k |-> h[i]]
    OBVIOUS
  <2> HIDE DEF h
  <2> QED
    BY <1>8, <2>1 DEF IsTaken
<1> QED
  BY <1>2, <1>9

\* Only nodes of "rest" are taken, at most one in every turn.
LEMMA ReplicasAreTaken ==
    ASSUME NEW R, NEW turns, Len(turns) \in Nat, NEW rest \in Seq(R), NEW ips
    PROVE  /\ TakeReplicas(turns, rest, ips) \in Seq(R)
           /\ Len(TakeReplicas(turns, rest, ips)) <= Len(turns)
<1> DEFINE n == Len(turns)
           G == CHOOSE g : IsTaken(g, n, turns, rest, ips)
<1>1. TakeReplicas(turns, rest, ips) = G[n]
  BY Zenon DEF TakeReplicas, IsTaken, Taken
<1>2. IsTaken(G, n, turns, rest, ips)
  BY TakenExists
<1> HIDE DEF G
<1>3. \A i \in 0..n : G[i] = IF i = 0 THEN <<>> ELSE Taken(turns, rest, ips, i, G[i - 1])
  BY <1>2 DEF IsTaken
<1>4. ASSUME NEW b \in Seq(R), NEW i \in Nat
      PROVE  /\ Taken(turns, rest, ips, i, b) \in Seq(R)
             /\ Len(Taken(turns, rest, ips, i, b)) <= Len(b) + 1
  <2>1. CASE Range(rest) \subseteq Range(b)
    BY <2>1 DEF Taken
  <2>2. CASE ~(Range(rest) \subseteq Range(b))
    <3> DEFINE p == PickReplica(rest, Range(b), turns[i], ips)
               free == {j \in 1..Len(rest) : rest[j] \notin Range(b)}
               away == {j \in free : ips[rest[j]] # ips[turns[i]]}
               S == IF away # {} THEN away ELSE free
    <3>1. free # {}
      BY <2>2 DEF Range
    <3>2. S # {} /\ S \in SUBSET Nat /\ S \subseteq 1..Len(rest)
      BY <3>1
    <3>3. p = Min(S)
      BY Zenon DEF PickReplica
    <3> HIDE DEF S, p
    <3>4. p \in 1..Len(rest)
      BY <3>2, <3>3, MinIsLeast, Zenon
    <3>5. rest[p] \in R
      BY <3>4
    <3>6. Taken(turns, rest, ips, i, b) = Append(b, rest[p])
      BY <2>2 DEF Taken, p
    <3> QED
      BY <3>5, <3>6
  <2> QED
    BY <2>1, <2>2
<1> DEFINE T == {i \in Nat : i <= n /\ ~(G[i] \in Seq(R) /\ Len(G[i]) <= i)}
<1>5. T = {}
  <2>1. SUFFICES ASSUME T # {} PROVE FALSE
    OBVIOUS
  <2>2. PICK k \in T : \A j \in T : k <= j
    BY <2>1, LeastNatural, Zenon
  <2>3. k \in Nat /\ k <= n
    BY <2>2
  <2>4. k # 0
    <3>1. G[0] = <<>>
      BY <1>3
    <3>2. <<>> \in Seq(R) /\ Len(<<>>) <= 0
      OBVIOUS
    <3>3. 0 \notin T
      BY <3>1, <3>2, Zenon
    <3> QED
      BY <2>2, <3>3
  <2>5. k - 1 \in Nat /\ k - 1 <= n /\ k - 1 \notin T
    BY <2>2, <2>3, <2>4
  <2>6. G[k - 1] \in Seq(R) /\ Len(G[k - 1]) <= k - 1
    BY <2>5
  <2>7. G[k] = Taken(turns, rest, ips, k, G[k - 1])
    BY <1>3, <2>3, <2>4
  <2>8. G[k] \in Seq(R) /\ Len(G[k]) <= Len(G[k - 1]) + 1 /\ Len(G[k - 1]) \in Nat
        /\ Len(G[k]) \in Nat
    <3>1. G[k] \in Seq(R) /\ Len(G[k]) <= Len(G[k - 1]) + 1
      BY <1>4, <2>3, <2>6, <2>7
    <3> QED
      BY <2>6, <3>1
  <2>9. Len(G[k]) <= k
    BY <2>3, <2>6, <2>8
  <2> QED
    BY <2>2, <2>8, <2>9
<1>6. n \in Nat /\ n \notin T
  BY <1>5
<1> QED
  BY <1>1, <1>6

\* PlaceIn finds a place of x.
LEMMA FirstPlace ==
    ASSUME NEW s, Len(s) \in Nat, NEW x
    PROVE  /\ PlaceIn(s, x) \in 0..Len(s)
           /\ PlaceIn(s, x) > 0 => s[PlaceIn(s, x)] = x
           /\ (\E i \in 1..Len(s) : s[i] = x) => PlaceIn(s, x) > 0
<1> DEFINE I == {i \in 1..Len(s) : s[i] = x}
           at == PlaceIn(s, x)
<1>1. at = IF I # {} THEN Min(I) ELSE 0
  BY DEF PlaceIn
<1>2. I \in SUBSET Nat
  OBVIOUS
<1>3. I # {} => Min(I) \in I
  BY <1>2, MinIsLeast
<1> HIDE DEF at
<1>4. at \in 0..Len(s) /\ (at > 0 => s[at] = x) /\ (I # {} => at > 0)
  BY <1>1, <1>3
<1> QED
  BY <1>4 DEF at

\* Only a node of "rest" is given to a master, and to one of the masters.
LEMMA ReplicasHaveMasters ==
    ASSUME NEW M, NEW masters \in Seq(M), NEW R, NEW rest \in Seq(R), NEW replicas \in Nat,
           NEW ips, Len(ips) \in Nat,
           NEW n \in 1..Len(ips), AssignReplicas(masters, rest, replicas, ips)[n] # 0
    PROVE  /\ n \in R
           /\ AssignReplicas(masters, rest, replicas, ips)[n] \in M
<1> DEFINE rotated == IF rest = <<>> THEN <<>> ELSE Append(Tail(rest), Head(rest))
           turns == Turns(masters, replicas)
           given == TakeReplicas(turns, rotated, ips)
           at == PlaceIn(given, n)
<1>1. rotated \in Seq(R)
  <2>1. CASE rest = <<>>
    BY <2>1
  <2>2. CASE rest # <<>>
    <3>1. Tail(rest) \in Seq(R) /\ Head(rest) \in R
      BY <2>2
    <3> QED
      BY <2>2, <3>1
  <2> QED
    BY <2>1, <2>2
<1>2. turns \in Seq(M) /\ Len(turns) \in Nat
  <2>1. turns \in Seq(M)
    BY TurnsAreMasters
  <2> HIDE DEF turns
  <2> QED
    BY <2>1
<1> HIDE DEF turns, rotated
<1>3. given \in Seq(R) /\ Len(given) <= Len(turns) /\ Len(given) \in Nat
  <2>1. given \in Seq(R) /\ Len(given) <= Len(turns)
    BY <1>1, <1>2, ReplicasAreTaken
  <2> HIDE DEF given
  <2> QED
    BY <2>1
<1> HIDE DEF given
<1>4. AssignReplicas(masters, rest, replicas, ips)[n] = IF n \in Range(given) THEN turns[at] ELSE 0
  BY DEF AssignReplicas, turns, rotated, given
<1>5. n \in Range(given)
  BY <1>4
<1>6. PICK i \in 1..Len(given) : given[i] = n
  <2>1. DOMAIN given = 1..Len(given)
    BY <1>3
  <2> QED
    BY <1>5, <2>1 DEF Range
<1>7. at \in 1..Len(given)
  <2>1. at \in 0..Len(given) /\ at > 0
    BY <1>3, <1>6, FirstPlace
  <2> HIDE DEF at
  <2> QED
    BY <1>3, <2>1
<1> HIDE DEF at
<1>8. at \in 1..Len(turns)
  BY <1>2, <1>3, <1>7
<1>9. turns[at] \in M
  BY <1>2, <1>8
<1>10. n \in R
  BY <1>3, <1>6
<1> QED
  BY <1>4, <1>5, <1>9, <1>10

\* A quotient is no larger than what was divided.
LEMMA QuotientSmaller ==
    ASSUME NEW a \in Nat, NEW b \in Nat \ {0}
    PROVE  a \div b \in Nat /\ a \div b <= a
<1> DEFINE q == a \div b
<1>1. q \in Nat /\ q * b <= a
  BY Quotient
<1> HIDE DEF q
<1>2. PICK d \in Nat : b = d + 1
  <2>1. b - 1 \in Nat /\ b = (b - 1) + 1
    OBVIOUS
  <2> QED
    BY <2>1
<1>3. q * b = q * d + q /\ q * d \in Nat
  BY <1>1, <1>2
<1>4. q <= a
  BY <1>1, <1>3
<1> QED
  BY <1>1, <1>4 DEF q

\* A plan for the nodes 1..L: who has nothing to be told is not dirty, only who has no
\* range is given to a master, and the ranges follow each other (see SlotsDivided).
Fitting(p, L, numslots) ==
    LET masters == {n \in 1..L : p[n].slots # <<>>}
    IN  /\ p \in [1..L -> [slots : Ranges, replicate : Nat, dirty : BOOLEAN]]
        /\ \A n \in 1..L : p[n].dirty \/ (p[n].slots = <<>> /\ p[n].replicate = 0)
        /\ \A n \in 1..L : p[n].replicate # 0
                           => n \notin masters /\ p[n].replicate \in masters
        /\ \A m \in masters : /\ 0 <= p[m].slots[1] /\ p[m].slots[1] <= p[m].slots[2]
                              /\ p[m].slots[2] < numslots
        /\ \A m, n \in masters : m # n => \/ p[m].slots[2] < p[n].slots[1]
                                          \/ p[n].slots[2] < p[m].slots[1]
        /\ \E m \in masters : p[m].slots[1] = 0
        /\ \A m \in masters : \/ p[m].slots[2] = numslots - 1
                              \/ \E n \in masters : p[n].slots[1] = p[m].slots[2] + 1

\* The plan that clusterManagerCommandCreate makes.
LEMMA InitialPlanFits ==
    ASSUME NEW ips, NEW L \in Nat, Len(ips) = L, NEW count \in Nat \ {0}, count <= L,
           NEW numslots \in Nat, CloseEnough(count, numslots), NEW replicas \in Nat
    PROVE  Fitting(InitialPlan(ips, count, replicas, numslots), L, numslots)
<1> DEFINE f == InterleaveHosts(ips)
           ms == SubSeq(f, 1, count)
           rest == SubSeq(f, count + 1, L)
           r == SlotRanges(count, numslots)
           rep == AssignReplicas(ms, rest, replicas, ips)
           at(n) == PlaceIn(ms, n)
           p == InitialPlan(ips, count, replicas, numslots)
           masters == {n \in 1..L : p[n].slots # <<>>}
           M == {f[i] : i \in 1..count}
           R == {f[i] : i \in (count + 1)..L}
<1>1. f \in Seq(1..L) /\ Len(f) = L /\ \A i, j \in 1..L : i # j => f[i] # f[j]
  BY InterleavedOnce, Zenon
<1>2. \A n \in 1..L : p[n] = [slots |-> IF at(n) > 0 THEN r[at(n)] ELSE <<>>,
                              replicate |-> rep[n],
                              dirty |-> at(n) > 0 \/ rep[n] # 0]
  BY DEF InitialPlan
<1>3. DOMAIN p = 1..L /\ p = [n \in 1..L |-> p[n]]
  BY DEF InitialPlan
<1>4. /\ \A i \in 1..count : r[i] \in Nat \X Nat /\ r[i] # <<>>
      /\ \A i \in 1..count : r[i][1] <= r[i][2] /\ r[i][2] < numslots
      /\ r[1][1] = 0 /\ r[count][2] = numslots - 1
      /\ \A i \in 1..(count - 1) : r[i + 1][1] = r[i][2] + 1
      /\ \A i, j \in 1..count : i < j => r[i][2] < r[j][1]
  BY RangesChain
<1> HIDE DEF f, r, p
<1>5. \A i \in 1..L : f[i] \in 1..L
  BY <1>1
<1>6. ms \in Seq(M) /\ Len(ms) = count /\ \A i \in 1..count : ms[i] = f[i]
  <2>1. Len(ms) = count /\ \A i \in 1..count : ms[i] = f[i]
    BY <1>1
  <2>2. ms \in Seq(1..L)
    BY <1>1
  <2>3. ms \in [1..count -> M]
    <3>1. ms = [i \in 1..count |-> ms[i]]
      BY <2>1, <2>2
    <3> HIDE DEF ms
    <3> QED
      BY <2>1, <3>1
  <2> HIDE DEF ms, M
  <2> QED
    BY <2>1, <2>3
<1>7. rest \in Seq(R)
  <2>1. Len(rest) = L - count /\ \A i \in 1..(L - count) : rest[i] = f[count + i]
    BY <1>1
  <2>2. rest \in Seq(1..L)
    BY <1>1
  <2>3. \A i \in 1..(L - count) : rest[i] \in R
    <3>1. ASSUME NEW i \in 1..(L - count) PROVE rest[i] \in R
      <4>1. count + i \in (count + 1)..L
        OBVIOUS
      <4> HIDE DEF rest
      <4> QED
        BY <2>1, <4>1, Zenon
    <3> QED
      BY <3>1
  <2>4. rest \in [1..(L - count) -> R]
    <3> HIDE DEF rest, R
    <3>1. rest = [i \in 1..(L - count) |-> rest[i]]
      BY <2>1, <2>2
    <3> QED
      BY <2>3, <3>1
  <2>5. L - count \in Nat
    OBVIOUS
  <2> HIDE DEF rest, R
  <2> QED
    BY <2>4, <2>5
<1>8. \A n \in M : n \in 1..L /\ n \notin R
  <2>1. ASSUME NEW i \in 1..count PROVE f[i] \in 1..L /\ f[i] \notin R
    <3>1. i \in 1..L /\ \A j \in (count + 1)..L : j \in 1..L /\ j # i
      OBVIOUS
    <3> QED
      BY <1>1, <1>5, <3>1
  <2> QED
    BY <2>1
<1>9. ASSUME NEW n \in 1..L
      PROVE  /\ at(n) \in 0..count
             /\ at(n) > 0 => at(n) \in 1..count /\ f[at(n)] = n
             /\ at(n) > 0 <=> n \in M
  <2>1. /\ at(n) \in 0..Len(ms) /\ (at(n) > 0 => ms[at(n)] = n)
        /\ (\E i \in 1..Len(ms) : ms[i] = n) => at(n) > 0
    <3>1. Len(ms) \in Nat
      BY <1>6
    <3> HIDE DEF ms
    <3> QED
      BY <3>1, FirstPlace
  <2> HIDE DEF ms, at
  <2>2. at(n) \in 0..count /\ (at(n) > 0 => at(n) \in 1..count)
    BY <1>6, <2>1
  <2>3. at(n) > 0 => f[at(n)] = n
    BY <1>6, <2>1, <2>2
  <2>4. at(n) > 0 => n \in M
    BY <2>2, <2>3
  <2>5. n \in M => at(n) > 0
    BY <1>6, <2>1
  <2> QED
    BY <2>2, <2>3, <2>4, <2>5
<1>10. ASSUME NEW i \in 1..count PROVE f[i] \in 1..L /\ at(f[i]) = i
  <2>1. f[i] \in M /\ f[i] \in 1..L
    BY <1>8
  <2>2. at(f[i]) \in 1..count /\ f[at(f[i])] = f[i]
    <3> HIDE DEF at, M
    <3> QED
      BY <1>9, <2>1
  <2> HIDE DEF at
  <2> QED
    BY <1>1, <2>1, <2>2
<1> HIDE DEF at
<1>11. ASSUME NEW n \in 1..L
       PROVE  /\ rep[n] # 0 => n \in R /\ rep[n] \in M
              /\ rep[n] \in Nat
  <2>1. ASSUME rep[n] # 0 PROVE n \in R /\ rep[n] \in M
    <3> HIDE DEF ms, rest, M, R
    <3> QED
      BY <1>6, <1>7, <2>1, ReplicasHaveMasters
  <2>2. rep[n] # 0 => rep[n] \in Nat
    <3> HIDE DEF rep, M, R
    <3> QED
      BY <1>8, <2>1
  <2> HIDE DEF rep
  <2> QED
    BY <2>1, <2>2
<1> HIDE DEF rep, ms, rest
<1>12. ASSUME NEW n \in 1..L
       PROVE  /\ p[n].slots = IF at(n) > 0 THEN r[at(n)] ELSE <<>>
              /\ p[n].replicate = rep[n]
              /\ p[n].dirty = (at(n) > 0 \/ rep[n] # 0)
              /\ p[n] \in [slots : Ranges, replicate : Nat, dirty : BOOLEAN]
              /\ p[n].slots # <<>> <=> at(n) > 0
  <2>1. p[n] = [slots |-> IF at(n) > 0 THEN r[at(n)] ELSE <<>>,
                replicate |-> rep[n],
                dirty |-> at(n) > 0 \/ rep[n] # 0]
    BY <1>2
  <2>2. p[n].slots = (IF at(n) > 0 THEN r[at(n)] ELSE <<>>) /\ p[n].replicate = rep[n]
    BY <2>1
  <2>3. p[n].dirty = (at(n) > 0 \/ rep[n] # 0)
    BY <2>1
  <2>4. (IF at(n) > 0 THEN r[at(n)] ELSE <<>>) \in Ranges
    BY <1>4, <1>9 DEF Ranges
  <2>5. p[n] \in [slots : Ranges, replicate : Nat, dirty : BOOLEAN]
    BY <1>11, <2>1, <2>4
  <2>6. p[n].slots # <<>> <=> at(n) > 0
    BY <1>4, <1>9, <2>2
  <2> QED
    BY <2>2, <2>3, <2>5, <2>6
<1>13. masters = M
  <2>1. \A n \in 1..L : n \in masters <=> n \in M
    BY <1>9, <1>12, Zenon
  <2> HIDE DEF M, masters
  <2>2. \A n \in M : n \in 1..L
    BY <1>8
  <2>3. \A n \in masters : n \in 1..L
    BY DEF masters
  <2> QED
    BY <2>1, <2>2, <2>3
<1>14. p \in [1..L -> [slots : Ranges, replicate : Nat, dirty : BOOLEAN]]
  BY <1>3, <1>12
<1>15. ASSUME NEW n \in 1..L PROVE p[n].dirty \/ (p[n].slots = <<>> /\ p[n].replicate = 0)
  BY <1>12
<1>16. ASSUME NEW n \in 1..L, p[n].replicate # 0
       PROVE  n \notin masters /\ p[n].replicate \in masters
  <2>1. n \in R /\ p[n].replicate \in M
    BY <1>11, <1>12, <1>16
  <2> HIDE DEF masters, M, R
  <2> QED
    BY <1>8, <1>13, <2>1
<1>17. ASSUME NEW m \in masters
       PROVE  /\ m \in 1..L /\ at(m) \in 1..count /\ p[m].slots = r[at(m)] /\ f[at(m)] = m
              /\ p[m].slots[1] \in Nat /\ p[m].slots[2] \in Nat
  <2>1. m \in 1..L /\ at(m) > 0
    BY <1>12
  <2>2. at(m) \in 1..count /\ p[m].slots = r[at(m)] /\ f[at(m)] = m
    BY <1>9, <1>12, <2>1
  <2>3. r[at(m)] \in Nat \X Nat
    BY <1>4, <2>2
  <2> QED
    BY <2>1, <2>2, <2>3
<1>18. ASSUME NEW m \in masters
       PROVE  /\ 0 <= p[m].slots[1] /\ p[m].slots[1] <= p[m].slots[2]
              /\ p[m].slots[2] < numslots
  <2> HIDE DEF masters, at
  <2>1. at(m) \in 1..count /\ p[m].slots = r[at(m)] /\ p[m].slots[1] \in Nat
    BY <1>17
  <2>2. r[at(m)][1] <= r[at(m)][2] /\ r[at(m)][2] < numslots
    BY <1>4, <2>1
  <2> QED
    BY <2>1, <2>2
<1>19. ASSUME NEW m \in masters, NEW n \in masters, m # n
       PROVE  p[m].slots[2] < p[n].slots[1] \/ p[n].slots[2] < p[m].slots[1]
  <2> HIDE DEF masters
  <2>1. at(m) # at(n)
    BY <1>17, <1>19
  <2>2. at(m) < at(n) \/ at(n) < at(m)
    BY <1>17, <2>1
  <2>3. /\ at(m) \in 1..count /\ p[m].slots = r[at(m)]
        /\ at(n) \in 1..count /\ p[n].slots = r[at(n)]
    BY <1>17
  <2>4. /\ at(m) < at(n) => r[at(m)][2] < r[at(n)][1]
        /\ at(n) < at(m) => r[at(n)][2] < r[at(m)][1]
    BY <1>4, <2>3, Zenon
  <2> QED
    BY <2>2, <2>3, <2>4
<1>20. ASSUME NEW i \in 1..count PROVE f[i] \in masters /\ p[f[i]].slots = r[i]
  <2>1. f[i] \in M /\ f[i] \in 1..L /\ at(f[i]) = i /\ i > 0
    BY <1>10
  <2>2. p[f[i]].slots = r[i]
    BY <1>12, <2>1
  <2> QED
    BY <1>13, <2>1, <2>2
<1>21. \E m \in masters : p[m].slots[1] = 0
  <2>1. 1 \in 1..count
    OBVIOUS
  <2>2. f[1] \in masters /\ p[f[1]].slots[1] = 0
    BY <1>4, <1>20, <2>1
  <2> QED
    BY <2>2
<1>22. ASSUME NEW m \in masters
       PROVE  \/ p[m].slots[2] = numslots - 1
              \/ \E n \in masters : p[n].slots[1] = p[m].slots[2] + 1
  <2>1. at(m) \in 1..count /\ p[m].slots = r[at(m)]
    BY <1>17
  <2>2. CASE at(m) = count
    BY <1>4, <2>1, <2>2
  <2>3. CASE at(m) # count
    <3>1. at(m) \in 1..(count - 1) /\ at(m) + 1 \in 1..count
      BY <2>1, <2>3
    <3>2. f[at(m) + 1] \in masters /\ p[f[at(m) + 1]].slots = r[at(m) + 1]
      BY <1>20, <3>1
    <3>3. r[at(m) + 1][1] = r[at(m)][2] + 1
      BY <1>4, <3>1, Zenon
    <3> HIDE DEF masters
    <3> QED
      BY <2>1, <3>2, <3>3
  <2> QED
    BY <2>2, <2>3
<1>23. Fitting(p, L, numslots)
  BY <1>14, <1>15, <1>16, <1>18, <1>19, <1>21, <1>22 DEF Fitting
<1> QED
  BY <1>23 DEF p

\* A replica that is swapped replicates a master.
LEMMA OffendingReplicate ==
    ASSUME NEW ips, Len(ips) \in Nat, NEW replicate, NEW n \in Offending(ips, replicate)
    PROVE  n \in 1..Len(ips) /\ replicate[n] # 0
<1> DEFINE others(g) == Related(g[1], g[2], ips, replicate) \ {g[2]}
<1>1. PICK g \in Groups(ips, replicate) : others(g) # {} /\ n = Min(others(g))
  BY Zenon DEF Offending
<1>2. g[2] \in 1..Len(ips)
  BY DEF Groups
<1>3. \A x \in others(g) : x \in 1..Len(ips) /\ x \in Nat /\ x # g[2] /\ replicate[x] = g[2]
  BY DEF Related
<1> HIDE DEF others
<1>4. others(g) \in SUBSET Nat
  BY <1>3
<1>5. n \in others(g)
  BY <1>1, <1>4, MinIsLeast
<1>6. g[2] # 0
  BY <1>2
<1> QED
  BY <1>3, <1>5, <1>6

\* The first node that holds e is left out, every other stays.
LEMMA OthersStay ==
    ASSUME NEW S, NEW s \in Seq(S), NEW e
    PROVE  /\ Without(s, e) \in Seq(S)
           /\ \A x \in Range(s) : x # e => x \in Range(Without(s, e))
<1>1. Len(s) \in Nat
  OBVIOUS
<1>2. CASE ~\E i \in 1..Len(s) : s[i] = e
  <2>1. PlaceIn(s, e) = 0
    <3> PICK q : q = PlaceIn(s, e)
      OBVIOUS
    <3>1. q \in 0..Len(s) /\ (q > 0 => s[q] = e)
      BY <1>1, FirstPlace
    <3> QED
      BY <1>1, <1>2, <3>1
  <2>2. SubSeq(s, 1, 0 - 1) = <<>> /\ SubSeq(s, 0 + 1, Len(s)) = s
    OBVIOUS
  <2>3. <<>> \o s = s
    OBVIOUS
  <2> QED
    BY <2>1, <2>2, <2>3, Zenon DEF Without
<1>3. CASE \E i \in 1..Len(s) : s[i] = e
  <2> DEFINE q == PlaceIn(s, e)
             a == SubSeq(s, 1, q - 1)
             b == SubSeq(s, q + 1, Len(s))
  <2>1. q \in 1..Len(s) /\ s[q] = e
    <3>1. q \in 0..Len(s) /\ (q > 0 => s[q] = e) /\ q > 0
      BY <1>1, <1>3, FirstPlace
    <3> HIDE DEF q
    <3> QED
      BY <1>1, <3>1
  <2>2. Without(s, e) = a \o b
    BY DEF Without
  <2> HIDE DEF q
  <2>3. a \in Seq(S) /\ Len(a) = q - 1 /\ \A i \in 1..(q - 1) : a[i] = s[i]
    BY <1>1, <2>1
  <2>4. b \in Seq(S) /\ Len(b) = Len(s) - q /\ \A i \in 1..(Len(s) - q) : b[i] = s[q + i]
    BY <1>1, <2>1
  <2> HIDE DEF a, b
  <2>5. /\ a \o b \in Seq(S) /\ Len(a \o b) = Len(s) - 1
        /\ \A i \in 1..(q - 1) : (a \o b)[i] = s[i]
        /\ \A i \in 1..(Len(s) - q) : (a \o b)[q - 1 + i] = s[q + i]
    <3>1. a \o b \in Seq(S) /\ Len(a \o b) = Len(s) - 1
      <4>1. a \o b \in Seq(S) /\ Len(a \o b) = Len(a) + Len(b)
        BY <2>3, <2>4
      <4> QED
        BY <1>1, <2>1, <2>3, <2>4, <4>1
    <3>2. ASSUME NEW i \in 1..(q - 1) PROVE (a \o b)[i] = s[i]
      BY <2>1, <2>3, <2>4
    <3>3. ASSUME NEW i \in 1..(Len(s) - q) PROVE (a \o b)[q - 1 + i] = s[q + i]
      <4>1. q - 1 + i \in (Len(a) + 1)..(Len(a) + Len(b)) /\ q - 1 + i - Len(a) = i
        BY <1>1, <2>1, <2>3, <2>4
      <4>2. (a \o b)[q - 1 + i] = b[i]
        BY <2>3, <2>4, <4>1
      <4> QED
        BY <2>4, <4>2
    <3> QED
      BY <3>1, <3>2, <3>3, Zenon
  <2> PICK t : t = a \o b
    BY Zenon
  <2>6. ASSUME NEW x \in Range(s), x # e PROVE x \in Range(t)
    <3>0. /\ t \in Seq(S) /\ Len(t) = Len(s) - 1
          /\ \A i \in 1..(q - 1) : t[i] = s[i]
          /\ \A i \in 1..(Len(s) - q) : t[q - 1 + i] = s[q + i]
      BY <2>5, Zenon
    <3>1. PICK i \in 1..Len(s) : s[i] = x
      BY DEF Range
    <3>2. i # q
      BY <2>1, <2>6, <3>1
    <3>3. CASE i < q
      <4>1. i \in 1..(q - 1) /\ i \in 1..(Len(s) - 1)
        BY <1>1, <2>1, <3>1, <3>3
      <4>2. t[i] = x
        BY <3>0, <3>1, <4>1
      <4>3. i \in DOMAIN t
        BY <3>0, <4>1
      <4> QED
        BY <4>2, <4>3 DEF Range
    <3>4. CASE i > q
      <4>1. i - q \in 1..(Len(s) - q) /\ q - 1 + (i - q) = i - 1 /\ q + (i - q) = i
            /\ i - 1 \in 1..(Len(s) - 1)
        BY <1>1, <2>1, <3>1, <3>4
      <4> PICK j : j = i - 1
        OBVIOUS
      <4>2. t[j] = x
        BY <3>0, <3>1, <4>1, Zenon
      <4>3. j \in DOMAIN t
        BY <3>0, <4>1
      <4> QED
        BY <4>2, <4>3 DEF Range
    <3> QED
      BY <1>1, <2>1, <3>1, <3>2, <3>3, <3>4
  <2> QED
    BY <2>2, <2>5, <2>6
<1> QED
  BY <1>2, <1>3

-----------------------------------------------------------------------------
LEMMA CheckAndPlanKeeps ==
    ASSUME IInv, CheckAndPlan
    PROVE  IInv'
<1> USE DEF IInv
<1>1. pc = "create" /\ cmd.name = "create" /\ nodes = <<>> /\ todo = <<>>
  BY DEF CheckAndPlan, At, StepInv, AddSteps, DelSteps, TypeInv, CreateInv, NodesInv, Loops
<1>2. UNCHANGED <<layout, slots, role, epoch, knows, banned, cmd, lost>> /\ Node' = Node
  BY DEF CheckAndPlan, cluster, Node
<1>3. \A n \in Node : n \in knows[n]
  BY <1>1 DEF CreateInv, NodesInv
<1>4. AddInv' /\ DelInv'
  BY <1>1, <1>2, CreateLeavesMembers
<1> DEFINE ips == SubSeq(layout.ips, 1, Len(layout.ips) - layout.spare)
           L == Len(ips)
           count == L \div (layout.replicas + 1)
           p == InitialPlan(ips, count, layout.replicas, NumSlots)
           busy == \E n \in 1..L : knows[n] # {n}
<1>7. /\ Listed = ips /\ MastersCount = count
      /\ NewPlan = [n \in Node |-> IF n > L THEN Fresh ELSE p[n]]
  BY Zenon DEF NewPlan, MastersCount, Listed
<1>8. \/ /\ nodes' = nodes /\ plan' = plan /\ pc' = "done" /\ todo' = <<>>
         /\ success' = FALSE
      \/ /\ ~(count < 3) /\ ~busy
         /\ nodes' = [n \in 1..L |-> n] /\ plan' = NewPlan
         /\ pc' = "optimize" /\ todo' = <<>>
  BY <1>7, Zenon DEF CheckAndPlan, Fail
<1>5. CASE /\ nodes' = nodes /\ plan' = plan /\ pc' = "done" /\ todo' = <<>>
           /\ success' = FALSE
  <2>1. nodes' = nodes /\ plan' = plan /\ pc' = "done" /\ todo' = <<>> /\ success' = FALSE
    BY <1>5
  <2>2. TypeInv'
    BY <1>2, <2>1 DEF TypeInv
  <2>3. StepInv'
    BY <1>1, <1>2, <2>1 DEF StepInv, CreateSteps, Loops
  <2>4. CreateInv'
    <3>1. NodesInv'
      BY ONLY <1>1, <1>2, <1>3, <2>1 DEF NodesInv, Planned
    <3> QED
      BY ONLY <1>1, <1>2, <1>3, <2>1, <3>1 DEF CreateInv
  <2>5. KeptInv'
    BY <1>2, <2>1, KeptStays
  <2> QED
    BY <1>4, <2>2, <2>3, <2>4, <2>5
<1>6. CASE /\ ~(count < 3) /\ ~busy
           /\ nodes' = [n \in 1..L |-> n] /\ plan' = NewPlan
           /\ pc' = "optimize" /\ todo' = <<>>
  <2>1. /\ nodes' = [n \in 1..L |-> n]
        /\ plan' = [n \in Node |-> IF n > L THEN Fresh ELSE p[n]]
        /\ pc' = "optimize" /\ todo' = <<>>
    BY <1>6, <1>7, Zenon
  <2>2. /\ layout.ips \in Seq(Nat) /\ Len(layout.ips) \in Nat /\ layout.replicas \in Nat
        /\ layout.spare \in 0..Len(layout.ips) /\ NumSlots \in Nat
        /\ \A m \in 1..Len(layout.ips) : CloseEnough(m, NumSlots)
    BY NodesAssumption DEF TypeInv
  <2>3. Node = 1..Len(layout.ips)
    BY NodeFacts
  <2>4. L = Len(layout.ips) - layout.spare
    BY <2>2
  <2>5. L \in Nat /\ L <= Len(layout.ips)
    BY <2>2, <2>4
  <2> HIDE DEF ips
  <2>6. count \in Nat /\ count <= L
    <3>1. L \in Nat /\ layout.replicas + 1 \in Nat \ {0} /\ layout.replicas + 1 >= 1
      BY <2>2, <2>5
    <3> HIDE DEF L
    <3> DEFINE k == layout.replicas + 1
    <3>2. k \in Nat \ {0} /\ count = L \div k
      BY <3>1
    <3> HIDE DEF k, count
    <3> QED
      BY <3>1, <3>2, QuotientSmaller
  <2> HIDE DEF count, L
  <2>7. count \in Nat \ {0} /\ CloseEnough(count, NumSlots) /\ 1 < L
    <3>1. count \in 1..Len(layout.ips) /\ 1 < L
      BY <1>6, <2>2, <2>5, <2>6
    <3> QED
      BY <2>2, <2>6, <3>1
  <2>8. L = Len(ips)
    BY DEF L
  <2> DEFINE masters == {n \in 1..L : p[n].slots # <<>>}
  <2>9. Fitting(p, L, NumSlots)
    BY <2>2, <2>5, <2>6, <2>7, <2>8, InitialPlanFits
  <2> HIDE DEF p
  <2>10. nodes' \in Seq(Node) /\ Len(nodes') = L /\ Range(nodes') = 1..L /\ nodes' # <<>>
    <3>1. 1..L \subseteq Node
      BY <2>3, <2>5, <2>2
    <3>2. nodes' \in Seq(Node) /\ Len(nodes') = L
      BY <2>1, <2>5, <3>1
    <3>3. Range(nodes') = 1..L
      BY <2>1 DEF Range
    <3>4. nodes' # <<>>
      <4>1. Len(<<>>) = 0
        OBVIOUS
      <4> QED
        BY <2>5, <2>7, <3>2, <4>1
    <3> QED
      BY <3>2, <3>3, <3>4
  <2>11. \A n \in 1..L : n \in Node /\ plan'[n] = p[n]
    <3>1. \A n \in 1..L : n \in Node /\ ~(n > L)
      BY <2>2, <2>3, <2>5
    <3> QED
      BY <2>1, <3>1
  <2>12. plan' \in [Node -> [slots : Ranges, replicate : Nat, dirty : BOOLEAN]]
    <3>1. Fresh \in [slots : Ranges, replicate : Nat, dirty : BOOLEAN]
      BY DEF Fresh, Ranges
    <3>2. \A n \in Node : ~(n > L) => n \in 1..L
      BY <2>2, <2>3, <2>5
    <3> QED
      BY <2>1, <2>9, <3>1, <3>2 DEF Fitting
  <2>13. TypeInv'
    <3>1. todo' \in Seq(Node)
      BY <2>1
    <3> QED
      BY <1>2, <2>10, <2>12, <3>1, Zenon DEF TypeInv
  <2>14. StepInv'
    BY <1>1, <1>2, <2>1 DEF StepInv, CreateSteps, Loops
  <2>15. Masters' = masters
    <3>1. Masters' = {n \in Range(nodes') : plan'[n].slots # <<>>}
      BY DEF Masters
    <3> QED
      BY <2>10, <2>11, <3>1
  <2>16. SlotsDivided'
    <3>1. \A m \in masters : m \in 1..L /\ plan'[m].slots = p[m].slots
      BY <2>11
    <3>2. /\ \A m \in masters : /\ 0 <= p[m].slots[1] /\ p[m].slots[1] <= p[m].slots[2]
                                /\ p[m].slots[2] < NumSlots
          /\ \A m, n \in masters : m # n => \/ p[m].slots[2] < p[n].slots[1]
                                            \/ p[n].slots[2] < p[m].slots[1]
          /\ \E m \in masters : p[m].slots[1] = 0
          /\ \A m \in masters : \/ p[m].slots[2] = NumSlots - 1
                                \/ \E n \in masters : p[n].slots[1] = p[m].slots[2] + 1
      BY <2>9 DEF Fitting
    <3> HIDE DEF masters
    <3> QED
      BY <2>15, <3>1, <3>2 DEF SlotsDivided
  <2>17. ReplicasFit'
    <3>1. \A n \in 1..L : p[n].replicate # 0
                           => n \notin masters /\ p[n].replicate \in masters
      BY <2>9 DEF Fitting
    <3> HIDE DEF masters
    <3> QED
      BY <2>10, <2>11, <2>15, <3>1 DEF ReplicasFit
  <2>18. \A n \in Range(nodes') : Untold(n)'
    <3>1. \A n \in 1..L : p[n].dirty \/ (p[n].slots = <<>> /\ p[n].replicate = 0)
      BY <2>9, Zenon DEF Fitting
    <3> QED
      BY <2>10, <2>11, <3>1, Zenon DEF Untold
  <2>19. NodesInv'
    BY ONLY <1>2, <1>3, <2>1, <2>5, <2>7, <2>10, <2>16, <2>17, Zenon DEF NodesInv, Planned
  <2>20. CreateInv'
    <3>1. \A n \in Range(nodes') : knows[n] = {n} /\ role[n] = 0
      <4>1. \A n \in 1..L : knows[n] = {n}
        BY <1>6, Zenon
      <4>2. \A n \in Node : role[n] = 0 \/ \E m \in knows[n] : m # n
        BY <1>1, Zenon DEF KeptInv
      <4> QED
        BY <2>10, <2>11, <4>1, <4>2
    <3> QED
      BY ONLY <1>2, <2>1, <2>18, <2>19, <3>1 DEF CreateInv
  <2>21. KeptInv'
    <3>1. NewPlan' = NewPlan
      BY <1>2, SamePlan
    <3> QED
      BY <1>1, <1>2, <1>6, <3>1, Zenon DEF KeptInv
  <2> QED
    BY <1>4, <2>13, <2>14, <2>20, <2>21
<1> QED
  BY <1>5, <1>6, <1>8, Zenon

LEMMA OptimizeAntiAffinityKeeps ==
    ASSUME IInv, OptimizeAntiAffinity
    PROVE  IInv'
<1> USE DEF IInv
<1>1. pc = "optimize" /\ cmd.name = "create"
  BY DEF OptimizeAntiAffinity, At, StepInv, AddSteps, DelSteps, TypeInv
<1>2. UNCHANGED <<layout, slots, role, epoch, knows, banned, nodes, pc, todo, cmd, success, lost>>
  BY DEF OptimizeAntiAffinity, cluster
<1>3. Node' = Node /\ Visited' = Visited
  BY <1>2 DEF Node, Visited
<1>4. AddInv' /\ DelInv'
  BY <1>1, <1>2, CreateLeavesMembers
<1>5. /\ nodes # <<>> /\ 1 < Len(nodes) /\ Len(nodes) <= Len(layout.ips)
      /\ nodes = [n \in 1..Len(nodes) |-> n]
  BY <1>1 DEF CreateInv, NodesInv, Planned
<1>6. /\ Range(nodes) = 1..Len(nodes) /\ Len(nodes) \in Nat \ {0}
      /\ Range(nodes) \subseteq Node /\ SlotsDivided /\ ReplicasFit
  BY <1>1, <1>5, NodesAreNumbers
<1>7. Len(Ips) = Len(nodes)
  <2>1. layout.ips \in Seq(Nat)
    BY NodeFacts
  <2> QED
    BY <1>5, <1>6, <2>1 DEF Ips
<1>8. PICK first \in Offending(Ips, Replicate) :
        \E second \in {n \in 1..Len(nodes) : Replicate[n] # 0} \ {first} : Swap(first, second)
  BY DEF OptimizeAntiAffinity
<1>9. PICK second \in {n \in 1..Len(nodes) : Replicate[n] # 0} \ {first} : Swap(first, second)
  BY <1>8
<1>10. first \in 1..Len(nodes) /\ Replicate[first] # 0
  <2>1. Len(Ips) \in Nat
    BY <1>6, <1>7
  <2> QED
    BY <1>7, <1>8, <2>1, OffendingReplicate
<1>11. second \in 1..Len(nodes) /\ Replicate[second] # 0
  BY <1>9
<1>12. \A n \in 1..Len(nodes) : Replicate[n] = plan[n].replicate
  BY DEF Replicate
<1> DEFINE swapped == [Replicate EXCEPT ![first] = Replicate[second],
                                        ![second] = Replicate[first]]
           after == IF AntiAffinityScore(Ips, swapped) > Score THEN Replicate ELSE swapped
<1>13. plan' = [n \in Node |->
                  IF n \in {first, second}
                  THEN [plan[n] EXCEPT !.replicate = after[n], !.dirty = TRUE]
                  ELSE plan[n]]
  BY <1>9, Zenon DEF Swap
<1>14. /\ after[first] \in {plan[first].replicate, plan[second].replicate}
       /\ after[second] \in {plan[first].replicate, plan[second].replicate}
  <2>1. Replicate = [n \in 1..Len(nodes) |-> plan[n].replicate]
    BY DEF Replicate
  <2>2. /\ swapped[first] \in {Replicate[first], Replicate[second]}
        /\ swapped[second] \in {Replicate[first], Replicate[second]}
    BY <1>10, <1>11, <2>1
  <2> HIDE DEF swapped
  <2> QED
    BY <1>10, <1>11, <1>12, <2>2
<1> HIDE DEF after
<1>15. plan \in [Node -> [slots : Ranges, replicate : Nat, dirty : BOOLEAN]]
  BY DEF TypeInv
<1>16. /\ first \in Node /\ second \in Node
       /\ plan[first].replicate \in Nat /\ plan[second].replicate \in Nat
       /\ plan[first].replicate # 0 /\ plan[second].replicate # 0
  BY <1>6, <1>10, <1>11, <1>12, <1>15
<1>17. ASSUME NEW n \in {first, second}
       PROVE  /\ n \in Node
              /\ plan'[n] = [plan[n] EXCEPT !.replicate = after[n], !.dirty = TRUE]
              /\ plan'[n] \in [slots : Ranges, replicate : Nat, dirty : BOOLEAN]
              /\ plan'[n].slots = plan[n].slots /\ plan'[n].dirty = TRUE
              /\ plan'[n].replicate \in {plan[first].replicate, plan[second].replicate}
  <2>1. n \in Node /\ plan[n] \in [slots : Ranges, replicate : Nat, dirty : BOOLEAN]
    BY <1>15, <1>16
  <2>2. after[n] \in {plan[first].replicate, plan[second].replicate} /\ after[n] \in Nat
    BY <1>14, <1>16
  <2>3. plan'[n] = [plan[n] EXCEPT !.replicate = after[n], !.dirty = TRUE]
    BY <1>13, <2>1, Zenon
  <2>4. /\ plan'[n].slots = plan[n].slots /\ plan'[n].dirty = TRUE
        /\ plan'[n].replicate = after[n]
        /\ plan'[n] \in [slots : Ranges, replicate : Nat, dirty : BOOLEAN]
    BY ONLY <2>1, <2>2, <2>3, Zenon
  <2> QED
    BY <2>1, <2>2, <2>3, <2>4
<1>18. \A n \in Node : n \notin {first, second} => plan'[n] = plan[n]
  BY <1>13, Zenon
<1>19. plan' \in [Node -> [slots : Ranges, replicate : Nat, dirty : BOOLEAN]]
  <2>1. plan' = [n \in Node |-> plan'[n]]
    BY <1>13, Zenon
  <2>2. \A n \in Node : plan'[n] \in [slots : Ranges, replicate : Nat, dirty : BOOLEAN]
    BY <1>15, <1>17, <1>18
  <2> QED
    BY <2>1, <2>2
<1>29. \A n \in Node : plan'[n].slots = plan[n].slots
  BY <1>17, <1>18
<1>20. \A n \in Range(nodes) : plan'[n].slots = plan[n].slots
  BY <1>6, <1>29
<1>21. Masters' = Masters /\ Masters \subseteq Range(nodes)
  BY <1>2, <1>20 DEF Masters
<1>22. SlotsDivided'
  BY ONLY <1>2, <1>6, <1>20, <1>21, Zenon DEF SlotsDivided
<1>23. ReplicasFit'
  <2>1. SUFFICES ASSUME NEW n \in Range(nodes), plan'[n].replicate # 0
                 PROVE  n \notin Masters /\ plan'[n].replicate \in Masters
    BY <1>2, <1>21 DEF ReplicasFit
  <2>2. \A k \in Range(nodes) : plan[k].replicate # 0
                                => k \notin Masters /\ plan[k].replicate \in Masters
    BY <1>6 DEF ReplicasFit
  <2>3. first \in Range(nodes) /\ second \in Range(nodes)
    BY <1>6, <1>10, <1>11
  <2>4. CASE n \in {first, second}
    BY <1>16, <1>17, <2>2, <2>3, <2>4
  <2>5. CASE n \notin {first, second}
    BY <1>6, <1>18, <2>1, <2>2, <2>5
  <2> QED
    BY <2>4, <2>5
<1>24. \A n \in Range(nodes) : Untold(n)'
  <2>1. SUFFICES ASSUME NEW n \in Range(nodes) PROVE Untold(n)'
    OBVIOUS
  <2>2. Untold(n)
    BY <1>1 DEF CreateInv
  <2>3. n \in Node
    BY <1>6
  <2> QED
    BY <1>2, <1>17, <1>18, <2>2, <2>3, Zenon DEF Untold
<1>25. TypeInv'
  BY <1>2, <1>3, <1>19, Zenon DEF TypeInv
<1>26. StepInv'
  BY <1>2, <1>3 DEF StepInv
<1>27. NodesInv'
  <2>1. NodesInv
    BY <1>1 DEF CreateInv
  <2> QED
    BY ONLY <1>1, <1>2, <1>3, <1>5, <1>22, <1>23, <2>1 DEF NodesInv, Planned
<1>28. CreateInv'
  <2>1. \A n \in Range(nodes) : knows[n] = {n} /\ role[n] = 0
    BY <1>1 DEF CreateInv
  <2> QED
    BY ONLY <1>1, <1>2, <1>3, <1>24, <1>27, <2>1 DEF CreateInv
<1>30. KeptInv'
  BY <1>2, <1>29, KeptStays
<1> QED
  BY <1>4, <1>25, <1>26, <1>28, <1>30

\* What a command on the members starts with.
LEMMA StartDoes ==
    ASSUME IInv, NEW ref \in Node, NEW c, Start(c, ref)
    PROVE  /\ UNCHANGED <<layout, slots, role, epoch, knows, banned, todo>>
           /\ cmd' = c /\ todo' = <<>> /\ ref # c.node
           /\ nodes' \in Seq(Node) /\ nodes' # <<>> /\ nodes'[1] = ref
           /\ plan' \in [Node -> [slots : Ranges, replicate : Nat, dirty : BOOLEAN]]
<1>1. UNCHANGED <<layout, slots, role, epoch, knows, banned, todo>> /\ cmd' = c /\ ref # c.node
  BY DEF Start, cluster
<1>2. todo = <<>>
  BY DEF Start, At, IInv, StepInv, Loops
<1>7. PICK down \in SUBSET (knows[ref] \ {ref}) :
        \E friends \in Orders(knows[ref] \ ({ref} \cup down)) : nodes' = <<ref>> \o friends
  BY Zenon DEF Start, LoadInfoFrom
<1>3. PICK friends \in Orders(knows[ref] \ ({ref} \cup down)) : nodes' = <<ref>> \o friends
  BY <1>7
<1>4. friends \in Seq(Node)
  <2> DEFINE F == knows[ref] \ ({ref} \cup down)
  <2>1. F \subseteq Node
    BY DEF IInv, TypeInv
  <2>2. IsFiniteSet(Node)
    <3>1. Node = 1..Len(layout.ips) /\ Len(layout.ips) \in Int /\ 1 \in Int
      BY NodeFacts DEF IInv
    <3>2. IsFiniteSet(1..Len(layout.ips))
      BY ONLY <3>1, FS_Interval
    <3> QED
      BY <3>1, <3>2
  <2> HIDE DEF F
  <2>3. Cardinality(F) \in Nat
    <3>1. IsFiniteSet(F)
      BY <2>1, <2>2, FS_Subset
    <3> QED
      BY <3>1, FS_CardinalityType
  <2>4. friends \in [1..Cardinality(F) -> F]
    BY <1>3, Zenon DEF F, Orders, Injection
  <2> QED
    BY <2>1, <2>3, <2>4
<1>5. nodes' \in Seq(Node) /\ nodes' # <<>> /\ nodes'[1] = ref
  <2>1. nodes' \in Seq(Node) /\ Len(nodes') = 1 + Len(friends) /\ nodes'[1] = ref
    BY <1>3, <1>4
  <2>2. Len(nodes') # 0 /\ Len(<<>>) = 0
    BY <1>4, <2>1
  <2> QED
    BY <2>1, <2>2
<1>6. plan' \in [Node -> [slots : Ranges, replicate : Nat, dirty : BOOLEAN]]
  <2>1. plan' = [n \in Node |-> [slots |-> slots[n], replicate |-> role[n], dirty |-> FALSE]]
    BY Zenon DEF Start, LoadInfoFrom
  <2>2. slots \in [Node -> Ranges] /\ role \in [Node -> Nat]
    BY DEF IInv, TypeInv
  <2> QED
    BY <2>1, <2>2
<1> QED
  BY <1>1, <1>2, <1>5, <1>6

LEMMA StartAddKeeps ==
    ASSUME IInv, StartAdd
    PROVE  IInv'
<1>1. PICK ref \in Node, slave \in BOOLEAN :
        /\ Spare # {}
        /\ Start([name |-> "add", node |-> Min(Spare), slave |-> slave, master |-> 0], ref)
        /\ pc' = "check"
  BY DEF StartAdd
<1> PICK d : d = Min(Spare)
  OBVIOUS
<1>2. d \in Node
  <2>1. Spare \subseteq Node
    BY DEF Spare
  <2>2. Spare \in SUBSET Nat
    BY <2>1, NodeFacts DEF IInv
  <2>3. Min(Spare) \in Spare
    BY <1>1, <2>2, MinIsLeast
  <2> QED
    BY <2>1, <2>3
<1> PICK c : c = [name |-> "add", node |-> d, slave |-> slave, master |-> 0]
  BY Zenon
<1>3. /\ UNCHANGED <<layout, slots, role, epoch, knows, banned>>
      /\ cmd' = c /\ todo' = <<>> /\ ref # c.node
      /\ nodes' \in Seq(Node) /\ nodes' # <<>> /\ nodes'[1] = ref
      /\ plan' \in [Node -> [slots : Ranges, replicate : Nat, dirty : BOOLEAN]]
  BY <1>1, StartDoes
<1>4. Node' = Node /\ pc' = "check"
  BY <1>1, <1>3 DEF Node
<1>5. cmd'.name = "add" /\ cmd'.node = d
  BY <1>3
<1>6. TypeInv'
  <2>1. todo' \in Seq(Node)
    BY <1>3
  <2>2. cmd' \in [name : {"create", "add", "del"}, node : Node \cup {0}, slave : BOOLEAN,
                  master : {cmd'.master}]
    BY <1>1, <1>2, <1>3
  <2> QED
    BY <1>3, <1>4, <2>1, <2>2, Zenon DEF IInv, TypeInv
<1>7. StepInv'
  BY <1>2, <1>3, <1>4, <1>5 DEF StepInv, AddSteps, Loops
<1>8. AddInv' /\ DelInv' /\ CreateInv' /\ KeptInv'
  BY <1>4, <1>5, Zenon DEF AddInv, DelInv, CreateInv, KeptInv
<1> QED
  BY <1>6, <1>7, <1>8 DEF IInv

LEMMA StartDelKeeps ==
    ASSUME IInv, StartDel
    PROVE  IInv'
<1>1. PICK d \in Joined, ref \in Node :
        /\ Start([name |-> "del", node |-> d, slave |-> FALSE, master |-> 0], ref)
        /\ pc' = "forget" \/ (pc' = "done" /\ ~success')
  BY Zenon DEF StartDel
<1>2. d \in Node
  BY <1>1 DEF Joined
<1> PICK c : c = [name |-> "del", node |-> d, slave |-> FALSE, master |-> 0]
  BY Zenon
<1>3. /\ UNCHANGED <<layout, slots, role, epoch, knows, banned>>
      /\ cmd' = c /\ todo' = <<>> /\ ref # c.node
      /\ nodes' \in Seq(Node) /\ nodes' # <<>> /\ nodes'[1] = ref
      /\ plan' \in [Node -> [slots : Ranges, replicate : Nat, dirty : BOOLEAN]]
  BY <1>1, StartDoes
<1>4. Node' = Node /\ (pc' = "forget" \/ (pc' = "done" /\ ~success'))
  BY <1>1, <1>3 DEF Node
<1>5. cmd'.name = "del" /\ cmd'.node = d
  BY <1>3
<1>6. TypeInv'
  <2>1. todo' \in Seq(Node)
    BY <1>3
  <2>2. cmd' \in [name : {"create", "add", "del"}, node : Node \cup {0}, slave : BOOLEAN,
                  master : {cmd'.master}]
    BY <1>1, <1>2, <1>3
  <2> QED
    BY <1>3, <1>4, <2>1, <2>2, Zenon DEF IInv, TypeInv
<1>7. StepInv'
  BY <1>2, <1>3, <1>4, <1>5 DEF StepInv, DelSteps, Loops
<1>8. AddInv' /\ DelInv' /\ CreateInv' /\ KeptInv'
  BY <1>3, <1>4, <1>5, Zenon DEF AddInv, DelInv, CreateInv, KeptInv
<1> QED
  BY <1>6, <1>7, <1>8 DEF IInv

LEMMA VisitNodesKeeps ==
    ASSUME IInv, VisitNodes
    PROVE  IInv'
<1> USE DEF IInv
<1>1. pc = "forget" /\ cmd.name = "del"
  BY DEF VisitNodes, At, StepInv, CreateSteps, AddSteps, TypeInv
<1>2. UNCHANGED <<layout, slots, role, epoch, knows, banned, nodes, plan, cmd, success>>
  BY DEF VisitNodes, cluster
<1>3. Node' = Node
  BY <1>2 DEF Node
<1>4. cmd.node \in Node /\ nodes \in Seq(Node) /\ nodes # <<>> /\ nodes[1] # cmd.node
  BY <1>1 DEF StepInv, TypeInv
<1>5. TypeInv
  OBVIOUS
<1>6. todo' = Without(nodes, cmd.node) /\ pc' \in {"reassign", "forget"}
  BY DEF VisitNodes
<1>7. todo' \in Seq(Node) /\ \A x \in Range(nodes) : x # cmd.node => x \in Range(todo')
  BY <1>4, <1>6, OthersStay
<1>8. todo' # <<>>
  <2>1. nodes[1] \in Range(todo')
    BY <1>4, <1>7, Elements
  <2>2. Range(<<>>) = {}
    BY DEF Range
  <2> QED
    BY <2>1, <2>2
<1>9. TypeInv'
  BY ONLY <1>2, <1>3, <1>5, <1>7 DEF TypeInv
<1>10. StepInv'
  BY ONLY <1>1, <1>2, <1>3, <1>4, <1>6, <1>8 DEF StepInv, DelSteps, Loops
<1>11. DelInv'
  <2>1. Range(nodes) \ ({cmd.node} \cup Range(todo')) = {}
    BY <1>7
  <2> QED
    BY ONLY <1>2, <1>6, <2>1 DEF DelInv
<1>12. AddInv' /\ CreateInv' /\ KeptInv'
  BY <1>1, <1>2, Zenon DEF AddInv, CreateInv, KeptInv
<1> QED
  BY <1>9, <1>10, <1>11, <1>12

\* A step that changes nothing.
LEMMA StutteringKeeps ==
    ASSUME IInv, UNCHANGED vars
    PROVE  IInv'
<1>1. UNCHANGED <<layout, slots, role, epoch, knows, banned, nodes, plan, pc, todo, cmd,
                  success, lost>>
  BY DEF vars, cluster
<1>2. TypeInv' /\ StepInv' /\ AddInv' /\ DelInv'
  BY <1>1, Zenon DEF IInv, TypeInv, StepInv, AddInv, DelInv, Forgot, Node
<1>3. NodesInv = NodesInv'
  <2>1. Masters' = Masters /\ Planned' = Planned /\ Visited' = Visited /\ Node' = Node
    BY <1>1, Zenon DEF Masters, Planned, Visited, Node
  <2>2. SlotsDivided' = SlotsDivided /\ ReplicasFit' = ReplicasFit
    BY <1>1, <2>1, Zenon DEF SlotsDivided, ReplicasFit
  <2> QED
    BY <1>1, <2>1, <2>2, Zenon DEF NodesInv
<1>4. \A n : /\ Untold(n) = Untold(n)' /\ Told(n) = Told(n)' /\ Numbered(n) = Numbered(n)'
             /\ Settled(n) = Settled(n)' /\ Follows(n) = Follows(n)'
  BY <1>1, Zenon DEF Untold, Told, Numbered, Settled, Follows, Masters
<1>5. CreateInv'
  BY <1>1, <1>3, <1>4, Zenon DEF IInv, CreateInv, Visited, Node
<1>6. KeptInv'
  BY <1>1, KeptStays DEF IInv
<1> QED
  BY <1>2, <1>5, <1>6 DEF IInv

LEMMA NextKeeps ==
    ASSUME IInv, [Next]_vars
    PROVE  IInv'
<1>1. CASE Manager
  BY <1>1, FlushKeeps, SetConfigEpochKeeps, MeetKeeps, WaitForClusterJoinKeeps,
     FlushReplicasKeeps, LoadAgainKeeps, CheckAndChooseKeeps, AddNodeKeeps,
     ReplicateMasterKeeps, VisitNodesKeeps, ReassignKeeps, ForgetKeeps, ResetKeeps
     DEF Manager
<1>2. CASE Next /\ ~Manager
  BY <1>2, CheckAndPlanKeeps, RefusedKeeps, OptimizeAntiAffinityKeeps, ConfirmKeeps,
     LoseLinkKeeps, InterruptKeeps, CreateAgainKeeps, StartAddKeeps, StartDelKeeps, GossipKeeps DEF Next
<1> QED
  BY <1>1, <1>2, StutteringKeeps

\* What is known of the cluster between any two steps of redis-cli --cluster create,
\* add-node and del-node, for every number of nodes, hosts, replicas and slots, and
\* whichever links fail.
THEOREM Inductive == Spec => []IInv
<1>1. Init => IInv
  BY InitHolds
<1>2. IInv /\ [Next]_vars => IInv'
  BY NextKeeps
<1> QED
  BY <1>1, <1>2, PTL DEF Spec

-----------------------------------------------------------------------------
(* What the commands have done when they return.                           *)

\* The plan a create shows its user, and keeps while it is optimized and carried out:
\* the masters' slot ranges divide the slots, none is empty, and who replicates a node
\* serves no slots itself and replicates a master (clusterManagerCommandCreate,
\* clusterManagerOptimizeAntiAffinity).
THEOREM PlanDividesSlots == Spec => [](Planned => SlotsDivided /\ ReplicasFit)
<1>1. IInv => (Planned => SlotsDivided /\ ReplicasFit)
  BY Zenon DEF IInv, CreateInv, NodesInv, Planned
<1> QED
  BY <1>1, Inductive, PTL

\* A create that has returned success, the first time or after others that failed or
\* were interrupted between any two commands, has given every master its slots, every node a
\* configuration epoch of its own, made every master known to every node, and every
\* replica whose link did not fail follows its master, whatever failed on the way
\* (clusterManagerCommandCreate, clusterManagerFlushNodeConfig,
\* clusterManagerWaitForClusterJoin).
THEOREM CreateIsComplete == Spec => []CreateComplete
<1>1. ASSUME IInv, Planned, pc = "done", success
      PROVE  \A n \in Range(nodes) :
                /\ slots[n] = plan[n].slots
                /\ \A m \in Range(nodes) : plan[m].slots # <<>> => m \in knows[n]
                /\ \A m \in Range(nodes) \ {n} : epoch[m] # epoch[n]
                /\ role[n] = plan[n].replicate \/ n \in lost
  <2>1. \A n \in Range(nodes) : Settled(n) /\ Follows(n)
    BY <1>1, Zenon DEF IInv, CreateInv, Planned
  <2> QED
    BY <2>1, Zenon DEF Settled, Follows, Masters
<1>2. IInv => CreateComplete
  BY <1>1, Zenon DEF CreateComplete
<1> QED
  BY <1>2, Inductive, PTL

\* An add-node that has returned success leaves a node that knows the cluster and, as
\* a replica, follows the master chosen; after a del-node no node that it was told of
\* knows or follows the node removed, which is alone, although the nodes gossip on
\* all the while (clusterManagerCommandAddNode, clusterManagerCommandDeleteNode).
THEOREM MembersAreComplete == Spec => []MembersComplete
<1>1. ASSUME IInv, pc = "done", success, cmd.name = "add"
      PROVE  knows[cmd.node] # {cmd.node} /\ (cmd.slave => role[cmd.node] = cmd.master)
  BY <1>1 DEF IInv, AddInv, StepInv
<1>2. ASSUME IInv, pc = "done", success, cmd.name = "del"
      PROVE  /\ knows[cmd.node] = {cmd.node}
             /\ \A n \in Range(nodes) \ {cmd.node} :
                    cmd.node \notin knows[n] /\ role[n] # cmd.node
  BY <1>2 DEF IInv, DelInv, Forgot
<1>3. IInv => MembersComplete
  BY <1>1, <1>2 DEF MembersComplete
<1> QED
  BY <1>3, Inductive, PTL

=============================================================================
