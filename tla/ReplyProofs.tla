---------------------------- MODULE ReplyProofs ----------------------------
(***************************************************************************)
(* The buffers of replies: for any sizes of the buffers, any limits and any  *)
(* sequence of commands reply_bytes is the size of the blocks in the list,   *)
(* no placeholder outlives its command, and the hard limit closes.           *)
(***************************************************************************)
EXTENDS Reply, WellFoundedInduction, TLAPS

Marks == {"+", "-", ":", "$", "*", "_", "#", ",", "=", "%", "~", ">", "data", End.t}
Tok == [t : Marks, n : Int]

Flags == {"CLOSE_ASAP", "CLOSE_AFTER_REPLY", "REPLY_OFF", "REPLY_SKIP", "REPLY_SKIP_NEXT", "MODULE"}

BlockType == [null : BOOLEAN, size : Nat, tokens : Seq(Tok)]

ClientType ==
    [buf : Seq(Tok), list : Seq(BlockType), sentlen : Nat, reply_bytes : Nat, softtime : Nat,
     resp : {2, 3}, flags : SUBSET Flags]

LimitType == [hard : Nat, soft : Nat, seconds : Nat]

\* A placeholder is empty, and a block is not: it holds tokens and has room for them.
Sound(b) ==
    IF b.null THEN b.size = 0 /\ b.tokens = <<>>
    ELSE b.size > 0 /\ b.tokens # <<>> /\ Len(b.tokens) <= b.size

BufferInv(cl) ==
    /\ cl \in ClientType
    /\ cl.reply_bytes = Bytes(cl.list)
    /\ \A i \in 1..Len(cl.list) : Sound(cl.list[i])

\* The places of the placeholders.
Nulls(cl) == {i \in 1..Len(cl.list) : cl.list[i].null}

\* The hard limit is kept, as far as the blocks up to the m-th go.
Within(cl, m) == cl.reply_bytes + ItemSize * m < limit.hard

\* Up to placeholders at the end, cl has what old had.
SameAs(cl, old, m) ==
    m = Len(old.list) /\ cl.buf = old.buf /\ \A i \in 1..m : cl.list[i] = old.list[i]

\* While a command replies: a client that had "old" when the command began and that
\* is not being closed is within its limit, or nothing was added, but for placeholders
\* that were added since the limits were looked at the last time.
LimitInv(old, cl) ==
    \/ limit.hard = 0
    \/ {"CLOSE_ASAP", "MODULE"} \cap cl.flags # {}
    \/ \E m \in 0..Len(cl.list) :
          /\ \A i \in (m + 1)..Len(cl.list) : cl.list[i].null
          /\ Within(cl, m) \/ SameAs(cl, old, m)

\* A command that began with "old" has come to cl, and N are the placeholders.
Reached(old, cl, N) ==
    /\ BufferInv(cl)
    /\ Nulls(cl) = N
    /\ LimitInv(old, cl)
    /\ MayWrite(cl) <=> MayWrite(old)
    /\ "MODULE" \in cl.flags <=> "MODULE" \in old.flags

IInv ==
    /\ limit \in LimitType
    /\ now \in Nat /\ ncmd \in Nat
    /\ BufferInv(c)
    /\ Nulls(c) = {}
    /\ "MODULE" \notin c.flags
    /\ HardLimitCloses

-----------------------------------------------------------------------------
(* Induction.                                                              *)

LEMMA Constants ==
    /\ BufSize \in Nat /\ BufSize > 0 /\ Chunk \in Nat /\ Chunk > 0 /\ Align \in Nat /\ Align > 0
    /\ GlueMax \in Nat /\ ItemSize \in Nat
BY ReplyAssumption

\* What holds at 0 and is handed on from each number to the next holds up to n.
LEMMA Climb ==
    ASSUME NEW n \in Nat, NEW T, 0 \in T, \A i \in 1..n : i - 1 \in T => i \in T
    PROVE  \A i \in 0..n : i \in T
<1> DEFINE U == {i \in Nat : i <= n /\ i \notin T}
<1>1. SUFFICES ASSUME U # {} PROVE FALSE
  OBVIOUS
<1>2. PICK k \in U : \A j \in U : ~(<<j, k>> \in OpToRel(<, Nat))
  BY <1>1, NatLessThanWellFounded, WFMin, Zenon
<1>3. k \in Nat /\ k <= n /\ k \notin T
  BY <1>2, Zenon
<1>4. k # 0
  BY <1>3
<1>5. k - 1 \in Nat /\ k \in 1..n /\ k - 1 < k /\ k - 1 <= n
  BY <1>3, <1>4
<1>6. <<k - 1, k>> \in OpToRel(<, Nat)
  BY <1>3, <1>5 DEF OpToRel
<1>7. k - 1 \notin U
  BY <1>2, <1>6, Zenon
<1>8. k - 1 \in T
  BY <1>5, <1>7
<1> QED
  BY <1>3, <1>5, <1>8

\* A function that is given by its first value and by a step from each to the next.
IsRec(g, F, a, n, S) ==
    g \in [0..n -> S] /\ g[0] = a /\ \A i \in 1..n : g[i] = F[<<i, g[i - 1]>>]

LEMMA Recursion ==
    ASSUME NEW S, NEW a \in S, NEW n \in Nat, NEW F \in [(1..n) \X S -> S]
    PROVE  \E g : IsRec(g, F, a, n, S)
<1> DEFINE Is(g, k) == /\ g \in [0..k -> S] /\ g[0] = a
                       /\ \A i \in 1..k : g[i] = F[<<i, g[i - 1]>>]
           T == {k \in Nat : \E g : Is(g, k)}
<1>1. 0 \in T
  <2> DEFINE g == [i \in 0..0 |-> a]
  <2>1. Is(g, 0)
    OBVIOUS
  <2> QED
    BY <2>1, Zenon
<1>2. ASSUME NEW k \in 1..n, k - 1 \in T
      PROVE  k \in T
  <2>1. PICK g : Is(g, k - 1)
    BY <1>2
  <2> DEFINE h == [i \in 0..k |-> IF i = k THEN F[<<k, g[k - 1]>>] ELSE g[i]]
  <2>2. k \in Nat /\ k # 0 /\ k - 1 \in 0..(k - 1)
    OBVIOUS
  <2>3. g[k - 1] \in S
    BY <2>1, <2>2
  <2>4. F[<<k, g[k - 1]>>] \in S
    BY <2>3
  <2>5. h \in [0..k -> S]
    BY <2>1, <2>2, <2>4
  <2>6. h[0] = a
    BY <2>1, <2>2
  <2>7. ASSUME NEW i \in 1..k
        PROVE  h[i] = F[<<i, h[i - 1]>>]
    <3>1. i - 1 \in 0..k /\ i - 1 # k /\ h[i - 1] = g[i - 1]
      BY <2>2
    <3>2. CASE i = k
      BY <2>2, <3>1, <3>2
    <3>3. CASE i # k
      <4>1. i \in 1..(k - 1) /\ h[i] = g[i]
        BY <2>2, <3>3
      <4> QED
        BY <2>1, <3>1, <4>1
    <3> QED
      BY <3>2, <3>3
  <2> HIDE DEF h
  <2>8. Is(h, k)
    BY <2>5, <2>6, <2>7
  <2> QED
    BY <2>2, <2>8
<1> HIDE DEF T
<1>3. n \in T
  BY <1>1, <1>2, Climb
<1> QED
  BY <1>3, Zenon DEF T, IsRec

-----------------------------------------------------------------------------
(* The size of a list of blocks.                                           *)

LEMMA Concat ==
    ASSUME NEW S, NEW s \in Seq(S), NEW t \in Seq(S)
    PROVE  s \o t \in Seq(S) /\ Len(s \o t) = Len(s) + Len(t)
OBVIOUS

\* Every element of st is one of s or of t.
IsOf(st, s, t) ==
    \A i \in 1..Len(st) : \/ \E j \in 1..Len(s) : st[i] = s[j]
                          \/ \E j \in 1..Len(t) : st[i] = t[j]

LEMMA ConcatAt ==
    ASSUME NEW S, NEW s \in Seq(S), NEW t \in Seq(S)
    PROVE  IsOf(s \o t, s, t)
<1> DEFINE m == Len(s)
           n == Len(t)
           st == s \o t
<1>1. m \in Nat /\ n \in Nat /\ Len(st) = m + n
      /\ (\A i \in 1..m : st[i] = s[i]) /\ (\A i \in (m + 1)..(m + n) : st[i] = t[i - m])
  OBVIOUS
<1> HIDE DEF m, n, st
<1>2. ASSUME NEW i \in 1..(m + n)
      PROVE  i \in 1..m \/ (i \in (m + 1)..(m + n) /\ i - m \in 1..n)
  BY <1>1
<1>3. \A i \in 1..Len(st) : (\E j \in 1..m : st[i] = s[j]) \/ (\E j \in 1..n : st[i] = t[j])
  BY <1>1, <1>2, Zenon
<1> QED
  BY <1>3, Zenon DEF m, n, st, IsOf

LEMMA SetAt ==
    ASSUME NEW S, NEW s \in Seq(S), NEW k \in 1..Len(s), NEW x \in S
    PROVE  /\ [s EXCEPT ![k] = x] \in Seq(S) /\ Len([s EXCEPT ![k] = x]) = Len(s)
           /\ \A i \in 1..Len(s) : [s EXCEPT ![k] = x][i] = IF i = k THEN x ELSE s[i]
OBVIOUS

\* The k-th element and the one after it are replaced by x.
Joined(list, k, x) == SubSeq(list, 1, k - 1) \o <<x>> \o SubSeq(list, k + 2, Len(list))
IsJoined(joined, S, list, k, x) ==
    /\ joined \in Seq(S) /\ Len(joined) = Len(list) - 1 /\ joined[k] = x
    /\ \A i \in 1..(k - 1) : joined[i] = list[i]
    /\ \A i \in (k + 1)..(Len(list) - 1) : joined[i] = list[i + 1]

LEMMA TwoForOne ==
    ASSUME NEW S, NEW list \in Seq(S), NEW k \in 1..Len(list), k + 1 <= Len(list), NEW x \in S
    PROVE  IsJoined(Joined(list, k, x), S, list, k, x)
<1> DEFINE n == Len(list)
           s == SubSeq(list, 1, k - 1)
           t == SubSeq(list, k + 2, n)
           u == s \o <<x>>
           joined == u \o t
<1>1. n \in Nat /\ k \in Nat /\ k >= 1 /\ k < n
  OBVIOUS
<1>2. s \in Seq(S) /\ Len(s) = k - 1 /\ \A i \in 1..(k - 1) : s[i] = list[i]
  OBVIOUS
<1>3. t \in Seq(S)
  <2>1. \A i \in (k + 2)..n : list[i] \in S
    OBVIOUS
  <2> QED
    BY <1>1, <2>1
<1>4. Len(t) = n - k - 1
  BY <1>1
<1>5. \A i \in 1..(n - k - 1) : t[i] = list[i + k + 1]
  BY <1>1
<1> HIDE DEF s, t, n
<1>6. u \in Seq(S) /\ Len(u) = k /\ u[k] = x /\ \A i \in 1..(k - 1) : u[i] = s[i]
  BY <1>1, <1>2
<1> HIDE DEF u
<1>7. joined \in Seq(S) /\ Len(joined) = k + Len(t)
  BY <1>1, <1>3, <1>6
<1>8. \A i \in 1..k : joined[i] = u[i]
  BY <1>1, <1>3, <1>6
<1>9. \A i \in (k + 1)..(n - 1) : joined[i] = t[i - k]
  BY <1>1, <1>3, <1>4, <1>6
<1> HIDE DEF joined
<1>10. Len(joined) = n - 1
  BY <1>1, <1>4, <1>7
<1>11. joined[k] = x /\ \A i \in 1..(k - 1) : joined[i] = list[i]
  BY <1>1, <1>2, <1>6, <1>8
<1>12. ASSUME NEW i \in (k + 1)..(n - 1) PROVE joined[i] = list[i + 1]
  <2>1. i - k \in 1..(n - k - 1) /\ (i - k) + k + 1 = i + 1
    BY <1>1
  <2> QED
    BY <1>5, <1>9, <2>1
<1> QED
  BY <1>7, <1>10, <1>11, <1>12, Zenon DEF Joined, IsJoined, joined, u, s, t, n

LEMMA BlockFields ==
    ASSUME NEW b \in BlockType
    PROVE  b.size \in Nat /\ b.null \in BOOLEAN /\ b.tokens \in Seq(Tok) /\ Len(b.tokens) \in Nat
BY DEF BlockType

LEMMA ListFields ==
    ASSUME NEW list \in Seq(BlockType)
    PROVE  Len(list) \in Nat /\ \A i \in 1..Len(list) : list[i] \in BlockType /\ list[i].size \in Nat
<1>1. Len(list) \in Nat /\ \A i \in 1..Len(list) : list[i] \in BlockType
  OBVIOUS
<1> QED
  BY <1>1, BlockFields, Zenon

\* f sums up the sizes of the blocks.
IsSum(f, list) ==
    /\ f \in [0..Len(list) -> Nat]
    /\ f[0] = 0
    /\ \A i \in 1..Len(list) : f[i] = f[i - 1] + list[i].size

\* The same, with the types of its terms.
Sums(f, list) ==
    /\ Len(list) \in Nat /\ f \in [0..Len(list) -> Nat] /\ f[0] = 0
    /\ \A i \in 0..Len(list) : f[i] \in Nat
    /\ \A i \in 1..Len(list) : /\ i - 1 \in 0..Len(list) /\ f[i - 1] \in Nat
                               /\ list[i].size \in Nat /\ f[i] = f[i - 1] + list[i].size

LEMMA SumFields ==
    ASSUME NEW list \in Seq(BlockType), NEW f, IsSum(f, list)
    PROVE  Sums(f, list)
<1>1. Len(list) \in Nat /\ \A i \in 1..Len(list) : list[i].size \in Nat
  BY ListFields, Zenon
<1>2. f \in [0..Len(list) -> Nat] /\ f[0] = 0
      /\ \A i \in 1..Len(list) : f[i] = f[i - 1] + list[i].size
  BY Zenon DEF IsSum
<1>3. \A i \in 0..Len(list) : f[i] \in Nat
  BY <1>2, Zenon
<1>4. \A i \in 1..Len(list) : i - 1 \in 0..Len(list)
  BY <1>1
<1> QED
  BY <1>1, <1>2, <1>3, <1>4, Zenon DEF Sums

LEMMA SumExists ==
    ASSUME NEW list \in Seq(BlockType)
    PROVE  \E f : IsSum(f, list)
<1> DEFINE n == Len(list)
           F == [p \in (1..n) \X Nat |-> p[2] + list[p[1]].size]
<1>1. n \in Nat /\ \A i \in 1..n : list[i].size \in Nat
  BY ListFields, Zenon
<1>2. F \in [(1..n) \X Nat -> Nat]
  BY <1>1
<1>3. \A i \in 1..n, s \in Nat : F[<<i, s>>] = s + list[i].size
  OBVIOUS
<1> HIDE DEF F
<1>4. 0 \in Nat
  OBVIOUS
<1>5. PICK g : IsRec(g, F, 0, n, Nat)
  BY <1>1, <1>2, <1>4, Recursion, Zenon
<1>6. \A i \in 1..n : i - 1 \in 0..n
  BY <1>1
<1>7. \A i \in 1..n : g[i - 1] \in Nat
  BY <1>5, <1>6, Zenon DEF IsRec
<1>8. IsSum(g, list)
  BY <1>3, <1>5, <1>7, Zenon DEF IsRec, IsSum
<1> QED
  BY <1>8

\* Any such function gives the size.
LEMMA SumIsBytes ==
    ASSUME NEW list \in Seq(BlockType), NEW f, IsSum(f, list)
    PROVE  Bytes(list) = f[Len(list)] /\ Bytes(list) \in Nat
<1> DEFINE n == Len(list)
           Is(h) == h = [i \in 0..n |-> IF i = 0 THEN 0 ELSE h[i - 1] + list[i].size]
           sum == CHOOSE h : Is(h)
           T == {i \in Nat : sum[i] = f[i]}
<1>1. /\ n \in Nat /\ f \in [0..n -> Nat] /\ f[0] = 0 /\ \A i \in 0..n : f[i] \in Nat
      /\ \A i \in 1..n : f[i] = f[i - 1] + list[i].size
  BY SumFields, Zenon DEF Sums
<1>2. Is(f)
  <2>1. \A i \in 0..n : i # 0 => i \in 1..n
    BY <1>1
  <2>2. \A i \in 0..n : f[i] = IF i = 0 THEN 0 ELSE f[i - 1] + list[i].size
    BY <1>1, <2>1, Zenon
  <2> QED
    BY <1>1, <2>2, Zenon
<1>3. Is(sum)
  BY <1>2, Zenon
<1>4. Bytes(list) = sum[n]
  BY Zenon DEF Bytes
<1> HIDE DEF sum
<1>5. sum[0] = 0 /\ \A i \in 1..n : sum[i] = sum[i - 1] + list[i].size
  <2>1. 0 \in 0..n /\ \A i \in 1..n : i \in 0..n /\ i # 0
    BY <1>1
  <2> QED
    BY <1>3, <2>1, Zenon
<1>6. 0 \in T
  BY <1>1, <1>5
<1>7. \A i \in 1..n : i - 1 \in T => i \in T
  <2>1. \A i \in 1..n : i \in Nat
    OBVIOUS
  <2> QED
    BY <1>1, <1>5, <2>1, Zenon
<1> HIDE DEF T
<1>8. \A i \in 0..n : i \in T
  BY <1>1, <1>6, <1>7, Climb, Zenon
<1>9. n \in 0..n
  BY <1>1
<1>10. sum[n] = f[n] /\ f[n] \in Nat
  BY <1>1, <1>8, <1>9, Zenon DEF T
<1> QED
  BY <1>4, <1>10, Zenon

LEMMA BytesEmpty == Bytes(<<>>) = 0
<1> DEFINE f == [i \in 0..0 |-> 0]
<1>1. f \in [0..0 -> Nat] /\ f[0] = 0
  OBVIOUS
<1> HIDE DEF f
<1>2. <<>> \in Seq(BlockType) /\ Len(<<>>) = 0
  OBVIOUS
<1>3. IsSum(f, <<>>)
  BY <1>1, <1>2 DEF IsSum
<1> QED
  BY <1>1, <1>2, <1>3, SumIsBytes, Zenon

\* A block adds its size.
LEMMA BytesAppend ==
    ASSUME NEW list \in Seq(BlockType), NEW b \in BlockType
    PROVE  Bytes(Append(list, b)) = Bytes(list) + b.size
<1> DEFINE n == Len(list)
           longer == Append(list, b)
<1>1. PICK f : IsSum(f, list)
  BY SumExists, Zenon
<1>2. Bytes(list) = f[n] /\ b.size \in Nat
  BY <1>1, SumIsBytes, BlockFields, Zenon
<1>3. /\ n \in Nat /\ f \in [0..n -> Nat] /\ f[0] = 0 /\ \A i \in 0..n : f[i] \in Nat
      /\ \A i \in 1..n : f[i] = f[i - 1] + list[i].size
  BY <1>1, SumFields, Zenon DEF Sums
<1> DEFINE g == [i \in 0..(n + 1) |-> IF i = n + 1 THEN f[n] + b.size ELSE f[i]]
<1>4. longer \in Seq(BlockType) /\ Len(longer) = n + 1 /\ longer[n + 1] = b
      /\ \A i \in 1..n : longer[i] = list[i]
  OBVIOUS
<1> HIDE DEF longer
<1>5. g \in [0..(n + 1) -> Nat] /\ g[0] = 0 /\ g[n + 1] = f[n] + b.size
  BY <1>2, <1>3
<1>6. ASSUME NEW i \in 1..(n + 1)
      PROVE  g[i] = g[i - 1] + longer[i].size
  <2>1. g[i - 1] = f[i - 1]
    BY <1>3
  <2>2. CASE i = n + 1
    <3>1. i - 1 = n
      BY <1>3, <2>2
    <3> QED
      BY <1>4, <1>5, <2>1, <2>2, <3>1, Zenon
  <2>3. CASE i # n + 1
    <3>1. i \in 1..n /\ g[i] = f[i]
      BY <1>3, <2>3
    <3> QED
      BY <1>3, <1>4, <2>1, <3>1, Zenon
  <2> QED
    BY <2>2, <2>3
<1> HIDE DEF g
<1>7. IsSum(g, longer)
  BY <1>4, <1>5, <1>6, Zenon DEF IsSum
<1>8. Bytes(longer) = g[n + 1]
  BY <1>4, <1>7, SumIsBytes, Zenon
<1> QED
  BY <1>2, <1>5, <1>8, Zenon DEF longer

\* Only the sizes count.
LEMMA BytesSame ==
    ASSUME NEW list \in Seq(BlockType), NEW other \in Seq(BlockType),
           Len(other) = Len(list), \A i \in 1..Len(list) : other[i].size = list[i].size
    PROVE  Bytes(other) = Bytes(list)
<1>1. PICK f : IsSum(f, list)
  BY SumExists, Zenon
<1>2. IsSum(f, other)
  BY <1>1, Zenon DEF IsSum
<1> QED
  BY <1>1, <1>2, SumIsBytes, Zenon

\* A block in the place of one without size.
LEMMA BytesFill ==
    ASSUME NEW list \in Seq(BlockType), NEW other \in Seq(BlockType), NEW k \in 1..Len(list),
           Len(other) = Len(list), list[k].size = 0,
           \A i \in 1..Len(list) : i # k => other[i].size = list[i].size
    PROVE  Bytes(other) = Bytes(list) + other[k].size
<1> DEFINE n == Len(list)
           more == other[k].size
<1>1. PICK f : IsSum(f, list)
  BY SumExists, Zenon
<1>2. /\ n \in Nat /\ f \in [0..n -> Nat] /\ f[0] = 0 /\ \A i \in 0..n : f[i] \in Nat
      /\ \A i \in 1..n : i - 1 \in 0..n /\ f[i] = f[i - 1] + list[i].size /\ list[i].size \in Nat
  <2>1. Sums(f, list)
    BY <1>1, SumFields, Zenon
  <2> QED
    BY ONLY <2>1, Zenon DEF Sums
<1>3. more \in Nat
  BY ListFields, Zenon
<1> HIDE DEF more
<1> DEFINE g == [i \in 0..n |-> IF i < k THEN f[i] ELSE f[i] + more]
<1>4. g \in [0..n -> Nat] /\ g[0] = 0 /\ g[n] = f[n] + more
  BY <1>2, <1>3
<1>5. ASSUME NEW i \in 1..n
      PROVE  g[i] = g[i - 1] + other[i].size
  <2>1. i \in 0..n /\ i - 1 \in 0..n /\ f[i] \in Nat /\ f[i - 1] \in Nat
        /\ f[i] = f[i - 1] + list[i].size /\ list[i].size \in Nat
    BY <1>2
  <2>2. g[i] = (IF i < k THEN f[i] ELSE f[i] + more)
        /\ g[i - 1] = IF i - 1 < k THEN f[i - 1] ELSE f[i - 1] + more
    BY <2>1, Zenon
  <2> HIDE DEF g
  <2>3. CASE i = k
    <3>1. other[i].size = more /\ f[i] = f[i - 1]
      BY <2>1, <2>3 DEF more
    <3>2. ~(i < k) /\ i - 1 < k
      BY <2>3
    <3> QED
      BY <2>2, <3>1, <3>2, Zenon
  <2>4. CASE i # k
    <3>1. other[i].size = list[i].size
      BY <2>4
    <3>2. (i < k /\ i - 1 < k) \/ (~(i < k) /\ ~(i - 1 < k))
      BY <2>4
    <3> QED
      BY <1>3, <2>1, <2>2, <3>1, <3>2
  <2> QED
    BY <2>3, <2>4
<1> HIDE DEF g
<1>6. IsSum(g, other)
  BY <1>4, <1>5, Zenon DEF IsSum
<1> QED
  BY <1>1, <1>4, <1>6, SumIsBytes, Zenon DEF more

\* Without a block that has no size.
LEMMA BytesRemove ==
    ASSUME NEW list \in Seq(BlockType), NEW other \in Seq(BlockType), NEW k \in 1..Len(list),
           Len(other) = Len(list) - 1, list[k].size = 0,
           \A i \in 1..(k - 1) : other[i].size = list[i].size,
           \A i \in k..Len(other) : other[i].size = list[i + 1].size
    PROVE  Bytes(other) = Bytes(list)
<1> DEFINE n == Len(list)
<1>1. PICK f : IsSum(f, list)
  BY SumExists, Zenon
<1>2. /\ n \in Nat /\ f \in [0..n -> Nat] /\ f[0] = 0 /\ \A i \in 0..n : f[i] \in Nat
      /\ \A i \in 1..n : f[i] = f[i - 1] + list[i].size /\ f[i - 1] \in Nat
  <2>1. Sums(f, list)
    BY <1>1, SumFields, Zenon
  <2> QED
    BY ONLY <2>1, Zenon DEF Sums
<1>3. f[k] = f[k - 1]
  <2>1. f[k] = f[k - 1] + list[k].size /\ f[k - 1] \in Nat
    BY <1>2, Zenon
  <2> QED
    BY <2>1
<1>4. n > 0 /\ k \in Int
  BY <1>2
<1> DEFINE g == [i \in 0..(n - 1) |-> IF i < k THEN f[i] ELSE f[i + 1]]
<1>5. g \in [0..(n - 1) -> Nat] /\ g[0] = 0
  <2>1. \A i \in 0..(n - 1) : i \in 0..n /\ i + 1 \in 0..n
    BY <1>2, <1>4
  <2>2. \A i \in 0..(n - 1) : (IF i < k THEN f[i] ELSE f[i + 1]) \in Nat
    BY <1>2, <2>1, Zenon
  <2>3. 0 \in 0..(n - 1) /\ 0 < k
    BY <1>2, <1>4
  <2> QED
    BY <1>2, <2>2, <2>3, Zenon
<1>6. g[n - 1] = f[n]
  BY <1>2, <1>3, <1>4
<1>7. ASSUME NEW i \in 1..(n - 1)
      PROVE  g[i] = g[i - 1] + other[i].size
  <2>1. CASE i < k
    <3>1. i \in 1..(k - 1) /\ i \in 1..n /\ g[i] = f[i] /\ g[i - 1] = f[i - 1]
      BY <1>2, <1>4, <2>1
    <3> QED
      BY <1>2, <3>1, Zenon
  <2>2. CASE i >= k
    <3>1. g[i - 1] = f[i]
      <4>1. i - 1 \in 0..(n - 1) /\ (i - 1) + 1 = i /\ (i - 1 < k => i = k)
        BY ONLY <1>2, <1>4, <2>2, i \in 1..(n - 1)
      <4>2. g[i - 1] = IF i - 1 < k THEN f[i - 1] ELSE f[(i - 1) + 1]
        BY <4>1, Zenon
      <4> HIDE DEF g
      <4> QED
        BY ONLY <1>3, <4>1, <4>2
    <3>2. g[i] = f[i + 1] /\ i \in k..Len(other)
      BY <1>2, <1>4, <2>2
    <3>3. i + 1 \in 1..n /\ (i + 1) - 1 = i
      BY <1>2
    <3>4. f[i + 1] = f[i] + list[i + 1].size
      BY <1>2, <3>3, Zenon
    <3> QED
      BY <3>1, <3>2, <3>4, Zenon
  <2> QED
    BY <1>4, <2>1, <2>2
<1> HIDE DEF g
<1>8. IsSum(g, other)
  BY <1>5, <1>7, Zenon DEF IsSum
<1> QED
  BY <1>1, <1>6, <1>8, SumIsBytes, Zenon

\* Without the first block.
LEMMA BytesTail ==
    ASSUME NEW list \in Seq(BlockType), list # <<>>
    PROVE  Bytes(Tail(list)) = Bytes(list) - list[1].size
<1> DEFINE n == Len(list)
           rest == Tail(list)
           first == list[1].size
<1>1. rest \in Seq(BlockType) /\ Len(rest) = n - 1 /\ n \in Nat /\ n > 0
      /\ \A i \in 1..(n - 1) : rest[i] = list[i + 1]
  OBVIOUS
<1>2. first \in Nat
  <2>1. 1 \in 1..n
    BY <1>1
  <2> QED
    BY <2>1, ListFields, Zenon
<1> HIDE DEF rest, first
<1>3. PICK f : IsSum(f, rest)
  BY <1>1, SumExists, Zenon
<1>4. /\ f \in [0..(n - 1) -> Nat] /\ f[0] = 0 /\ \A i \in 0..(n - 1) : f[i] \in Nat
      /\ \A i \in 1..(n - 1) : /\ f[i] = f[i - 1] + rest[i].size /\ rest[i].size \in Nat
                               /\ f[i - 1] \in Nat
  <2> DEFINE m == Len(rest)
  <2>1. /\ f \in [0..m -> Nat] /\ f[0] = 0 /\ \A i \in 0..m : f[i] \in Nat
        /\ \A i \in 1..m : /\ f[i] = f[i - 1] + rest[i].size /\ rest[i].size \in Nat
                           /\ f[i - 1] \in Nat
    BY <1>1, <1>3, SumFields, Zenon DEF Sums
  <2>2. m = n - 1
    BY <1>1, Zenon
  <2> HIDE DEF m
  <2> QED
    BY ONLY <2>1, <2>2
<1> DEFINE g == [i \in 0..n |-> IF i = 0 THEN 0 ELSE f[i - 1] + first]
<1>5. g \in [0..n -> Nat] /\ g[0] = 0 /\ g[n] = f[n - 1] + first
  BY <1>1, <1>2, <1>4
<1>6. ASSUME NEW i \in 1..n
      PROVE  g[i] = g[i - 1] + list[i].size
  <2>1. i \in 0..n /\ i - 1 \in 0..n /\ i # 0
    BY <1>1
  <2>2. g[i] = f[i - 1] + first /\ g[i - 1] = IF i - 1 = 0 THEN 0 ELSE f[(i - 1) - 1] + first
    BY <2>1, Zenon
  <2> HIDE DEF g
  <2>3. CASE i = 1
    BY <1>2, <1>4, <2>2, <2>3 DEF first
  <2>4. CASE i # 1
    <3>1. i - 1 \in 1..(n - 1) /\ (i - 1) + 1 = i /\ i - 1 # 0
      BY <1>1, <2>4
    <3>2. list[i] = rest[i - 1]
      BY <1>1, <3>1, Zenon
    <3>3. f[i - 1] = f[(i - 1) - 1] + list[i].size /\ list[i].size \in Nat /\ f[(i - 1) - 1] \in Nat
      BY <1>4, <3>1, <3>2, Zenon
    <3> QED
      BY <1>2, <2>2, <3>1, <3>3
  <2> QED
    BY <2>3, <2>4
<1> HIDE DEF g
<1>7. IsSum(g, list)
  BY <1>5, <1>6, Zenon DEF IsSum
<1>8. Bytes(list) = g[n] /\ Bytes(rest) = f[n - 1]
  BY <1>1, <1>3, <1>7, SumIsBytes, Zenon
<1>9. f[n - 1] \in Nat
  BY <1>1, <1>4
<1> QED
  BY <1>2, <1>5, <1>8, <1>9 DEF rest, first

\* One list after the other.
LEMMA BytesConcat ==
    ASSUME NEW s \in Seq(BlockType), NEW t \in Seq(BlockType)
    PROVE  Bytes(s \o t) = Bytes(s) + Bytes(t)
<1> DEFINE m == Len(s)
           n == Len(t)
           st == s \o t
<1>1. st \in Seq(BlockType) /\ Len(st) = m + n /\ m \in Nat /\ n \in Nat
      /\ (\A i \in 1..m : st[i] = s[i]) /\ (\A i \in (m + 1)..(m + n) : st[i] = t[i - m])
  OBVIOUS
<1> HIDE DEF st
<1>2. PICK f : IsSum(f, s)
  BY SumExists, Zenon
<1>3. PICK h : IsSum(h, t)
  BY SumExists, Zenon
<1>4. /\ f \in [0..m -> Nat] /\ f[0] = 0 /\ \A i \in 0..m : f[i] \in Nat
      /\ \A i \in 1..m : f[i] = f[i - 1] + s[i].size
  BY <1>2, SumFields, Zenon DEF Sums
<1>5. /\ h \in [0..n -> Nat] /\ h[0] = 0 /\ \A i \in 0..n : h[i] \in Nat
      /\ \A i \in 1..n : h[i] = h[i - 1] + t[i].size /\ h[i - 1] \in Nat /\ t[i].size \in Nat
  BY <1>3, SumFields, Zenon DEF Sums
<1> DEFINE g == [i \in 0..(m + n) |-> IF i <= m THEN f[i] ELSE f[m] + h[i - m]]
<1>6. f[m] \in Nat
  BY <1>1, <1>4
<1>7. g \in [0..(m + n) -> Nat] /\ g[0] = 0
  <2>1. ASSUME NEW i \in 0..(m + n)
        PROVE  (IF i <= m THEN f[i] ELSE f[m] + h[i - m]) \in Nat
    <3>1. CASE i <= m
      BY <1>1, <1>4, <3>1
    <3>2. CASE i > m
      <4>1. i - m \in 0..n
        BY <1>1, <3>2
      <4>2. h[i - m] \in Nat
        BY <1>5, <4>1, Zenon
      <4> QED
        BY <1>1, <1>6, <3>2, <4>2
    <3> QED
      BY <1>1, <3>1, <3>2
  <2>2. 0 \in 0..(m + n) /\ 0 <= m
    BY <1>1
  <2> QED
    BY <1>4, <2>1, <2>2, Zenon
<1>8. g[m + n] = f[m] + h[n]
  <2>1. m + n \in 0..(m + n) /\ (m + n <= m => n = 0) /\ (m + n) - m = n /\ (n = 0 => m + n = m)
    BY <1>1
  <2>2. g[m + n] = IF m + n <= m THEN f[m + n] ELSE f[m] + h[(m + n) - m]
    BY <2>1, Zenon
  <2> HIDE DEF g
  <2>3. CASE n = 0
    <3>1. m + n = m /\ m <= m
      BY <1>1, <2>3
    <3>2. g[m + n] = f[m]
      BY <2>2, <3>1, Zenon
    <3> QED
      BY <1>5, <1>6, <2>3, <3>2
  <2>4. CASE n # 0
    BY <2>1, <2>2, <2>4, Zenon
  <2> QED
    BY <2>3, <2>4
<1>9. ASSUME NEW i \in 1..(m + n)
      PROVE  g[i] = g[i - 1] + st[i].size
  <2>1. i \in 0..(m + n) /\ i - 1 \in 0..(m + n) /\ i \in Int /\ m \in Int
    BY <1>1
  <2>2. g[i] = (IF i <= m THEN f[i] ELSE f[m] + h[i - m])
        /\ g[i - 1] = IF i - 1 <= m THEN f[i - 1] ELSE f[m] + h[(i - 1) - m]
    BY <2>1, Zenon
  <2> HIDE DEF g
  <2>3. CASE i <= m
    <3>1. i \in 1..m /\ i - 1 <= m
      BY <1>1, <2>3
    <3> QED
      BY <1>1, <1>4, <2>2, <2>3, <3>1, Zenon
  <2>4. CASE i = m + 1
    <3>1. ~(i <= m) /\ i - 1 <= m /\ i - 1 = m /\ i - m = 1 /\ 1 \in 1..n /\ 1 - 1 = 0
          /\ i \in (m + 1)..(m + n)
      BY <1>1, <2>4
    <3>2. st[i] = t[1] /\ g[i] = f[m] + h[1] /\ g[i - 1] = f[m]
      BY <1>1, <2>2, <3>1, Zenon
    <3>3. h[1] = h[0] + t[1].size /\ t[1].size \in Nat
      BY <1>5, <3>1, Zenon
    <3>4. h[1] = t[1].size
      BY <1>5, <3>3
    <3> QED
      BY <3>2, <3>4, Zenon
  <2>5. CASE i > m + 1
    <3>1. ~(i <= m) /\ ~(i - 1 <= m) /\ i - m \in 1..n /\ (i - m) - 1 = (i - 1) - m
          /\ i \in (m + 1)..(m + n)
      BY <1>1, <2>1, <2>5
    <3>2. st[i] = t[i - m] /\ g[i] = f[m] + h[i - m] /\ g[i - 1] = f[m] + h[(i - m) - 1]
      BY <1>1, <2>2, <3>1, Zenon
    <3>3. h[i - m] = h[(i - m) - 1] + t[i - m].size /\ h[(i - m) - 1] \in Nat
          /\ t[i - m].size \in Nat
      BY <1>5, <3>1, Zenon
    <3> QED
      BY <1>6, <3>2, <3>3
  <2>6. i <= m \/ i = m + 1 \/ i > m + 1
    <3>1. \A a, b \in Int : a <= b \/ a = b + 1 \/ a > b + 1
      OBVIOUS
    <3> QED
      BY <2>1, <3>1, Zenon
  <2> QED
    BY <2>3, <2>4, <2>5, <2>6, Zenon
<1> HIDE DEF g
<1>10. IsSum(g, st)
  BY <1>1, <1>7, <1>9, Zenon DEF IsSum
<1>11. Bytes(st) = g[m + n] /\ Bytes(s) = f[m] /\ Bytes(t) = h[n]
  BY <1>1, <1>2, <1>3, <1>10, SumIsBytes, Zenon
<1> QED
  BY <1>8, <1>11, Zenon DEF st

\* A list is as large as each of its blocks.
LEMMA BytesAtLeast ==
    ASSUME NEW list \in Seq(BlockType), NEW k \in 1..Len(list)
    PROVE  Bytes(list) >= list[k].size
<1> DEFINE n == Len(list)
           size == list[k].size
<1>1. PICK f : IsSum(f, list)
  BY SumExists, Zenon
<1>2. /\ n \in Nat /\ \A i \in 0..n : f[i] \in Nat
      /\ \A i \in 1..n : /\ f[i] = f[i - 1] + list[i].size /\ f[i - 1] \in Nat
                         /\ list[i].size \in Nat
  BY <1>1, SumFields, Zenon DEF Sums
<1>3. size \in Nat
  BY <1>2, Zenon
<1> DEFINE T == {i \in Nat : i >= k => f[i] >= size}
<1>4. 0 \in T
  OBVIOUS
<1>5. ASSUME NEW i \in 1..n, i - 1 \in T
      PROVE  i \in T
  <2>1. f[i] = f[i - 1] + list[i].size /\ f[i - 1] \in Nat /\ list[i].size \in Nat
    BY <1>2, Zenon
  <2>2. i - 1 >= k => f[i - 1] >= size
    BY <1>5
  <2>3. i = k => list[i].size = size
    BY Zenon
  <2> HIDE DEF size
  <2>4. i >= k => f[i] >= size
    BY <1>3, <2>1, <2>2, <2>3
  <2> QED
    BY <2>4
<1> HIDE DEF T
<1>6. \A i \in 0..n : i \in T
  BY <1>2, <1>4, <1>5, Climb, Zenon
<1>7. Bytes(list) = f[n]
  BY <1>1, SumIsBytes, Zenon
<1>8. n \in 0..n /\ n >= k
  BY <1>2
<1> QED
  BY <1>6, <1>7, <1>8, Zenon DEF T

-----------------------------------------------------------------------------
(* The limits, and the calls that add tokens.                              *)

\* A client, and one with some of its fields changed.
LEMMA ClientFields ==
    ASSUME NEW cl \in ClientType
    PROVE  /\ cl.buf \in Seq(Tok) /\ cl.list \in Seq(BlockType) /\ cl.sentlen \in Nat
           /\ cl.reply_bytes \in Nat /\ cl.softtime \in Nat /\ cl.resp \in {2, 3}
           /\ cl.flags \in SUBSET Flags
BY DEF ClientType

IsIn(d, S, buf, list, n, flags) ==
    d \in S /\ d.buf = buf /\ d.list = list /\ d.reply_bytes = n /\ d.flags = flags
IsClient(d, buf, list, n, flags) == IsIn(d, ClientType, buf, list, n, flags)

\* The same with sets in the place of Seq(Tok) and Seq(BlockType).
Client(A, B) ==
    [buf : A, list : B, sentlen : Nat, reply_bytes : Nat, softtime : Nat, resp : {2, 3},
     flags : SUBSET Flags]

LEMMA ClientIs == ClientType = Client(Seq(Tok), Seq(BlockType))
BY Zenon DEF ClientType, Client

LEMMA WithFlags ==
    ASSUME NEW cl \in ClientType, NEW flags \in SUBSET Flags
    PROVE  IsClient([cl EXCEPT !.flags = flags], cl.buf, cl.list, cl.reply_bytes, flags)
<1> DEFINE d == [cl EXCEPT !.flags = flags]
<1>1. ASSUME NEW A, NEW B, cl \in Client(A, B), flags \in SUBSET Flags, 0 \in Nat
      PROVE  IsIn(d, Client(A, B), cl.buf, cl.list, cl.reply_bytes, flags)
  BY ONLY <1>1, Zenon DEF Client, IsIn
<1>2. 0 \in Nat
  OBVIOUS
<1> HIDE DEF d
<1>3. IsIn(d, ClientType, cl.buf, cl.list, cl.reply_bytes, flags)
  BY <1>1, <1>2, ClientIs, Zenon
<1> QED
  BY <1>3, Zenon DEF IsClient, d

LEMMA WithTimeFlags ==
    ASSUME NEW cl \in ClientType, NEW n \in Nat, NEW flags \in SUBSET Flags
    PROVE  IsClient([cl EXCEPT !.softtime = n, !.flags = flags], cl.buf, cl.list, cl.reply_bytes, flags)
<1> DEFINE d == [cl EXCEPT !.softtime = n, !.flags = flags]
<1>1. ASSUME NEW A, NEW B, cl \in Client(A, B), n \in Nat, flags \in SUBSET Flags, 0 \in Nat
      PROVE  IsIn(d, Client(A, B), cl.buf, cl.list, cl.reply_bytes, flags)
  BY ONLY <1>1, Zenon DEF Client, IsIn
<1>2. 0 \in Nat
  OBVIOUS
<1> HIDE DEF d
<1>3. IsIn(d, ClientType, cl.buf, cl.list, cl.reply_bytes, flags)
  BY <1>1, <1>2, ClientIs, Zenon
<1> QED
  BY <1>3, Zenon DEF IsClient, d

LEMMA WithSentFlags ==
    ASSUME NEW cl \in ClientType, NEW flags \in SUBSET Flags
    PROVE  IsClient([cl EXCEPT !.sentlen = 0, !.flags = flags], cl.buf, cl.list, cl.reply_bytes, flags)
<1> DEFINE d == [cl EXCEPT !.sentlen = 0, !.flags = flags]
<1>1. ASSUME NEW A, NEW B, cl \in Client(A, B), flags \in SUBSET Flags, 0 \in Nat
      PROVE  IsIn(d, Client(A, B), cl.buf, cl.list, cl.reply_bytes, flags)
  BY ONLY <1>1, Zenon DEF Client, IsIn
<1>2. 0 \in Nat
  OBVIOUS
<1> HIDE DEF d
<1>3. IsIn(d, ClientType, cl.buf, cl.list, cl.reply_bytes, flags)
  BY <1>1, <1>2, ClientIs, Zenon
<1> QED
  BY <1>3, Zenon DEF IsClient, d

LEMMA WithList ==
    ASSUME NEW cl \in ClientType, NEW list \in Seq(BlockType)
    PROVE  IsClient([cl EXCEPT !.list = list], cl.buf, list, cl.reply_bytes, cl.flags)
<1> DEFINE d == [cl EXCEPT !.list = list]
<1>1. ASSUME NEW A, NEW B, cl \in Client(A, B), list \in B, 0 \in Nat
      PROVE  IsIn(d, Client(A, B), cl.buf, list, cl.reply_bytes, cl.flags)
  BY ONLY <1>1, Zenon DEF Client, IsIn
<1>2. 0 \in Nat
  OBVIOUS
<1> HIDE DEF d
<1>3. IsIn(d, ClientType, cl.buf, list, cl.reply_bytes, cl.flags)
  BY <1>1, <1>2, ClientIs, Zenon
<1> QED
  BY <1>3, Zenon DEF IsClient, d

LEMMA WithListBytes ==
    ASSUME NEW cl \in ClientType, NEW list \in Seq(BlockType), NEW n \in Nat
    PROVE  IsClient([cl EXCEPT !.list = list, !.reply_bytes = n], cl.buf, list, n, cl.flags)
<1> DEFINE d == [cl EXCEPT !.list = list, !.reply_bytes = n]
<1>1. ASSUME NEW A, NEW B, cl \in Client(A, B), list \in B, n \in Nat, 0 \in Nat
      PROVE  IsIn(d, Client(A, B), cl.buf, list, n, cl.flags)
  BY ONLY <1>1, Zenon DEF Client, IsIn
<1>2. 0 \in Nat
  OBVIOUS
<1> HIDE DEF d
<1>3. IsIn(d, ClientType, cl.buf, list, n, cl.flags)
  BY <1>1, <1>2, ClientIs, Zenon
<1> QED
  BY <1>3, Zenon DEF IsClient, d

LEMMA WithListSent ==
    ASSUME NEW cl \in ClientType, NEW list \in Seq(BlockType), NEW n \in Nat
    PROVE  IsClient([cl EXCEPT !.list = list, !.sentlen = 0, !.reply_bytes = n], cl.buf, list, n, cl.flags)
<1> DEFINE d == [cl EXCEPT !.list = list, !.sentlen = 0, !.reply_bytes = n]
<1>1. ASSUME NEW A, NEW B, cl \in Client(A, B), list \in B, n \in Nat, 0 \in Nat
      PROVE  IsIn(d, Client(A, B), cl.buf, list, n, cl.flags)
  BY ONLY <1>1, Zenon DEF Client, IsIn
<1>2. 0 \in Nat
  OBVIOUS
<1> HIDE DEF d
<1>3. IsIn(d, ClientType, cl.buf, list, n, cl.flags)
  BY <1>1, <1>2, ClientIs, Zenon
<1> QED
  BY <1>3, Zenon DEF IsClient, d

LEMMA WithBuf ==
    ASSUME NEW cl \in ClientType, NEW buf \in Seq(Tok)
    PROVE  IsClient([cl EXCEPT !.buf = buf], buf, cl.list, cl.reply_bytes, cl.flags)
<1> DEFINE d == [cl EXCEPT !.buf = buf]
<1>1. ASSUME NEW A, NEW B, cl \in Client(A, B), buf \in A, 0 \in Nat
      PROVE  IsIn(d, Client(A, B), buf, cl.list, cl.reply_bytes, cl.flags)
  BY ONLY <1>1, Zenon DEF Client, IsIn
<1>2. 0 \in Nat
  OBVIOUS
<1> HIDE DEF d
<1>3. IsIn(d, ClientType, buf, cl.list, cl.reply_bytes, cl.flags)
  BY <1>1, <1>2, ClientIs, Zenon
<1> QED
  BY <1>3, Zenon DEF IsClient, d

LEMMA WithBufSent ==
    ASSUME NEW cl \in ClientType, NEW buf \in Seq(Tok)
    PROVE  IsClient([cl EXCEPT !.buf = buf, !.sentlen = 0], buf, cl.list, cl.reply_bytes, cl.flags)
<1> DEFINE d == [cl EXCEPT !.buf = buf, !.sentlen = 0]
<1>1. ASSUME NEW A, NEW B, cl \in Client(A, B), buf \in A, 0 \in Nat
      PROVE  IsIn(d, Client(A, B), buf, cl.list, cl.reply_bytes, cl.flags)
  BY ONLY <1>1, Zenon DEF Client, IsIn
<1>2. 0 \in Nat
  OBVIOUS
<1> HIDE DEF d
<1>3. IsIn(d, ClientType, buf, cl.list, cl.reply_bytes, cl.flags)
  BY <1>1, <1>2, ClientIs, Zenon
<1> QED
  BY <1>3, Zenon DEF IsClient, d

LEMMA WithSent ==
    ASSUME NEW cl \in ClientType, NEW n \in Nat
    PROVE  IsClient([cl EXCEPT !.sentlen = n], cl.buf, cl.list, cl.reply_bytes, cl.flags)
<1> DEFINE d == [cl EXCEPT !.sentlen = n]
<1>1. ASSUME NEW A, NEW B, cl \in Client(A, B), n \in Nat, 0 \in Nat
      PROVE  IsIn(d, Client(A, B), cl.buf, cl.list, cl.reply_bytes, cl.flags)
  BY ONLY <1>1, Zenon DEF Client, IsIn
<1>2. 0 \in Nat
  OBVIOUS
<1> HIDE DEF d
<1>3. IsIn(d, ClientType, cl.buf, cl.list, cl.reply_bytes, cl.flags)
  BY <1>1, <1>2, ClientIs, Zenon
<1> QED
  BY <1>3, Zenon DEF IsClient, d

LEMMA WithResp ==
    ASSUME NEW cl \in ClientType, NEW resp \in {2, 3}
    PROVE  IsClient([cl EXCEPT !.resp = resp], cl.buf, cl.list, cl.reply_bytes, cl.flags)
<1> DEFINE d == [cl EXCEPT !.resp = resp]
<1>1. ASSUME NEW A, NEW B, cl \in Client(A, B), resp \in {2, 3}, 0 \in Nat
      PROVE  IsIn(d, Client(A, B), cl.buf, cl.list, cl.reply_bytes, cl.flags)
  BY ONLY <1>1, Zenon DEF Client, IsIn
<1>2. 0 \in Nat
  OBVIOUS
<1> HIDE DEF d
<1>3. IsIn(d, ClientType, cl.buf, cl.list, cl.reply_bytes, cl.flags)
  BY <1>1, <1>2, ClientIs, Zenon
<1> QED
  BY <1>3, Zenon DEF IsClient, d

\* Looking at the limits leaves the buffers alone.
LEMMA LimitsChecked ==
    ASSUME NEW cl \in ClientType, limit \in LimitType, now \in Nat
    PROVE  /\ CheckLimits(cl) \in ClientType
           /\ CheckLimits(cl).buf = cl.buf /\ CheckLimits(cl).list = cl.list
           /\ CheckLimits(cl).reply_bytes = cl.reply_bytes
           /\ cl.flags \subseteq CheckLimits(cl).flags
           /\ CheckLimits(cl).flags \subseteq cl.flags \cup {"CLOSE_ASAP"}
           /\ cl.reply_bytes = 0 => CheckLimits(cl) = cl
           /\ cl.reply_bytes # 0 /\ limit.hard # 0
                => \/ {"CLOSE_ASAP", "MODULE"} \cap CheckLimits(cl).flags # {}
                   \/ Within(cl, Len(cl.list))
<1> DEFINE check == checkClientOutputBufferLimits(cl)
           d == CheckLimits(cl)
           new == IF check.reached THEN {"CLOSE_ASAP"} ELSE {}
<1>0. cl.softtime \in Nat /\ cl.reply_bytes \in Nat /\ Len(cl.list) \in Nat
      /\ cl.flags \in SUBSET Flags
  BY ClientFields, ListFields, Zenon
<1>1. check.time \in Nat
  BY <1>0 DEF checkClientOutputBufferLimits
<1>2. limit.hard # 0 => check.reached \/ Within(cl, Len(cl.list))
  <2>1. Memory(cl) \in Int /\ limit.hard \in Int
    BY <1>0, Constants DEF Memory, LimitType
  <2>2. limit.hard # 0 /\ Memory(cl) >= limit.hard => check.reached
    BY Zenon DEF checkClientOutputBufferLimits
  <2>3. ~(Memory(cl) >= limit.hard) => Memory(cl) < limit.hard
    BY <2>1
  <2> QED
    BY <2>2, <2>3 DEF Memory, Within
<1>3. new \subseteq {"CLOSE_ASAP"} /\ (check.reached => "CLOSE_ASAP" \in new)
  OBVIOUS
<1> HIDE DEF check, new
<1>4. CASE "MODULE" \in cl.flags \/ cl.reply_bytes = 0 \/ "CLOSE_ASAP" \in cl.flags
  <2>1. d = cl
    BY <1>4, Zenon DEF CheckLimits
  <2> HIDE DEF d
  <2>2. cl.reply_bytes # 0 => {"CLOSE_ASAP", "MODULE"} \cap d.flags # {}
    BY <1>4, <2>1
  <2> QED
    BY <2>1, <2>2 DEF d
<1>5. CASE ~("MODULE" \in cl.flags \/ cl.reply_bytes = 0 \/ "CLOSE_ASAP" \in cl.flags)
  <2>1. d = [cl EXCEPT !.softtime = check.time, !.flags = @ \cup new]
    BY <1>5, Zenon DEF CheckLimits, check, new
  <2> HIDE DEF d
  <2>2. d \in ClientType /\ d.buf = cl.buf /\ d.list = cl.list /\ d.reply_bytes = cl.reply_bytes
        /\ d.flags = cl.flags \cup new
    <3> DEFINE flags == cl.flags \cup new
    <3>1. \A F \in SUBSET Flags, G \in SUBSET {"CLOSE_ASAP"} : F \cup G \in SUBSET Flags
      BY DEF Flags
    <3>2. flags \in SUBSET Flags
      BY <1>0, <1>3, <3>1, Zenon
    <3>3. d = [cl EXCEPT !.softtime = check.time, !.flags = flags]
      BY <2>1, Zenon
    <3> HIDE DEF flags
    <3>4. IsClient([cl EXCEPT !.softtime = check.time, !.flags = flags],
                   cl.buf, cl.list, cl.reply_bytes, flags)
      BY ONLY cl \in ClientType, <1>1, <3>2, WithTimeFlags, Zenon
    <3>5. IsClient(d, cl.buf, cl.list, cl.reply_bytes, flags)
      BY ONLY <3>3, <3>4, Zenon
    <3> QED
      BY <3>5, Zenon DEF IsClient, IsIn, flags
  <2>3. cl.flags \subseteq d.flags /\ d.flags \subseteq cl.flags \cup {"CLOSE_ASAP"}
    BY <1>3, <2>2, Zenon
  <2>4. limit.hard # 0 => {"CLOSE_ASAP", "MODULE"} \cap d.flags # {} \/ Within(cl, Len(cl.list))
    BY <1>2, <1>3, <2>2
  <2> QED
    BY <1>5, <2>2, <2>3, <2>4 DEF d
<1> QED
  BY <1>4, <1>5

\* A change of the buffers that is followed by a look at the limits.
LEMMA CheckReached ==
    ASSUME NEW old, NEW cl, NEW N, limit \in LimitType, now \in Nat,
           BufferInv(cl), Nulls(cl) = N, cl.reply_bytes # 0,
           MayWrite(cl) <=> MayWrite(old), "MODULE" \in cl.flags <=> "MODULE" \in old.flags
    PROVE  Reached(old, CheckLimits(cl), N)
<1> DEFINE d == CheckLimits(cl)
<1>1. cl \in ClientType
  BY DEF BufferInv
<1>2. /\ d \in ClientType /\ d.buf = cl.buf /\ d.list = cl.list /\ d.reply_bytes = cl.reply_bytes
      /\ cl.flags \subseteq d.flags /\ d.flags \subseteq cl.flags \cup {"CLOSE_ASAP"}
  BY <1>1, LimitsChecked
<1>3. limit.hard # 0 => {"CLOSE_ASAP", "MODULE"} \cap d.flags # {} \/ Within(cl, Len(cl.list))
  BY <1>1, LimitsChecked
<1> HIDE DEF d
<1>4. BufferInv(d)
  BY <1>2 DEF BufferInv
<1>5. Nulls(d) = N
  BY <1>2 DEF Nulls
<1>6. MayWrite(d) <=> MayWrite(cl)
  BY <1>2 DEF MayWrite
<1>7. "MODULE" \in d.flags <=> "MODULE" \in cl.flags
  BY <1>2
<1>8. LimitInv(old, d)
  <2>1. Within(cl, Len(cl.list)) => Within(d, Len(d.list))
    BY <1>2 DEF Within
  <2>2. Len(d.list) \in Nat
    BY <1>2, ClientFields, ListFields, Zenon
  <2>3. Len(d.list) \in 0..Len(d.list) /\ \A i \in (Len(d.list) + 1)..Len(d.list) : d.list[i].null
    BY <2>2
  <2> QED
    BY <1>3, <2>1, <2>3 DEF LimitInv
<1> QED
  BY <1>4, <1>5, <1>6, <1>7, <1>8 DEF Reached, d

\* A block is large enough for what it was made for.
LEMMA UsableFits ==
    ASSUME NEW n \in Nat
    PROVE  Usable(n) \in Nat /\ Usable(n) >= n
<1> DEFINE q == (n + Align - 1) \div Align
<1>1. q \in Int /\ Align * q > (n + Align - 1) - Align
  BY Constants
<1> HIDE DEF q
<1>2. Align * q \in Int
  BY <1>1, Constants
<1>3. Align * q >= n
  BY <1>1, <1>2, Constants
<1> QED
  BY <1>2, <1>3 DEF Usable, q

\* The same after a step from cl to d that keeps the flags.
LEMMA StepReached ==
    ASSUME NEW old, NEW cl, NEW N, NEW d, NEW M, limit \in LimitType, now \in Nat,
           Reached(old, cl, N), BufferInv(d), Nulls(d) = M, d.flags = cl.flags, d.reply_bytes # 0
    PROVE  Reached(old, CheckLimits(d), M)
<1>1. (MayWrite(d) <=> MayWrite(old)) /\ ("MODULE" \in d.flags <=> "MODULE" \in old.flags)
  BY Zenon DEF Reached, MayWrite
<1> QED
  BY <1>1, CheckReached, Zenon

LEMMA BlockIs ==
    ASSUME NEW size \in Nat, NEW tokens \in Seq(Tok), tokens # <<>>, size > 0, size >= Len(tokens)
    PROVE  /\ Block(size, tokens) \in BlockType /\ Block(size, tokens).size = size
           /\ ~Block(size, tokens).null /\ Sound(Block(size, tokens))
<1>1. Block(size, tokens) \in BlockType
  BY Zenon DEF Block, BlockType
<1>2. Block(size, tokens).size = size /\ Block(size, tokens).null = FALSE
      /\ Block(size, tokens).tokens = tokens
  BY Zenon DEF Block
<1>3. Len(tokens) \in Nat /\ Len(tokens) <= size
  OBVIOUS
<1> QED
  BY <1>1, <1>2, <1>3, Zenon DEF Sound

LEMMA WithTokens ==
    ASSUME NEW b \in BlockType, NEW tokens \in Seq(Tok)
    PROVE  /\ [b EXCEPT !.tokens = tokens] \in BlockType
           /\ [b EXCEPT !.tokens = tokens].null = b.null
           /\ [b EXCEPT !.tokens = tokens].size = b.size
           /\ [b EXCEPT !.tokens = tokens].tokens = tokens
BY Zenon DEF BlockType

LEMMA SameList ==
    ASSUME NEW cl \in ClientType
    PROVE  [cl EXCEPT !.list = cl.list] = cl
BY DEF ClientType

LEMMA ListReached ==
    ASSUME NEW old, NEW cl, NEW N, NEW tokens \in Seq(Tok), limit \in LimitType, now \in Nat,
           Reached(old, cl, N)
    PROVE  Reached(old, _addReplyProtoToList(cl, tokens), N)
<1> DEFINE n == Len(cl.list)
           tail == cl.list[n]
           room == IF n = 0 THEN 0 ELSE tail.size - Len(tail.tokens)
           copied == IF room < Len(tokens) THEN room ELSE Len(tokens)
           rest == SubSeq(tokens, copied + 1, Len(tokens))
           size == Usable(IF Len(rest) < Chunk THEN Chunk ELSE Len(rest))
           filled == IF copied = 0 THEN cl.list
                     ELSE [cl.list EXCEPT ![n].tokens = @ \o SubSeq(tokens, 1, copied)]
           e == IF rest = <<>> THEN [cl EXCEPT !.list = filled]
                ELSE [cl EXCEPT !.list = Append(filled, Block(size, rest)),
                                !.reply_bytes = @ + size]
<1>1. _addReplyProtoToList(cl, tokens) = CheckLimits(e)
  BY Zenon DEF _addReplyProtoToList
<1>2. /\ cl \in ClientType /\ cl.list \in Seq(BlockType) /\ n \in Nat /\ cl.reply_bytes \in Nat
      /\ \A i \in 1..n : cl.list[i] \in BlockType /\ Sound(cl.list[i])
      /\ cl.reply_bytes = Bytes(cl.list)
  BY ClientFields, ListFields, Zenon DEF Reached, BufferInv
<1>3. n # 0 => tail \in BlockType /\ Sound(tail) /\ tail.size \in Nat /\ tail.tokens \in Seq(Tok)
               /\ Len(tail.tokens) \in Nat /\ tail.null \in BOOLEAN
  <2>1. n # 0 => n \in 1..n
    BY <1>2
  <2> QED
    BY <1>2, <2>1, BlockFields, Zenon
<1>4. n # 0 => Len(tail.tokens) <= tail.size
  BY <1>3 DEF Sound
<1>5. room \in Nat /\ (room # 0 => n # 0 /\ tail.size > 0 /\ ~tail.null)
  BY <1>3, <1>4 DEF Sound
<1>6. room = 0 \/ Len(tail.tokens) + room = tail.size
  BY <1>3
<1> HIDE DEF room, tail
<1>7. copied \in Nat /\ copied <= room /\ copied <= Len(tokens)
  BY <1>5
<1> HIDE DEF copied
<1>8. rest \in Seq(Tok) /\ Len(rest) = Len(tokens) - copied
  BY <1>7
<1> HIDE DEF rest
<1>9. size \in Nat /\ size > 0 /\ size >= Len(rest)
  <2> DEFINE k == IF Len(rest) < Chunk THEN Chunk ELSE Len(rest)
  <2>1. k \in Nat /\ k > 0 /\ k >= Len(rest) /\ Len(rest) \in Nat
    BY <1>8, Constants
  <2> HIDE DEF k
  <2>2. Usable(k) \in Nat /\ Usable(k) >= k
    BY <2>1, UsableFits, Zenon
  <2>3. size = Usable(k)
    BY Zenon DEF k
  <2> QED
    BY <2>1, <2>2, <2>3
<1> HIDE DEF size
<1>10. /\ filled \in Seq(BlockType) /\ Len(filled) = n
       /\ \A i \in 1..n : Sound(filled[i]) /\ filled[i].null = cl.list[i].null
                          /\ filled[i].size = cl.list[i].size
  <2>1. CASE copied = 0
    BY <1>2, <2>1, Zenon
  <2>2. CASE copied # 0
    <3> DEFINE more == SubSeq(tokens, 1, copied)
               b == [tail EXCEPT !.tokens = @ \o more]
    <3>1. n # 0 /\ room # 0 /\ tail.size > 0 /\ ~tail.null /\ tail \in BlockType
      BY <1>3, <1>5, <1>7, <2>2
    <3>2. more \in Seq(Tok) /\ Len(more) = copied
      BY <1>7
    <3> HIDE DEF more
    <3>3. b.null = tail.null /\ b.size = tail.size /\ b.tokens = tail.tokens \o more /\ b \in BlockType
      <4>1. tail.tokens \o more \in Seq(Tok)
        BY <1>3, <3>1, <3>2
      <4> QED
        BY <3>1, <4>1, WithTokens, Zenon
    <3>4. Len(tail.tokens \o more) = Len(tail.tokens) + copied
      BY <1>3, <3>1, <3>2, Concat, Zenon
    <3>5. Len(b.tokens) <= b.size /\ Len(b.tokens) > 0
      BY <1>3, <1>5, <1>6, <1>7, <2>2, <3>1, <3>3, <3>4
    <3>6. Sound(b)
      BY <3>1, <3>3, <3>5 DEF Sound
    <3>7. filled = [cl.list EXCEPT ![n] = b]
      BY <2>2, Zenon DEF tail, more
    <3> HIDE DEF b, filled
    <3>8. n \in 1..n
      BY <1>2, <3>1
    <3>9. filled \in Seq(BlockType) /\ Len(filled) = n
          /\ \A i \in 1..n : filled[i] = IF i = n THEN b ELSE cl.list[i]
      <4>1. cl.list \in Seq(BlockType) /\ n \in 1..Len(cl.list) /\ b \in BlockType
        BY <1>2, <3>3, <3>8, Zenon
      <4> QED
        BY ONLY <3>7, <4>1, SetAt
    <3> QED
      BY <1>2, <3>3, <3>6, <3>8, <3>9, Zenon DEF tail
  <2> QED
    BY <2>1, <2>2, Zenon
<1>11. Bytes(filled) = Bytes(cl.list)
  BY <1>2, <1>10, BytesSame, Zenon
<1>12. copied = 0 => filled = cl.list
  OBVIOUS
<1> HIDE DEF filled
<1>13. CASE rest = <<>>
  <2>1. e = [cl EXCEPT !.list = filled]
    BY <1>13, Zenon
  <2> HIDE DEF e
  <2>2. /\ e \in ClientType /\ e.buf = cl.buf /\ e.list = filled /\ e.reply_bytes = cl.reply_bytes
        /\ e.flags = cl.flags
    <3>1. cl \in ClientType /\ filled \in Seq(BlockType)
      BY <1>2, <1>10, Zenon
    <3>2. IsClient([cl EXCEPT !.list = filled], cl.buf, filled, cl.reply_bytes, cl.flags)
      BY ONLY <3>1, WithList, Zenon
    <3>3. IsClient(e, cl.buf, filled, cl.reply_bytes, cl.flags)
      BY ONLY <2>1, <3>2, Zenon
    <3> QED
      BY <3>3, Zenon DEF IsClient, IsIn
  <2>3. BufferInv(e)
    BY <1>2, <1>10, <1>11, <2>2, Zenon DEF BufferInv
  <2>4. Nulls(e) = N
    BY <1>10, <2>2, Zenon DEF Reached, Nulls
  <2>5. CASE e.reply_bytes # 0
    <3>1. e.flags = cl.flags
      BY <2>2, Zenon
    <3>2. Reached(old, CheckLimits(e), N)
      BY ONLY Reached(old, cl, N), limit \in LimitType, now \in Nat, <2>3, <2>4, <2>5, <3>1,
              StepReached, Zenon
    <3> QED
      BY <1>1, <3>2, Zenon
  <2>6. CASE e.reply_bytes = 0
    <3>1. copied = 0
      <4> SUFFICES ASSUME copied # 0 PROVE FALSE
        OBVIOUS
      <4>1. n # 0 /\ tail.size > 0 /\ tail.size \in Nat
        BY <1>3, <1>5, <1>7
      <4>2. n \in 1..n
        BY <1>2, <4>1
      <4>3. Bytes(cl.list) >= tail.size
        BY <1>2, <4>2, BytesAtLeast, Zenon DEF tail
      <4> QED
        BY <1>2, <2>2, <2>6, <4>1, <4>3
    <3>2. e = cl
      <4>1. e = [cl EXCEPT !.list = cl.list]
        BY <1>12, <2>1, <3>1, Zenon
      <4> QED
        BY <1>2, <4>1, SameList, Zenon
    <3>3. CheckLimits(cl) = cl
      BY <1>2, <2>2, <2>6, LimitsChecked, Zenon
    <3> QED
      BY <1>1, <3>2, <3>3, Zenon
  <2> QED
    BY <2>5, <2>6
<1>14. CASE rest # <<>>
  <2> DEFINE b == Block(size, rest)
  <2>1. e = [cl EXCEPT !.list = Append(filled, b), !.reply_bytes = cl.reply_bytes + size]
    BY <1>14, Zenon
  <2>2. b \in BlockType /\ b.size = size /\ ~b.null /\ Sound(b)
    BY <1>8, <1>9, <1>14, BlockIs, Zenon
  <2> HIDE DEF e, b
  <2>3. Append(filled, b) \in Seq(BlockType) /\ cl.reply_bytes + size \in Nat
    BY <1>2, <1>9, <1>10, <2>2
  <2>4. /\ e \in ClientType /\ e.buf = cl.buf /\ e.list = Append(filled, b)
        /\ e.reply_bytes = cl.reply_bytes + size /\ e.flags = cl.flags
    <3> DEFINE list == Append(filled, b)
               bytes == cl.reply_bytes + size
    <3>1. cl \in ClientType /\ list \in Seq(BlockType) /\ bytes \in Nat
          /\ e = [cl EXCEPT !.list = list, !.reply_bytes = bytes]
      BY <1>2, <2>1, <2>3, Zenon
    <3> HIDE DEF list, bytes
    <3>2. IsClient([cl EXCEPT !.list = list, !.reply_bytes = bytes], cl.buf, list, bytes, cl.flags)
      BY ONLY <3>1, WithListBytes, Zenon
    <3>3. IsClient(e, cl.buf, list, bytes, cl.flags)
      BY ONLY <3>1, <3>2, Zenon
    <3> QED
      BY <3>3, Zenon DEF IsClient, IsIn, list, bytes
  <2>5. Bytes(e.list) = e.reply_bytes
    BY <1>2, <1>10, <1>11, <2>2, <2>4, BytesAppend, Zenon
  <2>6. Len(e.list) = n + 1 /\ \A i \in 1..(n + 1) : e.list[i] = IF i = n + 1 THEN b ELSE filled[i]
    BY <1>2, <1>10, <2>2, <2>4
  <2>7. (\A i \in 1..(n + 1) : i \in 1..n \/ i = n + 1) /\ n + 1 \notin 1..n
        /\ \A i \in 1..n : i \in 1..(n + 1)
    BY <1>2
  <2>8. BufferInv(e)
    BY <1>10, <2>2, <2>4, <2>5, <2>6, <2>7, Zenon DEF BufferInv
  <2>9. Nulls(e) = N
    <3>1. \A i \in 1..(n + 1) : e.list[i].null <=> i \in 1..n /\ cl.list[i].null
      BY <1>10, <2>2, <2>6, <2>7, Zenon
    <3>2. Nulls(e) = {i \in 1..(n + 1) : e.list[i].null} /\ N = {i \in 1..n : cl.list[i].null}
      BY <2>6, Zenon DEF Reached, Nulls
    <3> QED
      BY <2>7, <3>1, <3>2, Zenon
  <2>10. e.reply_bytes # 0
    BY <1>2, <1>9, <2>4
  <2> QED
    <3>1. e.flags = cl.flags
      BY <2>4, Zenon
    <3>2. Reached(old, CheckLimits(e), N)
      BY ONLY Reached(old, cl, N), limit \in LimitType, now \in Nat, <2>8, <2>9, <2>10, <3>1,
              StepReached, Zenon
    <3> QED
      BY <1>1, <3>2, Zenon
<1> QED
  BY <1>13, <1>14

LEMMA ProtoReached ==
    ASSUME NEW old, NEW cl, NEW N, NEW tokens \in Seq(Tok), limit \in LimitType, now \in Nat,
           Reached(old, cl, N)
    PROVE  Reached(old, addReplyProto(cl, tokens), N)
<1> DEFINE d == addReplyProto(cl, tokens)
<1>1. CASE ~MayWrite(cl) \/ "CLOSE_AFTER_REPLY" \in cl.flags
  BY <1>1, Zenon DEF addReplyProto
<1>2. CASE ~(~MayWrite(cl) \/ "CLOSE_AFTER_REPLY" \in cl.flags)
  <2>1. CASE cl.list = <<>> /\ Len(cl.buf) + Len(tokens) <= BufSize
    <3>1. d = [cl EXCEPT !.buf = @ \o tokens]
      BY <1>2, <2>1, Zenon DEF addReplyProto
    <3> HIDE DEF d
    <3>2. cl \in ClientType /\ cl.buf \in Seq(Tok)
      BY ClientFields, Zenon DEF Reached, BufferInv
    <3>3. d \in ClientType /\ d.list = cl.list /\ d.reply_bytes = cl.reply_bytes /\ d.flags = cl.flags
      <4> DEFINE buf == cl.buf \o tokens
      <4>1. buf \in Seq(Tok)
        BY <3>2, Concat, Zenon
      <4>2. d = [cl EXCEPT !.buf = buf]
        BY <3>1, Zenon
      <4> HIDE DEF buf
      <4>3. IsClient([cl EXCEPT !.buf = buf], buf, cl.list, cl.reply_bytes, cl.flags)
        BY ONLY <3>2, <4>1, WithBuf, Zenon
      <4>4. IsClient(d, buf, cl.list, cl.reply_bytes, cl.flags)
        BY ONLY <4>2, <4>3, Zenon
      <4> QED
        BY <4>4, Zenon DEF IsClient, IsIn
    <3>4. BufferInv(d) /\ Nulls(d) = N
      BY <3>3, Zenon DEF Reached, BufferInv, Nulls
    <3>5. (MayWrite(d) <=> MayWrite(old)) /\ ("MODULE" \in d.flags <=> "MODULE" \in old.flags)
      BY <3>3, Zenon DEF Reached, MayWrite
    <3>6. LimitInv(old, d)
      <4>1. Len(d.list) = 0 /\ d.reply_bytes = 0
        <5>1. d.list = <<>> /\ d.reply_bytes = 0
          BY <2>1, <3>3, BytesEmpty, Zenon DEF Reached, BufferInv
        <5> QED
          BY <5>1
      <4>2. ItemSize * 0 = 0
        BY Constants
      <4>3. limit.hard # 0 => Within(d, 0)
        BY <4>1, <4>2 DEF Within, LimitType
      <4>4. 0 \in 0..Len(d.list) /\ \A i \in (0 + 1)..Len(d.list) : d.list[i].null
        BY <4>1
      <4> QED
        BY <4>3, <4>4, Zenon DEF LimitInv
    <3> QED
      BY <3>4, <3>5, <3>6, Zenon DEF Reached, d
  <2>2. CASE ~(cl.list = <<>> /\ Len(cl.buf) + Len(tokens) <= BufSize)
    <3>1. d = _addReplyProtoToList(cl, tokens)
      BY <1>2, <2>2, Zenon DEF addReplyProto
    <3>2. Reached(old, _addReplyProtoToList(cl, tokens), N)
      BY ONLY tokens \in Seq(Tok), limit \in LimitType, now \in Nat, Reached(old, cl, N),
              ListReached, Zenon
    <3> QED
      BY <3>1, <3>2, Zenon
  <2> QED
    BY <2>1, <2>2, Zenon
<1> QED
  BY <1>1, <1>2, Zenon

\* A placeholder is added at the end.
LEMMA DeferReached ==
    ASSUME NEW old, NEW cl, NEW N, limit \in LimitType, Reached(old, cl, N), MayWrite(old)
    PROVE  Reached(old, addReplyDeferredLen(cl), N \cup {Len(cl.list) + 1})
<1> DEFINE n == Len(cl.list)
           d == addReplyDeferredLen(cl)
<1>1. d = [cl EXCEPT !.list = Append(@, Placeholder)]
  BY Zenon DEF addReplyDeferredLen, Reached
<1>2. cl \in ClientType /\ cl.list \in Seq(BlockType) /\ n \in Nat /\ cl.reply_bytes \in Nat
  BY ClientFields, ListFields, Zenon DEF Reached, BufferInv
<1>3. Placeholder \in BlockType /\ Placeholder.size = 0 /\ Placeholder.null /\ Sound(Placeholder)
  <2>1. 0 \in Nat /\ <<>> \in Seq(Tok)
    OBVIOUS
  <2>2. Placeholder \in BlockType
    BY <2>1, Zenon DEF Placeholder, BlockType
  <2>3. Placeholder.size = 0 /\ Placeholder.null = TRUE /\ Placeholder.tokens = <<>>
    BY Zenon DEF Placeholder
  <2> QED
    BY <2>2, <2>3, Zenon DEF Sound
<1> HIDE DEF d
<1>4. d \in ClientType /\ d.list = Append(cl.list, Placeholder) /\ d.reply_bytes = cl.reply_bytes
      /\ d.flags = cl.flags /\ d.buf = cl.buf
  <2> DEFINE list == Append(cl.list, Placeholder)
  <2>1. list \in Seq(BlockType)
    BY <1>2, <1>3
  <2>2. d = [cl EXCEPT !.list = list]
    BY <1>1, Zenon
  <2> HIDE DEF list
  <2>3. IsClient([cl EXCEPT !.list = list], cl.buf, list, cl.reply_bytes, cl.flags)
    BY ONLY <1>2, <2>1, WithList, Zenon
  <2>4. IsClient(d, cl.buf, list, cl.reply_bytes, cl.flags)
    BY ONLY <2>2, <2>3, Zenon
  <2> QED
    BY <2>4, Zenon DEF IsClient, IsIn, list
<1>5. Len(d.list) = n + 1
      /\ \A i \in 1..(n + 1) : d.list[i] = IF i = n + 1 THEN Placeholder ELSE cl.list[i]
  BY <1>2, <1>3, <1>4
<1>6. (\A i \in 1..(n + 1) : i \in 1..n \/ i = n + 1) /\ n + 1 \in 1..(n + 1) /\ n + 1 \notin 1..n
      /\ \A i \in 1..n : i \in 1..(n + 1)
  BY <1>2
<1>7. BufferInv(d)
  <2>1. Bytes(d.list) = Bytes(cl.list) + Placeholder.size
    BY <1>2, <1>3, <1>4, BytesAppend, Zenon
  <2>2. cl.reply_bytes = Bytes(cl.list)
    BY Zenon DEF Reached, BufferInv
  <2>3. d.reply_bytes = Bytes(d.list)
    BY <1>2, <1>3, <1>4, <2>1, <2>2
  <2>4. \A i \in 1..Len(d.list) : Sound(d.list[i])
    BY <1>3, <1>5, <1>6, Zenon DEF Reached, BufferInv
  <2> QED
    BY <1>4, <2>3, <2>4, Zenon DEF BufferInv
<1>8. Nulls(d) = N \cup {n + 1}
  <2>1. N = {i \in 1..n : cl.list[i].null}
    BY Zenon DEF Reached, Nulls
  <2>2. Nulls(d) = {i \in 1..(n + 1) : d.list[i].null}
    BY <1>5, Zenon DEF Nulls
  <2>3. \A i \in 1..(n + 1) : d.list[i].null <=> i = n + 1 \/ (i \in 1..n /\ cl.list[i].null)
    BY <1>3, <1>5, <1>6, Zenon
  <2> QED
    BY <1>6, <2>1, <2>2, <2>3, Zenon
<1>9. LimitInv(old, d)
  <2>1. CASE limit.hard = 0 \/ {"CLOSE_ASAP", "MODULE"} \cap cl.flags # {}
    BY <1>4, <2>1, Zenon DEF LimitInv
  <2>2. CASE ~(limit.hard = 0 \/ {"CLOSE_ASAP", "MODULE"} \cap cl.flags # {})
    <3>1. PICK m \in 0..n : /\ \A i \in (m + 1)..n : cl.list[i].null
                            /\ Within(cl, m) \/ SameAs(cl, old, m)
      BY <2>2, Zenon DEF Reached, LimitInv
    <3>2. m \in 0..Len(d.list) /\ m <= n
      BY <1>2, <1>5
    <3>3. ASSUME NEW i \in (m + 1)..Len(d.list)
          PROVE  d.list[i].null
      <4>1. i \in 1..(n + 1) /\ (i # n + 1 => i \in (m + 1)..n)
        BY <1>2, <1>5, <3>2
      <4> QED
        BY <1>3, <1>5, <3>1, <4>1, Zenon
    <3>4. Within(cl, m) => Within(d, m)
      BY <1>4, Zenon DEF Within
    <3>5. \A i \in 1..m : d.list[i] = cl.list[i]
      <4>1. \A i \in 1..m : i \in 1..(n + 1) /\ i # n + 1
        BY <1>2, <3>2
      <4> QED
        BY <1>5, <4>1, Zenon
    <3>6. SameAs(cl, old, m) => SameAs(d, old, m)
      BY <1>4, <3>5, Zenon DEF SameAs
    <3> QED
      BY <3>1, <3>2, <3>3, <3>4, <3>6, Zenon DEF LimitInv
  <2> QED
    BY <2>1, <2>2
<1>10. (MayWrite(d) <=> MayWrite(old)) /\ ("MODULE" \in d.flags <=> "MODULE" \in old.flags)
  BY <1>4, Zenon DEF Reached, MayWrite
<1> QED
  BY <1>7, <1>8, <1>9, <1>10, Zenon DEF Reached, d

\* The last of some places in a list.
LEMMA MaxIsLast ==
    ASSUME NEW n \in Nat, NEW N \in SUBSET (1..n), N # {}
    PROVE  Max(N) \in N /\ \A i \in N : i <= Max(N)
<1>1. \E x \in N : \A y \in N : y <= x
  <2> SUFFICES ASSUME \A x \in N : \E y \in N : ~(y <= x) PROVE FALSE
    OBVIOUS
  <2> DEFINE U == {k \in Nat : \E x \in N : x >= k}
  <2>1. 0 \in U
    <3>1. PICK x \in N : TRUE
      BY Zenon
    <3>2. x \in 1..n
      OBVIOUS
    <3>3. 0 \in Nat /\ x >= 0
      BY <3>2
    <3> QED
      BY <3>1, <3>3
  <2>2. \A k \in 1..(n + 1) : k - 1 \in U => k \in U
    <3> SUFFICES ASSUME NEW k \in 1..(n + 1), k - 1 \in U PROVE k \in U
      OBVIOUS
    <3>1. PICK x \in N : x >= k - 1
      OBVIOUS
    <3>2. PICK y \in N : ~(y <= x)
      OBVIOUS
    <3>3. x \in 1..n /\ y \in 1..n
      OBVIOUS
    <3>4. y >= k
      BY <3>1, <3>2, <3>3
    <3> QED
      BY <3>4
  <2> HIDE DEF U
  <2>3. n + 1 \in U
    BY <2>1, <2>2, Climb
  <2>4. PICK x \in N : x >= n + 1
    BY <2>3 DEF U
  <2>5. x \in 1..n
    OBVIOUS
  <2> QED
    BY <2>4, <2>5
<1>2. PICK x \in N : \A y \in N : x >= y
  <2>1. PICK x \in N : \A y \in N : y <= x
    BY <1>1
  <2>2. N \subseteq Int
    OBVIOUS
  <2> QED
    BY <2>1, <2>2
<1>3. Max(N) \in N /\ \A y \in N : Max(N) >= y
  BY <1>2, Zenon DEF Max
<1>4. N \subseteq Int
  OBVIOUS
<1> QED
  BY <1>3, <1>4

\* The last placeholder gets its length.
LEMMA SetLenReached ==
    ASSUME NEW old, NEW cl, NEW N, NEW tokens \in Seq(Tok), tokens # <<>>,
           limit \in LimitType, now \in Nat, Reached(old, cl, N)
    PROVE  /\ N = {} => setDeferredAggregateLen(cl, tokens) = cl
           /\ N # {} => Reached(old, setDeferredAggregateLen(cl, tokens), N \ {Max(N)})
<1> DEFINE n == Len(cl.list)
           node == Max(N)
           next == cl.list[node + 1]
           glue == /\ node < n
                   /\ next.size - Len(next.tokens) >= Len(tokens)
                   /\ Len(next.tokens) < GlueMax
           moved == [next EXCEPT !.tokens = tokens \o @]
           glued == SubSeq(cl.list, 1, node - 1) \o <<moved>> \o SubSeq(cl.list, node + 2, n)
           size == Usable(Len(tokens))
           b == Block(size, tokens)
           e == IF glue THEN [cl EXCEPT !.list = glued]
                ELSE [cl EXCEPT !.list[node] = b, !.reply_bytes = @ + size]
<1>1. /\ cl \in ClientType /\ cl.list \in Seq(BlockType) /\ n \in Nat /\ cl.reply_bytes \in Nat
      /\ \A i \in 1..n : cl.list[i] \in BlockType /\ Sound(cl.list[i])
      /\ cl.reply_bytes = Bytes(cl.list)
  BY ClientFields, ListFields, Zenon DEF Reached, BufferInv
<1>2. N = {i \in DOMAIN cl.list : cl.list[i].null} /\ N = {i \in 1..n : cl.list[i].null}
  <2>1. DOMAIN cl.list = 1..n
    BY ONLY <1>1
  <2> QED
    BY <2>1, Zenon DEF Reached, Nulls
<1>3. N = {} => setDeferredAggregateLen(cl, tokens) = cl
  BY <1>2, Zenon DEF setDeferredAggregateLen
<1>4. SUFFICES ASSUME N # {}
               PROVE  Reached(old, setDeferredAggregateLen(cl, tokens), N \ {node})
  BY <1>3, Zenon
<1>5. setDeferredAggregateLen(cl, tokens) = CheckLimits(e)
  BY <1>2, <1>4, Zenon DEF setDeferredAggregateLen
<1>6. node \in N /\ \A i \in N : i <= node
  <2>1. N \in SUBSET (1..n)
    BY <1>2, Zenon
  <2> QED
    BY ONLY <1>1, <1>4, <2>1, MaxIsLast, Zenon
<1> HIDE DEF node
<1>7. node \in 1..n /\ cl.list[node].null /\ \A i \in 1..n : i > node => ~cl.list[i].null
  <2>1. node \in 1..n /\ cl.list[node].null
    BY <1>2, <1>6, Zenon
  <2>2. \A i \in 1..n : i > node => ~(i <= node)
    BY ONLY <1>1, <2>1
  <2> QED
    BY <1>2, <1>6, <2>1, <2>2, Zenon
<1>8. cl.list[node].size = 0
  BY <1>1, <1>7, Zenon DEF Sound
<1>9. /\ (MayWrite(cl) <=> MayWrite(old))
      /\ ("MODULE" \in cl.flags <=> "MODULE" \in old.flags)
  BY Zenon DEF Reached
<1>10. Len(tokens) \in Nat /\ Len(tokens) > 0
  BY ONLY tokens \in Seq(Tok), tokens # <<>>
<1>11. ASSUME BufferInv(e), Nulls(e) = N \ {node}, e.flags = cl.flags, e.reply_bytes # 0
       PROVE  Reached(old, CheckLimits(e), N \ {node})
  <2> HIDE DEF e
  <2>1. MayWrite(e) <=> MayWrite(old)
    BY <1>9, <1>11, Zenon DEF MayWrite
  <2>2. "MODULE" \in e.flags <=> "MODULE" \in old.flags
    BY <1>9, <1>11, Zenon
  <2> DEFINE M == N \ {node}
  <2>3. Nulls(e) = M
    BY <1>11
  <2> HIDE DEF M
  <2>4. Reached(old, CheckLimits(e), M)
    BY ONLY limit \in LimitType, now \in Nat, BufferInv(e), e.reply_bytes # 0, <1>11, <2>1, <2>2,
            <2>3, CheckReached, Zenon
  <2> QED
    BY <2>4, Zenon DEF M
<1>12. CASE glue
  <2>1. node + 1 \in 1..n /\ next \in BlockType /\ Sound(next) /\ ~next.null
    <3>1. node < n
      BY <1>12, Zenon
    <3>2. node + 1 \in 1..n /\ node + 1 > node
      BY ONLY <1>1, <1>7, <3>1
    <3> QED
      BY <1>1, <1>7, <3>2, Zenon
  <2> DEFINE joined == tokens \o next.tokens
  <2>2. next.size \in Nat /\ next.tokens \in Seq(Tok) /\ Len(next.tokens) \in Nat /\ next.size > 0
        /\ next.tokens # <<>>
    BY <2>1, BlockFields, Zenon DEF Sound
  <2>3. next.size - Len(next.tokens) >= Len(tokens)
    BY <1>12, Zenon
  <2>4. joined \in Seq(Tok) /\ Len(joined) = Len(tokens) + Len(next.tokens)
    BY <2>2, Concat, Zenon
  <2>5. Len(joined) <= next.size /\ Len(joined) > 0
    <3>1. \A i, j, k, m \in Int : m - j >= i /\ k = i + j /\ i > 0 /\ j >= 0 => k <= m /\ k > 0
      OBVIOUS
    <3>2. /\ Len(next.tokens) \in Int /\ Len(next.tokens) >= 0 /\ next.size \in Int
          /\ Len(tokens) \in Int
      BY ONLY <1>10, <2>2
    <3>3. Len(joined) \in Int
      BY ONLY <2>4, <3>2
    <3> HIDE DEF next, joined
    <3> QED
      BY ONLY <1>10, <2>3, <2>4, <3>1, <3>2, <3>3, Zenon
  <2>6. moved \in BlockType /\ moved.size = next.size /\ moved.null = next.null
        /\ moved.tokens = joined
    <3>1. moved = [next EXCEPT !.tokens = joined]
      BY Zenon
    <3> HIDE DEF next, joined, moved
    <3>2. /\ [next EXCEPT !.tokens = joined] \in BlockType
          /\ [next EXCEPT !.tokens = joined].null = next.null
          /\ [next EXCEPT !.tokens = joined].size = next.size
          /\ [next EXCEPT !.tokens = joined].tokens = joined
      BY ONLY <2>1, <2>4, WithTokens, Zenon
    <3> QED
      BY ONLY <3>1, <3>2, Zenon
  <2> HIDE DEF joined
  <2>7. Sound(moved)
    <3>1. joined # <<>>
      BY ONLY <2>4, <2>5
    <3> QED
      BY <2>1, <2>2, <2>5, <2>6, <3>1, Zenon DEF Sound
  <2> HIDE DEF next, moved
  <2>8. node + 1 <= n
    BY ONLY <1>1, <1>7, <2>1
  <2>9. /\ glued \in Seq(BlockType) /\ Len(glued) = n - 1 /\ glued[node] = moved
        /\ \A i \in 1..(node - 1) : glued[i] = cl.list[i]
        /\ \A i \in (node + 1)..(n - 1) : glued[i] = cl.list[i + 1]
    <3>1. IsJoined(Joined(cl.list, node, moved), BlockType, cl.list, node, moved)
      BY ONLY <1>1, <1>7, <2>6, <2>8, TwoForOne, Zenon
    <3>2. glued = Joined(cl.list, node, moved)
      BY Zenon DEF Joined
    <3> HIDE DEF glued
    <3>3. IsJoined(glued, BlockType, cl.list, node, moved)
      BY ONLY <3>1, <3>2, Zenon
    <3> QED
      BY <3>3, Zenon DEF IsJoined
  <2> HIDE DEF glued
  <2>12. glued \in Seq(BlockType) /\ Len(glued) = n - 1
    BY <2>9, Zenon
  <2>13. glued[node] = moved /\ \A i \in 1..(node - 1) : glued[i] = cl.list[i]
    BY <2>9, Zenon
  <2>14. \A i \in (node + 1)..(n - 1) : glued[i] = cl.list[i + 1]
    BY <2>9, Zenon
  <2>15. \A i \in 1..(n - 1) : i \in 1..(node - 1) \/ i = node \/ i \in (node + 1)..(n - 1)
    BY ONLY <1>1, <1>7
  <2>16. e = [cl EXCEPT !.list = glued]
    BY <1>12, Zenon
  <2> HIDE DEF e, glue
  <2>17. e \in ClientType /\ e.list = glued /\ e.reply_bytes = cl.reply_bytes /\ e.flags = cl.flags
    <3>1. IsClient([cl EXCEPT !.list = glued], cl.buf, glued, cl.reply_bytes, cl.flags)
      BY ONLY <1>1, <2>12, WithList, Zenon
    <3>2. IsClient(e, cl.buf, glued, cl.reply_bytes, cl.flags)
      BY ONLY <2>16, <3>1, Zenon
    <3> QED
      BY <3>2, Zenon DEF IsClient, IsIn
  <2>18. Bytes(glued) = Bytes(cl.list)
    <3>1. \A i \in 1..(node - 1) : glued[i].size = cl.list[i].size
      BY <2>13, Zenon
    <3>2. \A i \in node..Len(glued) : i = node \/ i \in (node + 1)..(n - 1)
      BY ONLY <1>1, <1>7, <2>12
    <3>3. \A i \in node..Len(glued) : glued[i].size = cl.list[i + 1].size
      BY <2>6, <2>13, <2>14, <3>2, Zenon DEF next
    <3>4. Len(glued) = Len(cl.list) - 1 /\ node \in 1..Len(cl.list)
      BY <1>7, <2>12, Zenon
    <3> QED
      BY ONLY <1>1, <1>8, <2>12, <3>1, <3>3, <3>4, BytesRemove, Zenon
  <2>19. \A i \in 1..(n - 1) : Sound(glued[i])
    <3>1. \A i \in 1..(node - 1) : i \in 1..n
      BY ONLY <1>1, <1>7
    <3>2. \A i \in (node + 1)..(n - 1) : i + 1 \in 1..n
      BY ONLY <1>1, <1>7
    <3> QED
      BY <1>1, <2>7, <2>13, <2>14, <2>15, <3>1, <3>2, Zenon
  <2>20. BufferInv(e)
    BY <1>1, <2>12, <2>17, <2>18, <2>19, Zenon DEF BufferInv
  <2>21. Nulls(e) = N \ {node}
    <3>1. ASSUME NEW i \in 1..(n - 1)
          PROVE  glued[i].null <=> i < node /\ cl.list[i].null
      <4>1. CASE i \in 1..(node - 1)
        <5>1. i < node
          BY ONLY <1>1, <1>7, <4>1
        <5> QED
          BY <2>13, <4>1, <5>1, Zenon
      <4>2. CASE i = node
        <5>1. ~(i < node)
          BY ONLY <1>1, <1>7, <4>2
        <5> QED
          BY <2>1, <2>6, <2>13, <4>2, <5>1, Zenon
      <4>3. CASE i \in (node + 1)..(n - 1)
        <5>1. i + 1 \in 1..n /\ i + 1 > node /\ ~(i < node)
          BY ONLY <1>1, <1>7, <4>3
        <5> QED
          BY <1>7, <2>14, <4>3, <5>1, Zenon
      <4> QED
        BY <2>15, <4>1, <4>2, <4>3, Zenon
    <3>2. Nulls(e) = {i \in 1..(n - 1) : i < node /\ cl.list[i].null}
      BY <2>12, <2>17, <3>1, Zenon DEF Nulls
    <3>3. \A i \in 1..n : cl.list[i].null => i <= node
      BY <1>2, <1>6, Zenon
    <3>4. /\ \A i \in 1..(n - 1) : i \in 1..n /\ (i < node => i # node)
          /\ \A i \in 1..n : i <= node /\ i # node => i \in 1..(n - 1) /\ i < node
      BY ONLY <1>1, <1>7
    <3> QED
      BY <1>2, <3>2, <3>3, <3>4, Zenon
  <2>23. e.reply_bytes # 0
    <3>1. Bytes(cl.list) >= next.size
      BY <1>1, <2>1, BytesAtLeast, Zenon DEF next
    <3> QED
      BY ONLY <1>1, <2>2, <2>17, <3>1
  <2> QED
    BY <1>5, <1>11, <2>17, <2>20, <2>21, <2>23, Zenon
<1>13. CASE ~glue
  <2>1. size \in Nat /\ size >= Len(tokens) /\ size > 0
    <3>1. size \in Nat /\ size >= Len(tokens)
      BY <1>10, UsableFits, Zenon
    <3> HIDE DEF size
    <3> QED
      BY ONLY <1>10, <3>1
  <2> HIDE DEF size
  <2>2. b \in BlockType /\ b.size = size /\ ~b.null /\ Sound(b)
    BY ONLY <2>1, tokens \in Seq(Tok), tokens # <<>>, BlockIs, Zenon DEF b
  <2> HIDE DEF b
  <2> DEFINE set == [cl.list EXCEPT ![node] = b]
             more == cl.reply_bytes + size
  <2>3. e = [cl EXCEPT !.list = set, !.reply_bytes = more]
    BY <1>13, Zenon
  <2>10. more \in Nat /\ more # 0
    BY ONLY <1>1, <2>1 DEF more
  <2> HIDE DEF e, glue
  <2>4. set \in Seq(BlockType) /\ Len(set) = n
        /\ \A i \in 1..n : set[i] = IF i = node THEN b ELSE cl.list[i]
    BY ONLY <1>1, <1>7, <2>2, SetAt DEF set
  <2> HIDE DEF set, more
  <2>5. e \in ClientType /\ e.list = set /\ e.reply_bytes = more /\ e.flags = cl.flags
    <3>1. IsClient([cl EXCEPT !.list = set, !.reply_bytes = more], cl.buf, set, more, cl.flags)
      BY ONLY <1>1, <2>4, <2>10, WithListBytes, Zenon
    <3>2. IsClient(e, cl.buf, set, more, cl.flags)
      BY ONLY <2>3, <3>1, Zenon
    <3> QED
      BY <3>2, Zenon DEF IsClient, IsIn
  <2>6. Bytes(set) = Bytes(cl.list) + set[node].size
    <3>1. Len(set) = Len(cl.list) /\ node \in 1..Len(cl.list)
          /\ \A i \in 1..Len(cl.list) : i # node => set[i].size = cl.list[i].size
      BY <1>7, <2>4, Zenon
    <3> QED
      BY ONLY <1>1, <1>8, <2>4, <3>1, BytesFill, Zenon
  <2>7. BufferInv(e)
    <3>1. e.reply_bytes = Bytes(e.list)
      BY <1>1, <1>7, <2>2, <2>4, <2>5, <2>6, Zenon DEF more
    <3> QED
      BY <1>1, <2>2, <2>4, <2>5, <3>1, Zenon DEF BufferInv
  <2>8. Nulls(e) = N \ {node}
    BY <1>2, <2>2, <2>4, <2>5, Zenon DEF Nulls
  <2> QED
    BY <1>5, <1>11, <2>5, <2>7, <2>8, <2>10, Zenon
<1> QED
  BY <1>12, <1>13, Zenon

-----------------------------------------------------------------------------
(* The addReply family.                                                    *)

\* An element of an aggregate, and a value.
ElementType == [type : Aggregates \cup Leaves, id : Int, elements : {<<>>}]
IsValue(v) ==
    /\ v.type \in Aggregates \cup Leaves /\ v.id \in Int
    /\ v.elements \in Seq(ElementType)

LEMMA LengthType ==
    ASSUME NEW v, IsValue(v) \/ v \in ElementType
    PROVE  Length(v) \in Int /\ v.type \in Aggregates \cup Leaves /\ v.id \in Int
<1>1. v.elements \in Seq(ElementType)
  <2>1. \A x \in {<<>>} : x \in Seq(ElementType)
    OBVIOUS
  <2>2. v \in ElementType => v.elements \in {<<>>}
    BY Zenon DEF ElementType
  <2> QED
    BY <2>1, <2>2, Zenon DEF IsValue
<1>2. Len(v.elements) \in Int /\ Len(v.elements) \div 2 \in Int
  BY ONLY <1>1
<1>3. v.type \in Aggregates \cup Leaves /\ v.id \in Int
  BY Zenon DEF IsValue, ElementType
<1> QED
  BY <1>2, <1>3, Zenon DEF Length

LEMMA TokenType ==
    ASSUME NEW t \in Marks, NEW n \in Int
    PROVE  Token(t, n) \in Tok /\ <<Token(t, n)>> \in Seq(Tok) /\ <<Token(t, n)>> # <<>>
<1>1. Token(t, n) \in Tok
  BY Zenon DEF Token, Tok
<1> QED
  BY ONLY <1>1

LEMMA EndType == End \in Tok /\ <<End>> \in Seq(Tok)
<1>1. End.t \in Marks /\ 0 \in Int
  BY DEF Marks
<1>2. End = Token(End.t, 0)
  BY Zenon DEF End, Token
<1>3. End \in Tok
  BY <1>1, <1>2, TokenType, Zenon
<1> QED
  BY ONLY <1>3

LEMMA HeaderType ==
    ASSUME NEW resp, NEW type \in Aggregates, NEW n \in Int
    PROVE  <<AggregateLen(resp, type, n)>> \in Seq(Tok) /\ <<AggregateLen(resp, type, n)>> # <<>>
<1>1. AggregateLen(resp, type, n) \in Tok
  <2>1. {"*", "%", "~", ">"} \subseteq Marks
    BY Zenon DEF Marks
  <2>2. 2 * n \in Int
    OBVIOUS
  <2>3. \A t \in {"*", "%", "~", ">"}, k \in Int : Token(t, k) \in Tok
    BY <2>1, TokenType, Zenon
  <2>4. \/ AggregateLen(resp, type, n) = Token("*", 2 * n)
        \/ \E t \in {"*", "%", "~", ">"} : AggregateLen(resp, type, n) = Token(t, n)
    BY DEF AggregateLen, Aggregates
  <2> QED
    BY <2>2, <2>3, <2>4, Zenon
<1> QED
  BY ONLY <1>1

LEMMA PartsReached ==
    ASSUME NEW old, NEW cl, NEW N, limit \in LimitType, now \in Nat, Reached(old, cl, N),
           NEW t \in Marks, NEW n \in Int, NEW id \in Int
    PROVE  Reached(old, addReplyParts(cl, Token(t, n), id), N)
<1> DEFINE c1 == addReplyProto(cl, <<Token(t, n)>>)
           c2 == addReplyProto(c1, <<Token("data", id)>>)
<1>1. <<Token(t, n)>> \in Seq(Tok) /\ <<Token("data", id)>> \in Seq(Tok) /\ <<End>> \in Seq(Tok)
  BY TokenType, EndType, Zenon DEF Marks
<1>2. Reached(old, c1, N)
  BY <1>1, ProtoReached, Zenon
<1> HIDE DEF c1
<1>3. Reached(old, c2, N)
  BY <1>1, <1>2, ProtoReached, Zenon
<1> HIDE DEF c2
<1>4. Reached(old, addReplyProto(c2, <<End>>), N)
  BY <1>1, <1>3, ProtoReached, Zenon
<1> QED
  BY <1>4, Zenon DEF addReplyParts, c1, c2

LEMMA LineReached ==
    ASSUME NEW old, NEW cl, NEW N, limit \in LimitType, now \in Nat, Reached(old, cl, N),
           NEW t \in Marks, NEW n \in Int, NEW id \in Int
    PROVE  Reached(old, addReplyProto(cl, <<Token(t, n), Token("data", id), End>>), N)
<1>1. Token(t, n) \in Tok /\ Token("data", id) \in Tok /\ End \in Tok
  BY TokenType, EndType, Zenon DEF Marks
<1>2. <<Token(t, n), Token("data", id), End>> \in Seq(Tok)
  BY ONLY <1>1
<1> QED
  BY <1>2, ProtoReached, Zenon

LEMMA OkReached ==
    ASSUME NEW old, NEW cl, NEW N, limit \in LimitType, now \in Nat, Reached(old, cl, N)
    PROVE  Reached(old, addReplyOk(cl), N)
<1>1. "+" \in Marks /\ 0 \in Int
  BY DEF Marks
<1> QED
  BY <1>1, LineReached, Zenon DEF addReplyOk

LEMMA LeafReached ==
    ASSUME NEW old, NEW cl, NEW N, limit \in LimitType, now \in Nat, Reached(old, cl, N),
           NEW v, v.type \in Leaves, v.id \in Int
    PROVE  Reached(old, addReplyLeaf(cl, v), N)
<1> DEFINE Good(d) == Reached(old, d, N)
<1>1. \A t \in Marks, n \in Int : Good(addReplyParts(cl, Token(t, n), v.id))
  BY PartsReached, Zenon
<1>2. \A t \in Marks, n \in Int : Good(addReplyProto(cl, <<Token(t, n), Token("data", v.id), End>>))
  BY LineReached, Zenon
<1>3. \A t \in Marks, n \in Int : Good(addReplyProto(cl, <<Token(t, n)>>))
  BY TokenType, ProtoReached, Zenon
<1>4. /\ {"+", "-", ":", "$", "*", "_", "#", ",", "="} \subseteq Marks
      /\ 0 \in Int /\ 1 \in Int /\ -1 \in Int
  BY DEF Marks
<1> HIDE DEF Good
<1>5. /\ Good(addReplyBulk(cl, v.id)) /\ Good(addReplyLongLong(cl, v.id))
      /\ Good(addReplyParts(cl, Token("+", 0), v.id)) /\ Good(addReplyParts(cl, Token("-", 0), v.id))
  BY <1>1, <1>3, <1>4, Zenon DEF addReplyBulk, addReplyLongLong
<1>6. Good(addReplyDouble(cl, v.id))
  <2> DEFINE t == IF cl.resp = 2 THEN "$" ELSE ","
  <2>1. t \in Marks
    BY <1>4, Zenon
  <2> HIDE DEF t
  <2> QED
    BY <1>2, <1>4, <2>1, Zenon DEF addReplyDouble, t
<1>7. Good(addReplyBool(cl, v.id))
  <2> DEFINE t == IF cl.resp = 2 THEN ":" ELSE "#"
  <2>1. t \in Marks
    BY <1>4, Zenon
  <2> HIDE DEF t
  <2> QED
    BY <1>3, <2>1, Zenon DEF addReplyBool, t
<1>8. Good(addReplyInfinity(cl, v.id))
  BY <1>5, <1>6, Zenon DEF addReplyInfinity
<1>9. Good(addReplyHumanLongDouble(cl, v.id))
  <2> DEFINE t == IF cl.resp = 2 THEN "$" ELSE ","
  <2>1. t \in Marks
    BY <1>4, Zenon
  <2> HIDE DEF t
  <2> QED
    BY <1>1, <1>4, <2>1, Zenon DEF addReplyHumanLongDouble, t
<1>10. Good(addReplyVerbatim(cl, v.id))
  <2> DEFINE t == IF cl.resp = 2 THEN "$" ELSE "="
  <2>1. t \in Marks
    BY <1>4, Zenon
  <2> HIDE DEF t
  <2> QED
    BY <1>1, <1>4, <2>1, Zenon DEF addReplyVerbatim, t
<1>11. Good(addReplyNull(cl, "$")) /\ Good(addReplyNull(cl, "*"))
  BY <1>3, <1>4, Zenon DEF addReplyNull
<1>12. Good(addReplyLeaf(cl, v))
  BY <1>5, <1>6, <1>7, <1>8, <1>9, <1>10, <1>11 DEF addReplyLeaf, Leaves
<1> QED
  BY <1>12, Zenon DEF Good

\* An aggregate is opened; whatever its elements do, closing it leaves no placeholder.
LEMMA OpenReached ==
    ASSUME NEW old, NEW cl, NEW N, limit \in LimitType, now \in Nat, Reached(old, cl, N),
           MayWrite(old) \/ N = {}, NEW v, v.type \in Aggregates, Length(v) \in Int,
           NEW deferred \in BOOLEAN
    PROVE  \E M : /\ Reached(old, Open(cl, v, deferred), M)
                  /\ MayWrite(old) \/ M = {}
                  /\ \A mid : Reached(old, mid, M) => Reached(old, Close(mid, v, deferred), N)
<1> DEFINE n == Len(cl.list)
           header(mid) == <<DeferredLen(mid.resp, v.type, Length(v))>>
<1>1. CASE ~deferred
  <2> DEFINE tokens == <<AggregateLen(cl.resp, v.type, Length(v))>>
  <2>1. tokens \in Seq(Tok)
    BY HeaderType, Zenon
  <2>2. Open(cl, v, deferred) = addReplyProto(cl, tokens)
    BY <1>1, Zenon DEF Open
  <2> HIDE DEF tokens
  <2>3. Reached(old, Open(cl, v, deferred), N)
    BY <2>1, <2>2, ProtoReached, Zenon
  <2>4. \A mid : Close(mid, v, deferred) = mid
    BY <1>1, Zenon DEF Close
  <2> QED
    BY <2>3, <2>4, Zenon
<1>2. \A mid : header(mid) \in Seq(Tok) /\ header(mid) # <<>>
  BY HeaderType, Zenon DEF DeferredLen
<1>3. deferred => \A mid : Close(mid, v, deferred) = setDeferredAggregateLen(mid, header(mid))
  BY Zenon DEF Close
<1> HIDE DEF header
<1>4. CASE deferred /\ MayWrite(old)
  <2> DEFINE M == N \cup {n + 1}
  <2>1. Reached(old, Open(cl, v, deferred), M)
    <3>1. Open(cl, v, deferred) = addReplyDeferredLen(cl)
      BY <1>4, Zenon DEF Open
    <3>2. MayWrite(cl)
      BY <1>4, Zenon DEF Reached
    <3>3. Reached(old, addReplyDeferredLen(cl), N \cup {Len(cl.list) + 1})
      BY ONLY limit \in LimitType, Reached(old, cl, N), <1>4, DeferReached, Zenon
    <3> QED
      BY <3>1, <3>3, Zenon
  <2>2. n \in Nat /\ N \subseteq 1..n
    BY ClientFields, ListFields, Zenon DEF Reached, BufferInv, Nulls
  <2>3. M \in SUBSET (1..(n + 1)) /\ M # {} /\ n + 1 \in M /\ n + 1 \in Nat
    <3>1. \A i \in 1..n : i \in 1..(n + 1)
      BY ONLY <2>2
    <3>2. n + 1 \in 1..(n + 1) /\ n + 1 \in Nat
      BY ONLY <2>2
    <3> QED
      BY <2>2, <3>1, <3>2, Zenon
  <2>4. Max(M) \in M /\ n + 1 <= Max(M)
    BY <2>3, MaxIsLast, Zenon
  <2>5. Max(M) = n + 1 /\ n + 1 \notin N
    <3>1. \A i \in 1..n : ~(n + 1 <= i) /\ i # n + 1
      BY ONLY <2>2
    <3> QED
      BY <2>2, <2>4, <3>1, Zenon
  <2>6. M \ {Max(M)} = N
    BY <2>5, Zenon
  <2> HIDE DEF M
  <2>7. ASSUME NEW mid, Reached(old, mid, M)
        PROVE  Reached(old, Close(mid, v, deferred), N)
    <3>1. Reached(old, setDeferredAggregateLen(mid, header(mid)), M \ {Max(M)})
      BY ONLY limit \in LimitType, now \in Nat, <1>2, <2>3, <2>7, SetLenReached, Zenon
    <3> QED
      BY <1>3, <1>4, <2>6, <3>1, Zenon
  <2> QED
    BY <1>4, <2>1, <2>7, Zenon
<1>5. CASE deferred /\ ~MayWrite(old)
  <2>1. ~MayWrite(cl) /\ N = {}
    BY <1>5, Zenon DEF Reached
  <2>2. Open(cl, v, deferred) = cl
    BY <1>5, <2>1, Zenon DEF Open, addReplyDeferredLen
  <2>3. ASSUME NEW mid, Reached(old, mid, {})
        PROVE  Reached(old, Close(mid, v, deferred), {})
    <3>1. setDeferredAggregateLen(mid, header(mid)) = mid
      BY ONLY limit \in LimitType, now \in Nat, <1>2, <2>3, SetLenReached, Zenon
    <3> QED
      BY <1>3, <1>5, <2>3, <3>1, Zenon
  <2> QED
    BY <2>1, <2>2, <2>3, Zenon
<1> QED
  BY <1>1, <1>4, <1>5, Zenon

LEMMA ElementReached ==
    ASSUME NEW old, NEW cl, NEW N, limit \in LimitType, now \in Nat, Reached(old, cl, N),
           MayWrite(old) \/ N = {}, NEW v \in ElementType, NEW deferred \in BOOLEAN
    PROVE  Reached(old, addReplyElement(cl, v, deferred), N)
<1>1. Length(v) \in Int /\ v.type \in Aggregates \cup Leaves /\ v.id \in Int
  BY LengthType, Zenon
<1>2. CASE v.type \in Aggregates
  <2>1. \E M : /\ Reached(old, Open(cl, v, deferred), M)
               /\ MayWrite(old) \/ M = {}
               /\ \A mid : Reached(old, mid, M) => Reached(old, Close(mid, v, deferred), N)
    BY ONLY limit \in LimitType, now \in Nat, Reached(old, cl, N), MayWrite(old) \/ N = {},
            deferred \in BOOLEAN, <1>1, <1>2, OpenReached, Zenon
  <2>2. Reached(old, Close(Open(cl, v, deferred), v, deferred), N)
    BY <2>1, Zenon
  <2> QED
    BY <1>2, <2>2, Zenon DEF addReplyElement
<1>3. CASE v.type \notin Aggregates
  <2>1. v.type \in Leaves
    BY <1>1, <1>3, Zenon
  <2> QED
    BY <1>1, <1>3, <2>1, LeafReached, Zenon DEF addReplyElement
<1> QED
  BY <1>2, <1>3, Zenon

LEMMA ElementsReached ==
    ASSUME NEW old, NEW cl, NEW N, limit \in LimitType, now \in Nat, Reached(old, cl, N),
           MayWrite(old) \/ N = {}, NEW elements \in Seq(ElementType), NEW deferred \in BOOLEAN
    PROVE  Reached(old, addReplyElements(cl, elements, deferred), N)
<1> DEFINE n == Len(elements)
           S == {x \in ClientType : Reached(old, x, N)}
           Step(x, i) == addReplyElement(x, elements[i], deferred)
           Is(h) == h = [i \in 0..n |-> IF i = 0 THEN cl ELSE Step(h[i - 1], i)]
           after == CHOOSE h : Is(h)
           F == [p \in (1..n) \X S |-> Step(p[2], p[1])]
           T == {i \in Nat : after[i] \in S}
<1>1. n \in Nat /\ \A i \in 1..n : elements[i] \in ElementType
  OBVIOUS
<1>2. cl \in S
  BY Zenon DEF Reached, BufferInv
<1>3. \A x \in S, i \in 1..n : Step(x, i) \in S
  <2> SUFFICES ASSUME NEW x \in S, NEW i \in 1..n PROVE Step(x, i) \in S
    OBVIOUS
  <2>1. Reached(old, Step(x, i), N)
    BY <1>1, ElementReached, Zenon
  <2> HIDE DEF Step
  <2> QED
    BY <2>1, Zenon DEF Reached, BufferInv
<1> HIDE DEF S, Step
<1>4. F \in [(1..n) \X S -> S] /\ \A i \in 1..n, x \in S : F[<<i, x>>] = Step(x, i)
  BY <1>3
<1> HIDE DEF F
<1>13. PICK g : IsRec(g, F, cl, n, S)
  BY <1>1, <1>2, <1>4, Recursion, Zenon
<1>5. g \in [0..n -> S] /\ g[0] = cl /\ \A i \in 1..n : g[i] = F[<<i, g[i - 1]>>]
  BY <1>13, Zenon DEF IsRec
<1>6. Is(g)
  <2>1. \A i \in 0..n : g[i] = IF i = 0 THEN cl ELSE Step(g[i - 1], i)
    <3> SUFFICES ASSUME NEW i \in 0..n PROVE g[i] = IF i = 0 THEN cl ELSE Step(g[i - 1], i)
      OBVIOUS
    <3>1. CASE i = 0
      BY <1>5, <3>1
    <3>2. CASE i # 0
      <4>1. i \in 1..n /\ i - 1 \in 0..n
        BY <1>1, <3>2
      <4> QED
        BY <1>4, <1>5, <3>2, <4>1, Zenon
    <3> QED
      BY <3>1, <3>2
  <2> QED
    BY <1>5, <2>1
<1>7. Is(after)
  BY <1>6, Zenon
<1>8. addReplyElements(cl, elements, deferred) = after[n]
  BY Zenon DEF addReplyElements, Step
<1> HIDE DEF after
<1>9. after[0] = cl /\ \A i \in 1..n : after[i] = Step(after[i - 1], i)
  BY <1>1, <1>7
<1>10. 0 \in T
  BY <1>2, <1>9
<1>11. \A i \in 1..n : i - 1 \in T => i \in T
  BY <1>1, <1>3, <1>9
<1> HIDE DEF T
<1>12. \A i \in 0..n : i \in T
  BY ONLY <1>1, <1>10, <1>11, Climb, Zenon
<1>14. n \in 0..n
  BY ONLY <1>1
<1> QED
  BY <1>8, <1>12, <1>14, Zenon DEF T, S

LEMMA ValueReached ==
    ASSUME NEW old, NEW cl, NEW N, limit \in LimitType, now \in Nat, Reached(old, cl, N),
           MayWrite(old) \/ N = {}, NEW v, IsValue(v), NEW deferred \in BOOLEAN
    PROVE  Reached(old, addReplyValue(cl, v, deferred), N)
<1>1. Length(v) \in Int /\ v.type \in Aggregates \cup Leaves /\ v.id \in Int
      /\ v.elements \in Seq(ElementType)
  BY LengthType, Zenon DEF IsValue
<1>2. CASE v.type \in Aggregates
  <2>1. PICK M : /\ Reached(old, Open(cl, v, deferred), M)
                 /\ MayWrite(old) \/ M = {}
                 /\ \A mid : Reached(old, mid, M) => Reached(old, Close(mid, v, deferred), N)
    BY ONLY limit \in LimitType, now \in Nat, Reached(old, cl, N), MayWrite(old) \/ N = {},
            deferred \in BOOLEAN, <1>1, <1>2, OpenReached, Zenon
  <2>2. Reached(old, addReplyElements(Open(cl, v, deferred), v.elements, deferred), M)
    BY <1>1, <2>1, ElementsReached, Zenon
  <2> QED
    BY <1>2, <2>1, <2>2, Zenon DEF addReplyValue
<1>3. CASE v.type \notin Aggregates
  <2>1. v.type \in Leaves
    BY <1>1, <1>3, Zenon
  <2> QED
    BY <1>1, <1>3, <2>1, LeafReached, Zenon DEF addReplyValue
<1> QED
  BY <1>2, <1>3, Zenon

-----------------------------------------------------------------------------
(* The steps.                                                              *)

\* A command starts with the client it finds.
LEMMA StartReached ==
    ASSUME NEW cl, BufferInv(cl), Nulls(cl) = {}
    PROVE  Reached(cl, cl, {})
<1>1. Len(cl.list) \in Nat
  BY ClientFields, ListFields, Zenon DEF BufferInv
<1>2. SameAs(cl, cl, Len(cl.list))
  BY Zenon DEF SameAs
<1>3. Len(cl.list) \in 0..Len(cl.list) /\ \A i \in (Len(cl.list) + 1)..Len(cl.list) : cl.list[i].null
  BY ONLY <1>1
<1>4. LimitInv(cl, cl)
  BY <1>2, <1>3, Zenon DEF LimitInv
<1> QED
  BY <1>4, Zenon DEF Reached

\* What is known of the limit after a command that left the client as cl.
Kept(cl) ==
    \/ limit.hard = 0
    \/ "CLOSE_ASAP" \in cl.flags
    \/ Within(cl, Len(cl.list))
    \/ cl.list = c.list /\ cl.buf = c.buf

LEMMA ReachedIsKept ==
    ASSUME NEW old, NEW cl, Reached(old, cl, {}), old.list = c.list, old.buf = c.buf,
           BufferInv(c), "MODULE" \notin old.flags
    PROVE  BufferInv(cl) /\ Nulls(cl) = {} /\ "MODULE" \notin cl.flags /\ Kept(cl)
<1> DEFINE n == Len(cl.list)
<1>1. BufferInv(cl) /\ Nulls(cl) = {} /\ "MODULE" \notin cl.flags
  BY Zenon DEF Reached
<1>2. cl.list \in Seq(BlockType) /\ n \in Nat /\ c.list \in Seq(BlockType)
  BY <1>1, ClientFields, ListFields, Zenon DEF BufferInv
<1>3. CASE limit.hard = 0 \/ {"CLOSE_ASAP", "MODULE"} \cap cl.flags # {}
  BY <1>1, <1>3, Zenon DEF Kept
<1>4. CASE ~(limit.hard = 0 \/ {"CLOSE_ASAP", "MODULE"} \cap cl.flags # {})
  <2>1. PICK m \in 0..n : /\ \A i \in (m + 1)..n : cl.list[i].null
                          /\ Within(cl, m) \/ SameAs(cl, old, m)
    BY <1>4, Zenon DEF Reached, LimitInv
  <2>2. m = n
    <3> SUFFICES ASSUME m # n PROVE FALSE
      OBVIOUS
    <3>1. n \in (m + 1)..n /\ n \in 1..n
      BY ONLY <1>2, m \in 0..n, m # n
    <3> QED
      BY <1>1, <2>1, <3>1, Zenon DEF Nulls
  <2>3. SameAs(cl, old, n) => cl.list = c.list /\ cl.buf = c.buf
    <3> SUFFICES ASSUME SameAs(cl, old, n) PROVE cl.list = c.list /\ cl.buf = c.buf
      OBVIOUS
    <3>1. n = Len(c.list) /\ cl.buf = c.buf /\ \A i \in 1..n : cl.list[i] = c.list[i]
      BY Zenon DEF SameAs
    <3> QED
      BY ONLY <1>2, <3>1
  <2>4. Within(cl, n) \/ SameAs(cl, old, n)
    BY ONLY <2>1, <2>2
  <2> QED
    BY <1>1, <2>3, <2>4, Zenon DEF Kept
<1> QED
  BY <1>1, <1>3, <1>4, Zenon

LEMMA ExecuteKeeps ==
    ASSUME IInv, NEW kind, NEW cl, NEW values, Execute(kind, cl, values),
           BufferInv(cl), Nulls(cl) = {}, "MODULE" \notin cl.flags, kind = "MODULE" \/ Kept(cl)
    PROVE  IInv'
<1>1. cl \in ClientType /\ limit \in LimitType /\ now \in Nat /\ ncmd \in Nat /\ BufferInv(c)
      /\ HardLimitCloses
  BY Zenon DEF IInv, BufferInv
<1>2. c' = resetClient(cl) /\ limit' = limit /\ now' = now /\ ncmd' = ncmd + 1
      /\ {"CLOSE_AFTER_REPLY", "CLOSE_ASAP"} \cap c.flags = {}
      /\ last' = IF cl.buf = c.buf /\ cl.list = c.list THEN last ELSE kind
  BY Zenon DEF Execute
<1>3. /\ c' \in ClientType /\ c'.list = cl.list /\ c'.reply_bytes = cl.reply_bytes
      /\ "MODULE" \notin c'.flags /\ ("CLOSE_ASAP" \in cl.flags => "CLOSE_ASAP" \in c'.flags)
  <2> DEFINE flags == (cl.flags \ {"REPLY_SKIP", "REPLY_SKIP_NEXT"})
                      \cup (IF "REPLY_SKIP_NEXT" \in cl.flags THEN {"REPLY_SKIP"} ELSE {})
  <2>1. flags \in SUBSET Flags
    <3>1. cl.flags \in SUBSET Flags /\ "REPLY_SKIP" \in Flags
      BY <1>1, ClientFields, Zenon DEF Flags
    <3> QED
      BY <3>1, Zenon
  <2>2. "MODULE" \notin flags /\ ("CLOSE_ASAP" \in cl.flags => "CLOSE_ASAP" \in flags)
    OBVIOUS
  <2>3. c' = [cl EXCEPT !.flags = flags]
    BY <1>2, Zenon DEF resetClient
  <2> HIDE DEF flags
  <2>4. IsClient([cl EXCEPT !.flags = flags], cl.buf, cl.list, cl.reply_bytes, flags)
    BY ONLY <1>1, <2>1, WithFlags, Zenon
  <2>5. IsClient(c', cl.buf, cl.list, cl.reply_bytes, flags)
    BY ONLY <2>3, <2>4, Zenon
  <2> QED
    BY <2>2, <2>5, Zenon DEF IsClient, IsIn
<1>4. BufferInv(c)' /\ (Nulls(c) = {})'
  <2>1. BufferInv(c') /\ Nulls(c') = {}
    BY <1>3, Zenon DEF BufferInv, Nulls
  <2> QED
    BY <2>1, Zenon DEF BufferInv, Nulls
<1>5. HardLimitCloses'
  <2> SUFFICES ASSUME limit.hard # 0, Memory(c)' >= limit.hard, "CLOSE_ASAP" \notin cl.flags
               PROVE  last' = "MODULE"
    BY <1>2, <1>3, Zenon DEF HardLimitCloses
  <2>1. Memory(c)' = Memory(cl)
    BY <1>3, Zenon DEF Memory
  <2>2. CASE cl.list = c.list /\ cl.buf = c.buf
    <3>1. Memory(cl) = Memory(c)
      BY <1>1, <2>2, Zenon DEF BufferInv, Memory
    <3>2. "CLOSE_ASAP" \in c.flags \/ last = "MODULE"
      BY <1>1, <2>1, <3>1, Zenon DEF HardLimitCloses
    <3> QED
      BY <1>2, <2>2, <3>2, Zenon
  <2>3. CASE ~(cl.list = c.list /\ cl.buf = c.buf)
    <3>1. last' = kind
      BY <1>2, <2>3, Zenon
    <3>2. SUFFICES ASSUME Within(cl, Len(cl.list)) PROVE FALSE
      BY <2>3, <3>1, Zenon DEF Kept
    <3>3. Memory(cl) \in Int /\ limit.hard \in Int
      <4>1. cl.reply_bytes \in Nat /\ Len(cl.list) \in Nat
        BY <1>1, ClientFields, ListFields, Zenon
      <4>2. Memory(cl) \in Int
        BY ONLY <4>1, Constants DEF Memory
      <4> QED
        BY ONLY <1>1, <4>2 DEF LimitType
    <3>4. Memory(cl) < limit.hard
      BY <3>2, Zenon DEF Within, Memory
    <3>5. Memory(cl) >= limit.hard
      BY <2>1, Zenon
    <3> QED
      BY ONLY <3>3, <3>4, <3>5
  <2> QED
    BY <2>2, <2>3, Zenon
<1>6. ncmd + 1 \in Nat
  BY ONLY <1>1
<1> QED
  BY <1>1, <1>2, <1>3, <1>4, <1>5, <1>6, Zenon DEF IInv

LEMMA SampleType ==
    ASSUME NEW kind \in Kinds, NEW k \in Int
    PROVE  IsValue(Sample(kind, k))
<1> DEFINE E(type, id) == [type |-> type, id |-> id, elements |-> <<>>]
<1>1. \A type \in Leaves \cup {"map"}, id \in Int : E(type, id) \in ElementType
  BY DEF ElementType, Aggregates
<1>2. kind \in Aggregates \cup Leaves \cup {"help"}
  BY ReplyAssumption
<1> DEFINE V(type, a, b) == [type |-> type, id |-> 0, elements |-> <<a, b>>]
<1>3. \A type \in Aggregates, a \in ElementType, b \in ElementType : IsValue(V(type, a, b))
  BY DEF IsValue
<1> HIDE DEF E, V
<1>4. CASE kind \notin Leaves
  <2>1. kind \in {"array", "map", "set", "push", "help"}
    BY <1>2, <1>4 DEF Aggregates
  <2>2. \/ Sample(kind, k) = V("array", E("longdouble", k), E("nullarray", 0))
        \/ Sample(kind, k) = V("map", E("int", k), E("bool", 1))
        \/ Sample(kind, k) = V("set", E("null", 0), E("verbatim", k))
        \/ Sample(kind, k) = V("push", E("error", k), E("map", 0))
        \/ Sample(kind, k) = V("array", E("status", k), E("status", 0))
    BY <2>1 DEF Sample, Leaf, Value, E, V
  <2>3. /\ {"longdouble", "nullarray", "int", "bool", "null", "verbatim", "error", "status"}
              \subseteq Leaves
        /\ {"array", "map", "set", "push"} \subseteq Aggregates /\ 0 \in Int /\ 1 \in Int
    BY DEF Leaves, Aggregates
  <2> QED
    BY <1>1, <1>3, <2>2, <2>3, Zenon
<1>5. CASE kind \in Leaves
  <2>1. kind \notin {"array", "map", "set", "push", "help"}
    BY <1>5 DEF Leaves
  <2>2. Sample(kind, k) = E(kind, IF kind \in {"null", "nullarray"} THEN 0 ELSE k)
    BY <2>1 DEF Sample, Leaf, Value, E
  <2> QED
    BY <1>5, <2>2 DEF IsValue, E
<1> QED
  BY <1>4, <1>5

LEMMA CommandKeeps ==
    ASSUME IInv, Command
    PROVE  IInv'
<1>1. limit \in LimitType /\ now \in Nat /\ ncmd \in Nat /\ BufferInv(c) /\ Nulls(c) = {}
      /\ "MODULE" \notin c.flags
  BY Zenon DEF IInv
<1>2. PICK kind \in Kinds, deferred \in BOOLEAN :
         Execute(kind, addReplyValue(c, Sample(kind, ncmd + 1), deferred),
                 Unless(Silent, c.resp, Sample(kind, ncmd + 1)))
  BY Zenon DEF Command
<1>3. Reached(c, c, {})
  BY <1>1, StartReached, Zenon
<1>4. IsValue(Sample(kind, ncmd + 1))
  <2>1. ncmd + 1 \in Int
    BY ONLY <1>1
  <2> QED
    BY <2>1, SampleType, Zenon
<1> DEFINE d == addReplyValue(c, Sample(kind, ncmd + 1), deferred)
<1>5. Reached(c, d, {})
  BY ONLY <1>1, <1>3, <1>4, deferred \in BOOLEAN, ValueReached, Zenon
<1> HIDE DEF d
<1>6. BufferInv(d) /\ Nulls(d) = {} /\ "MODULE" \notin d.flags /\ Kept(d)
  BY ONLY <1>1, <1>5, ReachedIsKept, Zenon
<1> QED
  BY <1>2, <1>6, ExecuteKeeps, Zenon DEF d

\* A client that differs from c in its flags and its protocol.
LEMMA Reflagged ==
    ASSUME IInv, NEW cl \in ClientType, cl.list = c.list, cl.buf = c.buf,
           cl.reply_bytes = c.reply_bytes, "MODULE" \notin cl.flags
    PROVE  /\ BufferInv(cl) /\ Nulls(cl) = {} /\ Kept(cl) /\ Reached(cl, cl, {})
<1>1. BufferInv(cl) /\ Nulls(cl) = {} /\ Kept(cl)
  BY Zenon DEF IInv, BufferInv, Nulls, Kept
<1> QED
  BY <1>1, StartReached, Zenon

LEMMA clientReplyKeeps ==
    ASSUME IInv, clientReply
    PROVE  IInv'
<1> DEFINE on == [c EXCEPT !.flags = @ \ {"REPLY_SKIP", "REPLY_OFF"}]
           off == [c EXCEPT !.flags = @ \cup {"REPLY_OFF"}]
           skip == IF "REPLY_OFF" \in c.flags THEN c
                   ELSE [c EXCEPT !.flags = @ \cup {"REPLY_SKIP_NEXT"}]
<1>1. limit \in LimitType /\ now \in Nat /\ BufferInv(c) /\ c \in ClientType
      /\ "MODULE" \notin c.flags
  BY Zenon DEF IInv, BufferInv
<1>2. \/ Execute("ON", addReplyOk(on), Unless(FALSE, c.resp, Leaf("status", 0)))
      \/ Execute("OFF", off, <<>>)
      \/ Execute("SKIP", skip, <<>>)
  BY Zenon DEF clientReply
<1> DEFINE Same(cl) == cl \in ClientType /\ cl.list = c.list /\ cl.buf = c.buf
                       /\ cl.reply_bytes = c.reply_bytes /\ "MODULE" \notin cl.flags
<1>7. c.flags \in SUBSET Flags /\ "REPLY_OFF" \in Flags /\ "REPLY_SKIP_NEXT" \in Flags
  BY <1>1, ClientFields, Zenon DEF Flags
<1>8. ASSUME NEW flags \in SUBSET Flags, "MODULE" \notin flags
      PROVE  Same([c EXCEPT !.flags = flags])
  <2>1. IsClient([c EXCEPT !.flags = flags], c.buf, c.list, c.reply_bytes, flags)
    BY ONLY <1>1, flags \in SUBSET Flags, WithFlags, Zenon
  <2> DEFINE d == [c EXCEPT !.flags = flags]
  <2>2. IsClient(d, c.buf, c.list, c.reply_bytes, flags)
    BY <2>1
  <2> HIDE DEF d
  <2>3. Same(d)
    BY <1>8, <2>2, Zenon DEF IsClient, IsIn
  <2> HIDE DEF Same
  <2> QED
    BY <2>3, Zenon DEF d
<1>3. Same(on) /\ Same(off) /\ Same(skip)
  <2> DEFINE f1 == c.flags \ {"REPLY_SKIP", "REPLY_OFF"}
             f2 == c.flags \cup {"REPLY_OFF"}
             f3 == c.flags \cup {"REPLY_SKIP_NEXT"}
  <2>1. /\ f1 \in SUBSET Flags /\ f2 \in SUBSET Flags /\ f3 \in SUBSET Flags
        /\ "MODULE" \notin f1
    BY <1>1, <1>7, Zenon
  <2>2. "MODULE" \notin f2 /\ "MODULE" \notin f3
    BY <1>1
  <2>3. /\ on = [c EXCEPT !.flags = f1] /\ off = [c EXCEPT !.flags = f2]
        /\ skip = c \/ skip = [c EXCEPT !.flags = f3]
    BY Zenon
  <2>4. Same(c)
    BY <1>1, Zenon
  <2> HIDE DEF f1, f2, f3, on, off, skip, Same
  <2>5. Same([c EXCEPT !.flags = f1]) /\ Same([c EXCEPT !.flags = f2]) /\ Same([c EXCEPT !.flags = f3])
    BY <1>8, <2>1, <2>2, Zenon
  <2> QED
    BY ONLY <2>3, <2>4, <2>5
<1>9. ASSUME NEW cl, Same(cl)
      PROVE  BufferInv(cl) /\ Nulls(cl) = {} /\ Kept(cl) /\ Reached(cl, cl, {})
  BY ONLY IInv, <1>9, Reflagged, Zenon DEF Same
<1> HIDE DEF on, off, skip
<1>4. CASE Execute("ON", addReplyOk(on), Unless(FALSE, c.resp, Leaf("status", 0)))
  <2>1. Reached(on, on, {}) /\ on.list = c.list /\ on.buf = c.buf /\ "MODULE" \notin on.flags
    BY <1>3, <1>9, Zenon
  <2>2. Reached(on, addReplyOk(on), {})
    BY ONLY <1>1, <2>1, OkReached, Zenon
  <2> DEFINE d == addReplyOk(on)
  <2> HIDE DEF d
  <2>3. BufferInv(d) /\ Nulls(d) = {} /\ "MODULE" \notin d.flags /\ Kept(d)
    BY ONLY <1>1, <2>1, <2>2, ReachedIsKept, Zenon DEF d
  <2> QED
    BY <1>4, <2>3, ExecuteKeeps, Zenon DEF d
<1>5. CASE Execute("OFF", off, <<>>)
  BY <1>3, <1>5, <1>9, ExecuteKeeps, Zenon
<1>6. CASE Execute("SKIP", skip, <<>>)
  BY <1>3, <1>6, <1>9, ExecuteKeeps, Zenon
<1> QED
  BY <1>2, <1>4, <1>5, <1>6, Zenon

LEMMA PairsType == HelloPairs \in Seq(ElementType)
<1> DEFINE B(id) == Leaf("bulk", id)
           s1 == <<B(Text.proto), Leaf("int", 3), B(Text.mode)>>
           s2 == IF Sentinel THEN <<B(Text.sentinel)>> ELSE <<>>
           s3 == <<B(Text.standalone)>>
           s4 == IF Sentinel THEN <<>> ELSE <<B(Text.role), B(Text.master)>>
           s5 == <<B(Text.modules), Value("array", 0, <<>>)>>
<1>1. \A id \in Int : B(id) \in ElementType /\ Leaf("int", id) \in ElementType
                      /\ Value("array", id, <<>>) \in ElementType
  BY DEF Leaf, Value, ElementType, Leaves, Aggregates
<1>2. /\ Text.proto \in Int /\ Text.mode \in Int /\ Text.sentinel \in Int /\ Text.role \in Int
      /\ Text.standalone \in Int /\ Text.master \in Int /\ Text.modules \in Int
  BY DEF Text
<1> HIDE DEF B
<1>3. s1 \in Seq(ElementType)
  BY <1>1, <1>2
<1>4. s2 \in Seq(ElementType) /\ s3 \in Seq(ElementType)
  BY <1>1, <1>2
<1>5. s4 \in Seq(ElementType) /\ s5 \in Seq(ElementType)
  BY <1>1, <1>2
<1>6. HelloPairs = s1 \o s2 \o s3 \o s4 \o s5
  BY DEF HelloPairs, B
<1> HIDE DEF s1, s2, s3, s4, s5
<1> QED
  BY <1>3, <1>4, <1>5, <1>6

LEMMA helloCommandKeeps ==
    ASSUME IInv, helloCommand
    PROVE  IInv'
<1>1. limit \in LimitType /\ now \in Nat /\ BufferInv(c) /\ c \in ClientType
      /\ "MODULE" \notin c.flags
  BY Zenon DEF IInv, BufferInv
<1> DEFINE switched(resp) == [c EXCEPT !.resp = resp]
           header(resp) == addReplyProto(switched(resp), <<AggregateLen(resp, "map", 7 - 3)>>)
<1>2. PICK resp \in {2, 3} : Execute("HELLO", addReplyElements(header(resp), HelloPairs, FALSE),
                                     Unless(Silent, resp, HelloValue))
  BY Zenon DEF helloCommand
<1> DEFINE cl == switched(resp)
<1>3. cl \in ClientType /\ cl.list = c.list /\ cl.buf = c.buf
      /\ cl.reply_bytes = c.reply_bytes /\ "MODULE" \notin cl.flags
  <2>1. IsClient([c EXCEPT !.resp = resp], c.buf, c.list, c.reply_bytes, c.flags)
    BY ONLY <1>1, resp \in {2, 3}, WithResp, Zenon
  <2> DEFINE e == [c EXCEPT !.resp = resp]
  <2>2. IsClient(e, c.buf, c.list, c.reply_bytes, c.flags)
    BY <2>1, Zenon
  <2>3. cl = e
    BY Zenon
  <2> HIDE DEF e, cl, switched
  <2>4. IsClient(cl, c.buf, c.list, c.reply_bytes, c.flags)
    BY ONLY <2>2, <2>3, Zenon
  <2> QED
    BY <1>1, <2>4, Zenon DEF IsClient, IsIn
<1> HIDE DEF switched
<1>4. Reached(cl, cl, {})
  BY ONLY IInv, <1>3, Reflagged, Zenon
<1> DEFINE tokens == <<AggregateLen(resp, "map", 7 - 3)>>
<1>5. tokens \in Seq(Tok)
  <2>1. "map" \in Aggregates /\ 7 - 3 \in Int
    BY DEF Aggregates
  <2> QED
    BY <2>1, HeaderType, Zenon
<1>6. Reached(cl, header(resp), {})
  <2> HIDE DEF tokens
  <2>1. Reached(cl, addReplyProto(cl, tokens), {})
    BY ONLY <1>1, <1>4, <1>5, ProtoReached, Zenon
  <2> QED
    BY <2>1, Zenon DEF tokens
<1> DEFINE d == addReplyElements(header(resp), HelloPairs, FALSE)
<1> HIDE DEF header
<1>7. Reached(cl, d, {})
  BY ONLY <1>1, <1>6, PairsType, FALSE \in BOOLEAN, ElementsReached, Zenon
<1> HIDE DEF d
<1>8. BufferInv(d) /\ Nulls(d) = {} /\ "MODULE" \notin d.flags /\ Kept(d)
  BY ONLY <1>1, <1>3, <1>7, ReachedIsKept, Zenon
<1> QED
  BY <1>2, <1>8, ExecuteKeeps, Zenon DEF d

LEMMA QuitKeeps ==
    ASSUME IInv, Quit
    PROVE  IInv'
<1> DEFINE d == addReplyOk(c)
           e == [d EXCEPT !.flags = @ \cup {"CLOSE_AFTER_REPLY"}]
<1>1. limit \in LimitType /\ now \in Nat /\ BufferInv(c) /\ c \in ClientType
      /\ "MODULE" \notin c.flags
  BY Zenon DEF IInv, BufferInv
<1>2. Execute("QUIT", e, Unless(Silent, c.resp, Leaf("status", 0)))
  BY Zenon DEF Quit
<1>7. Reached(c, c, {})
  BY StartReached, Zenon DEF IInv
<1>3. Reached(c, d, {})
  BY ONLY <1>1, <1>7, OkReached, Zenon
<1> HIDE DEF d
<1>8. BufferInv(d) /\ Nulls(d) = {} /\ "MODULE" \notin d.flags /\ Kept(d)
  BY ONLY <1>1, <1>3, ReachedIsKept, Zenon
<1>4. BufferInv(d) /\ Nulls(d) = {} /\ "MODULE" \notin d.flags /\ Kept(d) /\ d \in ClientType
  BY <1>8, Zenon DEF BufferInv
<1>5. e \in ClientType /\ e.list = d.list /\ e.buf = d.buf /\ e.reply_bytes = d.reply_bytes
      /\ e.flags = d.flags \cup {"CLOSE_AFTER_REPLY"}
  <2> DEFINE flags == d.flags \cup {"CLOSE_AFTER_REPLY"}
  <2>1. flags \in SUBSET Flags
    <3>1. d.flags \in SUBSET Flags /\ "CLOSE_AFTER_REPLY" \in Flags
      BY <1>4, ClientFields, Zenon DEF Flags
    <3> QED
      BY <3>1, Zenon
  <2>2. e = [d EXCEPT !.flags = flags]
    BY Zenon
  <2> HIDE DEF flags, e
  <2>3. IsClient([d EXCEPT !.flags = flags], d.buf, d.list, d.reply_bytes, flags)
    BY ONLY <1>4, <2>1, WithFlags, Zenon
  <2>4. IsClient(e, d.buf, d.list, d.reply_bytes, flags)
    BY ONLY <2>2, <2>3, Zenon
  <2> QED
    BY <2>4, Zenon DEF IsClient, IsIn, flags
<1> HIDE DEF e
<1>6. BufferInv(e) /\ Nulls(e) = {} /\ "MODULE" \notin e.flags /\ Kept(e)
  <2>1. "MODULE" \notin e.flags /\ ("CLOSE_ASAP" \in d.flags => "CLOSE_ASAP" \in e.flags)
    BY <1>4, <1>5
  <2>2. Kept(e)
    BY <1>4, <1>5, <2>1, Zenon DEF Kept, Within
  <2> QED
    BY <1>4, <1>5, <2>1, <2>2, Zenon DEF BufferInv, Nulls
<1> QED
  BY <1>2, <1>6, ExecuteKeeps, Zenon

\* A new client has nothing to send.
LEMMA NewIs ==
    ASSUME NEW flags \in SUBSET Flags
    PROVE  LET new == NewClient(flags)
           IN  new \in ClientType /\ new.list = <<>> /\ new.reply_bytes = 0 /\ new.flags = flags
<1>1. <<>> \in Seq(Tok) /\ <<>> \in Seq(BlockType) /\ 0 \in Nat /\ 2 \in {2, 3}
  OBVIOUS
<1> QED
  BY <1>1, Zenon DEF NewClient, ClientType

LEMMA EmptyIs ==
    ASSUME NEW cl \in ClientType, cl.list = <<>>, cl.reply_bytes = 0
    PROVE  BufferInv(cl) /\ Nulls(cl) = {}
<1>1. 1..Len(<<>>) = {}
  OBVIOUS
<1> QED
  BY <1>1, BytesEmpty, Zenon DEF BufferInv, Nulls

LEMMA SubSeqLen ==
    ASSUME NEW S, NEW s \in Seq(S), NEW n \in Nat
    PROVE  Len(SubSeq(s, n + 1, Len(s))) \in Nat
OBVIOUS

LEMMA ModuleReplyKeeps ==
    ASSUME IInv, ModuleReply
    PROVE  IInv'
<1> DEFINE fake == [NewClient({"MODULE"}) EXCEPT !.resp = c.resp]
           src(kind) == addReplyValue(fake, Sample(kind, ncmd + 1), FALSE)
<1>1. limit \in LimitType /\ now \in Nat /\ ncmd \in Nat /\ BufferInv(c) /\ c \in ClientType
      /\ Nulls(c) = {} /\ "MODULE" \notin c.flags
  BY Zenon DEF IInv, BufferInv
<1>2. PICK kind \in Kinds : Execute("MODULE", AddReplyFromClient(c, src(kind)),
                                    Unless(Silent, c.resp, Sample(kind, ncmd + 1)))
  BY Zenon DEF ModuleReply
<1>3. fake \in ClientType /\ fake.list = <<>> /\ fake.reply_bytes = 0 /\ fake.flags = {"MODULE"}
  <2> DEFINE new == NewClient({"MODULE"})
  <2>1. "MODULE" \in Flags
    BY Zenon DEF Flags
  <2>2. new \in ClientType /\ new.list = <<>> /\ new.reply_bytes = 0 /\ new.flags = {"MODULE"}
    BY <2>1, NewIs, Zenon
  <2>3. c.resp \in {2, 3} /\ fake = [new EXCEPT !.resp = c.resp]
    BY <1>1, ClientFields, Zenon
  <2> HIDE DEF new, fake
  <2>4. IsClient([new EXCEPT !.resp = c.resp], new.buf, new.list, new.reply_bytes, new.flags)
    BY ONLY <2>2, <2>3, WithResp, Zenon
  <2>5. IsClient(fake, new.buf, new.list, new.reply_bytes, new.flags)
    BY ONLY <2>3, <2>4, Zenon
  <2> QED
    BY <2>2, <2>5, Zenon DEF IsClient, IsIn
<1> HIDE DEF fake
<1>4. BufferInv(fake) /\ Nulls(fake) = {} /\ MayWrite(fake)
  BY <1>3, EmptyIs, Zenon DEF MayWrite
<1>5. Reached(fake, fake, {})
  BY <1>4, StartReached, Zenon
<1>6. IsValue(Sample(kind, ncmd + 1))
  <2>1. ncmd + 1 \in Int
    BY ONLY <1>1
  <2> QED
    BY <2>1, SampleType, Zenon
<1>7. Reached(fake, src(kind), {})
  BY ONLY <1>1, <1>4, <1>5, <1>6, FALSE \in BOOLEAN, ValueReached, Zenon DEF src
<1> DEFINE s == src(kind)
           moved == addReplyProto(c, s.buf)
           e == [moved EXCEPT !.list = @ \o s.list, !.reply_bytes = @ + s.reply_bytes]
           d == AddReplyFromClient(c, s)
<1> HIDE DEF src
<1>8. /\ s \in ClientType /\ s.buf \in Seq(Tok) /\ s.list \in Seq(BlockType) /\ s.reply_bytes \in Nat
      /\ s.reply_bytes = Bytes(s.list)
      /\ \A i \in 1..Len(s.list) : Sound(s.list[i]) /\ ~s.list[i].null
  <2>1. BufferInv(s) /\ Nulls(s) = {}
    BY <1>7, Zenon DEF Reached
  <2> HIDE DEF s
  <2> QED
    BY <2>1, ClientFields, Zenon DEF BufferInv, Nulls
<1> HIDE DEF s
<1>9. d = IF ~MayWrite(c) THEN c ELSE e
  BY Zenon DEF AddReplyFromClient
<1>10. Reached(c, c, {})
  BY <1>1, StartReached, Zenon
<1>11. Reached(c, moved, {})
  BY ONLY <1>1, <1>8, <1>10, ProtoReached, Zenon DEF moved
<1>12. /\ moved \in ClientType /\ moved.list \in Seq(BlockType) /\ moved.reply_bytes \in Nat
       /\ moved.reply_bytes = Bytes(moved.list) /\ "MODULE" \notin moved.flags
       /\ \A i \in 1..Len(moved.list) : Sound(moved.list[i]) /\ ~moved.list[i].null
  <2>1. BufferInv(moved) /\ Nulls(moved) = {} /\ "MODULE" \notin moved.flags
    BY <1>1, <1>11, Zenon DEF Reached
  <2> HIDE DEF moved
  <2> QED
    BY <2>1, ClientFields, Zenon DEF BufferInv, Nulls
<1> HIDE DEF moved
<1>13. /\ e \in ClientType /\ e.list = moved.list \o s.list /\ e.flags = moved.flags
       /\ e.reply_bytes = moved.reply_bytes + s.reply_bytes
  <2> DEFINE list == moved.list \o s.list
             n == moved.reply_bytes + s.reply_bytes
  <2>1. list \in Seq(BlockType)
    BY <1>8, <1>12, Concat, Zenon
  <2>2. n \in Nat
    BY ONLY <1>8, <1>12
  <2>3. e = [moved EXCEPT !.list = list, !.reply_bytes = n]
    BY Zenon
  <2> HIDE DEF list, n, e
  <2>4. IsClient([moved EXCEPT !.list = list, !.reply_bytes = n], moved.buf, list, n, moved.flags)
    BY ONLY <1>12, <2>1, <2>2, WithListBytes, Zenon
  <2>5. IsClient(e, moved.buf, list, n, moved.flags)
    BY ONLY <2>3, <2>4, Zenon
  <2> QED
    BY <2>5, Zenon DEF IsClient, IsIn, list, n
<1> HIDE DEF e
<1>14. e.reply_bytes = Bytes(e.list)
  BY <1>8, <1>12, <1>13, BytesConcat, Zenon
<1>15. \A i \in 1..Len(e.list) : Sound(e.list[i]) /\ ~e.list[i].null
  <2> DEFINE st == moved.list \o s.list
  <2>1. IsOf(st, moved.list, s.list)
    BY <1>8, <1>12, ConcatAt, Zenon
  <2> HIDE DEF st
  <2>2. \A i \in 1..Len(st) : Sound(st[i]) /\ ~st[i].null
    BY <1>8, <1>12, <2>1, Zenon DEF IsOf
  <2> QED
    BY <1>13, <2>2, Zenon DEF st
<1>16. BufferInv(e) /\ Nulls(e) = {} /\ "MODULE" \notin e.flags
  BY <1>12, <1>13, <1>14, <1>15, Zenon DEF BufferInv, Nulls
<1> HIDE DEF d
<1>17. BufferInv(d) /\ Nulls(d) = {} /\ "MODULE" \notin d.flags
  BY <1>1, <1>9, <1>16, Zenon
<1>18. Execute("MODULE", d, Unless(Silent, c.resp, Sample(kind, ncmd + 1)))
  BY <1>2, Zenon DEF d, s
<1> QED
  BY <1>17, <1>18, ExecuteKeeps, Zenon

LEMMA writeToClientKeeps ==
    ASSUME IInv, writeToClient
    PROVE  IInv'
<1>1. limit \in LimitType /\ now \in Nat /\ ncmd \in Nat /\ BufferInv(c) /\ c \in ClientType
      /\ Nulls(c) = {} /\ "MODULE" \notin c.flags /\ HardLimitCloses
  BY Zenon DEF IInv, BufferInv
<1>2. /\ c.list \in Seq(BlockType) /\ c.reply_bytes \in Nat /\ Len(c.list) \in Nat
      /\ c.reply_bytes = Bytes(c.list) /\ c.buf \in Seq(Tok) /\ c.sentlen \in Nat
      /\ \A i \in 1..Len(c.list) : c.list[i] \in BlockType /\ Sound(c.list[i]) /\ ~c.list[i].null
  BY <1>1, ClientFields, ListFields, Zenon DEF BufferInv, Nulls
<1>3. c.buf # <<>> \/ c.list # <<>>
  BY Zenon DEF writeToClient, Pending
<1>4. Len(Unsent(c)) \in Nat
  <2> DEFINE tokens == IF c.buf # <<>> THEN c.buf ELSE c.list[1].tokens
  <2>1. tokens \in Seq(Tok)
    <3>1. CASE c.buf # <<>>
      BY <1>2, <3>1, Zenon
    <3>2. CASE c.buf = <<>>
      <4>1. 1 \in 1..Len(c.list)
        BY ONLY <1>2, <1>3, <3>2
      <4> QED
        BY <1>2, <3>2, <4>1, BlockFields, Zenon
    <3> QED
      BY <3>1, <3>2, Zenon
  <2> HIDE DEF tokens
  <2>2. Len(SubSeq(tokens, c.sentlen + 1, Len(tokens))) \in Nat
    BY ONLY <1>2, <2>1, SubSeqLen, Zenon
  <2> QED
    BY <2>2, Zenon DEF Unsent, tokens
<1>5. PICK n \in {1, Len(Unsent(c))} :
         c' = IF Pending(Sent(c, n)) THEN Sent(c, n)
              ELSE [Sent(c, n) EXCEPT !.sentlen = 0,
                       !.flags = @ \cup (IF "CLOSE_AFTER_REPLY" \in @ THEN {"CLOSE_ASAP"} ELSE {})]
  BY Zenon DEF writeToClient
<1>6. limit' = limit /\ now' = now /\ ncmd' = ncmd /\ last' = last
  BY Zenon DEF writeToClient
<1> DEFINE d == Sent(c, n)
<1>7. /\ d \in ClientType /\ d.flags = c.flags
      /\ \/ d.list = c.list /\ d.reply_bytes = c.reply_bytes
         \/ /\ c.list # <<>> /\ d.list = Tail(c.list)
            /\ d.reply_bytes = c.reply_bytes - c.list[1].size
  <2>1. CASE n < Len(Unsent(c))
    <3>1. d = [c EXCEPT !.sentlen = @ + n]
      BY <2>1, Zenon DEF Sent
    <3> DEFINE k == c.sentlen + n
    <3>2. k \in Nat
      BY ONLY <1>2, <1>4, n \in {1, Len(Unsent(c))}
    <3>3. d = [c EXCEPT !.sentlen = k]
      BY <3>1, Zenon
    <3> HIDE DEF d, k
    <3>4. IsClient([c EXCEPT !.sentlen = k], c.buf, c.list, c.reply_bytes, c.flags)
      BY ONLY <1>1, <3>2, WithSent, Zenon
    <3>5. IsClient(d, c.buf, c.list, c.reply_bytes, c.flags)
      BY ONLY <3>3, <3>4, Zenon
    <3> QED
      BY <3>5, Zenon DEF IsClient, IsIn
  <2>2. CASE ~(n < Len(Unsent(c))) /\ c.buf # <<>>
    <3>1. d = [c EXCEPT !.buf = <<>>, !.sentlen = 0]
      BY <2>2, Zenon DEF Sent
    <3> DEFINE none == <<>>
    <3>2. none \in Seq(Tok)
      OBVIOUS
    <3>3. d = [c EXCEPT !.buf = none, !.sentlen = 0]
      BY <3>1, Zenon
    <3> HIDE DEF d, none
    <3>4. IsClient([c EXCEPT !.buf = none, !.sentlen = 0], none, c.list, c.reply_bytes, c.flags)
      BY ONLY <1>1, <3>2, WithBufSent, Zenon
    <3>5. IsClient(d, none, c.list, c.reply_bytes, c.flags)
      BY ONLY <3>3, <3>4, Zenon
    <3> QED
      BY <3>5, Zenon DEF IsClient, IsIn
  <2>3. CASE ~(n < Len(Unsent(c))) /\ c.buf = <<>>
    <3>1. d = [c EXCEPT !.list = Tail(@), !.sentlen = 0, !.reply_bytes = @ - c.list[1].size]
      BY <2>3, Zenon DEF Sent, DropHead
    <3> DEFINE rest == Tail(c.list)
               left == c.reply_bytes - c.list[1].size
    <3>2. c.list # <<>> /\ rest \in Seq(BlockType) /\ 1 \in 1..Len(c.list)
      BY ONLY <1>2, <1>3, <2>3 DEF rest
    <3>6. c.list[1].size \in Nat
      BY <1>2, <3>2, BlockFields, Zenon
    <3>3. Bytes(c.list) >= c.list[1].size
      BY ONLY <1>2, <3>2, BytesAtLeast, Zenon
    <3>4. left \in Nat
      BY ONLY <1>2, <3>6, <3>3 DEF left
    <3>5. d = [c EXCEPT !.list = rest, !.sentlen = 0, !.reply_bytes = left]
      BY <3>1, Zenon
    <3> HIDE DEF d, rest, left
    <3>7. IsClient([c EXCEPT !.list = rest, !.sentlen = 0, !.reply_bytes = left],
                   c.buf, rest, left, c.flags)
      BY ONLY <1>1, <3>2, <3>4, WithListSent, Zenon
    <3>8. IsClient(d, c.buf, rest, left, c.flags)
      BY ONLY <3>5, <3>7, Zenon
    <3> QED
      BY <3>2, <3>8, Zenon DEF IsClient, IsIn, rest, left
  <2> QED
    BY <2>1, <2>2, <2>3, Zenon
<1> HIDE DEF d
<1>8. /\ d.reply_bytes = Bytes(d.list) /\ Len(d.list) \in Nat
      /\ \A i \in 1..Len(d.list) : Sound(d.list[i]) /\ ~d.list[i].null
      /\ Memory(d) <= Memory(c) /\ Memory(d) \in Int /\ Memory(c) \in Int
  <2>1. Memory(c) \in Int
    BY ONLY <1>2, Constants DEF Memory
  <2>2. CASE d.list = c.list /\ d.reply_bytes = c.reply_bytes
    <3>1. Memory(d) = Memory(c)
      BY <2>2, Zenon DEF Memory
    <3>2. Memory(d) <= Memory(c) /\ Memory(d) \in Int
      BY ONLY <2>1, <3>1
    <3> QED
      BY <1>2, <2>1, <2>2, <3>2, Zenon
  <2>3. CASE /\ c.list # <<>> /\ d.list = Tail(c.list)
             /\ d.reply_bytes = c.reply_bytes - c.list[1].size
    <3>1. 1 \in 1..Len(c.list) /\ c.list[1].size \in Nat
      <4>1. 1 \in 1..Len(c.list)
        BY ONLY <1>2, <2>3
      <4> QED
        BY <1>2, <4>1, BlockFields, Zenon
    <3>2. Len(d.list) = Len(c.list) - 1 /\ Len(d.list) \in Nat
          /\ \A i \in 1..Len(d.list) : d.list[i] = c.list[i + 1] /\ i + 1 \in 1..Len(c.list)
      BY ONLY <1>2, <2>3
    <3>3. d.reply_bytes = Bytes(d.list)
      <4>1. Bytes(Tail(c.list)) = Bytes(c.list) - c.list[1].size
        BY ONLY <1>2, <2>3, BytesTail, Zenon
      <4> QED
        BY <1>2, <2>3, <4>1, Zenon
    <3>4. ItemSize * (Len(c.list) - 1) = ItemSize * Len(c.list) - ItemSize
      BY ONLY <1>2, Constants
    <3>5. ItemSize * Len(c.list) \in Int
      BY ONLY <1>2, Constants
    <3>6. Memory(d) = Memory(c) - c.list[1].size - ItemSize
      <4>1. /\ Memory(d) = (c.reply_bytes - c.list[1].size) + ItemSize * (Len(c.list) - 1)
            /\ Memory(c) = c.reply_bytes + ItemSize * Len(c.list)
        BY <2>3, <3>2, Zenon DEF Memory
      <4> QED
        <5> DEFINE p == ItemSize * (Len(c.list) - 1)
                   q == ItemSize * Len(c.list)
                   b == c.list[1].size
                   x == Memory(d)
                   y == Memory(c)
        <5>1. q \in Int /\ b \in Int /\ p = q - ItemSize /\ ItemSize \in Int
          BY <3>1, <3>4, <3>5, Constants
        <5>2. x = (c.reply_bytes - b) + p /\ y = c.reply_bytes + q /\ c.reply_bytes \in Int
          BY <1>2, <4>1
        <5> HIDE DEF p, q, b, x, y
        <5>3. x = y - b - ItemSize
          BY ONLY <5>1, <5>2
        <5> QED
          BY <5>3, Zenon DEF b, x, y
    <3>7. Memory(d) <= Memory(c) /\ Memory(d) \in Int
      BY ONLY <2>1, <3>1, <3>6, Constants
    <3>8. \A i \in 1..Len(d.list) : Sound(d.list[i]) /\ ~d.list[i].null
      BY <1>2, <3>2, Zenon
    <3> QED
      BY <2>1, <3>2, <3>3, <3>7, <3>8, Zenon
  <2> QED
    BY <1>7, <2>2, <2>3, Zenon
<1>9. /\ c' \in ClientType /\ c'.list = d.list /\ c'.reply_bytes = d.reply_bytes
      /\ c.flags \subseteq c'.flags /\ "MODULE" \notin c'.flags
  <2>1. CASE Pending(d)
    BY <1>1, <1>5, <1>7, <2>1, Zenon DEF d
  <2>2. CASE ~Pending(d)
    <3> DEFINE new == IF "CLOSE_AFTER_REPLY" \in d.flags THEN {"CLOSE_ASAP"} ELSE {}
               flags == d.flags \cup new
    <3>1. c' = [d EXCEPT !.sentlen = 0, !.flags = flags]
      BY <1>5, <2>2, Zenon DEF d
    <3>2. new \subseteq {"CLOSE_ASAP"}
      BY Zenon
    <3> HIDE DEF new
    <3>3. d.flags \in SUBSET Flags /\ "CLOSE_ASAP" \in Flags
      BY <1>7, ClientFields, Zenon DEF Flags
    <3>4. flags \in SUBSET Flags
      BY <3>2, <3>3, Zenon
    <3>5. c.flags \subseteq flags /\ "MODULE" \notin flags
      BY <1>1, <1>7, <3>2
    <3> HIDE DEF flags
    <3>6. IsClient([d EXCEPT !.sentlen = 0, !.flags = flags], d.buf, d.list, d.reply_bytes, flags)
      BY ONLY <1>7, <3>4, WithSentFlags, Zenon
    <3>7. IsClient(c', d.buf, d.list, d.reply_bytes, flags)
      BY ONLY <3>1, <3>6, Zenon
    <3> QED
      BY <3>5, <3>7, Zenon DEF IsClient, IsIn
  <2> QED
    BY <2>1, <2>2, Zenon
<1>10. BufferInv(c)' /\ (Nulls(c) = {})'
  <2>1. BufferInv(c') /\ Nulls(c') = {}
    BY <1>8, <1>9, Zenon DEF BufferInv, Nulls
  <2> QED
    BY <2>1, Zenon DEF BufferInv, Nulls
<1>11. HardLimitCloses'
  <2>1. Memory(c)' = Memory(d)
    BY <1>9, Zenon DEF Memory
  <2>2. limit.hard \in Int
    BY ONLY <1>1 DEF LimitType
  <2>3. Memory(d) >= limit.hard => Memory(c) >= limit.hard
    BY ONLY <1>8, <2>2
  <2> QED
    BY <1>1, <1>6, <1>9, <2>1, <2>3, Zenon DEF HardLimitCloses
<1> QED
  BY <1>1, <1>6, <1>9, <1>10, <1>11, Zenon DEF IInv

LEMMA InitHolds == Init => IInv
<1> SUFFICES ASSUME Init PROVE IInv
  OBVIOUS
<1>1. limit \in LimitType /\ now \in Nat /\ ncmd \in Nat
  <2>1. limit \in LimitType /\ now = 1 /\ ncmd = 0
    BY ReplyAssumption, Zenon DEF Init, LimitType
  <2> QED
    BY <2>1
<1>2. c \in ClientType /\ c.list = <<>> /\ c.reply_bytes = 0 /\ c.flags = {}
  BY NewIs, Zenon DEF Init
<1>3. BufferInv(c) /\ Nulls(c) = {} /\ "MODULE" \notin c.flags
  BY <1>2, EmptyIs, Zenon
<1>4. HardLimitCloses
  <2>1. Memory(c) = 0
    <3>1. Memory(c) = 0 + ItemSize * Len(<<>>)
      BY <1>2, Zenon DEF Memory
    <3> QED
      BY <3>1, Constants
  <2>2. limit.hard \in Nat
    BY ONLY <1>1 DEF LimitType
  <2>3. ~(limit.hard # 0 /\ 0 >= limit.hard)
    BY ONLY <2>2
  <2> QED
    BY <2>1, <2>3, Zenon DEF HardLimitCloses
<1> QED
  BY <1>1, <1>3, <1>4, Zenon DEF IInv

\* The invariant is inductive.
THEOREM Inductive == Spec => []IInv
<1>1. IInv /\ [Next]_vars => IInv'
  <2> SUFFICES ASSUME IInv, [Next]_vars PROVE IInv'
    OBVIOUS
  <2>1. CASE Tick
    <3>1. now' = now + 1 /\ c' = c /\ limit' = limit /\ ncmd' = ncmd /\ last' = last
      BY <2>1, Zenon DEF Tick
    <3>2. now + 1 \in Nat
      BY DEF IInv
    <3> QED
      BY <3>1, <3>2, Zenon DEF IInv, BufferInv, Nulls, HardLimitCloses, Memory
  <2>2. CASE UNCHANGED vars
    <3>1. now' = now /\ c' = c /\ limit' = limit /\ ncmd' = ncmd /\ last' = last
      BY <2>2 DEF vars
    <3> QED
      BY <3>1, Zenon DEF IInv, BufferInv, Nulls, HardLimitCloses, Memory
  <2>3. CASE Finished
    BY <2>2, <2>3, Zenon DEF Finished
  <2> QED
    BY <2>1, <2>2, <2>3, CommandKeeps, clientReplyKeeps, helloCommandKeeps, QuitKeeps,
       ModuleReplyKeeps, writeToClientKeeps, Zenon DEF Next
<1> QED
  BY <1>1, InitHolds, PTL DEF Spec

\* Whatever the commands reply, with or without deferred lengths, and however the
\* socket takes it: reply_bytes counts the blocks of the list, and after a command
\* every placeholder has its length (setDeferredAggregateLen).
THEOREM RepliesAreCounted == Spec => []ReplyBytesExact
<1>1. IInv => ReplyBytesExact
  <2> SUFFICES ASSUME IInv PROVE ReplyBytesExact
    OBVIOUS
  <2>1. c.list \in Seq(BlockType)
    BY ClientFields, Zenon DEF IInv, BufferInv
  <2>2. DOMAIN c.list = 1..Len(c.list)
    BY ONLY <2>1
  <2>3. \A i \in 1..Len(c.list) : ~c.list[i].null
    BY Zenon DEF IInv, Nulls
  <2>4. \A i \in 1..Len(c.list) : c.list[i].tokens # <<>>
    BY <2>3, Zenon DEF IInv, BufferInv, Sound
  <2> QED
    BY <2>2, <2>3, <2>4, Zenon DEF IInv, BufferInv, ReplyBytesExact
<1> QED
  BY <1>1, Inductive, PTL

\* For any hard limit: a client whose replies reach it is being closed, unless a module
\* added them and no command has replied since (AddReplyFromClient).
THEOREM HardLimitIsKept == Spec => []HardLimitCloses
<1>1. IInv => HardLimitCloses
  BY DEF IInv
<1> QED
  BY <1>1, Inductive, PTL
=============================================================================
