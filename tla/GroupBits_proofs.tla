-------------------------- MODULE GroupBits_proofs --------------------------
(***************************************************************************)
(* What the operators of RcLine do to any line whose numbers are in order: *)
(* the line stays in order, and the articles it marks as read are exactly  *)
(* those that it should mark.                                              *)
(*                                                                         *)
(* What is proved of GroupBits with them, for any groups, posts and        *)
(* newsrcs: that the lines stay in order, that the counts of the open      *)
(* group are kept, that changed lines are flagged, that marks are neither  *)
(* lost nor made up, and that cross references are followed to the end.    *)
(***************************************************************************)
EXTENDS GroupBits, NatFacts

-----------------------------------------------------------------------------
(* The line of a group in the newsrc.                                      *)

Below(S, n) == {m \in S : m < n}

\* The more numbers of S are below one of them, the greater it is.
LEMMA BelowGrows ==
  ASSUME NEW S \in SUBSET Nat, IsFiniteSet(S), NEW a \in S, NEW b \in S
  PROVE  /\ Cardinality(Below(S, a)) \in Nat
         /\ Cardinality(Below(S, a)) < Cardinality(S)
         /\ a < b => Cardinality(Below(S, a)) < Cardinality(Below(S, b))
<1>1. \A n \in S : IsFiniteSet(Below(S, n)) /\ Cardinality(Below(S, n)) \in Nat
  <2> SUFFICES ASSUME NEW n \in S
               PROVE  IsFiniteSet(Below(S, n)) /\ Cardinality(Below(S, n)) \in Nat
    OBVIOUS
  <2>1. Below(S, n) \in SUBSET S
    BY DEF Below
  <2> QED
    BY <2>1, FS_Subset, FS_CardinalityType
<1>2. Cardinality(Below(S, a) \cup {a}) = Cardinality(Below(S, a)) + 1
  <2>1. a \notin Below(S, a)
    BY DEF Below
  <2> QED
    BY <1>1, <2>1, FS_AddElement
<1>3. Cardinality(Below(S, a)) + 1 <= Cardinality(S)
  <2>1. Below(S, a) \cup {a} \in SUBSET S
    BY DEF Below
  <2> QED
    BY <1>2, <2>1, FS_Subset
<1>4. ASSUME a < b PROVE Cardinality(Below(S, a)) + 1 <= Cardinality(Below(S, b))
  <2>1. Below(S, a) \cup {a} \in SUBSET Below(S, b)
    <3>1. \A m \in S : m \in Nat
      OBVIOUS
    <3>2. \A m \in S : m < a => m < b
      BY <1>4, <3>1
    <3> QED
      BY <1>4, <3>2 DEF Below
  <2>2. IsFiniteSet(Below(S, b))
    BY <1>1
  <2>3. Cardinality(Below(S, a) \cup {a}) <= Cardinality(Below(S, b))
    BY <2>1, <2>2, FS_Subset
  <2> QED
    BY <1>2, <2>3
<1>5. Cardinality(S) \in Nat
  BY FS_CardinalityType
<1> QED
  BY <1>1, <1>3, <1>4, <1>5

\* There is an i-th number in S, with i - 1 numbers below it.
LEMMA NthExists ==
  ASSUME NEW S \in SUBSET Nat, IsFiniteSet(S), NEW i \in 1 .. Cardinality(S)
  PROVE  Nth(S, i) \in S /\ Cardinality(Below(S, Nth(S, i))) = i - 1
<1> DEFINE Has == {0} \cup {k \in Nat : \E n \in S : Cardinality(Below(S, n)) = k - 1}
<1>1. Cardinality(S) \in Nat
  BY FS_CardinalityType
<1>0. \A n \in S : n \in Nat
  OBVIOUS
<1>2. ASSUME NEW k \in 1 .. Cardinality(S), k - 1 \in Has PROVE k \in Has
  <2>1. CASE k = 1
    <3>1. S # {}
      BY <1>1, <2>1, FS_EmptySet
    <3>2. PICK n \in S : \A m \in S : n <= m
      BY <3>1, LeastNat
    <3>3. Below(S, n) = {}
      <4>1. \A m \in S : ~(m < n)
        BY <1>0, <3>2
      <4> QED
        BY <4>1 DEF Below
    <3> QED
      BY <2>1, <3>3, FS_EmptySet
  <2>2. CASE k > 1
    <3>1. PICK a \in S : Cardinality(Below(S, a)) = k - 2
      BY <1>2, <2>2
    <3> DEFINE Above == {m \in S : m > a}
    <3>2. IsFiniteSet(Below(S, a)) /\ a \notin Below(S, a)
      <4>1. Below(S, a) \in SUBSET S
        BY DEF Below
      <4>2. a \notin Below(S, a)
        BY DEF Below
      <4> QED
        BY <4>1, <4>2, FS_Subset
    <3>3. Cardinality(Below(S, a) \cup {a}) = k - 1
      <4>1. Cardinality(Below(S, a) \cup {a}) = Cardinality(Below(S, a)) + 1
        BY <3>2, FS_AddElement
      <4> QED
        BY <1>1, <3>1, <4>1
    <3>4. Above # {}
      <4> SUFFICES ASSUME Above = {} PROVE FALSE
        OBVIOUS
      <4>1. \A m \in S : m \in Below(S, a) \cup {a}
        BY <1>0 DEF Below
      <4>2. S = Below(S, a) \cup {a}
        BY <3>1, <4>1 DEF Below
      <4> QED
        BY <1>1, <1>2, <3>3, <4>2
    <3>5. PICK b \in Above : \A m \in Above : b <= m
      <4>1. Above \in SUBSET Nat
        OBVIOUS
      <4> HIDE DEF Above
      <4> QED
        BY <3>4, <4>1, LeastNat
    <3>6. Below(S, b) = Below(S, a) \cup {a}
      <4>1. \A m \in S : m < b <=> m < a \/ m = a
        BY <1>0, <3>5
      <4> QED
        BY <3>1, <4>1 DEF Below
    <3> QED
      BY <3>3, <3>5, <3>6
  <2> QED
    BY <2>1, <2>2
<1>3. \A k \in 0 .. Cardinality(S) : k \in Has
  <2>1. 0 \in Has
    OBVIOUS
  <2> HIDE DEF Has
  <2> QED
    BY <1>1, <1>2, <2>1, UpTo
<1>4. \E n \in S : Cardinality(Below(S, n)) = i - 1
  BY <1>1, <1>3
<1> QED
  BY <1>4, Zenon DEF Nth, Below

\* The numbers of S come in ascending order, and each of them comes.
LEMMA NthInOrder ==
  ASSUME NEW S \in SUBSET Nat, IsFiniteSet(S)
  PROVE  /\ \A i, j \in 1 .. Cardinality(S) : i < j => Nth(S, i) < Nth(S, j)
         /\ \A n \in S : \E i \in 1 .. Cardinality(S) : Nth(S, i) = n
<1>1. Cardinality(S) \in Nat
  BY FS_CardinalityType
<1>2. ASSUME NEW i \in 1 .. Cardinality(S), NEW j \in 1 .. Cardinality(S), i < j
      PROVE  Nth(S, i) < Nth(S, j)
  <2> DEFINE a == Nth(S, i)
             b == Nth(S, j)
  <2>1. /\ a \in S /\ Cardinality(Below(S, a)) = i - 1
        /\ b \in S /\ Cardinality(Below(S, b)) = j - 1
    BY NthExists
  <2> HIDE DEF a, b
  <2>2. b < a => Cardinality(Below(S, b)) < Cardinality(Below(S, a))
    BY <2>1, BelowGrows
  <2>3. a # b /\ ~(b < a)
    BY <1>1, <1>2, <2>1, <2>2
  <2>4. a < b
    BY <2>1, <2>3
  <2> QED
    BY <2>4 DEF a, b
<1>3. ASSUME NEW n \in S PROVE \E i \in 1 .. Cardinality(S) : Nth(S, i) = n
  <2> DEFINE i == Cardinality(Below(S, n)) + 1
             a == Nth(S, i)
  <2>1. i \in 1 .. Cardinality(S)
    BY <1>1, BelowGrows
  <2>2. a \in S /\ Cardinality(Below(S, a)) = Cardinality(Below(S, n))
    <3>1. Cardinality(Below(S, n)) \in Nat
      BY BelowGrows
    <3> QED
      BY <2>1, <3>1, NthExists
  <2> HIDE DEF a
  <2>3. ~(a < n) /\ ~(n < a)
    BY <2>2, BelowGrows
  <2>4. a = n
    BY <2>2, <2>3
  <2> QED
    BY <2>1, <2>4 DEF a
<1> QED
  BY <1>2, <1>3

(* Lines.                                                                   *)

ItemType == [range : BOOLEAN, min : Nat, max : Nat]

Numbers(item) == item.min .. item.max

\* An item the code can have written as the i-th of a line: numbers from 1 on,
\* a single one or a range that is not empty, unless it is the range `1-0' at
\* the beginning of the line.
IsItem(item, i) ==
  /\ item \in ItemType
  /\ item.min >= 1
  /\ ~item.range => item.min = item.max
  /\ item.min <= item.max \/ (i = 1 /\ item = RangeOf(1, 0))

\* The numbers of the line, up to N, are in ascending order.
InOrder(line, N) ==
  /\ line \in Seq(ItemType)
  /\ \A i \in DOMAIN line : IsItem(line[i], i) /\ line[i].max <= N
  /\ \A i, j \in DOMAIN line : i < j => line[i].max < line[j].min

\* The first a items of the line, a new item, and those from the b-th on.
Splice(line, a, new, b) ==
  SubSeq(line, 1, a) \o <<new>> \o SubSeq(line, b, Len(line))

\* The items of two lines joined.
LEMMA Joined ==
  ASSUME NEW s \in Seq(ItemType), NEW t \in Seq(ItemType)
  PROVE  /\ s \o t \in Seq(ItemType)
         /\ Len(s \o t) = Len(s) + Len(t)
         /\ \A i \in 1 .. Len(s) : (s \o t)[i] = s[i]
         /\ \A i \in Len(s) + 1 .. Len(s) + Len(t) : (s \o t)[i] = t[i - Len(s)]
OBVIOUS

\* The items of a spliced line.
LEMMA SpliceItems ==
  ASSUME NEW line \in Seq(ItemType), NEW a \in 0 .. Len(line),
         NEW b \in a + 1 .. Len(line) + 1, NEW new \in ItemType
  PROVE  LET new_line == Splice(line, a, new, b)
         IN  /\ new_line \in Seq(ItemType)
             /\ Len(new_line) = a + 1 + (Len(line) + 1 - b)
             /\ \A i \in 1 .. a : new_line[i] = line[i]
             /\ new_line[a + 1] = new
             /\ \A i \in a + 2 .. a + 1 + (Len(line) + 1 - b) :
                  new_line[i] = line[i + b - a - 2]
<1> DEFINE A == SubSeq(line, 1, a)
           B == SubSeq(line, b, Len(line))
<1>1. /\ A \in Seq(ItemType) /\ Len(A) = a
      /\ \A i \in 1 .. a : A[i] = line[i]
  OBVIOUS
<1>2. /\ B \in Seq(ItemType) /\ Len(B) = Len(line) + 1 - b
      /\ \A i \in 1 .. Len(line) + 1 - b : B[i] = line[i + b - 1]
  OBVIOUS
<1>3. <<new>> \in Seq(ItemType) /\ Len(<<new>>) = 1 /\ <<new>>[1] = new
  OBVIOUS
<1> HIDE DEF A, B
<1> DEFINE N == <<new>>
           AN == A \o N
<1> HIDE DEF N
<1>4. /\ AN \in Seq(ItemType) /\ Len(AN) = a + 1
      /\ \A i \in 1 .. a : AN[i] = line[i]
      /\ AN[a + 1] = new
  BY <1>1, <1>3, Joined DEF N
<1> HIDE DEF AN
<1>5. /\ AN \o B \in Seq(ItemType) /\ Len(AN \o B) = a + 1 + (Len(line) + 1 - b)
      /\ \A i \in 1 .. a + 1 : (AN \o B)[i] = AN[i]
      /\ \A i \in a + 2 .. a + 1 + (Len(line) + 1 - b) : (AN \o B)[i] = B[i - (a + 1)]
  <2>1. /\ AN \o B \in Seq(ItemType) /\ Len(AN \o B) = Len(AN) + Len(B)
        /\ \A i \in 1 .. Len(AN) : (AN \o B)[i] = AN[i]
        /\ \A i \in Len(AN) + 1 .. Len(AN) + Len(B) : (AN \o B)[i] = B[i - Len(AN)]
    BY <1>2, <1>4, Joined
  <2>2. Len(AN) + 1 = a + 2
    BY <1>4
  <2> QED
    BY <1>2, <1>4, <2>1, <2>2
<1>6. Splice(line, a, new, b) = AN \o B
  BY DEF Splice, AN, A, B, N
<1>7. ASSUME NEW i \in a + 2 .. a + 1 + (Len(line) + 1 - b)
      PROVE  (AN \o B)[i] = line[i + b - a - 2]
  <2>1. i - (a + 1) \in 1 .. Len(line) + 1 - b
    OBVIOUS
  <2>2. i - (a + 1) + b - 1 = i + b - a - 2
    OBVIOUS
  <2> QED
    BY <1>2, <1>5, <2>1, <2>2
<1> QED
  BY <1>4, <1>5, <1>6, <1>7

\* A splice whose new item fits between the items it is put between.
LEMMA SpliceInOrder ==
  ASSUME NEW N \in Nat, NEW line, InOrder(line, N),
         NEW a \in 0 .. Len(line), NEW b \in a + 1 .. Len(line) + 1,
         NEW new, IsItem(new, a + 1), new.max <= N,
         \A i \in 1 .. a : line[i].max < new.min,
         \A i \in b .. Len(line) : new.max < line[i].min /\ 1 < line[i].min
  PROVE  InOrder(Splice(line, a, new, b), N)
<1> DEFINE T == Splice(line, a, new, b)
           L == Len(line)
           M == a + 1 + (L + 1 - b)
<1>1. /\ line \in Seq(ItemType) /\ L \in Nat /\ DOMAIN line = 1 .. L
      /\ new \in ItemType
  BY DEF InOrder, IsItem
<1>2. /\ T \in Seq(ItemType)
      /\ Len(T) = M
      /\ \A i \in 1 .. a : T[i] = line[i]
      /\ T[a + 1] = new
      /\ \A i \in a + 2 .. M : T[i] = line[i + b - a - 2]
  BY <1>1, SpliceItems
<1>3. M \in Nat /\ DOMAIN T = 1 .. M
  BY <1>1, <1>2
<1> HIDE DEF T
<1>4. \A i \in a + 2 .. M : i + b - a - 2 \in b .. L
  BY <1>1
<1>5. /\ \A i \in 1 .. L : IsItem(line[i], i) /\ line[i].max <= N
      /\ \A i, j \in 1 .. L : i < j => line[i].max < line[j].min
      /\ \A i \in 1 .. L : line[i] \in ItemType
  BY <1>1 DEF InOrder
<1>6. ASSUME NEW i \in 1 .. M PROVE IsItem(T[i], i) /\ T[i].max <= N
  <2>1. CASE i \in 1 .. a
    BY <1>1, <1>2, <1>5, <2>1
  <2>2. CASE i = a + 1
    BY <1>2, <2>2
  <2>3. CASE i \in a + 2 .. M
    <3> DEFINE m == i + b - a - 2
    <3>1. m \in b .. L /\ m \in 1 .. L
      BY <1>1, <1>4, <2>3
    <3>2. T[i] = line[m]
      BY <1>2, <2>3
    <3> HIDE DEF m
    <3>3. IsItem(line[m], m) /\ line[m].max <= N /\ 1 < line[m].min
      BY <1>5, <3>1
    <3>4. line[m] # RangeOf(1, 0)
      BY <3>3 DEF RangeOf
    <3> QED
      BY <3>2, <3>3, <3>4 DEF IsItem
  <2> QED
    BY <1>1, <2>1, <2>2, <2>3
<1>7. ASSUME NEW i \in 1 .. M, NEW j \in 1 .. M, i < j
      PROVE  T[i].max < T[j].min
  <2>1. CASE j \in 1 .. a
    BY <1>1, <1>2, <1>5, <1>7, <2>1
  <2>2. CASE j = a + 1
    BY <1>1, <1>2, <1>7, <2>2
  <2>3. CASE j \in a + 2 .. M
    <3> DEFINE m == j + b - a - 2
    <3>1. m \in b .. L /\ m \in 1 .. L
      BY <1>1, <1>4, <2>3
    <3>2. T[j] = line[m]
      BY <1>2, <2>3
    <3>3. CASE i \in 1 .. a
      BY <1>1, <1>2, <1>5, <3>1, <3>2, <3>3
    <3>4. CASE i = a + 1
      BY <1>2, <3>1, <3>2, <3>4
    <3>5. CASE i \in a + 2 .. M
      <4>1. i + b - a - 2 \in 1 .. L /\ i + b - a - 2 < m
        BY <1>1, <1>4, <1>7, <3>5
      <4> QED
        BY <1>2, <1>5, <3>1, <3>2, <3>5, <4>1
    <3> QED
      BY <1>1, <3>3, <3>4, <3>5
  <2> QED
    BY <1>1, <2>1, <2>2, <2>3
<1> QED
  BY <1>2, <1>3, <1>6, <1>7 DEF InOrder, T

\* What a line marks, item by item.
LEMMA ReadItems ==
  ASSUME NEW line, NEW n
  PROVE  n \in Read(line) <=> \E i \in DOMAIN line : n \in Numbers(line[i])
BY DEF Read, Numbers

\* What a spliced line marks.
LEMMA SpliceReads ==
  ASSUME NEW line \in Seq(ItemType), NEW a \in 0 .. Len(line),
         NEW b \in a + 1 .. Len(line) + 1, NEW new \in ItemType, NEW n
  PROVE  n \in Read(Splice(line, a, new, b)) <=>
           \/ n \in Numbers(new)
           \/ \E i \in (1 .. a) \cup (b .. Len(line)) : n \in Numbers(line[i])
<1> DEFINE T == Splice(line, a, new, b)
           L == Len(line)
           M == a + 1 + (L + 1 - b)
<1>1. /\ T \in Seq(ItemType)
      /\ Len(T) = M
      /\ \A i \in 1 .. a : T[i] = line[i]
      /\ T[a + 1] = new
      /\ \A i \in a + 2 .. M : T[i] = line[i + b - a - 2]
  BY SpliceItems
<1>2. L \in Nat /\ M \in Nat /\ DOMAIN T = 1 .. M
  BY <1>1
<1> HIDE DEF T
<1>3. ASSUME n \in Read(T)
      PROVE  \/ n \in Numbers(new)
             \/ \E i \in (1 .. a) \cup (b .. L) : n \in Numbers(line[i])
  <2>1. PICK i \in 1 .. M : n \in Numbers(T[i])
    BY <1>2, <1>3, ReadItems
  <2>2. CASE i \in 1 .. a
    BY <1>1, <2>1, <2>2
  <2>3. CASE i = a + 1
    BY <1>1, <2>1, <2>3
  <2>4. CASE i \in a + 2 .. M
    <3>1. i + b - a - 2 \in b .. L
      BY <1>2, <2>4
    <3> QED
      BY <1>1, <2>1, <2>4, <3>1
  <2> QED
    BY <1>2, <2>1, <2>2, <2>3, <2>4
<1>4. ASSUME n \in Numbers(new) PROVE n \in Read(T)
  <2>1. a + 1 \in 1 .. M
    BY <1>2
  <2> QED
    BY <1>1, <1>2, <1>4, <2>1, ReadItems
<1>5. ASSUME NEW i \in 1 .. a, n \in Numbers(line[i]) PROVE n \in Read(T)
  <2>1. i \in 1 .. M
    BY <1>2
  <2> QED
    BY <1>1, <1>2, <1>5, <2>1, ReadItems
<1>6. ASSUME NEW i \in b .. L, n \in Numbers(line[i]) PROVE n \in Read(T)
  <2> DEFINE m == i - b + a + 2
  <2>1. m \in a + 2 .. M /\ m \in 1 .. M /\ m + b - a - 2 = i
    BY <1>2
  <2> QED
    BY <1>1, <1>2, <1>6, <2>1, ReadItems
<1> QED
  BY <1>3, <1>4, <1>5, <1>6 DEF T

\* A line in order, item by item.
LEMMA Ordered ==
  ASSUME NEW N \in Nat, NEW line, InOrder(line, N)
  PROVE  /\ line \in Seq(ItemType) /\ Len(line) \in Nat /\ DOMAIN line = 1 .. Len(line)
         /\ \A i \in 1 .. Len(line) :
              /\ line[i] \in ItemType
              /\ line[i].range \in BOOLEAN /\ line[i].min \in Nat /\ line[i].max \in Nat
              /\ 1 <= line[i].min /\ line[i].max <= N
              /\ ~line[i].range => line[i].min = line[i].max
              /\ line[i].min <= line[i].max
                   \/ (i = 1 /\ line[i] = RangeOf(1, 0) /\ line[i].min = 1 /\ line[i].max = 0)
         /\ \A i, j \in 1 .. Len(line) : i < j => line[i].max < line[j].min
<1>1. line \in Seq(ItemType) /\ Len(line) \in Nat /\ DOMAIN line = 1 .. Len(line)
  BY DEF InOrder
<1>2. \A i, j \in 1 .. Len(line) : i < j => line[i].max < line[j].min
  BY <1>1 DEF InOrder
<1>3. ASSUME NEW i \in 1 .. Len(line)
      PROVE  /\ line[i] \in ItemType
             /\ line[i].range \in BOOLEAN /\ line[i].min \in Nat /\ line[i].max \in Nat
             /\ 1 <= line[i].min /\ line[i].max <= N
             /\ ~line[i].range => line[i].min = line[i].max
             /\ line[i].min <= line[i].max
                  \/ (i = 1 /\ line[i] = RangeOf(1, 0) /\ line[i].min = 1 /\ line[i].max = 0)
  <2>1. IsItem(line[i], i) /\ line[i].max <= N
    BY <1>1 DEF InOrder
  <2>2. RangeOf(1, 0).min = 1 /\ RangeOf(1, 0).max = 0
    BY DEF RangeOf
  <2>3. line[i].range \in BOOLEAN /\ line[i].min \in Nat /\ line[i].max \in Nat
    BY <2>1 DEF IsItem, ItemType
  <2> QED
    BY <2>1, <2>2, <2>3 DEF IsItem
<1> QED
  BY <1>1, <1>2, <1>3

\* The loop of addartnum passes the items that begin at or before n.
LEMMA PassedItems ==
  ASSUME NEW N \in Nat, NEW line, InOrder(line, N), NEW n \in 1 .. N
  PROVE  /\ Passed(line, n) \in 0 .. Len(line)
         /\ \A i \in 1 .. Passed(line, n) : line[i].min <= n
         /\ \A i \in Passed(line, n) + 1 .. Len(line) : n < line[i].min
<1> DEFINE S == {i \in DOMAIN line : \A j \in 1 .. i : line[j].min <= n}
           k == Cardinality(S)
           L == Len(line)
<1>1. /\ L \in Nat /\ DOMAIN line = 1 .. L
      /\ \A i \in 1 .. L : line[i].min \in Nat /\ line[i].max \in Nat /\ 1 <= line[i].min
      /\ \A i \in 2 .. L : line[i].min <= line[i].max
      /\ \A i, j \in 1 .. L : i < j => line[i].max < line[j].min
  BY Ordered
<1>2. k \in 0 .. L /\ S = 1 .. k
  <2>1. S \in SUBSET (1 .. L) /\ \A i \in S : \A j \in 1 .. i : j \in S
    BY <1>1
  <2> HIDE DEF S
  <2> QED
    BY <1>1, <2>1, NatPrefix
<1>3. \A i \in 1 .. k : line[i].min <= n
  BY <1>1, <1>2
<1>4. k < L => n < line[k + 1].min
  <2> SUFFICES ASSUME k < L, line[k + 1].min <= n PROVE FALSE
    BY <1>1, <1>2
  <2>1. \A j \in 1 .. k + 1 : line[j].min <= n
    BY <1>2, <1>3
  <2>2. k + 1 \in S
    BY <1>1, <1>2, <2>1
  <2> HIDE DEF S
  <2>3. k + 1 \in 1 .. k
    BY <1>2, <2>2, Zenon
  <2> QED
    BY <1>2, <2>3
<1> HIDE DEF k, S
<1>5. ASSUME NEW i \in k + 1 .. L PROVE n < line[i].min
  <2>1. CASE i = k + 1
    BY <1>2, <1>4, <2>1
  <2>2. CASE i > k + 1
    <3>1. n < line[k + 1].min /\ k + 1 \in 1 .. L
      BY <1>1, <1>2, <1>4, <2>2
    <3>2. line[k + 1].max < line[i].min
      BY <1>1, <1>2, <2>2, <3>1
    <3>3. line[k + 1].min <= line[k + 1].max \/ line[k + 1].min = 1
      BY <3>1, Ordered
    <3> QED
      BY <1>1, <1>2, <3>1, <3>2, <3>3
  <2> QED
    BY <1>2, <2>1, <2>2
<1> QED
  BY <1>2, <1>3, <1>5 DEF Passed, k, S

\* addartnum (rcln.cpp) marks the article it is given and keeps the line in
\* order: no other article becomes read or unread, unless the line says that
\* nothing is read, when every article up to it becomes read.
THEOREM InsertKeepsOrder ==
  ASSUME NEW N \in Nat, NEW line, InOrder(line, N), NEW n \in 1 .. N,
         ~InPassed(line, n)
  PROVE  /\ InOrder(InsertNum(line, n), N)
         /\ Read(line) \cup {n} \subseteq Read(InsertNum(line, n))
         /\ line # <<RangeOf(1, 0)>> =>
              Read(InsertNum(line, n)) = Read(line) \cup {n}
<1> DEFINE L       == Len(line)
           k       == Passed(line, n)
           lastnum == IF k = 0 THEN 0 ELSE line[k].max
           morenum == k < L
           extends == lastnum # 0 /\ n = lastnum + 1
           glued   == k > 0 /\ lastnum = 0 /\ ~morenum
           joins   == morenum /\ line[k + 1].min = n + 1
           lo      == IF extends \/ glued THEN line[k].min ELSE n
           hi      == IF joins THEN line[k + 1].max ELSE n
           new     == IF extends \/ glued \/ joins THEN RangeOf(lo, hi) ELSE Single(n)
           a       == IF extends \/ glued THEN k - 1 ELSE k
           b       == IF joins THEN k + 2 ELSE k + 1
<1>1. /\ line \in Seq(ItemType) /\ L \in Nat /\ DOMAIN line = 1 .. L
      /\ \A i \in 1 .. L :
           /\ line[i].min \in Nat /\ line[i].max \in Nat
           /\ 1 <= line[i].min /\ line[i].max <= N
           /\ line[i].min <= line[i].max
                \/ (i = 1 /\ line[i] = RangeOf(1, 0) /\ line[i].min = 1 /\ line[i].max = 0)
      /\ \A i, j \in 1 .. L : i < j => line[i].max < line[j].min
  BY Ordered
<1>2. /\ k \in 0 .. L
      /\ \A i \in 1 .. k : line[i].min <= n
      /\ \A i \in k + 1 .. L : n < line[i].min
  BY PassedItems
<1>3. \A i \in 1 .. k : line[i].max < n
  <2> SUFFICES ASSUME NEW i \in 1 .. k PROVE line[i].max < n
    OBVIOUS
  <2>1. n \notin line[i].min .. line[i].max
    BY DEF InPassed
  <2> QED
    BY <1>1, <1>2, <2>1
<1>4. InsertNum(line, n) = Splice(line, a, new, b)
  BY DEF InsertNum, Splice
<1> HIDE DEF k, L
<1>5. extends \/ glued => k >= 1 /\ k \in 1 .. L /\ line[k].min <= n
  BY <1>1, <1>2
<1>6. joins => k + 1 \in 1 .. L /\ line[k + 1].max >= n + 1
  BY <1>1, <1>2
<1>7. a \in 0 .. L /\ b \in a + 1 .. L + 1
  BY <1>1, <1>2, <1>5
<1>8. lo \in Nat /\ 1 <= lo /\ lo <= n /\ hi \in Nat /\ n <= hi /\ hi <= N
  BY <1>1, <1>2, <1>5, <1>6
<1>9. new.min = lo /\ new.max = hi /\ new \in ItemType /\ IsItem(new, a + 1)
  BY <1>8 DEF RangeOf, Single, ItemType, IsItem
<1>10. ASSUME NEW i \in 1 .. a PROVE line[i].max < lo
  <2>1. CASE extends \/ glued
    BY <1>1, <1>2, <1>5, <2>1
  <2>2. CASE ~(extends \/ glued)
    BY <1>2, <1>3, <2>2
  <2> QED
    BY <2>1, <2>2
<1>11. ASSUME NEW i \in b .. L PROVE hi < line[i].min /\ 1 < line[i].min
  <2>1. CASE joins
    BY <1>1, <1>2, <1>6, <1>8, <2>1
  <2>2. CASE ~joins
    BY <1>1, <1>2, <2>2
  <2> QED
    BY <2>1, <2>2
<1>12. InOrder(InsertNum(line, n), N)
  <2> HIDE DEF a, b, new, lo, hi
  <2> QED
    BY <1>4, <1>7, <1>8, <1>9, <1>10, <1>11, SpliceInOrder DEF L
<1>13. Numbers(new) = lo .. hi
  BY <1>9 DEF Numbers
<1>14. ASSUME NEW m
       PROVE  m \in Read(InsertNum(line, n)) <=>
                \/ m \in lo .. hi
                \/ \E i \in (1 .. a) \cup (b .. L) : m \in Numbers(line[i])
  <2> HIDE DEF a, b, new, lo, hi
  <2> QED
    BY <1>1, <1>4, <1>7, <1>9, <1>13, SpliceReads DEF L
<1>15. ASSUME NEW i \in 1 .. L, i \notin (1 .. a) \cup (b .. L)
       PROVE  (i = k /\ (extends \/ glued)) \/ (i = k + 1 /\ joins)
  BY <1>1, <1>2, <1>15
<1>16. ASSUME NEW m \in Read(line) \cup {n} PROVE m \in Read(InsertNum(line, n))
  <2>1. CASE m = n
    BY <1>8, <1>14, <2>1
  <2>2. CASE m \in Read(line)
    <3>1. PICK i \in 1 .. L : m \in Numbers(line[i])
      BY <1>1, <2>2, ReadItems
    <3>2. CASE i = k /\ (extends \/ glued)
      <4>1. m \in line[k].min .. line[k].max
        BY <3>1, <3>2 DEF Numbers
      <4>2. m \in lo .. hi
        BY <1>1, <1>2, <1>3, <1>5, <1>8, <3>2, <4>1
      <4> QED
        BY <1>14, <4>2
    <3>3. CASE i = k + 1 /\ joins
      <4>1. m \in line[k + 1].min .. line[k + 1].max
        BY <3>1, <3>3 DEF Numbers
      <4>2. m \in lo .. hi
        BY <1>1, <1>2, <1>6, <1>8, <3>3, <4>1
      <4> QED
        BY <1>14, <4>2
    <3>4. CASE i \in (1 .. a) \cup (b .. L)
      <4> HIDE DEF a, b
      <4> QED
        BY <1>14, <3>1, <3>4
    <3> QED
      BY <1>15, <3>1, <3>2, <3>3, <3>4
  <2> QED
    BY <2>1, <2>2
<1>17. ASSUME line # <<RangeOf(1, 0)>>, NEW m \in Read(InsertNum(line, n))
       PROVE  m \in Read(line) \cup {n}
  <2>1. CASE m \in lo .. hi
    <3>1. ~glued
      <4> SUFFICES ASSUME glued PROVE FALSE
        OBVIOUS
      <4>1. k = 1 /\ L = 1 /\ line[1] = RangeOf(1, 0)
        BY <1>1, <1>2
      <4>2. line = <<RangeOf(1, 0)>>
        BY <1>1, <4>1 DEF L
      <4> QED
        BY <1>17, <4>2
    <3>2. CASE extends /\ m < n
      <4>1. m \in Numbers(line[k]) /\ k \in 1 .. L
        BY <1>1, <1>2, <1>5, <2>1, <1>8, <3>2 DEF Numbers
      <4> QED
        BY <1>1, <4>1, ReadItems
    <3>3. CASE joins /\ m > n
      <4>1. m \in Numbers(line[k + 1]) /\ k + 1 \in 1 .. L
        BY <1>1, <1>2, <1>6, <2>1, <1>8, <3>3 DEF Numbers
      <4> QED
        BY <1>1, <4>1, ReadItems
    <3>4. m < n => extends
      BY <2>1, <1>8, <3>1
    <3>5. m > n => joins
      BY <2>1, <1>8
    <3>6. m < n \/ m = n \/ m > n
      BY <1>8, <2>1
    <3> QED
      BY <3>2, <3>3, <3>4, <3>5, <3>6
  <2>2. CASE \E i \in (1 .. a) \cup (b .. L) : m \in Numbers(line[i])
    <3>1. (1 .. a) \cup (b .. L) \subseteq 1 .. L
      BY <1>1, <1>2
    <3> HIDE DEF a, b
    <3> QED
      BY <1>1, <2>2, <3>1, ReadItems
  <2> QED
    BY <1>14, <1>17, <2>1, <2>2
<1> QED
  BY <1>12, <1>16, <1>17

\* A splice at the front of a line.
LEMMA SpliceFront ==
  ASSUME NEW line \in Seq(ItemType), NEW k \in 0 .. Len(line), NEW new \in ItemType
  PROVE  Splice(line, 0, new, k + 1) = <<new>> \o SubSeq(line, k + 1, Len(line))
<1>1. SubSeq(line, 1, 0) = << >>
  OBVIOUS
<1>2. << >> \o <<new>> = <<new>>
  OBVIOUS
<1> QED
  BY <1>1, <1>2 DEF Splice

\* checkexpired (rcln.cpp) keeps the line in order and marks, besides what was
\* read, the articles before the first one of the group and no others.
THEOREM ExpiredAreRead ==
  ASSUME NEW N \in Nat, NEW line, InOrder(line, N), NEW a1st \in 0 .. N + 1
  PROVE  /\ InOrder(CheckExpired(line, a1st), N)
         /\ Read(CheckExpired(line, a1st)) = Read(line) \cup 1 .. a1st - 1
<1> DEFINE L == Len(line)
           S == {i \in DOMAIN line :
                   /\ line[i].min <= a1st
                   /\ \A j \in 1 .. i - 1 : line[j].max <= a1st}
           k == Cardinality(S)
           inrange == k > 0 /\ line[k].max > a1st
           lastnum == IF k = 0 THEN 0 ELSE line[k].max
           hi == IF inrange THEN line[k].max
                 ELSE IF lastnum = a1st THEN a1st ELSE a1st - 1
           new == RangeOf(1, hi)
<1>1. /\ line \in Seq(ItemType) /\ L \in Nat /\ DOMAIN line = 1 .. L
      /\ \A i \in 1 .. L :
           /\ line[i].min \in Nat /\ line[i].max \in Nat
           /\ 1 <= line[i].min /\ line[i].max <= N
           /\ line[i].min <= line[i].max
                \/ (i = 1 /\ line[i] = RangeOf(1, 0) /\ line[i].min = 1 /\ line[i].max = 0)
      /\ \A i, j \in 1 .. L : i < j => line[i].max < line[j].min
  BY Ordered
<1>2. CASE a1st <= 1
  <2>1. CheckExpired(line, a1st) = line
    BY <1>2 DEF CheckExpired
  <2>2. 1 .. a1st - 1 = {}
    BY <1>2
  <2> QED
    BY <2>1, <2>2
<1>3. CASE a1st > 1
  <2>1. k \in 0 .. L /\ S = 1 .. k
    <3>1. \A i \in S : \A j \in 1 .. i : j \in S
      <4> SUFFICES ASSUME NEW i \in S, NEW j \in 1 .. i PROVE j \in S
        OBVIOUS
      <4>1. j \in 1 .. L /\ i \in 1 .. L
        BY <1>1
      <4>2. line[j].min <= a1st
        <5>1. CASE j = i
          BY <5>1
        <5>2. CASE j < i
          BY <1>1, <1>3, <4>1, <5>2
        <5> QED
          BY <4>1, <5>1, <5>2
      <4> QED
        BY <1>1, <4>1, <4>2
    <3>2. S \in SUBSET (1 .. L)
      BY <1>1
    <3> HIDE DEF S
    <3> QED
      BY <1>1, <3>1, <3>2, NatPrefix
  <2>2. /\ \A i \in 1 .. k : line[i].min <= a1st
        /\ \A i \in 1 .. k : i < k => line[i].max <= a1st
    <3> HIDE DEF k
    <3>1. \A i \in 1 .. k : i \in S
      <4> HIDE DEF S
      <4> QED
        BY <2>1, Zenon
    <3>2. ASSUME NEW i \in 1 .. k, i < k PROVE line[i].max <= a1st
      <4>1. k \in S /\ i \in 1 .. k - 1
        BY <2>1, <3>1, <3>2
      <4> QED
        BY <4>1
    <3> QED
      BY <3>1, <3>2
  <2> HIDE DEF k
  <2>3. k < L /\ ~inrange => a1st < line[k + 1].min
    <3> SUFFICES ASSUME k < L, ~inrange, line[k + 1].min <= a1st PROVE FALSE
      BY <1>1, <2>1
    <3>1. \A j \in 1 .. k : line[j].max <= a1st
      BY <1>1, <2>1, <2>2
    <3>2. k + 1 \in S
      <4>1. k + 1 \in DOMAIN line /\ line[k + 1].min <= a1st /\ (k + 1) - 1 = k
        BY <1>1, <2>1
      <4> QED
        BY <3>1, <4>1
    <3> HIDE DEF S
    <3>3. k + 1 \in 1 .. k
      BY <2>1, <3>2, Zenon
    <3> QED
      BY <2>1, <3>3
  <2> HIDE DEF S, L
  <2>4. \A i \in 1 .. L : line[i].min <= line[i].max + 1
    BY <1>1
  <2>5. /\ hi \in Nat /\ hi <= N /\ 1 <= hi /\ a1st - 1 <= hi
        /\ \A i \in 1 .. k : line[i].max <= hi \/ (line[i].max = a1st /\ i < k)
    BY <1>1, <1>3, <2>1, <2>2
  <2>6. \A i \in 1 .. k : line[i].max <= hi
    <3> SUFFICES ASSUME NEW i \in 1 .. k, line[i].max = a1st, i < k PROVE line[i].max <= hi
      BY <2>5
    <3>1. line[i].max < line[k].min /\ line[k].min <= a1st
      BY <1>1, <2>1, <2>2
    <3> QED
      BY <1>1, <2>1, <3>1
  <2>7. ASSUME NEW i \in k + 1 .. L PROVE hi < line[i].min
    <3>1. CASE inrange
      BY <1>1, <2>1, <3>1
    <3>2. CASE ~inrange
      <4>1. a1st < line[i].min
        <5>1. CASE i = k + 1
          BY <1>1, <2>1, <2>3, <3>2, <5>1
        <5>2. CASE i > k + 1
          <6>1. a1st < line[k + 1].min /\ line[k + 1].max < line[i].min
            BY <1>1, <2>1, <2>3, <3>2, <5>2
          <6>2. line[k + 1].min <= line[k + 1].max + 1
            BY <1>1, <2>1, <2>4, <5>2
          <6>3. line[k + 1].min \in Nat /\ line[k + 1].max \in Nat /\ line[i].min \in Nat
            BY <1>1, <2>1, <5>2
          <6> QED
            BY <1>3, <6>1, <6>2, <6>3
        <5> QED
          BY <2>1, <5>1, <5>2
      <4> QED
        BY <1>1, <2>1, <3>2, <4>1
    <3> QED
      BY <3>1, <3>2
  <2>8. IsItem(new, 1) /\ new \in ItemType /\ new.min = 1 /\ new.max = hi
        /\ Numbers(new) = 1 .. hi
    BY <2>5 DEF IsItem, ItemType, RangeOf, Numbers
  <2>9. \A n \in 1 .. hi : n \in Read(line) \cup 1 .. a1st - 1
    <3> SUFFICES ASSUME NEW n \in 1 .. hi, ~(n <= a1st - 1) PROVE n \in Read(line)
      BY <2>5
    <3>1. k \in 1 .. L /\ n \in Numbers(line[k])
      BY <1>1, <1>3, <2>1, <2>2, <2>4 DEF Numbers
    <3> QED
      BY <1>1, <3>1, ReadItems
  <2>10. ASSUME NEW n \in Read(line), ~(n \in 1 .. hi)
         PROVE  \E i \in k + 1 .. L : n \in Numbers(line[i])
    <3>1. PICK i \in 1 .. L : n \in Numbers(line[i])
      BY <1>1, ReadItems
    <3>2. ~(i <= k)
      BY <1>1, <2>1, <2>5, <2>6, <2>10, <3>1 DEF Numbers
    <3> QED
      BY <2>1, <3>1, <3>2
  <2>11. InOrder(Splice(line, 0, new, k + 1), N)
    <3> HIDE DEF new, hi
    <3>1. 0 \in 0 .. Len(line) /\ k + 1 \in 0 + 1 .. Len(line) + 1
      BY <1>1, <2>1 DEF L
    <3>2. \A i \in 1 .. 0 : line[i].max < new.min
      OBVIOUS
    <3>3. \A i \in k + 1 .. Len(line) : new.max < line[i].min /\ 1 < line[i].min
      BY <1>1, <2>1, <2>5, <2>7, <2>8 DEF L
    <3>4. IsItem(new, 0 + 1)
      BY <2>8
    <3> QED
      BY <2>5, <2>8, <3>1, <3>2, <3>3, <3>4, SpliceInOrder
  <2>12. ASSUME NEW n
         PROVE  n \in Read(Splice(line, 0, new, k + 1)) <=> n \in Read(line) \cup 1 .. a1st - 1
    <3> HIDE DEF new, hi
    <3>1. 0 \in 0 .. Len(line) /\ k + 1 \in 0 + 1 .. Len(line) + 1
      BY <1>1, <2>1 DEF L
    <3>2. n \in Read(Splice(line, 0, new, k + 1)) <=>
            n \in 1 .. hi \/ \E i \in k + 1 .. L : n \in Numbers(line[i])
      <4>1. n \in Read(Splice(line, 0, new, k + 1)) <=>
              \/ n \in Numbers(new)
              \/ \E i \in (1 .. 0) \cup (k + 1 .. Len(line)) : n \in Numbers(line[i])
        BY <1>1, <2>8, <3>1, SpliceReads
      <4>2. (1 .. 0) \cup (k + 1 .. Len(line)) = k + 1 .. L
        BY DEF L
      <4> QED
        BY <2>8, <4>1, <4>2
    <3>3. (\E i \in k + 1 .. L : n \in Numbers(line[i])) => n \in Read(line)
      BY <1>1, <2>1, ReadItems
    <3>4. n \in 1 .. a1st - 1 => n \in 1 .. hi
      BY <2>5
    <3> QED
      BY <2>9, <2>10, <3>2, <3>3, <3>4
  <2>13. CASE ~(inrange /\ line[k].min = 1)
    <3>1. CheckExpired(line, a1st) = <<new>> \o SubSeq(line, k + 1, Len(line))
      <4>0. ~(a1st <= 1)
        BY <1>3
      <4>1. CASE ~inrange
        BY <4>0, <4>1, Zenon DEF CheckExpired, k, S
      <4>2. CASE inrange /\ line[k].min # 1
        BY <4>0, <4>2, Zenon DEF CheckExpired, k, S
      <4> QED
        BY <2>13, <4>1, <4>2
    <3>2. k \in 0 .. Len(line)
      BY <2>1 DEF L
    <3>3. CheckExpired(line, a1st) = Splice(line, 0, new, k + 1)
      BY <1>1, <2>8, <3>1, <3>2, SpliceFront
    <3> HIDE DEF new, hi
    <3> QED
      BY <2>11, <2>12, <3>3
  <2>14. CASE inrange /\ line[k].min = 1
    <3>1. CheckExpired(line, a1st) = line
      BY <1>3, <2>14 DEF CheckExpired, k, S
    <3>2. \A n \in 1 .. a1st - 1 : n \in Read(line)
      <4> SUFFICES ASSUME NEW n \in 1 .. a1st - 1 PROVE n \in Read(line)
        OBVIOUS
      <4>1. k \in 1 .. L /\ n \in Numbers(line[k])
        BY <1>1, <2>1, <2>14 DEF Numbers
      <4> QED
        BY <1>1, <4>1, ReadItems
    <3> QED
      BY <3>1, <3>2
  <2> QED
    BY <2>13, <2>14
<1> QED
  BY <1>2, <1>3

\* The run of read articles that begins at n, up to the next unread article.
RunEnd(U, newest, n) == Min({m \in U : m > n} \cup {newest + 1}) - 1

LEMMA RunEnds ==
  ASSUME NEW newest \in Nat, NEW U \in SUBSET (1 .. newest), NEW n \in 0 .. newest
  PROVE  /\ RunEnd(U, newest, n) \in n .. newest
         /\ \A m \in U : m > n => m > RunEnd(U, newest, n)
         /\ RunEnd(U, newest, n) + 1 \in U \cup {newest + 1}
<1> DEFINE After == {m \in U : m > n} \cup {newest + 1}
<1>0. \A m \in U : m \in Nat /\ m <= newest
  OBVIOUS
<1>1. After \in SUBSET Nat /\ After # {} /\ \A m \in After : m > n /\ m \in Nat
  <2>1. \A m \in After : m > n /\ m \in Nat
    BY <1>0
  <2>2. newest + 1 \in After
    OBVIOUS
  <2> HIDE DEF After
  <2> QED
    BY <2>1, <2>2
<1>2. newest + 1 \in After /\ (\A m \in U : m > n => m \in After)
  OBVIOUS
<1>3. \A m \in After : m \in U \cup {newest + 1}
  OBVIOUS
<1> HIDE DEF After
<1>4. Min(After) \in After /\ \A m \in After : Min(After) <= m
  BY <1>1, MinNat
<1>5. RunEnd(U, newest, n) = Min(After) - 1
  BY DEF RunEnd, After
<1>6. Min(After) \in Nat /\ Min(After) > n /\ Min(After) <= newest + 1
  BY <1>1, <1>2, <1>4
<1>7. ASSUME NEW m \in U, m > n PROVE m > Min(After) - 1
  BY <1>2, <1>4, <1>6, <1>7
<1>8. Min(After) \in U \cup {newest + 1}
  BY <1>3, <1>4
<1> QED
  BY <1>5, <1>6, <1>7, <1>8

\* bits_to_rc (bits.cpp) writes a line in order that marks every article up to
\* the last one of the group except the unread ones.
THEOREM LineMarksTheRest ==
  ASSUME NEW newest \in Nat, NEW oldest \in 1 .. newest + 1,
         NEW U \in SUBSET (oldest .. newest)
  PROVE  /\ InOrder(BitsToLine(oldest, newest, U), newest)
         /\ Read(BitsToLine(oldest, newest, U)) = (1 .. newest) \ U
         /\ 1 \in DOMAIN BitsToLine(oldest, newest, U)
         /\ BitsToLine(oldest, newest, U)[1] = RangeOf(1, RunEnd(U, newest, 0))
<1> DEFINE first  == RunEnd(U, newest, 0) + 1
           starts == {n \in first + 1 .. newest : n \notin U /\ n - 1 \in U}
           end(n) == RunEnd(U, newest, n)
           run(n) == IF end(n) > n THEN RangeOf(n, end(n)) ELSE Single(n)
           C      == Cardinality(starts)
           runs   == [i \in 1 .. C |-> run(Nth(starts, i))]
           line   == <<RangeOf(1, first - 1)>> \o runs
<1>1. U \in SUBSET (1 .. newest) /\ \A m \in U : m \in Nat /\ 1 <= m /\ oldest <= m /\ m <= newest
  OBVIOUS
<1>2. /\ first \in 1 .. newest + 1
      /\ \A m \in U : m >= first
      /\ first \in U \cup {newest + 1}
  BY <1>1, RunEnds
<1>3. BitsToLine(oldest, newest, U) = line
  <2>1. {n \in U : n >= oldest} = {m \in U : m > 0}
    <3>1. \A n \in U : n >= oldest /\ n > 0
      BY <1>1
    <3> QED
      BY <3>1
  <2>2. Min({n \in U : n >= oldest} \cup {newest + 1}) \in Nat
    <3> DEFINE After == {n \in U : n >= oldest} \cup {newest + 1}
    <3>1. After \in SUBSET Nat /\ After # {}
      <4>1. \A n \in After : n \in Nat
        BY <1>1
      <4>2. newest + 1 \in After
        OBVIOUS
      <4> HIDE DEF After
      <4> QED
        BY <4>1, <4>2
    <3> HIDE DEF After
    <3>2. Min(After) \in After
      BY <3>1, MinNat
    <3> QED
      BY <3>1, <3>2 DEF After
  <2>3. Min({n \in U : n >= oldest} \cup {newest + 1}) = first
    <3> DEFINE k == Min({n \in U : n >= oldest} \cup {newest + 1})
    <3>1. RunEnd(U, newest, 0) = Min({m \in U : m > 0} \cup {newest + 1}) - 1
      BY Zenon DEF RunEnd
    <3>2. first = (k - 1) + 1
      BY ONLY <2>1, <3>1
    <3>3. k \in Nat
      BY <2>2
    <3> HIDE DEF k, first
    <3>4. k = first
      BY ONLY <3>2, <3>3
    <3> QED
      BY <3>4 DEF k
  <2> QED
    BY <2>3, Zenon DEF BitsToLine, RunEnd
<1> HIDE DEF first
<1>4. starts \in SUBSET (1 .. newest) /\ starts \in SUBSET Nat /\ IsFiniteSet(starts)
  <2>1. starts \in SUBSET (1 .. newest)
    BY <1>2
  <2>2. IsFiniteSet(1 .. newest)
    BY FS_Interval
  <2> QED
    BY <2>1, <2>2, FS_Subset
<1>5. \A n \in starts : /\ n \in first + 1 .. newest /\ n \notin U /\ n - 1 \in U
                        /\ n \in 1 .. newest
  BY <1>2
<1>6. \A n \in first + 1 .. newest : n \notin U /\ n - 1 \in U => n \in starts
  OBVIOUS
<1> HIDE DEF starts
<1>7. C \in Nat
  BY <1>4, FS_CardinalityType
<1>8. \A i \in 1 .. C : Nth(starts, i) \in starts
  BY <1>4, NthExists
<1>9. ASSUME NEW n \in starts
      PROVE  /\ end(n) \in n .. newest
             /\ \A m \in U : m > n => m > end(n)
             /\ run(n) \in ItemType /\ run(n).min = n /\ run(n).max = end(n)
             /\ ~run(n).range => run(n).min = run(n).max
             /\ Numbers(run(n)) = n .. end(n)
  <2>1. n \in 0 .. newest /\ n \in 1 .. newest
    BY <1>5
  <2>2. end(n) \in n .. newest /\ \A m \in U : m > n => m > end(n)
    BY <1>1, <2>1, RunEnds
  <2> HIDE DEF end
  <2>3. /\ run(n) \in ItemType /\ run(n).min = n /\ run(n).max = end(n)
        /\ ~run(n).range => run(n).min = run(n).max
    BY <2>1, <2>2 DEF RangeOf, Single, ItemType
  <2> QED
    BY <2>2, <2>3 DEF Numbers
<1> HIDE DEF C
<1>10. /\ line \in Seq(ItemType) /\ Len(line) = C + 1
       /\ line[1] = RangeOf(1, first - 1)
       /\ \A i \in 2 .. C + 1 : line[i] = run(Nth(starts, i - 1))
  <2> HIDE DEF run
  <2>1. runs \in Seq(ItemType) /\ Len(runs) = C
        /\ \A i \in 1 .. C : runs[i] = run(Nth(starts, i))
    BY <1>7, <1>8, <1>9
  <2> DEFINE head == <<RangeOf(1, first - 1)>>
  <2>2. head \in Seq(ItemType) /\ Len(head) = 1 /\ head[1] = RangeOf(1, first - 1)
    BY <1>2 DEF RangeOf, ItemType
  <2> HIDE DEF head, runs
  <2>3. /\ head \o runs \in Seq(ItemType) /\ Len(head \o runs) = C + 1
        /\ (head \o runs)[1] = head[1]
        /\ \A i \in 2 .. C + 1 : (head \o runs)[i] = runs[i - 1]
    <3>1. /\ head \o runs \in Seq(ItemType) /\ Len(head \o runs) = Len(head) + Len(runs)
          /\ \A i \in 1 .. Len(head) : (head \o runs)[i] = head[i]
          /\ \A i \in Len(head) + 1 .. Len(head) + Len(runs) :
               (head \o runs)[i] = runs[i - Len(head)]
      BY <2>1, <2>2, Joined
    <3> QED
      BY <1>7, <2>1, <2>2, <3>1
  <2>4. \A i \in 2 .. C + 1 : i - 1 \in 1 .. C
    BY <1>7
  <2> QED
    BY <2>1, <2>2, <2>3, <2>4 DEF head
<1> HIDE DEF line, run
<1>11. \A i \in 2 .. C + 1 : i - 1 \in 1 .. C /\ Nth(starts, i - 1) \in starts
  BY <1>7, <1>8
<1>12. DOMAIN line = 1 .. C + 1
  BY <1>7, <1>10
<1>13. line[1].min = 1 /\ line[1].max = first - 1 /\ Numbers(line[1]) = 1 .. first - 1
       /\ IsItem(line[1], 1)
  <2>1. line[1].min = 1 /\ line[1].max = first - 1 /\ line[1].range
    BY <1>10 DEF RangeOf
  <2>2. line[1] \in ItemType
    BY <1>2, <1>10 DEF RangeOf, ItemType
  <2>3. 1 <= first - 1 \/ line[1] = RangeOf(1, 0)
    BY <1>2, <1>10
  <2> QED
    BY <2>1, <2>2, <2>3 DEF Numbers, IsItem
<1>14. ASSUME NEW i \in 1 .. C + 1 PROVE IsItem(line[i], i) /\ line[i].max <= newest
  <2>1. CASE i = 1
    BY <1>2, <1>13, <2>1
  <2>2. CASE i \in 2 .. C + 1
    <3> DEFINE n == Nth(starts, i - 1)
    <3>1. n \in starts /\ line[i] = run(n)
      BY <1>10, <1>11, <2>2
    <3> HIDE DEF n
    <3> QED
      BY <1>5, <1>9, <3>1 DEF IsItem
  <2> QED
    BY <1>7, <2>1, <2>2
<1>15. ASSUME NEW i \in 1 .. C + 1, NEW j \in 1 .. C + 1, i < j
       PROVE  line[i].max < line[j].min
  <2>1. j \in 2 .. C + 1
    BY <1>7, <1>15
  <2> DEFINE t == Nth(starts, j - 1)
  <2>2. t \in starts /\ line[j].min = t
    BY <1>9, <1>10, <1>11, <2>1
  <2>3. CASE i = 1
    <3> HIDE DEF t
    <3> QED
      BY <1>2, <1>5, <1>13, <2>2, <2>3
  <2>4. CASE i \in 2 .. C + 1
    <3> DEFINE s == Nth(starts, i - 1)
    <3>1. s \in starts /\ line[i].max = end(s)
      BY <1>9, <1>10, <1>11, <2>4
    <3>2. s < t
      BY <1>4, <1>11, <1>15, <2>1, <2>4, NthInOrder DEF C
    <3> HIDE DEF s, t, end
    <3>3. t - 1 \in U /\ s \notin U /\ s \in Nat /\ t \in Nat
      BY <1>5, <2>2, <3>1
    <3>4. t - 1 > s
      BY <3>2, <3>3
    <3>5. t - 1 > end(s) /\ end(s) \in s .. newest
      BY <1>9, <3>1, <3>3, <3>4
    <3> QED
      BY <2>2, <3>1, <3>3, <3>5
  <2> QED
    BY <1>7, <2>3, <2>4
<1>16. InOrder(line, newest)
  BY <1>10, <1>12, <1>14, <1>15 DEF InOrder
<1>17. ASSUME NEW m \in Read(line) PROVE m \in (1 .. newest) \ U
  <2>1. PICK i \in 1 .. C + 1 : m \in Numbers(line[i])
    BY <1>12, ReadItems
  <2>2. CASE i = 1
    BY <1>2, <1>13, <2>1, <2>2
  <2>3. CASE i \in 2 .. C + 1
    <3> DEFINE s == Nth(starts, i - 1)
    <3>1. s \in starts /\ line[i] = run(s)
      BY <1>10, <1>11, <2>3
    <3> HIDE DEF s, end
    <3>2. m \in s .. end(s) /\ end(s) \in s .. newest /\ \A u \in U : u > s => u > end(s)
      BY <1>9, <2>1, <3>1
    <3> QED
      BY <1>1, <1>5, <3>1, <3>2
  <2> QED
    BY <1>7, <2>2, <2>3
<1>18. ASSUME NEW m \in (1 .. newest) \ U PROVE m \in Read(line)
  <2>1. CASE m < first
    <3>1. m \in Numbers(line[1]) /\ 1 \in DOMAIN line
      BY <1>2, <1>7, <1>12, <1>13, <2>1
    <3> QED
      BY <3>1, ReadItems
  <2>2. CASE ~(m < first)
    <3> DEFINE Before == {u \in U : u < m}
    <3>1. first \in U /\ first \in Before
      BY <1>2, <2>2
    <3>2. PICK p \in Before : \A u \in Before : u <= p
      <4>1. Before \in SUBSET (0 .. newest) /\ Before # {}
        <5>1. \A u \in Before : u \in 0 .. newest
          BY <1>1
        <5> HIDE DEF Before
        <5> QED
          BY <3>1, <5>1
      <4> HIDE DEF Before
      <4> QED
        BY <4>1, GreatestNat
    <3>3. p + 1 \notin U
      BY <1>1, <3>2
    <3>4. p + 1 \in starts
      <4>1. p + 1 \in first + 1 .. newest /\ (p + 1) - 1 = p
        BY <1>1, <1>2, <3>1, <3>2
      <4> QED
        BY <1>6, <3>2, <3>3, <4>1
    <3>5. m <= end(p + 1)
      <4>1. /\ end(p + 1) \in p + 1 .. newest
            /\ end(p + 1) + 1 \in U \cup {newest + 1}
        BY <1>1, <1>5, <3>4, RunEnds
      <4> HIDE DEF end
      <4>2. end(p + 1) + 1 \in U => ~(end(p + 1) + 1 < m)
        BY <1>1, <3>2, <4>1
      <4> QED
        BY <1>1, <4>1, <4>2
    <3>6. m \in Numbers(run(p + 1))
      <4>1. p + 1 <= m
        BY <1>1, <3>2
      <4>2. Numbers(run(p + 1)) = p + 1 .. end(p + 1) /\ end(p + 1) \in p + 1 .. newest
        BY <1>9, <3>4
      <4> HIDE DEF end
      <4> QED
        BY <1>1, <3>2, <3>5, <4>1, <4>2
    <3>7. PICK i \in 1 .. C : Nth(starts, i) = p + 1
      BY <1>4, <3>4, NthInOrder DEF C
    <3>8. i + 1 \in 2 .. C + 1 /\ line[i + 1] = run(p + 1) /\ i + 1 \in DOMAIN line
      BY <1>7, <1>10, <1>12, <3>7
    <3> QED
      BY <3>6, <3>8, ReadItems
  <2> QED
    BY <2>1, <2>2
<1>19. 1 \in DOMAIN line
  BY <1>7, <1>12
<1>20. line[1] = RangeOf(1, RunEnd(U, newest, 0))
  <2>1. RunEnd(U, newest, 0) \in 0 .. newest
    BY <1>1, RunEnds
  <2> QED
    BY <1>10, <2>1 DEF first
<1> QED
  BY <1>3, <1>16, <1>17, <1>18, <1>19, <1>20

\* What an item behind the head marks in the open group, whether or not it
\* begins before the first article that is not skipped.
LEMMA ClippedItem ==
  ASSUME NEW item \in ItemType, ~item.range => item.min = item.max,
         NEW start \in Nat, NEW newest \in Nat, NEW n \in start .. newest
  PROVE  /\ n \in Numbers(item) => n \in Clipped(item, start, newest)
         /\ item.min >= start /\ n \in Clipped(item, start, newest)
              => n \in Numbers(item)
<1>1. item.min \in Nat /\ item.max \in Nat /\ item.range \in BOOLEAN
  BY DEF ItemType
<1>2. CASE item.min > newest
  <2>1. n \notin Numbers(item)
    BY <1>1, <1>2 DEF Numbers
  <2>2. n \notin Clipped(item, start, newest)
    BY <1>1, <1>2 DEF Clipped
  <2> QED
    BY <2>1, <2>2
<1>3. CASE item.min <= newest /\ item.min < start
  BY <1>1, <1>3 DEF Clipped, Numbers
<1>4. CASE item.min <= newest /\ item.min >= start
  BY <1>1, <1>4 DEF Clipped, Numbers
<1> QED
  BY <1>1, <1>2, <1>3, <1>4

\* rc_to_bits (bits.cpp) with set_firstart: what becomes unread exists, is in
\* the group, and is not marked by the line.  Everything that is not marked by
\* the line does, if no item behind the head begins before g_firstart.
THEOREM BitsAreUnread ==
  ASSUME NEW N \in Nat, NEW line, InOrder(line, N), NEW oldest \in Nat \ {0},
         NEW newest \in Nat, NEW present \in SUBSET Nat
  PROVE  LET flags    == LineToBits(line, oldest, newest, present)
             start    == Firstart(line, oldest)
         IN  /\ start \in Nat /\ start >= oldest
             /\ start = oldest \/ start <= N + 1
             /\ flags \subseteq present \cap (start .. newest)
             /\ flags \cap Read(line) = {}
             /\ (\A i \in DOMAIN line :
                   line[i].min >= start \/ (i = 1 /\ HasHead(line)))
                => flags = {n \in present : n \in oldest .. newest} \ Read(line)
<1> DEFINE L        == Len(line)
           start    == Firstart(line, oldest)
           items    == IF HasHead(line) THEN Tail(line) ELSE line
           read     == UNION {Clipped(items[i], start, newest) : i \in DOMAIN items}
           flags    == LineToBits(line, oldest, newest, present)
           from     == IF HasHead(line) THEN 2 ELSE 1
<1>1. /\ line \in Seq(ItemType) /\ L \in Nat /\ DOMAIN line = 1 .. L
      /\ \A i \in 1 .. L :
           /\ line[i] \in ItemType /\ line[i].min \in Nat /\ line[i].max \in Nat
           /\ 1 <= line[i].min /\ line[i].max <= N
           /\ ~line[i].range => line[i].min = line[i].max
      /\ \A i, j \in 1 .. L : i < j => line[i].max < line[j].min
  BY Ordered
<1>2. HasHead(line) => L >= 1 /\ line[1].min = 1 /\ line[1].max \in Nat /\ line[1].max <= N
  BY <1>1 DEF HasHead
<1>3. /\ start \in Nat /\ start >= oldest
      /\ start = oldest \/ start <= N + 1
      /\ HasHead(line) => line[1].max < start
      /\ start # oldest => HasHead(line) /\ start = line[1].max + 1
  BY <1>2 DEF Firstart
<1>4. flags = {n \in present : n \in start .. newest} \ read
  BY DEF LineToBits
<1>5. ASSUME NEW n
      PROVE  n \in read <=> \E i \in from .. L : n \in Clipped(line[i], start, newest)
  <2> DEFINE C(item) == Clipped(item, start, newest)
  <2> HIDE DEF C, start
  <2>1. CASE HasHead(line)
    <3>1. /\ DOMAIN items = 1 .. L - 1
          /\ \A i \in 1 .. L - 1 : items[i] = line[i + 1]
      BY <1>1, <1>2, <2>1
    <3>2. from = 2
      BY <2>1
    <3> HIDE DEF items, from
    <3>3. ASSUME n \in UNION {C(items[i]) : i \in DOMAIN items}
          PROVE  \E i \in 2 .. L : n \in C(line[i])
      <4>1. PICK i \in 1 .. L - 1 : n \in C(items[i])
        BY <3>1, <3>3
      <4>2. i + 1 \in 2 .. L /\ items[i] = line[i + 1]
        BY <1>1, <3>1
      <4> QED
        BY <4>1, <4>2
    <3>4. ASSUME NEW i \in 2 .. L, n \in C(line[i])
          PROVE  n \in UNION {C(items[j]) : j \in DOMAIN items}
      <4>1. i - 1 \in 1 .. L - 1 /\ items[i - 1] = line[i]
        BY <1>1, <3>1
      <4> QED
        BY <3>1, <3>4, <4>1
    <3> QED
      BY <3>2, <3>3, <3>4 DEF C
  <2>2. CASE ~HasHead(line)
    <3>1. DOMAIN items = 1 .. L /\ items = line /\ from = 1
      BY <1>1, <2>2
    <3> QED
      BY <3>1
  <2> QED
    BY <2>1, <2>2
<1> HIDE DEF start, read, flags, from
<1>6. flags \subseteq present \cap (start .. newest)
  BY <1>4
<1>7. \A i \in 1 .. L : i \in from .. L \/ (i = 1 /\ HasHead(line))
  BY <1>1 DEF from
<1>8. from .. L \subseteq 1 .. L
  BY <1>1 DEF from
<1>9. ASSUME NEW n \in flags, n \in Read(line) PROVE FALSE
  <2>1. n \in start .. newest /\ n \notin read
    BY <1>4
  <2>2. PICK i \in 1 .. L : n \in Numbers(line[i])
    BY <1>1, <1>9, ReadItems
  <2>3. CASE i = 1 /\ HasHead(line)
    BY <1>2, <1>3, <2>1, <2>2, <2>3 DEF Numbers
  <2>4. CASE i \in from .. L
    <3>1. n \in Clipped(line[i], start, newest)
      BY <1>1, <1>3, <2>1, <2>2, ClippedItem
    <3> QED
      BY <1>5, <2>1, <2>4, <3>1
  <2> QED
    BY <1>7, <2>3, <2>4
<1>10. ASSUME \A i \in DOMAIN line :
                line[i].min >= start \/ (i = 1 /\ HasHead(line)),
              NEW n \in present, n \in oldest .. newest, n \notin Read(line)
       PROVE  n \in flags
  <2>1. n \in start .. newest
    <3> SUFFICES ASSUME ~(start <= n) PROVE FALSE
      BY <1>3, <1>10
    <3>1. HasHead(line) /\ start = line[1].max + 1
      BY <1>3, <1>10
    <3>2. 1 \in DOMAIN line /\ n \in Numbers(line[1])
      BY <1>1, <1>2, <1>3, <1>10, <3>1 DEF Numbers
    <3> QED
      BY <1>10, <3>2, ReadItems
  <2>2. ASSUME NEW i \in from .. L, n \in Clipped(line[i], start, newest)
        PROVE  FALSE
    <3>1. i \in 1 .. L /\ ~(i = 1 /\ HasHead(line))
      BY <1>1, <1>8 DEF from
    <3>2. line[i].min >= start
      BY <1>1, <1>10, <3>1
    <3>3. n \in Numbers(line[i])
      BY <1>1, <1>3, <2>1, <2>2, <3>1, <3>2, ClippedItem
    <3> QED
      BY <1>1, <1>10, <3>1, <3>3, ReadItems
  <2> QED
    BY <1>4, <1>5, <2>1, <2>2
<1>11. flags \subseteq {n \in present : n \in oldest .. newest}
  <2>1. start .. newest \subseteq oldest .. newest
    BY <1>3
  <2> QED
    BY <1>6, <2>1
<1>12. (\A i \in DOMAIN line : line[i].min >= start \/ (i = 1 /\ HasHead(line)))
         => flags = {n \in present : n \in oldest .. newest} \ Read(line)
  BY <1>9, <1>10, <1>11
<1> QED
  BY <1>3, <1>6, <1>9, <1>12 DEF flags, start

\* What is written on the line of a group when it is left is what is read from
\* it when it is entered again: bits_to_rc and rc_to_bits are inverses.
THEOREM LeavingAndEntering ==
  ASSUME NEW newest \in Nat, NEW oldest \in 1 .. newest + 1,
         NEW present \in SUBSET (oldest .. newest), NEW U \in SUBSET present
  PROVE  LineToBits(BitsToLine(oldest, newest, U), oldest, newest, present) = U
<1> DEFINE line     == BitsToLine(oldest, newest, U)
           start    == Firstart(line, oldest)
           last     == RunEnd(U, newest, 0)
<1>1. /\ InOrder(line, newest) /\ Read(line) = (1 .. newest) \ U
      /\ 1 \in DOMAIN line /\ line[1] = RangeOf(1, last)
  <2>1. U \in SUBSET (oldest .. newest)
    OBVIOUS
  <2> QED
    BY <2>1, LineMarksTheRest
<1> HIDE DEF line
<1>2. present \in SUBSET Nat /\ oldest \in Nat \ {0}
  OBVIOUS
<1>3. /\ LineToBits(line, oldest, newest, present) \subseteq present
      /\ LineToBits(line, oldest, newest, present) \cap Read(line) = {}
      /\ (\A i \in DOMAIN line : line[i].min >= start \/ (i = 1 /\ HasHead(line)))
           => LineToBits(line, oldest, newest, present)
                = {n \in present : n \in oldest .. newest} \ Read(line)
  BY <1>1, <1>2, BitsAreUnread
<1>4. last \in Nat /\ last >= oldest - 1
  <2>1. U \in SUBSET (1 .. newest) /\ \A n \in U : n \in Nat /\ n >= oldest
    OBVIOUS
  <2>2. last \in 0 .. newest /\ last + 1 \in U \cup {newest + 1}
    BY <2>1, RunEnds
  <2> HIDE DEF last
  <2> QED
    BY <2>1, <2>2
<1> HIDE DEF last
<1>5. line[1].range /\ line[1].min = 1 /\ line[1].max = last
  BY <1>1 DEF RangeOf
<1>6. HasHead(line)
  <2>1. line # << >>
    BY <1>1
  <2> QED
    BY <1>5, <2>1 DEF HasHead
<1>7. start = last + 1
  BY <1>4, <1>5, <1>6 DEF Firstart
<1>8. ASSUME NEW i \in DOMAIN line, i # 1 PROVE line[i].min >= start
  <2>1. line[1].max < line[i].min /\ line[i].min \in Nat
    BY <1>1, <1>8, Ordered
  <2> QED
    BY <1>4, <1>5, <1>7, <2>1
<1>9. LineToBits(line, oldest, newest, present)
        = {n \in present : n \in oldest .. newest} \ Read(line)
  BY <1>3, <1>6, <1>8
<1>10. ASSUME NEW n \in present
       PROVE  n \in oldest .. newest /\ (n \notin Read(line) <=> n \in U)
  BY <1>1
<1> QED
  BY <1>9, <1>10 DEF line

\* What set_toread holds while it counts: N bounds the size of the group.
Account(N) == [unread : Int, ngsize : 0 .. N, over : BOOLEAN]

\* One item leaves the account in its range; the group does not shrink, and an
\* item that ends the count gives -1.
LEMMA CountOne ==
  ASSUME NEW N \in Nat, NEW acc \in Account(N), NEW item \in ItemType,
         item.max <= N, NEW lax
  PROVE  /\ CountItem(acc, item, lax) \in Account(N)
         /\ CountItem(acc, item, lax).ngsize >= acc.ngsize
<1>1. /\ acc.unread \in Int /\ acc.ngsize \in 0 .. N /\ acc.over \in BOOLEAN
      /\ acc = [unread |-> acc.unread, ngsize |-> acc.ngsize, over |-> acc.over]
  BY DEF Account
<1>2. item.min \in Nat /\ item.max \in Nat
  BY DEF ItemType
<1>3. Taken(item) \in Int
  BY <1>2 DEF Taken
<1> HIDE DEF Account
<1>4. CASE acc.over
  BY <1>1, <1>4 DEF CountItem
<1>5. CASE ~acc.over /\ item.max <= acc.ngsize
  <2>1. CountItem(acc, item, lax) = [acc EXCEPT !.unread = @ - Taken(item)]
    BY <1>1, <1>2, <1>5 DEF CountItem
  <2>2. CountItem(acc, item, lax)
          = [unread |-> acc.unread - Taken(item), ngsize |-> acc.ngsize, over |-> acc.over]
    BY <1>1, <2>1
  <2> QED
    BY <1>1, <1>3, <2>2 DEF Account
<1>6. CASE ~acc.over /\ item.max > acc.ngsize /\ lax
  <2>1. CountItem(acc, item, lax) =
          [acc EXCEPT !.unread = @ - Taken(item) + item.max - acc.ngsize,
                      !.ngsize = item.max]
    BY <1>1, <1>2, <1>6 DEF CountItem
  <2>2. CountItem(acc, item, lax)
          = [unread |-> acc.unread - Taken(item) + item.max - acc.ngsize,
             ngsize |-> item.max, over |-> acc.over]
    BY <1>1, <2>1
  <2>3. acc.unread - Taken(item) + item.max - acc.ngsize \in Int
    BY <1>1, <1>2, <1>3
  <2>4. item.max \in 0 .. N /\ item.max >= acc.ngsize
    BY <1>1, <1>2, <1>6
  <2> QED
    BY <1>1, <2>2, <2>3, <2>4 DEF Account
<1>7. CASE ~acc.over /\ item.max > acc.ngsize /\ ~lax
  <2>1. CountItem(acc, item, lax) = [acc EXCEPT !.unread = -1, !.over = TRUE]
    BY <1>1, <1>2, <1>7 DEF CountItem
  <2>2. CountItem(acc, item, lax) = [unread |-> -1, ngsize |-> acc.ngsize, over |-> TRUE]
    BY <1>1, <2>1
  <2> QED
    BY <1>1, <2>2 DEF Account
<1> QED
  BY <1>1, <1>2, <1>4, <1>5, <1>6, <1>7

\* set_toread never takes the group to be smaller than the server said, nor
\* larger than the numbers on its line.
LEMMA CountType ==
  ASSUME NEW N \in Nat, NEW line, InOrder(line, N), NEW ngsize \in 0 .. N, NEW lax
  PROVE  /\ Count(line, ngsize, lax) \in Account(N)
         /\ Count(line, ngsize, lax).ngsize >= ngsize
<1> DEFINE L    == Len(line)
           acc0 == [unread |-> ngsize, ngsize |-> ngsize, over |-> FALSE]
           Good == {a \in Account(N) : a.ngsize >= ngsize}
           F(f, m) == [i \in 0 .. m |-> IF i = 0 THEN acc0
                                        ELSE CountItem(f[i - 1], line[i], lax)]
           Has  == {m \in 0 .. L : \E f \in [0 .. m -> Good] : f = F(f, m)}
<1>1. L \in Nat /\ \A i \in 1 .. L : line[i] \in ItemType /\ line[i].max <= N
  BY Ordered
<1>2. acc0 \in Good
  BY DEF Account
<1>3. \A a \in Good, i \in 1 .. L : CountItem(a, line[i], lax) \in Good
  <2> SUFFICES ASSUME NEW a \in Good, NEW i \in 1 .. L
               PROVE  CountItem(a, line[i], lax) \in Good
    OBVIOUS
  <2>1. a \in Account(N) /\ a.ngsize \in 0 .. N /\ a.ngsize >= ngsize
    BY DEF Account
  <2>2. /\ CountItem(a, line[i], lax) \in Account(N)
        /\ CountItem(a, line[i], lax).ngsize >= a.ngsize
    BY <1>1, <2>1, CountOne
  <2>3. CountItem(a, line[i], lax).ngsize \in 0 .. N
    BY <2>2 DEF Account
  <2> QED
    BY <2>1, <2>2, <2>3
<1> HIDE DEF Good, acc0
<1>4. 0 \in Has
  <2> DEFINE f == [i \in 0 .. 0 |-> acc0]
  <2>1. f \in [0 .. 0 -> Good]
    BY <1>2
  <2>2. f = F(f, 0)
    OBVIOUS
  <2> HIDE DEF f, F
  <2> QED
    BY <1>1, <2>1, <2>2
<1>5. ASSUME NEW m \in 1 .. L, m - 1 \in Has PROVE m \in Has
  <2>1. PICK f \in [0 .. m - 1 -> Good] : f = F(f, m - 1)
    BY <1>5
  <2> DEFINE g == [i \in 0 .. m |-> IF i = m THEN CountItem(f[m - 1], line[m], lax)
                                    ELSE f[i]]
  <2>2. g \in [0 .. m -> Good]
    <3> SUFFICES ASSUME NEW i \in 0 .. m
                 PROVE  (IF i = m THEN CountItem(f[m - 1], line[m], lax) ELSE f[i]) \in Good
      OBVIOUS
    <3>1. m - 1 \in 0 .. m - 1 /\ (i # m => i \in 0 .. m - 1)
      OBVIOUS
    <3> QED
      BY <1>3, <2>1, <3>1
  <2>3. ASSUME NEW i \in 0 .. m PROVE g[i] = F(g, m)[i]
    <3>1. CASE i = 0
      <4>1. f[0] = acc0 /\ 0 \in 0 .. m - 1
        BY <2>1
      <4> QED
        BY <3>1, <4>1
    <3>2. CASE i \in 1 .. m - 1
      <4>1. f[i] = CountItem(f[i - 1], line[i], lax)
        BY <2>1, <3>2
      <4>2. g[i] = f[i] /\ g[i - 1] = f[i - 1]
        BY <3>2
      <4> HIDE DEF g
      <4> QED
        BY <3>2, <4>1, <4>2
    <3>3. CASE i = m
      <4>1. g[m] = CountItem(f[m - 1], line[m], lax) /\ g[m - 1] = f[m - 1]
        OBVIOUS
      <4> HIDE DEF g
      <4> QED
        BY <3>3, <4>1
    <3> QED
      BY <3>1, <3>2, <3>3
  <2> HIDE DEF g
  <2>4. g = F(g, m)
    BY <2>2, <2>3
  <2> HIDE DEF F
  <2> QED
    BY <1>1, <2>2, <2>4
<1>6. L \in Has
  <2> HIDE DEF Has
  <2>1. \A i \in 0 .. L : i \in Has
    BY <1>1, <1>4, <1>5, UpTo
  <2> QED
    BY <1>1, <2>1
<1> DEFINE acc == CHOOSE f : f = F(f, L)
<1>7. acc = F(acc, L)
  <2>1. \E f : f = F(f, L)
    BY <1>6
  <2> HIDE DEF F
  <2> QED
    BY <2>1, Zenon
<1>8. \A i \in 0 .. L : acc[i] \in Good
  <2> HIDE DEF acc
  <2> DEFINE OK == {i \in 0 .. L : acc[i] \in Good}
  <2>1. 0 \in OK
    BY <1>1, <1>2, <1>7
  <2>2. ASSUME NEW i \in 1 .. L, i - 1 \in OK PROVE i \in OK
    <3>1. acc[i] = CountItem(acc[i - 1], line[i], lax)
      BY <1>1, <1>7
    <3>2. acc[i - 1] \in Good /\ i \in 0 .. L
      BY <2>2
    <3> QED
      BY <1>3, <3>1, <3>2
  <2> HIDE DEF OK
  <2>3. \A i \in 0 .. L : i \in OK
    BY <1>1, <2>1, <2>2, UpTo
  <2> QED
    BY <2>3 DEF OK
<1>9. Count(line, ngsize, lax) = acc[L]
  BY DEF Count, acc, acc0
<1>10. acc[L] \in Good
  BY <1>1, <1>8
<1> QED
  BY <1>9, <1>10 DEF Good

-----------------------------------------------------------------------------
(* The numbers that the server gives to its posts.                          *)

\* How many of the first i posts are in g.
LEMMA NumberType ==
  ASSUME NEW g, NEW i \in 0 .. Len(Posts)
  PROVE  /\ Number(g, i) \in Nat
         /\ IsFiniteSet({j \in 1 .. i : g \in Posts[j]})
<1>1. Len(Posts) \in Nat
  BY GroupAssumption
<1>2. IsFiniteSet(1 .. i) /\ {j \in 1 .. i : g \in Posts[j]} \in SUBSET (1 .. i)
  BY <1>1, FS_Interval
<1> QED
  BY <1>2, FS_Subset, FS_CardinalityType DEF Number

\* Numbers grow with the posts, and a post of the group has one of its own.
LEMMA NumberGrows ==
  ASSUME NEW g, NEW i \in 0 .. Len(Posts), NEW k \in 0 .. Len(Posts), i <= k
  PROVE  /\ Number(g, i) <= Number(g, k)
         /\ i < k /\ g \in Posts[k] => Number(g, i) < Number(g, k)
<1> DEFINE A == {j \in 1 .. i : g \in Posts[j]}
           B == {j \in 1 .. k : g \in Posts[j]}
<1>0. Len(Posts) \in Nat
  BY GroupAssumption
<1>1. A \in SUBSET B
  BY <1>0
<1>2. IsFiniteSet(A) /\ IsFiniteSet(B)
  BY NumberType
<1>3. Cardinality(A) <= Cardinality(B)
  BY <1>1, <1>2, FS_Subset
<1>4. ASSUME i < k, g \in Posts[k] PROVE Cardinality(A) + 1 <= Cardinality(B)
  <2>1. k \notin A /\ A \cup {k} \in SUBSET B
    BY <1>0, <1>1, <1>4
  <2>2. Cardinality(A \cup {k}) = Cardinality(A) + 1
    BY <1>2, <2>1, FS_AddElement
  <2>3. Cardinality(A \cup {k}) <= Cardinality(B)
    BY <1>2, <2>1, FS_Subset
  <2> QED
    BY <2>2, <2>3
<1>5. Cardinality(A) \in Nat /\ Cardinality(B) \in Nat
  BY <1>2, FS_CardinalityType
<1> QED
  BY <1>3, <1>4, <1>5 DEF Number

\* One more post gives at most one more number.
LEMMA NumberNext ==
  ASSUME NEW g, NEW i \in 1 .. Len(Posts)
  PROVE  Number(g, i) = Number(g, i - 1) + (IF g \in Posts[i] THEN 1 ELSE 0)
<1> DEFINE A == {j \in 1 .. i - 1 : g \in Posts[j]}
           B == {j \in 1 .. i : g \in Posts[j]}
<1>0. Len(Posts) \in Nat /\ i - 1 \in 0 .. Len(Posts)
  BY GroupAssumption
<1>1. IsFiniteSet(A)
  BY <1>0, NumberType
<1>2. CASE g \in Posts[i]
  <2>1. B = A \cup {i} /\ i \notin A
    BY <1>0, <1>2
  <2>2. Cardinality(A \cup {i}) = Cardinality(A) + 1
    BY <1>1, <2>1, FS_AddElement
  <2> QED
    BY <1>2, <2>1, <2>2 DEF Number
<1>3. CASE g \notin Posts[i]
  <2>1. B = A
    BY <1>0, <1>3
  <2>2. Cardinality(A) \in Nat
    BY <1>1, FS_CardinalityType
  <2>3. Number(g, i) = Cardinality(B) /\ Number(g, i - 1) = Cardinality(A)
    BY DEF Number
  <2> HIDE DEF A, B
  <2> QED
    BY <1>3, <2>1, <2>2, <2>3
<1> QED
  BY <1>2, <1>3

\* Each number up to the highest is that of a post that has arrived.
LEMMA PostOfNumber ==
  ASSUME NEW g, NEW a \in 0 .. Len(Posts), NEW n \in 1 .. Number(g, a)
  PROVE  /\ PostOf(g, n) \in 1 .. a
         /\ g \in Posts[PostOf(g, n)]
         /\ Number(g, PostOf(g, n)) = n
<1>0. Len(Posts) \in Nat /\ DOMAIN Posts = 1 .. Len(Posts)
  BY GroupAssumption
<1>1. Number(g, 0) = 0
  <2>1. {j \in 1 .. 0 : g \in Posts[j]} = {}
    OBVIOUS
  <2> QED
    BY <2>1, FS_EmptySet DEF Number
<1>2. Number(g, a) \in Nat
  BY NumberType
<1> DEFINE S == {i \in 0 .. a : Number(g, i) >= n}
<1>3. PICK i \in S : \A k \in S : i <= k
  <2>1. a \in S
    BY <1>0, <1>2
  <2>2. S \in SUBSET Nat
    BY <1>0
  <2> HIDE DEF S
  <2> QED
    BY <2>1, <2>2, LeastNat
<1>4. i \in 1 .. a /\ i - 1 \in 0 .. a /\ Number(g, i) >= n
  BY <1>0, <1>1, <1>2, <1>3
<1>5. i \in 1 .. Len(Posts) /\ i - 1 \in 0 .. Len(Posts)
  BY <1>0, <1>4
<1>6. Number(g, i - 1) < n /\ Number(g, i - 1) \in Nat
  <2>1. Number(g, i - 1) \in Nat
    BY <1>5, NumberType
  <2> QED
    BY <1>0, <1>2, <1>3, <1>4, <2>1
<1>7. g \in Posts[i] /\ Number(g, i) = n
  BY <1>2, <1>4, <1>5, <1>6, NumberNext
<1> DEFINE p == PostOf(g, n)
<1>8. p \in 1 .. Len(Posts) /\ g \in Posts[p] /\ Number(g, p) = n
  <2>1. \E j \in DOMAIN Posts : g \in Posts[j] /\ Number(g, j) = n
    BY <1>0, <1>5, <1>7
  <2>2. p \in DOMAIN Posts /\ g \in Posts[p] /\ Number(g, p) = n
    BY <2>1, Zenon DEF PostOf
  <2> QED
    BY <1>0, <2>2
<1> HIDE DEF p
<1>9. ~(a < p)
  <2> SUFFICES ASSUME a < p PROVE FALSE
    OBVIOUS
  <2>1. Number(g, a) < Number(g, p)
    BY <1>0, <1>8, NumberGrows
  <2> QED
    BY <1>2, <1>8, <2>1
<1>10. p \in 1 .. a
  BY <1>0, <1>8, <1>9
<1> QED
  BY <1>8, <1>10 DEF p

\* The articles that are there, and the first one.
LEMMA FirstThere ==
  ASSUME arrived \in 0 .. Len(Posts), NEW g
  PROVE  /\ High(g) \in Nat
         /\ There(g) \in SUBSET (1 .. High(g))
         /\ Low(g) \in 1 .. High(g) + 1
         /\ \A n \in There(g) : n \in Nat /\ Low(g) <= n
<1>1. High(g) \in Nat
  BY NumberType DEF High
<1>2. There(g) \in SUBSET (1 .. High(g))
  BY DEF There
<1> DEFINE S == There(g) \cup {High(g) + 1}
<1>3. \A n \in S : n \in 1 .. High(g) + 1
  BY <1>1, <1>2
<1>4. S \in SUBSET Nat /\ S # {}
  <2>1. High(g) + 1 \in S
    OBVIOUS
  <2> HIDE DEF S
  <2> QED
    BY <1>3, <2>1
<1>5. Low(g) \in S /\ \A n \in S : Low(g) <= n
  <2>1. Low(g) = Min(S)
    BY DEF Low
  <2> HIDE DEF S
  <2> QED
    BY <1>4, <2>1, MinNat
<1>6. \A n \in There(g) : n \in S /\ n \in Nat
  BY <1>2
<1> HIDE DEF S
<1> QED
  BY <1>1, <1>2, <1>3, <1>5, <1>6

\* The numbers of a crossposted article in the other groups.
LEMMA XrefNumbers ==
  ASSUME arrived \in 0 .. Len(Posts), NEW g \in Group, NEW n \in 1 .. High(g)
  PROVE  /\ DOMAIN Xrefs(g, n) \in SUBSET (Group \ {g})
         /\ \A h \in DOMAIN Xrefs(g, n) : Xrefs(g, n)[h] \in 1 .. High(h)
<1> DEFINE i == PostOf(g, n)
<1>0. Len(Posts) \in Nat /\ Posts \in Seq(SUBSET Group)
  BY GroupAssumption
<1>1. i \in 1 .. arrived /\ i \in 1 .. Len(Posts)
  <2>1. i \in 1 .. arrived
    BY PostOfNumber DEF High
  <2> QED
    BY <1>0, <2>1
<1> HIDE DEF i
<1>2. Xrefs(g, n) = [h \in Posts[i] \ {g} |-> Number(h, i)]
  BY DEF Xrefs, i
<1>3. Posts[i] \in SUBSET Group
  BY <1>0, <1>1
<1>4. ASSUME NEW h \in Posts[i] PROVE Number(h, i) \in 1 .. High(h)
  <2>1. i \in 0 .. Len(Posts) /\ i - 1 \in 0 .. Len(Posts) /\ i <= arrived
    BY <1>0, <1>1
  <2>2. Number(h, i) = Number(h, i - 1) + 1
    BY <1>1, <1>4, NumberNext
  <2>3. Number(h, i) <= Number(h, arrived)
    BY <2>1, NumberGrows
  <2>4. Number(h, i) \in Nat /\ Number(h, i - 1) \in Nat /\ Number(h, arrived) \in Nat
    BY <2>1, NumberType
  <2> QED
    BY <2>2, <2>3, <2>4 DEF High
<1> QED
  BY <1>2, <1>3, <1>4

(* The NGDATA of a group of N articles.                                     *)

NgData == [line : Seq(ItemType), sub : BOOLEAN, toread : Int, abs1st : Nat, ngmax : Nat]

Fits(np, N) ==
  /\ np \in NgData
  /\ InOrder(np.line, N)
  /\ np.abs1st <= N + 1
  /\ np.ngmax <= N

LEMMA NgFields ==
  ASSUME NEW np \in NgData
  PROVE  /\ np.line \in Seq(ItemType) /\ np.sub \in BOOLEAN /\ np.toread \in Int
         /\ np.abs1st \in Nat /\ np.ngmax \in Nat
         /\ np = [line |-> np.line, sub |-> np.sub, toread |-> np.toread,
                  abs1st |-> np.abs1st, ngmax |-> np.ngmax]
BY DEF NgData

\* NGDATA of which three fields have changed.
LEMMA NgCounted ==
  ASSUME NEW np \in NgData, NEW line, NEW toread, NEW ngmax,
         NEW new, new = [np EXCEPT !.ngmax = ngmax, !.line = line, !.toread = toread]
  PROVE  new = [line |-> line, sub |-> np.sub, toread |-> toread,
                abs1st |-> np.abs1st, ngmax |-> ngmax]
<1>1. PICK l \in Seq(ItemType), s \in BOOLEAN, t \in Int, a \in Nat, m \in Nat :
        np = [line |-> l, sub |-> s, toread |-> t, abs1st |-> a, ngmax |-> m]
  BY NgFields
<1>2. new = [line |-> line, sub |-> s, toread |-> toread, abs1st |-> a, ngmax |-> ngmax]
  BY <1>1
<1>3. np.sub = s /\ np.abs1st = a
  BY <1>1
<1> QED
  BY <1>2, <1>3

\* A line in order of a small group is one of a larger group as well.
LEMMA OrderGrows ==
  ASSUME NEW N \in Nat, NEW M \in Nat, N <= M, NEW line, InOrder(line, N)
  PROVE  InOrder(line, M)
<1>1. \A i \in DOMAIN line : line[i].max <= M
  <2> SUFFICES ASSUME NEW i \in DOMAIN line PROVE line[i].max <= M
    OBVIOUS
  <2>1. line[i].max \in Nat /\ line[i].max <= N
    BY Ordered
  <2> QED
    BY <2>1
<1> QED
  BY <1>1 DEF InOrder

\* What a line in order marks are articles of the group.
LEMMA ReadRange ==
  ASSUME NEW N \in Nat, NEW line, InOrder(line, N)
  PROVE  Read(line) \subseteq 1 .. N
<1> SUFFICES ASSUME NEW n \in Read(line) PROVE n \in 1 .. N
  OBVIOUS
<1>1. PICK i \in DOMAIN line : n \in Numbers(line[i])
  BY ReadItems
<1>2. /\ line[i].min \in Nat /\ line[i].max \in Nat
      /\ 1 <= line[i].min /\ line[i].max <= N
  BY Ordered
<1> QED
  BY <1>1, <1>2 DEF Numbers

\* A line that nothing is on, and one on which everything is.
LEMMA PlainLines ==
  ASSUME NEW N \in Nat
  PROVE  /\ InOrder(<< >>, N) /\ Read(<< >>) = {}
         /\ InOrder(<<RangeOf(1, N)>>, N) /\ Read(<<RangeOf(1, N)>>) = 1 .. N
<1>1. InOrder(<< >>, N) /\ Read(<< >>) = {}
  BY DEF InOrder, Read
<1> DEFINE item == RangeOf(1, N)
           line == <<item>>
<1>2. item \in ItemType /\ item.range /\ item.min = 1 /\ item.max = N
  BY DEF RangeOf, ItemType
<1>3. item.min <= item.max \/ item = RangeOf(1, 0)
  BY <1>2
<1>4. Numbers(item) = 1 .. N
  BY <1>2 DEF Numbers
<1> HIDE DEF item
<1>5. line \in Seq(ItemType) /\ DOMAIN line = {1} /\ line[1] = item
  BY <1>2
<1> HIDE DEF line
<1>6. InOrder(line, N)
  BY <1>2, <1>3, <1>5 DEF InOrder, IsItem
<1>7. Read(line) = 1 .. N
  BY <1>4, <1>5, ReadItems
<1> QED
  BY <1>1, <1>6, <1>7 DEF line, item

\* getngsize.
LEMMA SizeFits ==
  ASSUME arrived \in 0 .. Len(Posts), NEW g, NEW np, Fits(np, High(g))
  PROVE  LET sized == GetNgSize(g, np)
         IN  /\ Fits(sized, High(g))
             /\ sized.line = np.line /\ sized.sub = np.sub /\ sized.toread = np.toread
             /\ sized.abs1st = (IF np.abs1st = 0 THEN Low(g) ELSE np.abs1st)
             /\ sized.abs1st # 0
             /\ sized.ngmax = High(g)
<1> DEFINE a == IF np.abs1st = 0 THEN Low(g) ELSE np.abs1st
           m == IF High(g) <= np.ngmax THEN np.ngmax ELSE High(g)
<1>1. High(g) \in Nat /\ Low(g) \in 1 .. High(g) + 1
  BY FirstThere
<1>2. np \in NgData /\ np.abs1st <= High(g) + 1 /\ np.ngmax <= High(g)
      /\ InOrder(np.line, High(g))
  BY DEF Fits
<1>3. /\ np.line \in Seq(ItemType) /\ np.sub \in BOOLEAN /\ np.toread \in Int
      /\ np.abs1st \in Nat /\ np.ngmax \in Nat
      /\ np = [line |-> np.line, sub |-> np.sub, toread |-> np.toread,
               abs1st |-> np.abs1st, ngmax |-> np.ngmax]
  BY <1>2, NgFields
<1>4. a \in Nat /\ a # 0 /\ a <= High(g) + 1 /\ m \in Nat /\ m = High(g)
  BY <1>1, <1>2, <1>3
<1>5. GetNgSize(g, np) = [np EXCEPT !.abs1st = a, !.ngmax = m]
  BY DEF GetNgSize
<1> HIDE DEF a, m
<1>6. GetNgSize(g, np) = [line |-> np.line, sub |-> np.sub, toread |-> np.toread,
                          abs1st |-> a, ngmax |-> m]
  BY <1>3, <1>5
<1>7. GetNgSize(g, np) \in NgData
  BY <1>3, <1>4, <1>6 DEF NgData
<1>8. a = (IF np.abs1st = 0 THEN Low(g) ELSE np.abs1st)
  BY DEF a
<1> QED
  BY <1>1, <1>2, <1>4, <1>5, <1>6, <1>7, <1>8 DEF Fits

\* What becomes of a line when it is trimmed or counted: it loses nothing
\* unless it is wiped, and gains nothing that is there.
Keeps(g, old, np) ==
  /\ Read(old) \subseteq Read(np.line) \/ (np.line = << >> /\ np.abs1st # 0)
  /\ (Read(np.line) \ Read(old)) \cap There(g) = {}

\* set_toread.
LEMMA SetToreadFits ==
  ASSUME arrived \in 0 .. Len(Posts), NEW g, NEW np, Fits(np, High(g)), NEW lax
  PROVE  LET new == SetToread(g, np, lax)
         IN  /\ Fits(new, High(g))
             /\ Keeps(g, np.line, new)
             /\ new.toread = TR_BOGUS <=> g \notin carried
             /\ new.toread # TR_BOGUS => new.abs1st # 0
<1> DEFINE N     == High(g)
           sized == GetNgSize(g, np)
           trim  == np.abs1st = 0 /\ np.line # <<RangeOf(1, sized.ngmax)>>
           line  == IF trim THEN CheckExpired(np.line, sized.abs1st) ELSE np.line
           count == Count(line, sized.ngmax, lax)
           reset == count.unread < 0
           left  == IF reset THEN << >> ELSE line
           tr    == IF ~np.sub THEN TR_UNSUB ELSE IF reset THEN count.ngsize ELSE count.unread
           new   == SetToread(g, np, lax)
<1>1. /\ N \in Nat /\ Low(g) \in 1 .. N + 1
      /\ \A n \in There(g) : n \in Nat /\ Low(g) <= n
  BY FirstThere
<1>2. np \in NgData /\ np.abs1st <= N + 1 /\ np.ngmax <= N /\ InOrder(np.line, N)
  BY DEF Fits
<1>3. /\ np.line \in Seq(ItemType) /\ np.sub \in BOOLEAN /\ np.toread \in Int
      /\ np.abs1st \in Nat /\ np.ngmax \in Nat
      /\ np = [line |-> np.line, sub |-> np.sub, toread |-> np.toread,
               abs1st |-> np.abs1st, ngmax |-> np.ngmax]
  BY <1>2, NgFields
<1>4. CASE g \notin carried
  <2>1. new = [np EXCEPT !.sub = FALSE, !.toread = TR_BOGUS]
    BY <1>4 DEF SetToread
  <2> HIDE DEF new
  <2>2. new = [line |-> np.line, sub |-> FALSE, toread |-> TR_BOGUS,
               abs1st |-> np.abs1st, ngmax |-> np.ngmax]
    BY <1>3, <2>1
  <2>3. Fits(new, N)
    BY <1>2, <1>3, <2>2 DEF Fits, NgData, TR_BOGUS
  <2>4. Keeps(g, np.line, new)
    BY <2>2 DEF Keeps
  <2> QED
    BY <1>4, <2>2, <2>3, <2>4 DEF new
<1>5. CASE g \in carried
  <2>1. /\ sized.line = np.line /\ sized.sub = np.sub /\ sized.toread = np.toread
        /\ sized.abs1st = (IF np.abs1st = 0 THEN Low(g) ELSE np.abs1st)
        /\ sized.abs1st # 0 /\ sized.ngmax = N /\ Fits(sized, N)
    BY SizeFits
  <2>2. sized.abs1st \in 0 .. N + 1 /\ sized.abs1st \in Nat
    BY <1>1, <1>2, <1>3, <2>1
  <2>3. new = [sized EXCEPT !.ngmax = count.ngsize, !.line = left, !.toread = tr]
    BY <1>5 DEF SetToread
  <2> HIDE DEF new, sized
  <2>4. InOrder(line, N) /\ Read(np.line) \subseteq Read(line)
        /\ (Read(line) \ Read(np.line)) \cap There(g) = {}
    <3>1. CASE trim
      <4>1. line = CheckExpired(np.line, Low(g)) /\ Low(g) \in 0 .. N + 1
        BY <1>1, <2>1, <3>1
      <4>2. InOrder(line, N) /\ Read(line) = Read(np.line) \cup 1 .. Low(g) - 1
        BY <1>1, <1>2, <4>1, ExpiredAreRead
      <4>3. \A n \in There(g) : n \notin 1 .. Low(g) - 1
        BY <1>1
      <4> QED
        BY <4>2, <4>3
    <3>2. CASE ~trim
      BY <1>2, <3>2
    <3> QED
      BY <3>1, <3>2
  <2> HIDE DEF line, trim
  <2>5. count \in Account(N)
    <3>1. N \in 0 .. N
      BY <1>1
    <3> QED
      BY <1>1, <2>1, <2>4, <3>1, CountType
  <2>6. count.unread \in Int /\ count.ngsize \in 0 .. N
    BY <2>5 DEF Account
  <2> HIDE DEF count
  <2>7. InOrder(left, N) /\ left \in Seq(ItemType)
    <3>1. InOrder(left, N)
      BY <1>1, <2>4, PlainLines
    <3> QED
      BY <3>1 DEF InOrder
  <2>8. tr \in Int /\ tr # TR_BOGUS
    BY <1>1, <2>6 DEF TR_UNSUB, TR_BOGUS
  <2>9. new = [line |-> left, sub |-> np.sub, toread |-> tr,
               abs1st |-> sized.abs1st, ngmax |-> count.ngsize]
    <3>1. sized \in NgData
      BY <2>1 DEF Fits
    <3> HIDE DEF left, tr
    <3>2. new = [line |-> left, sub |-> sized.sub, toread |-> tr,
                 abs1st |-> sized.abs1st, ngmax |-> count.ngsize]
      BY <2>3, <3>1, NgCounted
    <3> QED
      BY <2>1, <3>2
  <2>10. Keeps(g, np.line, new)
    <3>1. new.line = left /\ new.abs1st # 0
      BY <2>1, <2>9
    <3>2. CASE reset
      <4>1. new.line = << >> /\ Read(new.line) = {}
        BY <1>1, <3>1, <3>2, PlainLines
      <4> QED
        BY <3>1, <4>1 DEF Keeps
    <3>3. CASE ~reset
      BY <2>4, <3>1, <3>3 DEF Keeps
    <3> QED
      BY <3>2, <3>3
  <2> HIDE DEF left, tr
  <2>11. new \in NgData
    BY <1>3, <2>2, <2>6, <2>7, <2>8, <2>9 DEF NgData
  <2>12. /\ new.line = left /\ new.abs1st = sized.abs1st /\ new.ngmax = count.ngsize
         /\ new.toread = tr
    BY <2>9
  <2>13. Fits(new, N)
    BY <1>1, <2>2, <2>6, <2>7, <2>11, <2>12 DEF Fits
  <2> QED
    BY <1>5, <2>1, <2>8, <2>10, <2>12, <2>13 DEF new
<1> QED
  BY <1>4, <1>5

\* What addartnum does first.
LEMMA TrimmedFits ==
  ASSUME arrived \in 0 .. Len(Posts), NEW g, NEW np, Fits(np, High(g)),
         np.toread = TR_BOGUS => g \notin carried
  PROVE  LET new == Trimmed(g, np)
         IN  /\ Fits(new, High(g))
             /\ Keeps(g, np.line, new)
             /\ new.toread = TR_BOGUS => g \notin carried
             /\ np.toread = TR_BOGUS => new.toread = TR_BOGUS
             /\ np.abs1st # 0 => new = np
             /\ new.toread # TR_BOGUS => new.abs1st # 0
<1>1. CASE np.abs1st = 0
  BY <1>1, SetToreadFits DEF Trimmed
<1>2. CASE np.abs1st # 0
  <2>1. Trimmed(g, np) = np
    BY <1>2 DEF Trimmed
  <2>2. Keeps(g, np.line, np)
    BY DEF Keeps
  <2> QED
    BY <1>2, <2>1, <2>2
<1> QED
  BY <1>1, <1>2

\* The line and the count changed.
LEMMA NgMarked ==
  ASSUME NEW np \in NgData, NEW f, NEW toread,
         NEW new, new = [np EXCEPT !.line = f, !.toread = toread]
  PROVE  new = [line |-> f, sub |-> np.sub, toread |-> toread,
               abs1st |-> np.abs1st, ngmax |-> np.ngmax]
<1>1. PICK l \in Seq(ItemType), s \in BOOLEAN, t \in Int, a \in Nat, m \in Nat :
        np = [line |-> l, sub |-> s, toread |-> t, abs1st |-> a, ngmax |-> m]
  BY NgFields
<1>2. np.line = l /\ np.sub = s /\ np.abs1st = a /\ np.ngmax = m
  BY <1>1
<1>3. new = [line |-> f, sub |-> s, toread |-> toread,
               abs1st |-> a, ngmax |-> m]
  BY <1>1
<1> QED
  BY <1>2, <1>3

\* The count and the size changed.
LEMMA NgRaised ==
  ASSUME NEW np \in NgData, NEW f, NEW toread,
         NEW new, new = [np EXCEPT !.toread = toread, !.ngmax = f]
  PROVE  new = [line |-> np.line, sub |-> np.sub, toread |-> toread,
               abs1st |-> np.abs1st, ngmax |-> f]
<1>1. PICK l \in Seq(ItemType), s \in BOOLEAN, t \in Int, a \in Nat, m \in Nat :
        np = [line |-> l, sub |-> s, toread |-> t, abs1st |-> a, ngmax |-> m]
  BY NgFields
<1>2. np.line = l /\ np.sub = s /\ np.abs1st = a /\ np.ngmax = m
  BY <1>1
<1>3. new = [line |-> l, sub |-> s, toread |-> toread,
               abs1st |-> a, ngmax |-> f]
  BY <1>1
<1> QED
  BY <1>2, <1>3

\* addartnum, in a group that is not bogus, marks the number, loses nothing of
\* the trimmed line, and marks no other number unless that line is `1-0'.
LEMMA AddArtnumFits ==
  ASSUME arrived \in 0 .. Len(Posts), NEW g, NEW np, Fits(np, High(g)),
         np.toread = TR_BOGUS => g \notin carried, NEW artnum \in 1 .. High(g)
  PROVE  LET trimmed == Trimmed(g, np)
             new     == AddArtnum(g, np, artnum)
         IN  /\ Fits(new, High(g))
             /\ new.toread = TR_BOGUS <=> trimmed.toread = TR_BOGUS
             /\ new.toread = TR_BOGUS => new = trimmed
             /\ Read(trimmed.line) \subseteq Read(new.line)
             /\ new.toread # TR_BOGUS => artnum \in Read(new.line) /\ new.abs1st # 0
             /\ trimmed.toread # TR_BOGUS /\ trimmed.line # <<RangeOf(1, 0)>>
                  => Read(new.line) = Read(trimmed.line) \cup {artnum}
<1> DEFINE N   == High(g)
           np1 == Trimmed(g, np)
           new == AddArtnum(g, np, artnum)
           tr2 == IF np1.toread > TR_NONE THEN np1.toread + artnum - np1.ngmax
                  ELSE np1.toread
           np2 == IF artnum > np1.ngmax
                  THEN [np1 EXCEPT !.toread = tr2, !.ngmax = artnum]
                  ELSE np1
           tr3 == IF np2.toread > TR_NONE THEN np2.toread - 1 ELSE np2.toread
           np3 == [np2 EXCEPT !.line = InsertNum(np2.line, artnum), !.toread = tr3]
<1>1. N \in Nat
  BY FirstThere
<1>2. /\ np1 \in NgData /\ InOrder(np1.line, N) /\ np1.abs1st <= N + 1 /\ np1.ngmax <= N
      /\ Fits(np1, N) /\ (np1.toread # TR_BOGUS => np1.abs1st # 0)
  BY TrimmedFits DEF Fits
<1>3. new = IF np1.toread = TR_BOGUS THEN np1
            ELSE IF InPassed(np2.line, artnum) THEN np2 ELSE np3
  <2>1. np2 = IF artnum > np1.ngmax
              THEN [np1 EXCEPT !.toread = IF @ > TR_NONE THEN @ + artnum - np1.ngmax
                                          ELSE @,
                               !.ngmax = artnum]
              ELSE np1
    OBVIOUS
  <2>2. np3 = [np2 EXCEPT !.line = InsertNum(@, artnum),
                          !.toread = IF @ > TR_NONE THEN @ - 1 ELSE @]
    <3> HIDE DEF np2
    <3> QED
      OBVIOUS
  <2> QED
    BY <2>1, <2>2 DEF AddArtnum
<1> HIDE DEF np1, new
<1>4. /\ np1.line \in Seq(ItemType) /\ np1.sub \in BOOLEAN /\ np1.toread \in Int
      /\ np1.abs1st \in Nat /\ np1.ngmax \in Nat
  BY <1>2, NgFields
<1>5. /\ Fits(np2, N) /\ np2 \in NgData
      /\ np2.line = np1.line /\ np2.abs1st = np1.abs1st
      /\ np2.toread = TR_BOGUS <=> np1.toread = TR_BOGUS
  <2>1. CASE artnum > np1.ngmax
    <3>1. tr2 \in Int /\ (tr2 = TR_BOGUS <=> np1.toread = TR_BOGUS)
      BY <1>4, <2>1 DEF TR_BOGUS, TR_NONE
    <3>2. np2 = [np1 EXCEPT !.toread = tr2, !.ngmax = artnum]
      BY <2>1
    <3> HIDE DEF np2, tr2
    <3>3. np2 = [line |-> np1.line, sub |-> np1.sub, toread |-> tr2,
                 abs1st |-> np1.abs1st, ngmax |-> artnum]
      BY <1>2, <3>2, NgRaised
    <3>4. np2 \in NgData
      BY <1>1, <1>4, <3>1, <3>3 DEF NgData
    <3>5. np2.line = np1.line /\ np2.toread = tr2 /\ np2.abs1st = np1.abs1st
          /\ np2.ngmax = artnum
      BY <3>3
    <3> QED
      BY <1>1, <1>2, <3>1, <3>4, <3>5 DEF Fits
  <2>2. CASE ~(artnum > np1.ngmax)
    <3>1. np2 = np1
      BY <2>2
    <3> HIDE DEF np2
    <3> QED
      BY <1>2, <3>1
  <2> QED
    BY <2>1, <2>2
<1> HIDE DEF np2
<1>6. CASE np1.toread = TR_BOGUS
  <2>1. new = np1
    BY <1>3, <1>6
  <2> QED
    BY <1>2, <1>6, <2>1 DEF np1, new
<1>7. CASE np1.toread # TR_BOGUS /\ InPassed(np2.line, artnum)
  <2>1. new = np2
    BY <1>3, <1>7
  <2>2. artnum \in Read(np1.line)
    <3>1. Len(np1.line) \in Nat /\ DOMAIN np1.line = 1 .. Len(np1.line)
          /\ Passed(np1.line, artnum) \in 0 .. Len(np1.line)
      BY <1>1, <1>2, Ordered, PassedItems
    <3>2. PICK i \in 1 .. Passed(np1.line, artnum) : artnum \in Numbers(np1.line[i])
      BY <1>5, <1>7 DEF InPassed, Numbers
    <3>3. i \in DOMAIN np1.line
      BY <3>1
    <3> QED
      BY <3>2, <3>3, ReadItems
  <2>3. Read(new.line) = Read(np1.line) /\ Read(np1.line) = Read(np1.line) \cup {artnum}
    BY <1>5, <2>1, <2>2
  <2> QED
    BY <1>2, <1>5, <1>7, <2>1, <2>2, <2>3 DEF np1, new
<1>8. CASE np1.toread # TR_BOGUS /\ ~InPassed(np2.line, artnum)
  <2>1. new = np3
    BY <1>3, <1>8
  <2> DEFINE line == InsertNum(np1.line, artnum)
  <2>2. /\ InOrder(line, N)
        /\ Read(np1.line) \cup {artnum} \subseteq Read(line)
        /\ np1.line # <<RangeOf(1, 0)>> => Read(line) = Read(np1.line) \cup {artnum}
    BY <1>1, <1>2, <1>5, <1>8, InsertKeepsOrder
  <2>3. line \in Seq(ItemType)
    BY <2>2 DEF InOrder
  <2> HIDE DEF line
  <2>4. /\ np2.line = np1.line /\ np2.sub \in BOOLEAN /\ np2.toread \in Int
        /\ np2.abs1st \in Nat /\ np2.ngmax \in Nat
    BY <1>5, NgFields
  <2>5. tr3 \in Int /\ tr3 # TR_BOGUS
    BY <1>5, <1>8, <2>4 DEF TR_BOGUS, TR_NONE
  <2>6. new = [np2 EXCEPT !.line = line, !.toread = tr3]
    BY <2>1, <2>4 DEF line
  <2> HIDE DEF tr3
  <2>7. new = [line |-> line, sub |-> np2.sub, toread |-> tr3,
               abs1st |-> np2.abs1st, ngmax |-> np2.ngmax]
    BY <1>5, <2>6, NgMarked
  <2>8. new \in NgData
    BY <2>3, <2>4, <2>5, <2>7 DEF NgData
  <2>9. new.line = line /\ new.toread = tr3 /\ new.abs1st = np2.abs1st
        /\ new.ngmax = np2.ngmax
    BY <2>7
  <2>10. Fits(new, N)
    BY <1>5, <2>2, <2>8, <2>9 DEF Fits
  <2> QED
    BY <1>2, <1>5, <1>8, <2>2, <2>5, <2>9, <2>10 DEF np1, new
<1> QED
  BY <1>6, <1>7, <1>8

\* nntp_group.
LEMMA NntpGroupFits ==
  ASSUME arrived \in 0 .. Len(Posts), NEW g, NEW np, Fits(np, High(g))
  PROVE  LET new == NntpGroup(g, np)
         IN  /\ Fits(new, High(g))
             /\ new.abs1st \in 1 .. High(g) + 1
             /\ new.line = np.line /\ new.sub = np.sub /\ new.toread = np.toread
             /\ \A n \in There(g) : new.abs1st <= n /\ new.ngmax = High(g)
<1> DEFINE N == High(g)
           new == NntpGroup(g, np)
<1>1. /\ N \in Nat /\ Low(g) \in 1 .. N + 1
      /\ \A n \in There(g) : n \in Nat /\ Low(g) <= n
  BY FirstThere
<1>2. np \in NgData /\ np.abs1st <= N + 1 /\ np.ngmax <= N /\ InOrder(np.line, N)
  BY DEF Fits
<1>3. PICK l \in Seq(ItemType), s \in BOOLEAN, t \in Int, a \in Nat, m \in Nat :
        np = [line |-> l, sub |-> s, toread |-> t, abs1st |-> a, ngmax |-> m]
  BY <1>2, NgFields
<1>4. np.line = l /\ np.sub = s /\ np.toread = t /\ np.ngmax = m
  BY <1>3
<1>5. CASE There(g) = {}
  <2>1. new = [np EXCEPT !.abs1st = m + 1]
    BY <1>4, <1>5 DEF NntpGroup
  <2> HIDE DEF new
  <2>2. new = [line |-> l, sub |-> s, toread |-> t, abs1st |-> m + 1, ngmax |-> m]
    BY <1>3, <2>1
  <2>3. new \in NgData
    BY <2>2 DEF NgData
  <2>4. /\ new.line = l /\ new.sub = s /\ new.toread = t
        /\ new.abs1st = m + 1 /\ new.ngmax = m
    BY <2>2
  <2> QED
    BY <1>1, <1>2, <1>4, <1>5, <2>3, <2>4 DEF Fits, new
<1>6. CASE There(g) # {}
  <2>1. new = [np EXCEPT !.abs1st = Low(g), !.ngmax = N]
    BY <1>6 DEF NntpGroup
  <2> HIDE DEF new
  <2>2. new = [line |-> l, sub |-> s, toread |-> t, abs1st |-> Low(g), ngmax |-> N]
    BY <1>3, <2>1
  <2>3. new \in NgData
    BY <1>1, <2>2 DEF NgData
  <2>4. /\ new.line = l /\ new.sub = s /\ new.toread = t
        /\ new.abs1st = Low(g) /\ new.ngmax = N
    BY <2>2
  <2> QED
    BY <1>1, <1>2, <1>4, <2>3, <2>4 DEF Fits, new
<1> QED
  BY <1>5, <1>6

\* catch_up, where the leave_count of a group that has been counted may be 1.
LEMMA CaughtUpFits ==
  ASSUME arrived \in 0 .. Len(Posts), NEW g \in carried, NEW np, Fits(np, High(g)),
         np.toread # TR_BOGUS, NEW leave_count \in 0 .. 1
  PROVE  LET new == CaughtUp(g, np, leave_count)
         IN  /\ Fits(new, High(g))
             /\ new.toread # TR_BOGUS
             /\ Read(np.line) \subseteq Read(new.line)
                  \/ (new.line = << >> /\ new.abs1st # 0)
<1> DEFINE N == High(g)
           sized == GetNgSize(g, np)
           new == CaughtUp(g, np, leave_count)
<1>1. N \in Nat
  BY FirstThere
<1>2. /\ sized.line = np.line /\ sized.abs1st # 0 /\ sized.ngmax = N /\ Fits(sized, N)
  BY SizeFits
<1>3. sized \in NgData /\ InOrder(np.line, N) /\ sized.abs1st <= N + 1
  BY <1>2 DEF Fits
<1>4. Read(np.line) \subseteq 1 .. N
  BY <1>1, <1>3, ReadRange
<1> HIDE DEF sized
<1>5. PICK l \in Seq(ItemType), s \in BOOLEAN, t \in Int, a \in Nat, m \in Nat :
        sized = [line |-> l, sub |-> s, toread |-> t, abs1st |-> a, ngmax |-> m]
  BY <1>3, NgFields
<1>6. sized.abs1st = a /\ sized.ngmax = m
  BY <1>5
<1>7. CASE leave_count > 0
  <2> DEFINE line == CheckExpired(sized.line, sized.ngmax - leave_count + 1)
             np1  == [sized EXCEPT !.line = line]
  <2>1. sized.ngmax - leave_count + 1 \in 0 .. N + 1
    BY <1>1, <1>2, <1>7
  <2>2. InOrder(line, N) /\ Read(np.line) \subseteq Read(line) /\ line \in Seq(ItemType)
    <3>1. InOrder(line, N) /\ Read(np.line) \subseteq Read(line)
      BY <1>1, <1>2, <1>3, <2>1, ExpiredAreRead
    <3> QED
      BY <3>1 DEF InOrder
  <2>3. new = SetToread(g, np1, FALSE)
    <3>1. np1 = [sized EXCEPT !.line = CheckExpired(@, sized.ngmax - leave_count + 1)]
      OBVIOUS
    <3> QED
      BY <1>7, <3>1 DEF CaughtUp, sized
  <2> HIDE DEF line
  <2>4. np1 = [line |-> line, sub |-> s, toread |-> t, abs1st |-> a, ngmax |-> m]
    <3> DEFINE x == np1
    <3>1. x = [sized EXCEPT !.line = line]
      OBVIOUS
    <3> HIDE DEF x
    <3>2. x = [line |-> line, sub |-> s, toread |-> t, abs1st |-> a, ngmax |-> m]
      BY <1>5, <3>1
    <3> QED
      BY <3>2 DEF x
  <2> HIDE DEF np1
  <2>5. np1.line = line /\ np1.abs1st = a /\ np1.ngmax = m /\ np1 \in NgData
    BY <2>2, <2>4 DEF NgData
  <2>6. Fits(np1, N)
    BY <1>1, <1>2, <1>3, <1>6, <2>2, <2>5 DEF Fits
  <2>7. /\ Fits(new, N) /\ Keeps(g, np1.line, new)
        /\ (new.toread = TR_BOGUS <=> g \notin carried)
    BY <2>3, <2>6, SetToreadFits
  <2> QED
    BY <2>2, <2>5, <2>7 DEF Keeps
<1>8. CASE leave_count = 0
  <2> DEFINE line == <<RangeOf(1, N)>>
  <2>1. InOrder(line, N) /\ Read(line) = 1 .. N /\ line \in Seq(ItemType)
    <3>1. InOrder(line, N) /\ Read(line) = 1 .. N
      BY <1>1, PlainLines
    <3> QED
      BY <3>1 DEF InOrder
  <2>2. new = [sized EXCEPT !.line = line, !.toread = TR_NONE]
    BY <1>2, <1>8 DEF CaughtUp, sized
  <2> HIDE DEF line, new
  <2>3. new = [line |-> line, sub |-> s, toread |-> TR_NONE, abs1st |-> a, ngmax |-> m]
    BY <1>5, <2>2
  <2>4. new \in NgData
    BY <2>1, <2>3 DEF NgData, TR_NONE
  <2>5. new.line = line /\ new.toread = TR_NONE /\ new.abs1st = a /\ new.ngmax = m
    BY <2>3
  <2>6. Fits(new, N)
    BY <1>1, <1>2, <1>3, <1>6, <2>1, <2>4, <2>5 DEF Fits
  <2>7. new.toread # TR_BOGUS
    BY <2>5 DEF TR_NONE, TR_BOGUS
  <2> QED
    BY <1>4, <2>1, <2>5, <2>6, <2>7 DEF new
<1> QED
  BY <1>7, <1>8

(* The inductive invariant.                                                 *)

ServerOK == arrived \in 0 .. Len(Posts) /\ carried \subseteq Group

\* The data of the groups, and their lines on disk, are those of the articles
\* that have arrived; only groups that have gone are bogus.
NgOK ==
  /\ ng \in [Group -> NgData]
  /\ \A x \in Group : Fits(ng[x], High(x)) /\ (ng[x].toread = TR_BOGUS => x \notin carried)

FileData == [line : Seq(ItemType), sub : BOOLEAN]

FileOK ==
  /\ file \in [Group -> FileData]
  /\ \A x \in Group : InOrder(file[x].line, High(x))

\* The cache, which outlives the group it belongs to, has every article that is
\* there, and as many to chase as s_chase_count says, unless a key was pressed.
CacheOK ==
  /\ cur \in Group \cup {NoGroup} /\ cached_ng \in Group \cup {NoGroup}
  /\ absfirst \in Nat \ {0} /\ lastart \in Nat /\ absfirst <= lastart + 1
  /\ exists \subseteq 1 .. lastart /\ kchase \subseteq 1 .. lastart
  /\ chase_count \in Nat /\ chase_count <= Cardinality(kchase)
  /\ ~keyed => chase_count = Cardinality(kchase)
  /\ cached_ng # NoGroup =>
       /\ lastart <= High(cached_ng)
       /\ \A n \in There(cached_ng) : absfirst <= n /\ (n <= lastart => n \in exists)

ClosedOK ==
  cur = NoGroup =>
    pc = "prompt" /\ unread = {} /\ yank = {} /\ marked = {} /\ chase_count = 0

\* In a group: what its line marks has been in its range since it was entered,
\* and what is unread all the same has been returned by the user.
OpenOK ==
  cur # NoGroup =>
    /\ cached_ng = cur
    /\ pc \in {"read", "chase", "leave"}
    /\ firstart \in absfirst .. lastart + 1
    /\ unread \subseteq absfirst .. lastart /\ yank \subseteq absfirst .. lastart
    /\ Read(ng[cur].line) \subseteq 1 .. lastart
    /\ unread \cap Read(ng[cur].line) \subseteq returned
    /\ pc # "leave" => ng[cur].sub

\* The article has been marked in the group h, and stays so there.
MarkedIn(h, n) ==
  \/ ng[h].toread = TR_BOGUS
  \/ Xrefs(cur, n)[h] \in Read(ng[h].line) /\ ng[h].abs1st # 0

MarkedOK ==
  cur # NoGroup =>
    \A n \in marked :
      /\ n \in 1 .. lastart
      /\ n \in kchase \/ \A h \in DOMAIN Xrefs(cur, n) : MarkedIn(h, n)

GroupInv ==
  ServerOK /\ NgOK /\ FileOK /\ CacheOK /\ ClosedOK /\ OpenOK /\ CountsKept /\ MarkedOK

(* What steps of the server do.                                             *)

LEMMA SameServer ==
  ASSUME UNCHANGED server
  PROVE  /\ arrived' = arrived /\ carried' = carried
         /\ \A x : High(x)' = High(x) /\ There(x)' = There(x) /\ Low(x)' = Low(x)
<1>1. arrived' = arrived /\ carried' = carried /\ gone' = gone
  BY DEF server
<1>2. \A x : High(x)' = High(x)
  BY <1>1 DEF High
<1>3. \A x : There(x)' = There(x)
  BY <1>1 DEF There, High
<1>4. \A x : Low(x)' = Low(x)
  BY <1>1 DEF Low, There, High
<1> QED
  BY <1>1, <1>2, <1>3, <1>4

\* The server gets ahead, loses articles, or gives a group up, and the reader
\* does not notice.
LEMMA ServerMoves ==
  ASSUME GroupInv, ServerOK', carried' \subseteq carried,
         UNCHANGED <<newsrc, pc, cur, cached_ng, range, bits, chase, marks>>,
         \A x \in Group : High(x) <= High(x)',
         \A x \in Group : \A n \in There(x)' : n \in There(x) \/ n > High(x)
  PROVE  GroupInv'
<1>1. /\ ng' = ng /\ file' = file /\ pc' = pc /\ cur' = cur /\ cached_ng' = cached_ng
      /\ absfirst' = absfirst /\ lastart' = lastart /\ firstart' = firstart
      /\ exists' = exists /\ unread' = unread /\ yank' = yank
      /\ kchase' = kchase /\ chase_count' = chase_count /\ keyed' = keyed
      /\ marked' = marked /\ returned' = returned
  BY DEF newsrc, range, bits, chase, marks
<1>2. \A x \in Group : High(x) \in Nat /\ High(x)' \in Nat
  <2> SUFFICES ASSUME NEW x \in Group PROVE High(x) \in Nat /\ High(x)' \in Nat
    OBVIOUS
  <2>1. High(x) \in Nat
    BY NumberType DEF High, GroupInv, ServerOK
  <2>2. High(x)' \in Nat
    BY NumberType DEF High, ServerOK
  <2> QED
    BY <2>1, <2>2
<1>3. NgOK'
  <2>1. ng' \in [Group -> NgData]
    BY <1>1 DEF GroupInv, NgOK
  <2>2. ASSUME NEW x \in Group
        PROVE  Fits(ng'[x], High(x)') /\ (ng'[x].toread = TR_BOGUS => x \notin carried')
    <3>1. Fits(ng[x], High(x)) /\ (ng[x].toread = TR_BOGUS => x \notin carried)
      BY DEF GroupInv, NgOK
    <3>2. ng[x].abs1st \in Nat /\ ng[x].ngmax \in Nat
      BY <3>1, NgFields DEF Fits
    <3>3. InOrder(ng[x].line, High(x)')
      BY <1>2, <3>1, OrderGrows DEF Fits
    <3>4. Fits(ng[x], High(x)')
      BY <1>2, <3>1, <3>2, <3>3 DEF Fits
    <3> QED
      BY <1>1, <3>1, <3>4
  <2> QED
    BY <2>1, <2>2 DEF NgOK
<1>4. FileOK'
  <2>1. file' \in [Group -> FileData]
    BY <1>1 DEF GroupInv, FileOK
  <2>2. ASSUME NEW x \in Group PROVE InOrder(file'[x].line, High(x)')
    <3>1. InOrder(file[x].line, High(x))
      BY DEF GroupInv, FileOK
    <3> QED
      BY <1>1, <1>2, <3>1, OrderGrows
  <2> QED
    BY <2>1, <2>2 DEF FileOK
<1>5. CacheOK'
  <2>1. CacheOK
    BY DEF GroupInv
  <2>2. ASSUME cached_ng # NoGroup
        PROVE  /\ lastart <= High(cached_ng)'
               /\ \A n \in There(cached_ng)' : absfirst <= n /\ (n <= lastart => n \in exists)
    <3>1. cached_ng \in Group /\ lastart <= High(cached_ng) /\ lastart \in Nat
          /\ absfirst \in Nat /\ absfirst <= lastart + 1
      BY <2>1, <2>2 DEF CacheOK
    <3>2. \A n \in There(cached_ng) : absfirst <= n /\ (n <= lastart => n \in exists)
      BY <2>1, <2>2 DEF CacheOK
    <3>3. \A n \in There(cached_ng)' : n \in Nat
      BY <1>2, <3>1 DEF There
    <3> QED
      BY <1>2, <3>1, <3>2, <3>3
  <2>3. /\ High(cached_ng)' = Number(cached_ng, arrived')
        /\ There(cached_ng)' = {n \in 1 .. Number(cached_ng, arrived') :
                                  PostOf(cached_ng, n) \notin gone'}
    BY <1>1 DEF High, There
  <2> QED
    BY <1>1, <2>1, <2>2 DEF CacheOK
<1>6. ClosedOK' /\ OpenOK' /\ CountsKept'
  BY <1>1 DEF GroupInv, ClosedOK, OpenOK, CountsKept, ToreadCounts, FirstartFirst
<1>7. MarkedOK'
  BY <1>1 DEF GroupInv, MarkedOK, MarkedIn
<1> QED
  BY <1>3, <1>4, <1>5, <1>6, <1>7 DEF GroupInv

LEMMA ServerStep ==
  ASSUME GroupInv, ServerNext
  PROVE  GroupInv'
<1>0. Len(Posts) \in Nat /\ arrived \in 0 .. Len(Posts) /\ carried \subseteq Group
  BY GroupAssumption DEF GroupInv, ServerOK
<1>1. CASE Arrive
  <2>1. arrived' = arrived + 1 /\ arrived < Len(Posts) /\ gone' = gone /\ carried' = carried
    BY <1>1 DEF Arrive
  <2>2. ServerOK'
    BY <1>0, <2>1 DEF ServerOK
  <2>3. ASSUME NEW x \in Group
        PROVE  /\ High(x) <= High(x)'
               /\ \A n \in There(x)' : n \in There(x) \/ n > High(x)
    <3>1. High(x) <= High(x)' /\ High(x) \in Nat
      <4>1. arrived + 1 \in 0 .. Len(Posts) /\ arrived <= arrived + 1
        BY <1>0, <2>1
      <4>2. Number(x, arrived) <= Number(x, arrived + 1) /\ Number(x, arrived) \in Nat
        BY <1>0, <4>1, NumberGrows, NumberType
      <4> QED
        BY <2>1, <4>2 DEF High
    <3>2. \A n \in There(x)' : n \in Nat /\ 1 <= n /\ PostOf(x, n) \notin gone
      BY <2>1 DEF There
    <3> QED
      BY <3>1, <3>2 DEF There
  <2> QED
    BY <1>1, <2>1, <2>2, <2>3, ServerMoves DEF Arrive
<1>2. CASE Expire
  <2>1. arrived' = arrived /\ carried' = carried /\ gone \subseteq gone'
    BY <1>2 DEF Expire
  <2>2. ServerOK'
    BY <1>0, <2>1 DEF ServerOK
  <2>3. ASSUME NEW x \in Group
        PROVE  /\ High(x) <= High(x)'
               /\ \A n \in There(x)' : n \in There(x) \/ n > High(x)
    <3>1. High(x)' = High(x) /\ High(x) \in Nat
      BY <1>0, <2>1, NumberType DEF High
    <3> QED
      BY <2>1, <3>1 DEF There
  <2> QED
    BY <1>2, <2>1, <2>2, <2>3, ServerMoves DEF Expire
<1>3. CASE Remove
  <2>1. arrived' = arrived /\ gone' = gone /\ carried' \subseteq carried
    BY <1>3 DEF Remove
  <2>2. ServerOK'
    BY <1>0, <2>1 DEF ServerOK
  <2>3. ASSUME NEW x \in Group
        PROVE  /\ High(x) <= High(x)'
               /\ \A n \in There(x)' : n \in There(x) \/ n > High(x)
    <3>1. High(x)' = High(x) /\ High(x) \in Nat
      BY <1>0, <2>1, NumberType DEF High
    <3> QED
      BY <2>1, <3>1 DEF There
  <2> QED
    BY <1>3, <2>1, <2>2, <2>3, ServerMoves DEF Remove
<1> QED
  BY <1>1, <1>2, <1>3 DEF ServerNext

(* Steps at the prompt.                                                     *)

\* The data of one group has changed.
LEMMA OneGroup ==
  ASSUME NgOK, UNCHANGED server, NEW g \in Group, NEW np, Fits(np, High(g)),
         np.toread = TR_BOGUS => g \notin carried, ng' = [ng EXCEPT ![g] = np]
  PROVE  NgOK'
<1>1. carried' = carried /\ \A x : High(x)' = High(x)
  BY SameServer
<1>2. np \in NgData
  BY DEF Fits
<1>3. ng \in [Group -> NgData]
  BY DEF NgOK
<1>4. ng' \in [Group -> NgData]
  BY <1>2, <1>3
<1>5. ASSUME NEW x \in Group
      PROVE  Fits(ng'[x], High(x)) /\ (ng'[x].toread = TR_BOGUS => x \notin carried)
  <2>1. CASE x = g
    <3>1. ng'[x] = np
      BY <1>3, <2>1
    <3> QED
      BY <2>1, <3>1
  <2>2. CASE x # g
    <3>1. ng'[x] = ng[x]
      BY <1>3, <2>2
    <3> QED
      BY <3>1 DEF NgOK
  <2> QED
    BY <2>1, <2>2
<1> QED
  BY <1>1, <1>4, <1>5 DEF NgOK

\* The newsrcs are written.
LEMMA Written ==
  ASSUME FileOK, UNCHANGED server, NEW data \in [Group -> NgData],
         \A x \in Group : InOrder(data[x].line, High(x)),
         NEW flagged, WriteNewsrcs(data, flagged)
  PROVE  FileOK'
<1>1. \A x : High(x)' = High(x)
  BY SameServer
<1>2. file' = [x \in Group |-> IF RcOf[x] \in flagged THEN Saved(data[x]) ELSE file[x]]
  BY DEF WriteNewsrcs
<1>3. ASSUME NEW x \in Group PROVE Saved(data[x]) \in FileData /\ Saved(data[x]).line = data[x].line
  <2>1. data[x].line \in Seq(ItemType) /\ data[x].sub \in BOOLEAN
    BY NgFields
  <2> QED
    BY <2>1 DEF Saved, FileData
<1>4. file \in [Group -> FileData] /\ \A x \in Group : InOrder(file[x].line, High(x))
  BY DEF FileOK
<1>5. file' \in [Group -> FileData]
  BY <1>2, <1>3, <1>4
<1>6. ASSUME NEW x \in Group PROVE InOrder(file'[x].line, High(x))
  <2>1. CASE RcOf[x] \in flagged
    BY <1>2, <1>3, <2>1
  <2>2. CASE RcOf[x] \notin flagged
    BY <1>2, <1>4, <2>2
  <2> QED
    BY <2>1, <2>2
<1> QED
  BY <1>1, <1>5, <1>6 DEF FileOK

\* trn starts with the newsrcs as they have been written.
LEMMA Restarted ==
  ASSUME ServerOK, FileOK', Restart(file')
  PROVE  GroupInv'
<1>1. UNCHANGED server
  BY DEF Restart
<1>2. carried' = carried /\ arrived' = arrived /\ \A x : High(x)' = High(x)
  BY <1>1, SameServer
<1>3. \A x \in Group : High(x) \in Nat
  BY NumberType DEF High, ServerOK
<1>4. file' \in [Group -> FileData] /\ \A x \in Group : InOrder(file'[x].line, High(x))
  BY <1>2 DEF FileOK
<1>5. ng' = [x \in Group |-> [line |-> file'[x].line, sub |-> file'[x].sub,
                              toread |-> IF file'[x].sub THEN TR_NONE ELSE TR_UNSUB,
                              abs1st |-> 0, ngmax |-> 0]]
  BY DEF Restart
<1>6. ASSUME NEW x \in Group
      PROVE  ng'[x] \in NgData /\ Fits(ng'[x], High(x)) /\ ng'[x].toread # TR_BOGUS
  <2> DEFINE t == IF file'[x].sub THEN TR_NONE ELSE TR_UNSUB
  <2>1. ng'[x] = [line |-> file'[x].line, sub |-> file'[x].sub, toread |-> t,
                  abs1st |-> 0, ngmax |-> 0]
    BY <1>5
  <2>2. t \in Int /\ t # TR_BOGUS
    BY DEF TR_NONE, TR_UNSUB, TR_BOGUS
  <2>3. file'[x].line \in Seq(ItemType) /\ file'[x].sub \in BOOLEAN
    BY <1>4 DEF FileData
  <2> HIDE DEF t
  <2>4. ng'[x] \in NgData
    BY <2>1, <2>2, <2>3 DEF NgData
  <2>5. /\ ng'[x].line = file'[x].line /\ ng'[x].toread = t
        /\ ng'[x].abs1st = 0 /\ ng'[x].ngmax = 0
    BY <2>1
  <2> QED
    BY <1>3, <1>4, <2>2, <2>4, <2>5 DEF Fits
<1>7. NgOK'
  <2>1. ng' \in [Group -> NgData]
    <3>1. ng' = [x \in Group |-> ng'[x]]
      BY <1>5
    <3> QED
      BY <1>6, <3>1
  <2> QED
    BY <1>2, <1>6, <2>1 DEF NgOK
<1>8. ServerOK'
  BY <1>2 DEF ServerOK
<1>9. CacheOK'
  BY FS_EmptySet DEF Restart, CacheOK
<1>10. ClosedOK' /\ OpenOK' /\ CountsKept' /\ MarkedOK'
  BY DEF Restart, ClosedOK, OpenOK, CountsKept, ToreadCounts, FirstartFirst, MarkedOK
<1> QED
  BY <1>7, <1>8, <1>9, <1>10 DEF GroupInv

\* At the prompt only the data of the groups and the newsrcs change.
LEMMA PromptMoves ==
  ASSUME GroupInv, cur = NoGroup, NgOK', FileOK',
         UNCHANGED <<server, pc, cur, cached_ng, range, bits, chase, marks>>
  PROVE  GroupInv'
<1>1. /\ UNCHANGED server /\ pc' = pc /\ cur' = cur /\ cached_ng' = cached_ng
      /\ absfirst' = absfirst /\ lastart' = lastart /\ firstart' = firstart
      /\ exists' = exists /\ unread' = unread /\ yank' = yank
      /\ kchase' = kchase /\ chase_count' = chase_count /\ keyed' = keyed
      /\ marked' = marked /\ returned' = returned
  BY DEF range, bits, chase, marks
<1>2. /\ arrived' = arrived /\ carried' = carried
      /\ High(cached_ng)' = High(cached_ng) /\ There(cached_ng)' = There(cached_ng)
  <2>1. arrived' = arrived /\ carried' = carried /\ gone' = gone
    BY <1>1 DEF server
  <2> QED
    BY <1>1, <2>1 DEF High, There
<1>3. ServerOK' /\ CacheOK'
  BY <1>1, <1>2 DEF GroupInv, ServerOK, CacheOK
<1>4. ClosedOK' /\ OpenOK' /\ CountsKept' /\ MarkedOK'
  BY <1>1 DEF GroupInv, ClosedOK, OpenOK, CountsKept, ToreadCounts, FirstartFirst, MarkedOK
<1> QED
  BY <1>3, <1>4 DEF GroupInv

\* The files do not change, nor the server.
LEMMA SameFile ==
  ASSUME FileOK, UNCHANGED server, file' = file
  PROVE  FileOK'
BY SameServer DEF FileOK

LEMMA RecountStep ==
  ASSUME GroupInv, AtPrompt, NEW g \in Group,
         Recount(g) \/ Unsubscribe(g) \/ Resubscribe(g) \/ EnterBogus(g)
  PROVE  GroupInv'
<1>0. cur = NoGroup /\ ServerOK /\ NgOK /\ FileOK
  BY DEF GroupInv, AtPrompt, OpenOK
<1>1. arrived \in 0 .. Len(Posts) /\ Fits(ng[g], High(g)) /\ ng[g] \in NgData
  BY <1>0 DEF ServerOK, NgOK, Fits
<1>2. /\ UNCHANGED <<server, pc, cur, cached_ng, range, bits, chase, marks>>
      /\ UNCHANGED server /\ file' = file
  BY DEF Recount, Unsubscribe, Resubscribe, EnterBogus
<1>3. FileOK'
  BY <1>0, <1>2, SameFile
<1>4. PICK l \in Seq(ItemType), s \in BOOLEAN, t \in Int, a \in Nat, m \in Nat :
        ng[g] = [line |-> l, sub |-> s, toread |-> t, abs1st |-> a, ngmax |-> m]
  BY <1>1, NgFields
<1>5. InOrder(l, High(g)) /\ a <= High(g) + 1 /\ m <= High(g)
  <2>1. ng[g].line = l /\ ng[g].abs1st = a /\ ng[g].ngmax = m
    BY <1>4
  <2> QED
    BY <1>1, <2>1 DEF Fits
<1>6. ASSUME NEW s1 \in BOOLEAN, NEW t1 \in Int, NEW np,
             np = [line |-> l, sub |-> s1, toread |-> t1, abs1st |-> a, ngmax |-> m]
      PROVE  Fits(np, High(g)) /\ np.toread = t1
  <2>1. np \in NgData
    BY <1>6 DEF NgData
  <2>2. np.line = l /\ np.toread = t1 /\ np.abs1st = a /\ np.ngmax = m
    BY <1>6
  <2> QED
    BY <1>5, <2>1, <2>2 DEF Fits
<1>7. CASE Recount(g)
  <2>1. PICK lax \in BOOLEAN : ng' = [ng EXCEPT ![g] = SetToread(g, ng[g], lax)]
    BY <1>7 DEF Recount, Update
  <2> DEFINE np == SetToread(g, ng[g], lax)
  <2>2. Fits(np, High(g)) /\ (np.toread = TR_BOGUS => g \notin carried)
    BY <1>1, SetToreadFits
  <2> HIDE DEF np
  <2>3. ng' = [ng EXCEPT ![g] = np]
    BY <2>1 DEF np
  <2>4. NgOK'
    BY <1>0, <1>2, <2>2, <2>3, OneGroup
  <2> QED
    BY <1>0, <1>2, <1>3, <2>4, PromptMoves
<1>8. CASE Unsubscribe(g)
  <2> DEFINE no == FALSE
             np == [ng[g] EXCEPT !.sub = no, !.toread = TR_UNSUB]
  <2>1. ng' = [ng EXCEPT ![g] = np]
    BY <1>8 DEF Unsubscribe, Update
  <2>2. np = [ng[g] EXCEPT !.sub = no, !.toread = TR_UNSUB] /\ no \in BOOLEAN
    OBVIOUS
  <2> HIDE DEF np, no
  <2>3. np = [line |-> l, sub |-> no, toread |-> TR_UNSUB, abs1st |-> a, ngmax |-> m]
    <3> DEFINE np1 == [ng[g] EXCEPT !.sub = no]
               x   == np1
    <3>1. x = [ng[g] EXCEPT !.sub = no]
      OBVIOUS
    <3>2. np = [np1 EXCEPT !.toread = TR_UNSUB]
      BY <1>4, <2>2
    <3> HIDE DEF np1
    <3>3. np1 = [line |-> l, sub |-> no, toread |-> t, abs1st |-> a, ngmax |-> m]
      BY <1>4, <3>1
    <3> QED
      BY <3>2, <3>3
  <2>4. Fits(np, High(g)) /\ np.toread # TR_BOGUS
    <3>1. TR_UNSUB \in Int /\ TR_UNSUB # TR_BOGUS
      BY DEF TR_UNSUB, TR_BOGUS
    <3> QED
      BY <1>6, <2>2, <2>3, <3>1
  <2>5. NgOK'
    BY <1>0, <1>2, <2>1, <2>4, OneGroup
  <2> QED
    BY <1>0, <1>2, <1>3, <2>5, PromptMoves
<1>9. CASE Resubscribe(g)
  <2> DEFINE yes == TRUE
             np1 == [ng[g] EXCEPT !.sub = yes]
             np  == SetToread(g, np1, FALSE)
  <2>1. ng' = [ng EXCEPT ![g] = np]
    BY <1>9 DEF Resubscribe, Update
  <2>2. np1 = [ng[g] EXCEPT !.sub = yes] /\ yes \in BOOLEAN
    OBVIOUS
  <2> HIDE DEF np1, yes
  <2>3. np1 = [line |-> l, sub |-> yes, toread |-> t, abs1st |-> a, ngmax |-> m]
    BY <1>4, <2>2
  <2>4. Fits(np1, High(g))
    BY <1>6, <2>2, <2>3
  <2>5. Fits(np, High(g)) /\ (np.toread = TR_BOGUS => g \notin carried)
    BY <1>1, <2>4, SetToreadFits
  <2> HIDE DEF np
  <2>6. NgOK'
    BY <1>0, <1>2, <2>1, <2>5, OneGroup
  <2> QED
    BY <1>0, <1>2, <1>3, <2>6, PromptMoves
<1>10. CASE EnterBogus(g)
  <2> DEFINE np == [ng[g] EXCEPT !.toread = TR_BOGUS]
  <2>1. ng' = [ng EXCEPT ![g] = np] /\ g \notin carried
    BY <1>10 DEF EnterBogus, Update
  <2>2. np = [ng[g] EXCEPT !.toread = TR_BOGUS]
    OBVIOUS
  <2> HIDE DEF np
  <2>3. np = [line |-> l, sub |-> s, toread |-> TR_BOGUS, abs1st |-> a, ngmax |-> m]
    BY <1>4, <2>2
  <2>4. Fits(np, High(g))
    BY <1>6, <2>3 DEF TR_BOGUS
  <2>5. NgOK'
    BY <1>0, <1>2, <2>1, <2>4, OneGroup
  <2> QED
    BY <1>0, <1>2, <1>3, <2>5, PromptMoves
<1> QED
  BY <1>7, <1>8, <1>9, <1>10

LEMMA CatchUpStep ==
  ASSUME GroupInv, NEW g \in Group, CatchUp(g)
  PROVE  GroupInv'
<1>0. cur = NoGroup /\ ServerOK /\ NgOK /\ FileOK
  BY DEF GroupInv, CatchUp, AtPrompt, OpenOK
<1>1. /\ arrived \in 0 .. Len(Posts) /\ Fits(ng[g], High(g)) /\ g \in carried
      /\ ng \in [Group -> NgData] /\ \A x \in Group : InOrder(ng[x].line, High(x))
  BY <1>0 DEF ServerOK, NgOK, Fits, CatchUp
<1>2. /\ UNCHANGED <<server, pc, cur, cached_ng, range, bits, chase, marks>>
      /\ UNCHANGED server
  BY DEF CatchUp
<1>3. PICK leave_count \in IF ng[g].abs1st = 0 THEN {0} ELSE 0 .. 1 :
        /\ ng' = [ng EXCEPT ![g] = CaughtUp(g, ng[g], leave_count)]
        /\ WriteNewsrcs([ng EXCEPT ![g] = CaughtUp(g, ng[g], leave_count)],
                        changed \cup {RcOf[g]})
  BY Zenon DEF CatchUp
<1> DEFINE np == CaughtUp(g, ng[g], leave_count)
<1>4. Fits(np, High(g)) /\ np.toread # TR_BOGUS
  <2>1. ng[g].toread # TR_BOGUS
    BY DEF CatchUp, TR_NONE, TR_BOGUS
  <2> QED
    BY <1>1, <1>3, <2>1, CaughtUpFits
<1> HIDE DEF np
<1>5. ng' = [ng EXCEPT ![g] = np] /\ WriteNewsrcs(ng', changed \cup {RcOf[g]})
  BY <1>3 DEF np
<1>6. NgOK'
  BY <1>0, <1>2, <1>4, <1>5, OneGroup
<1>7. ng' \in [Group -> NgData] /\ \A x \in Group : InOrder(ng'[x].line, High(x))
  BY <1>2, <1>6, SameServer DEF NgOK, Fits
<1>8. FileOK'
  BY <1>0, <1>2, <1>5, <1>7, Written
<1> QED
  BY <1>0, <1>2, <1>6, <1>8, PromptMoves

LEMMA QuitStep ==
  ASSUME GroupInv, Quit
  PROVE  GroupInv'
<1>1. ServerOK /\ FileOK /\ ng \in [Group -> NgData]
      /\ \A x \in Group : InOrder(ng[x].line, High(x))
  BY DEF GroupInv, NgOK, Fits
<1>2. UNCHANGED server /\ WriteNewsrcs(ng, changed) /\ Restart(file')
  BY DEF Quit, Restart
<1>3. FileOK'
  BY <1>1, <1>2, Written
<1> QED
  BY <1>1, <1>2, <1>3, Restarted

\* What entering a group does: its line is trimmed or stays, the cache has what
\* is there, and what becomes unread is what rc_to_bits makes so.
LEMMA EnterFacts ==
  ASSUME GroupInv, NEW g \in Group, Enter(g)
  PROVE  /\ cur = NoGroup /\ cur' = g /\ cached_ng' = g /\ pc' = "read"
         /\ absfirst' \in 1 .. High(g) + 1 /\ lastart' = High(g) /\ High(g) \in Nat
         /\ firstart' = Firstart(ng'[g].line, absfirst')
         /\ unread' = LineToBits(ng'[g].line, absfirst', lastart', exists')
         /\ exists' \subseteq 1 .. lastart'
         /\ \A n \in There(g) : absfirst' <= n /\ n \in exists'
         /\ ng' = [ng EXCEPT ![g] = ng'[g]]
         /\ ng'[g].line = ng[g].line
              \/ ng'[g].line = CheckExpired(ng[g].line, absfirst')
         /\ ng'[g].sub /\ ng'[g].toread = Cardinality(unread')
         /\ Fits(ng'[g], High(g))
<1> DEFINE N == High(g)
           entered == NntpGroup(g, ng[g])
           sized == GetNgSize(g, entered)
           line  == IF sized.abs1st > ng[g].abs1st THEN CheckExpired(ng[g].line, sized.abs1st)
                    ELSE ng[g].line
<1>1. /\ cur = NoGroup /\ arrived \in 0 .. Len(Posts) /\ ng \in [Group -> NgData]
      /\ Fits(ng[g], N)
  BY DEF GroupInv, Enter, AtPrompt, OpenOK, ServerOK, NgOK
<1>2. /\ N \in Nat /\ There(g) \in SUBSET (1 .. N)
  BY <1>1, FirstThere
<1>3. /\ Fits(entered, N) /\ entered.abs1st \in 1 .. N + 1
      /\ entered.line = ng[g].line /\ entered.sub = ng[g].sub
      /\ \A n \in There(g) : entered.abs1st <= n
  BY <1>1, NntpGroupFits
<1>4. /\ Fits(sized, N) /\ sized.line = ng[g].line /\ sized.sub = ng[g].sub
      /\ sized.abs1st = entered.abs1st /\ sized.ngmax = N
  <2> HIDE DEF entered, sized
  <2>1. /\ Fits(sized, N) /\ sized.line = entered.line /\ sized.sub = entered.sub
        /\ sized.abs1st = (IF entered.abs1st = 0 THEN Low(g) ELSE entered.abs1st)
        /\ sized.ngmax = N
    BY <1>1, <1>3, SizeFits DEF sized
  <2> QED
    BY <1>3, <2>1
<1>5. PICK kept \in IF cached_ng = g THEN BOOLEAN ELSE {FALSE} :
        /\ exists' = IF kept
                     THEN exists \cup {n \in There(g) : n \in lastart + 1 .. sized.ngmax}
                     ELSE {n \in There(g) : n \in sized.abs1st .. sized.ngmax}
        /\ absfirst' = sized.abs1st
        /\ lastart' = sized.ngmax
        /\ firstart' = Firstart(line, sized.abs1st)
        /\ unread' = LineToBits(line, sized.abs1st, sized.ngmax, exists')
        /\ ng' = [ng EXCEPT ![g] =
                    [sized EXCEPT !.line = line, !.toread = Cardinality(unread')]]
  BY Zenon DEF Enter, Update
<1> HIDE DEF entered, sized
<1>6. absfirst' \in 1 .. N + 1 /\ absfirst' = sized.abs1st /\ lastart' = N
  BY <1>3, <1>4, <1>5
<1>7. InOrder(line, N) /\ (line = ng[g].line \/ line = CheckExpired(ng[g].line, absfirst'))
  <2>1. InOrder(ng[g].line, N)
    BY <1>1 DEF Fits
  <2>2. InOrder(CheckExpired(ng[g].line, sized.abs1st), N)
    <3>1. sized.abs1st \in 0 .. N + 1
      BY <1>2, <1>6
    <3> QED
      BY <1>2, <2>1, <3>1, ExpiredAreRead
  <2> QED
    BY <1>6, <2>1, <2>2
<1> HIDE DEF line
<1>8. CacheOK /\ lastart \in Nat
  BY DEF GroupInv, CacheOK
<1>9. ASSUME NEW n \in There(g) PROVE absfirst' <= n /\ n \in exists' /\ n \in 1 .. N
  <2>1. n \in 1 .. N /\ absfirst' <= n
    BY <1>2, <1>3, <1>4, <1>6
  <2>2. n \in exists'
    <3>1. CASE kept
      <4>1. cached_ng = g /\ cached_ng # NoGroup
        BY <1>5, <3>1, GroupAssumption
      <4>2. n <= lastart => n \in exists
        BY <1>8, <4>1 DEF CacheOK
      <4> QED
        BY <1>4, <1>5, <1>8, <2>1, <3>1, <4>2
    <3>2. CASE ~kept
      BY <1>4, <1>5, <1>6, <2>1, <3>2
    <3> QED
      BY <3>1, <3>2
  <2> QED
    BY <2>1, <2>2
<1>10. exists' \subseteq 1 .. N
  <2>1. CASE kept
    <3>1. cached_ng = g /\ cached_ng # NoGroup
      BY <1>5, <2>1, GroupAssumption
    <3>2. lastart <= N /\ exists \subseteq 1 .. lastart
      BY <1>8, <3>1 DEF CacheOK
    <3>3. exists \subseteq 1 .. N
      BY <1>2, <1>8, <3>2
    <3> QED
      BY <1>2, <1>5, <2>1, <3>3
  <2>2. CASE ~kept
    BY <1>2, <1>5, <2>2
  <2> QED
    BY <2>1, <2>2
<1>11. Cardinality(unread') \in Nat
  <2>1. unread' \subseteq exists'
    BY <1>5 DEF LineToBits
  <2>2. IsFiniteSet(1 .. N)
    BY <1>2, FS_Interval
  <2> QED
    BY <1>10, <2>1, <2>2, FS_Subset, FS_CardinalityType
<1> DEFINE c  == Cardinality(unread')
           np == [sized EXCEPT !.line = line, !.toread = c]
<1> HIDE DEF c
<1>12. np = [line |-> line, sub |-> sized.sub, toread |-> c,
             abs1st |-> sized.abs1st, ngmax |-> sized.ngmax]
  <2> DEFINE x == np
  <2>1. x = [sized EXCEPT !.line = line, !.toread = c]
    OBVIOUS
  <2>2. sized \in NgData
    BY <1>4 DEF Fits
  <2> HIDE DEF x
  <2> QED
    BY <2>1, <2>2, NgMarked DEF x
<1>13. ng' = [ng EXCEPT ![g] = np]
  BY <1>5 DEF c
<1> HIDE DEF np
<1>14. ng'[g] = np
  BY <1>1, <1>13
<1>15. sized \in NgData /\ sized.abs1st <= N + 1
  BY <1>4 DEF Fits
<1>16. np \in NgData /\ np.line = line /\ np.sub = sized.sub /\ np.toread = c
       /\ np.abs1st = sized.abs1st /\ np.ngmax = sized.ngmax
  <2>1. sized.sub \in BOOLEAN /\ sized.abs1st \in Nat /\ sized.ngmax \in Nat
    BY <1>15, NgFields
  <2>2. line \in Seq(ItemType) /\ c \in Int
    BY <1>7, <1>11 DEF InOrder, c
  <2>3. np \in NgData
    BY <1>12, <2>1, <2>2 DEF NgData
  <2> QED
    BY <1>12, <2>3
<1>17. Fits(np, N)
  BY <1>2, <1>4, <1>7, <1>15, <1>16 DEF Fits
<1>18. np.sub
  BY <1>4, <1>16 DEF Enter
<1>19. cur' = g /\ cached_ng' = g /\ pc' = "read"
  BY DEF Enter
<1>20. /\ firstart' = Firstart(np.line, absfirst')
       /\ unread' = LineToBits(np.line, absfirst', lastart', exists')
  BY <1>5, <1>16
<1>21. np.line = ng[g].line \/ np.line = CheckExpired(ng[g].line, absfirst')
  BY <1>7, <1>16
<1> QED
  BY <1>1, <1>2, <1>6, <1>9, <1>10, <1>13, <1>14, <1>16, <1>17, <1>18, <1>19,
     <1>20, <1>21 DEF c

\* What entering a group makes unread is in its range, and not on its line.
LEMMA EnterBits ==
  ASSUME GroupInv, NEW g \in Group, Enter(g)
  PROVE  /\ firstart' \in absfirst' .. lastart' + 1
         /\ unread' \subseteq exists' \cap (firstart' .. lastart')
         /\ unread' \cap Read(ng'[g].line) = {}
         /\ (\A i \in DOMAIN ng'[g].line :
               ng'[g].line[i].min >= firstart' \/ (i = 1 /\ HasHead(ng'[g].line)))
            => unread' = {n \in exists' : n \in absfirst' .. lastart'} \ Read(ng'[g].line)
<1> DEFINE line == ng'[g].line
           N    == High(g)
<1>1. /\ absfirst' \in 1 .. N + 1 /\ lastart' = N /\ N \in Nat
      /\ firstart' = Firstart(line, absfirst')
      /\ unread' = LineToBits(line, absfirst', lastart', exists')
      /\ exists' \subseteq 1 .. lastart'
      /\ InOrder(line, N)
  BY EnterFacts DEF Fits
<1>2. exists' \in SUBSET Nat /\ absfirst' \in Nat \ {0}
  BY <1>1
<1> HIDE DEF line
<1>3. /\ firstart' \in Nat /\ firstart' >= absfirst'
      /\ firstart' = absfirst' \/ firstart' <= N + 1
      /\ unread' \subseteq exists' \cap (firstart' .. lastart')
      /\ unread' \cap Read(line) = {}
      /\ (\A i \in DOMAIN line : line[i].min >= firstart' \/ (i = 1 /\ HasHead(line)))
            => unread' = {n \in exists' : n \in absfirst' .. lastart'} \ Read(line)
  BY <1>1, <1>2, BitsAreUnread
<1> QED
  BY <1>1, <1>3 DEF line

LEMMA EnterStep ==
  ASSUME GroupInv, NEW g \in Group, Enter(g)
  PROVE  GroupInv'
<1> DEFINE N == High(g)
<1>1. /\ cur = NoGroup /\ cur' = g /\ cached_ng' = g /\ pc' = "read"
      /\ absfirst' \in 1 .. N + 1 /\ lastart' = N /\ N \in Nat
      /\ exists' \subseteq 1 .. lastart'
      /\ \A n \in There(g) : absfirst' <= n /\ n \in exists'
      /\ ng' = [ng EXCEPT ![g] = ng'[g]]
      /\ ng'[g].sub /\ ng'[g].toread = Cardinality(unread')
      /\ Fits(ng'[g], N)
  BY EnterFacts
<1>2. /\ firstart' \in absfirst' .. lastart' + 1
      /\ unread' \subseteq exists' \cap (firstart' .. lastart')
      /\ unread' \cap Read(ng'[g].line) = {}
  BY EnterBits
<1>3. /\ UNCHANGED server /\ file' = file /\ yank' = yank /\ chase_count' = chase_count
      /\ marked' = marked /\ returned' = returned /\ g \in carried
  BY DEF Enter, marks
<1>4. /\ yank = {} /\ marked = {} /\ chase_count = 0 /\ NgOK /\ FileOK /\ ServerOK /\ CacheOK
      /\ lastart \in Nat
  BY <1>1 DEF GroupInv, ClosedOK, CacheOK
<1>5. /\ arrived' = arrived /\ carried' = carried
      /\ \A x : High(x)' = High(x) /\ There(x)' = There(x)
  BY <1>3, SameServer
<1>6. PICK kept \in IF cached_ng = g THEN BOOLEAN ELSE {FALSE} :
        kchase' = (IF kept THEN kchase ELSE {}) /\ keyed' = (kept /\ keyed)
  BY Zenon DEF Enter
<1>7. /\ kchase' \subseteq 1 .. N
      /\ chase_count' <= Cardinality(kchase')
      /\ ~keyed' => chase_count' = Cardinality(kchase')
  <2>1. CASE kept
    <3>1. cached_ng = g /\ g # NoGroup
      BY <1>6, <2>1, GroupAssumption
    <3>2. lastart <= N /\ kchase \subseteq 1 .. lastart
      BY <1>4, <3>1 DEF CacheOK
    <3>3. kchase \subseteq 1 .. N
      BY <1>1, <1>4, <3>2
    <3>4. kchase' = kchase /\ (keyed' <=> keyed)
      BY <1>6, <2>1
    <3>5. chase_count <= Cardinality(kchase) /\ (~keyed => chase_count = Cardinality(kchase))
      BY <1>4 DEF CacheOK
    <3> QED
      BY <1>3, <3>3, <3>4, <3>5, Zenon
  <2>2. CASE ~kept
    <3>1. kchase' = {} /\ Cardinality(kchase') = 0
      BY <1>6, <2>2, FS_EmptySet
    <3> QED
      BY <1>3, <1>4, <3>1
  <2> QED
    BY <2>1, <2>2
<1>8. NgOK'
  <2> DEFINE np == ng'[g]
  <2>1. ng' = [ng EXCEPT ![g] = np] /\ Fits(np, High(g))
    BY <1>1
  <2> HIDE DEF np
  <2> QED
    <3>1. np.toread = TR_BOGUS => g \notin carried
      <4>1. unread' \subseteq 1 .. N
        BY <1>1, <1>2
      <4>2. Cardinality(unread') \in Nat
        <5>1. IsFiniteSet(1 .. N)
          BY <1>1, FS_Interval
        <5> QED
          BY <4>1, <5>1, FS_Subset, FS_CardinalityType
      <4> QED
        BY <1>1, <4>2 DEF TR_BOGUS, np
    <3> QED
      BY <1>3, <1>4, <2>1, <3>1, OneGroup
<1>9. FileOK' /\ ServerOK'
  BY <1>3, <1>4, <1>5, SameFile DEF ServerOK
<1>10. High(cached_ng)' = N /\ There(cached_ng)' = There(g)
  BY <1>1, <1>5 DEF High, There, server
<1>11. CacheOK'
  <2>1. cur' \in Group \cup {NoGroup} /\ cached_ng' \in Group \cup {NoGroup}
    BY <1>1
  <2>2. absfirst' \in Nat \ {0} /\ lastart' \in Nat /\ absfirst' <= lastart' + 1
    BY <1>1
  <2>3. chase_count' \in Nat
    BY <1>3, <1>4
  <2>4. lastart' <= High(cached_ng)'
    BY <1>1, <1>10
  <2>5. kchase' \subseteq 1 .. lastart'
    BY <1>1, <1>7
  <2> QED
    BY <1>1, <1>7, <1>10, <2>1, <2>2, <2>3, <2>4, <2>5 DEF CacheOK
<1>12. g # NoGroup
  BY GroupAssumption
<1>13. ClosedOK' /\ MarkedOK'
  BY <1>1, <1>3, <1>4, <1>12 DEF ClosedOK, MarkedOK
<1>14. unread' \subseteq absfirst' .. lastart' /\ \A n \in unread' : firstart' <= n
  BY <1>1, <1>2
<1>15. Read(ng'[g].line) \subseteq 1 .. lastart'
  BY <1>1, ReadRange DEF Fits
<1>16. OpenOK'
  BY <1>1, <1>2, <1>3, <1>4, <1>14, <1>15 DEF OpenOK
<1>17. CountsKept'
  BY <1>1, <1>14 DEF CountsKept, ToreadCounts, FirstartFirst
<1> QED
  BY <1>8, <1>9, <1>11, <1>13, <1>16, <1>17 DEF GroupInv

LEMMA PromptStep ==
  ASSUME GroupInv, PromptNext
  PROVE  GroupInv'
<1>1. CASE Quit
  BY <1>1, QuitStep
<1>2. ASSUME NEW g \in Group, CatchUp(g) PROVE GroupInv'
  BY <1>2, CatchUpStep
<1>3. ASSUME NEW g \in Group, Enter(g) PROVE GroupInv'
  BY <1>3, EnterStep
<1>4. ASSUME NEW g \in Group,
             Recount(g) \/ Unsubscribe(g) \/ Resubscribe(g) \/ EnterBogus(g)
      PROVE  GroupInv'
  <2>1. AtPrompt
    BY <1>4 DEF Recount, Unsubscribe, Resubscribe, EnterBogus
  <2> QED
    BY <1>4, <2>1, RecountStep
<1> QED
  BY <1>1, <1>2, <1>3, <1>4 DEF PromptNext

(* Steps of the reader in a group.                                          *)

\* What the invariant says of the open group.
LEMMA InGroup ==
  ASSUME GroupInv, cur # NoGroup
  PROVE  /\ cur \in Group /\ cached_ng = cur /\ arrived \in 0 .. Len(Posts)
         /\ High(cur) \in Nat /\ lastart <= High(cur)
         /\ absfirst \in Nat \ {0} /\ lastart \in Nat /\ absfirst <= lastart + 1
         /\ firstart \in absfirst .. lastart + 1
         /\ exists \subseteq 1 .. lastart /\ kchase \subseteq 1 .. lastart
         /\ unread \subseteq absfirst .. lastart /\ yank \subseteq absfirst .. lastart
         /\ \A n \in There(cur) : absfirst <= n /\ (n <= lastart => n \in exists)
         /\ Read(ng[cur].line) \subseteq 1 .. lastart
         /\ unread \cap Read(ng[cur].line) \subseteq returned
         /\ ng[cur].toread = Cardinality(unread)
         /\ \A n \in unread : firstart <= n
<1>1. cur \in Group /\ cached_ng = cur
  BY DEF GroupInv, CacheOK, OpenOK
<1>2. High(cur) \in Nat
  BY NumberType DEF High, GroupInv, ServerOK
<1> QED
  BY <1>1, <1>2 DEF GroupInv, ServerOK, CacheOK, OpenOK, CountsKept, ToreadCounts, FirstartFirst

\* The sets of articles are finite.
LEMMA FiniteSets ==
  ASSUME GroupInv, cur # NoGroup, NEW S, S \subseteq 1 .. lastart \/ S \subseteq absfirst .. lastart
  PROVE  IsFiniteSet(S) /\ Cardinality(S) \in Nat
<1>1. absfirst \in Nat \ {0} /\ lastart \in Nat
  BY InGroup
<1>2. IsFiniteSet(1 .. lastart) /\ IsFiniteSet(absfirst .. lastart)
  BY <1>1, FS_Interval
<1> QED
  BY <1>2, FS_Subset, FS_CardinalityType

\* Only the count of the open group has changed.
LEMMA OneCount ==
  ASSUME NgOK, UNCHANGED server, cur \in Group, NEW c \in Nat,
         ng' = [ng EXCEPT ![cur].toread = c]
  PROVE  /\ NgOK'
         /\ ng'[cur].line = ng[cur].line /\ ng'[cur].sub = ng[cur].sub
         /\ ng'[cur].toread = c
         /\ \A x \in Group \ {cur} : ng'[x] = ng[x]
<1>1. ng \in [Group -> NgData] /\ Fits(ng[cur], High(cur)) /\ ng[cur] \in NgData
  BY DEF NgOK, Fits
<1> DEFINE np == [ng[cur] EXCEPT !.toread = c]
<1>2. ng' = [ng EXCEPT ![cur] = np]
  OBVIOUS
<1>3. PICK l \in Seq(ItemType), s \in BOOLEAN, t \in Int, a \in Nat, m \in Nat :
        ng[cur] = [line |-> l, sub |-> s, toread |-> t, abs1st |-> a, ngmax |-> m]
  BY <1>1, NgFields
<1>4. np = [line |-> l, sub |-> s, toread |-> c, abs1st |-> a, ngmax |-> m]
  <2> DEFINE x == np
  <2>1. x = [ng[cur] EXCEPT !.toread = c]
    OBVIOUS
  <2> HIDE DEF x
  <2>2. x = [line |-> l, sub |-> s, toread |-> c, abs1st |-> a, ngmax |-> m]
    BY <1>3, <2>1
  <2> QED
    BY <2>2 DEF x
<1> HIDE DEF np
<1>5. np \in NgData /\ np.line = l /\ np.sub = s /\ np.toread = c /\ np.abs1st = a /\ np.ngmax = m
  BY <1>4 DEF NgData
<1>6. ng[cur].line = l /\ ng[cur].sub = s /\ ng[cur].abs1st = a /\ ng[cur].ngmax = m
  BY <1>3
<1>7. Fits(np, High(cur)) /\ np.toread # TR_BOGUS
  BY <1>1, <1>5, <1>6 DEF Fits, TR_BOGUS
<1>8. NgOK'
  BY <1>2, <1>7, OneGroup
<1>9. ng'[cur] = np /\ \A x \in Group \ {cur} : ng'[x] = ng[x]
  BY <1>1, <1>2
<1> QED
  BY <1>5, <1>6, <1>8, <1>9

\* A mark that is kept for the other groups is kept if their data stay.
LEMMA MarksStay ==
  ASSUME GroupInv, cur # NoGroup, cur' = cur, NEW n \in 1 .. lastart,
         \A x \in Group \ {cur} : ng'[x] = ng[x],
         \A h \in DOMAIN Xrefs(cur, n) : MarkedIn(h, n)
  PROVE  \A h \in DOMAIN Xrefs(cur, n) : MarkedIn(h, n)'
<1>1. n \in 1 .. High(cur)
  BY InGroup
<1>2. DOMAIN Xrefs(cur, n) \in SUBSET (Group \ {cur})
  BY <1>1, InGroup, XrefNumbers
<1> QED
  BY <1>2 DEF MarkedIn

\* A step that does no more than mark articles of the open group, and that
\* keeps the count.
LEMMA ReadingMoves ==
  ASSUME GroupInv, cur # NoGroup,
         UNCHANGED <<server, file, pc, cur, cached_ng, range>>,
         ng' = [ng EXCEPT ![cur].toread = Cardinality(unread')],
         CacheOK', firstart' \in absfirst .. lastart + 1,
         unread' \subseteq absfirst .. lastart, yank' \subseteq absfirst .. lastart,
         unread' \cap Read(ng[cur].line) \subseteq returned',
         \A n \in unread' : firstart' <= n,
         \A n \in marked' : n \in 1 .. lastart
                            /\ (n \in kchase' \/ (n \in marked /\ n \notin kchase))
  PROVE  GroupInv'
<1>1. /\ UNCHANGED server /\ file' = file /\ pc' = pc /\ cur' = cur
      /\ cached_ng' = cached_ng /\ absfirst' = absfirst /\ lastart' = lastart
  BY DEF range
<1>2. cur \in Group /\ ServerOK /\ NgOK /\ FileOK /\ cached_ng = cur
      /\ pc \in {"read", "chase", "leave"} /\ (pc # "leave" => ng[cur].sub)
      /\ Read(ng[cur].line) \subseteq 1 .. lastart
  BY DEF GroupInv, CacheOK, OpenOK
<1>3. Cardinality(unread') \in Nat
  BY FiniteSets
<1> DEFINE c == Cardinality(unread')
<1> HIDE DEF c
<1>4. c \in Nat /\ ng' = [ng EXCEPT ![cur].toread = c]
  BY <1>3 DEF c
<1>5. /\ NgOK'
      /\ ng'[cur].line = ng[cur].line /\ ng'[cur].sub = ng[cur].sub
      /\ ng'[cur].toread = c
      /\ \A x \in Group \ {cur} : ng'[x] = ng[x]
  BY <1>1, <1>2, <1>4, OneCount
<1>6. FileOK' /\ ServerOK'
  BY <1>1, <1>2, SameFile, SameServer DEF ServerOK
<1>7. ClosedOK'
  BY <1>1 DEF ClosedOK
<1>8. OpenOK'
  BY <1>1, <1>2, <1>5 DEF OpenOK
<1>9. CountsKept'
  BY <1>1, <1>5 DEF CountsKept, ToreadCounts, FirstartFirst, c
<1>10. MarkedOK'
  <2> SUFFICES ASSUME NEW n \in marked', n \notin kchase'
               PROVE  \A h \in DOMAIN Xrefs(cur, n) : MarkedIn(h, n)'
    BY <1>1 DEF MarkedOK
  <2>1. n \in 1 .. lastart /\ \A h \in DOMAIN Xrefs(cur, n) : MarkedIn(h, n)
    BY DEF GroupInv, MarkedOK
  <2> QED
    BY <1>1, <1>5, <2>1, MarksStay
<1> QED
  BY <1>5, <1>6, <1>7, <1>8, <1>9, <1>10 DEF GroupInv

\* The cache after a step that leaves the articles to chase alone and loses no
\* article that is there.
LEMMA CacheStays ==
  ASSUME GroupInv, cur # NoGroup,
         UNCHANGED <<server, cur, cached_ng, range, chase>>,
         exists' \subseteq 1 .. lastart,
         \A n \in There(cur) : n \in exists => n \in exists'
  PROVE  CacheOK'
<1>1. /\ UNCHANGED server /\ cur' = cur /\ cached_ng' = cached_ng
      /\ absfirst' = absfirst /\ lastart' = lastart
      /\ kchase' = kchase /\ chase_count' = chase_count /\ keyed' = keyed
  BY DEF range, chase
<1>2. High(cached_ng)' = High(cached_ng) /\ There(cached_ng)' = There(cached_ng)
  BY <1>1 DEF High, There, server
<1>3. CacheOK /\ cached_ng = cur
  BY InGroup DEF GroupInv
<1> QED
  BY <1>1, <1>2, <1>3 DEF CacheOK

\* oneless and onemore keep the count.
LEMMA LessCounts ==
  ASSUME GroupInv, cur # NoGroup, NEW n
  PROVE  Less({n}) = [ng EXCEPT ![cur].toread = Cardinality(unread \ {n})]
<1>1. IsFiniteSet(unread) /\ Cardinality(unread) \in Nat
  BY InGroup, FiniteSets
<1>2. ng[cur].toread = Cardinality(unread)
  BY InGroup
<1> DEFINE less == IF ng[cur].toread > TR_NONE
                   THEN ng[cur].toread - Cardinality({n} \cap unread) ELSE ng[cur].toread
<1>3. less = Cardinality(unread \ {n})
  <2>1. CASE n \in unread
    <3>1. {n} \cap unread = {n} /\ Cardinality({n}) = 1
      BY <2>1, FS_Singleton
    <3>2. Cardinality(unread \ {n}) = Cardinality(unread) - 1
      BY <1>1, <2>1, FS_RemoveElement
    <3>3. Cardinality(unread) # 0
      BY <1>1, <2>1, FS_EmptySet
    <3> QED
      BY <1>1, <1>2, <3>1, <3>2, <3>3 DEF TR_NONE
  <2>2. CASE n \notin unread
    <3>1. {n} \cap unread = {} /\ unread \ {n} = unread
      BY <2>2
    <3>2. Cardinality({n} \cap unread) = 0
      BY <3>1, FS_EmptySet
    <3>3. less = Cardinality(unread)
      BY <1>1, <1>2, <3>2
    <3> QED
      BY <3>1, <3>3
  <2> QED
    BY <2>1, <2>2
<1>4. Less({n}) = [ng EXCEPT ![cur].toread = less]
  BY DEF Less
<1> HIDE DEF less
<1> QED
  BY <1>3, <1>4

LEMMA MoreCounts ==
  ASSUME GroupInv, cur # NoGroup, NEW N, N \subseteq 1 .. lastart \/ N \subseteq absfirst .. lastart
  PROVE  More(N) = [ng EXCEPT ![cur].toread = Cardinality(unread \cup N)]
<1> DEFINE new == N \ unread
           more == ng[cur].toread + Cardinality(new)
<1>1. IsFiniteSet(unread) /\ Cardinality(unread) \in Nat
  BY InGroup, FiniteSets
<1>2. IsFiniteSet(new) /\ Cardinality(new) \in Nat
  BY FiniteSets
<1>3. unread \cup N = unread \cup new /\ unread \cap new = {}
  OBVIOUS
<1>4. Cardinality(unread \cup new) = Cardinality(unread) + Cardinality(new)
  <2> HIDE DEF new
  <2>1. Cardinality(unread \cap new) = 0
    BY <1>3, FS_EmptySet
  <2>2. Cardinality(unread \cup new)
          = Cardinality(unread) + Cardinality(new) - Cardinality(unread \cap new)
    BY <1>1, <1>2, FS_Union
  <2> QED
    BY <1>1, <1>2, <2>1, <2>2
<1>5. more = Cardinality(unread \cup N)
  BY <1>3, <1>4, InGroup
<1>6. More(N) = [ng EXCEPT ![cur].toread = more]
  BY DEF More
<1> HIDE DEF more
<1> QED
  BY <1>5, <1>6

\* Where check_first and count_subjects put g_firstart.
LEMMA CheckFirstIs ==
  ASSUME GroupInv, cur # NoGroup, NEW N, N \subseteq absfirst .. lastart
  PROVE  /\ CheckFirst(N) \in absfirst .. lastart + 1
         /\ CheckFirst(N) <= firstart
         /\ \A n \in N : CheckFirst(N) <= n
<1> DEFINE at(n) == IF n < absfirst THEN absfirst ELSE n
           S     == {at(n) : n \in N} \cup {firstart}
<1>1. absfirst \in Nat /\ lastart \in Nat /\ firstart \in absfirst .. lastart + 1
  BY InGroup
<1>2. \A n \in N : n \in Nat /\ absfirst <= n /\ n <= lastart
  BY <1>1
<1>3. \A n \in N : at(n) = n
  BY <1>1, <1>2
<1> HIDE DEF at
<1>4. (\A n \in S : n \in absfirst .. lastart + 1) /\ firstart \in S /\ (\A n \in N : n \in S)
  BY <1>1, <1>2, <1>3
<1>5. CheckFirst(N) = Min(S)
  BY DEF CheckFirst, at
<1> HIDE DEF S
<1>6. S \in SUBSET Nat /\ S # {}
  <2>1. \A n \in S : n \in Nat
    BY <1>1, <1>4
  <2> QED
    BY <1>4, <2>1
<1>7. Min(S) \in S /\ \A n \in S : Min(S) <= n
  BY <1>6, MinNat
<1> QED
  BY <1>4, <1>5, <1>7

LEMMA CountSubjectsIs ==
  ASSUME NEW first \in Nat, NEW last \in Nat, first <= last + 1, NEW N, N \subseteq first .. last
  PROVE  /\ CountSubjects(N, last) \in first .. last + 1
         /\ \A n \in N : CountSubjects(N, last) <= n
<1> DEFINE S == N \cup {last + 1}
<1>1. \A n \in S : n \in first .. last + 1
  OBVIOUS
<1>2. S \in SUBSET Nat /\ S # {} /\ N \in SUBSET S
  <2>1. \A n \in S : n \in Nat
    BY <1>1
  <2>2. last + 1 \in S /\ N \in SUBSET S
    OBVIOUS
  <2> HIDE DEF S
  <2> QED
    BY <2>1, <2>2
<1>3. CountSubjects(N, last) = Min(S)
  BY DEF CountSubjects
<1> HIDE DEF S
<1>4. Min(S) \in S /\ \A n \in S : Min(S) <= n
  BY <1>2, MinNat
<1> QED
  BY <1>1, <1>2, <1>3, <1>4

\* set_read and mark_as_read: the article is to be chased, once.
LEMMA SetReadStep ==
  ASSUME GroupInv, Reading, NEW n \in exists \cap (absfirst .. lastart), SetRead(n),
         yank' = yank \/ yank' = yank \cup {n},
         UNCHANGED <<server, file, pc, cur, cached_ng, range, firstart, exists>>
  PROVE  GroupInv'
<1>0. cur # NoGroup
  BY DEF GroupInv, Reading, ClosedOK
<1>1. /\ absfirst \in Nat \ {0} /\ lastart \in Nat
      /\ firstart \in absfirst .. lastart + 1
      /\ exists \subseteq 1 .. lastart /\ kchase \subseteq 1 .. lastart
      /\ unread \subseteq absfirst .. lastart /\ yank \subseteq absfirst .. lastart
      /\ unread \cap Read(ng[cur].line) \subseteq returned
      /\ \A m \in unread : firstart <= m
  BY <1>0, InGroup
<1>2. /\ UNCHANGED server /\ cur' = cur /\ cached_ng' = cached_ng /\ absfirst' = absfirst
      /\ lastart' = lastart /\ firstart' = firstart /\ exists' = exists
  BY DEF range
<1>3. /\ unread' = unread \ {n} /\ ng' = Less({n}) /\ returned' = returned \ {n}
      /\ keyed' = keyed
      /\ marked' = (IF Crossposted(cur, n) THEN marked \cup {n} ELSE marked)
  BY DEF SetRead
<1> DEFINE new == IF Crossposted(cur, n) THEN {n} \ kchase ELSE {}
<1>4. kchase' = kchase \cup new /\ chase_count' = chase_count + Cardinality(new)
  BY Zenon DEF SetRead
<1>5. n \in 1 .. lastart /\ n \in absfirst .. lastart
  BY <1>1
<1>6. IsFiniteSet(kchase) /\ IsFiniteSet(new) /\ new \cap kchase = {} /\ new \subseteq {n}
      /\ Cardinality(kchase) \in Nat /\ Cardinality(new) \in Nat
  <2>1. new \subseteq {n} /\ new \cap kchase = {}
    OBVIOUS
  <2>2. IsFiniteSet(new)
    BY <2>1, FS_Singleton, FS_Subset
  <2> QED
    BY <1>0, <1>1, <2>1, <2>2, FiniteSets, FS_CardinalityType
<1> HIDE DEF new
<1>7. Cardinality(kchase') = Cardinality(kchase) + Cardinality(new)
  <2>1. Cardinality(kchase \cap new) = 0
    <3>1. kchase \cap new = {}
      BY <1>6
    <3> QED
      BY <3>1, FS_EmptySet
  <2>2. Cardinality(kchase \cup new)
          = Cardinality(kchase) + Cardinality(new) - Cardinality(kchase \cap new)
    BY <1>6, FS_Union
  <2> QED
    BY <1>4, <1>6, <2>1, <2>2
<1>8. kchase' \subseteq 1 .. lastart
  BY <1>1, <1>4, <1>5, <1>6
<1>9. High(cached_ng)' = High(cached_ng) /\ There(cached_ng)' = There(cached_ng)
  BY <1>2 DEF High, There, server
<1>10. CacheOK'
  <2>1. CacheOK
    BY DEF GroupInv
  <2>2. chase_count' \in Nat /\ chase_count' <= Cardinality(kchase')
    BY <1>4, <1>6, <1>7, <2>1 DEF CacheOK
  <2>3. ~keyed' => chase_count' = Cardinality(kchase')
    BY <1>3, <1>4, <1>6, <1>7, <2>1 DEF CacheOK
  <2> QED
    BY <1>2, <1>8, <1>9, <2>1, <2>2, <2>3 DEF CacheOK
<1>11. ng' = [ng EXCEPT ![cur].toread = Cardinality(unread')]
  BY <1>0, <1>3, LessCounts
<1>12. \A m \in marked' : m \in 1 .. lastart
                          /\ (m \in kchase' \/ (m \in marked /\ m \notin kchase))
  <2>1. \A m \in marked : m \in 1 .. lastart
    BY <1>0 DEF GroupInv, MarkedOK
  <2>2. Crossposted(cur, n) => n \in kchase'
    BY <1>4 DEF new
  <2> QED
    BY <1>3, <1>4, <1>5, <2>1, <2>2
<1>13. /\ unread' \subseteq absfirst .. lastart /\ yank' \subseteq absfirst .. lastart
       /\ unread' \cap Read(ng[cur].line) \subseteq returned'
       /\ \A m \in unread' : firstart' <= m
  BY <1>1, <1>2, <1>3, <1>5
<1> QED
  BY <1>0, <1>1, <1>2, <1>10, <1>11, <1>12, <1>13, ReadingMoves

LEMMA BitsStep ==
  ASSUME GroupInv,
         WillReturn \/ UnmarkAsRead \/ Yankback \/ SkipMissing \/ CatchUpHere
  PROVE  GroupInv'
<1>0. cur # NoGroup
  BY DEF GroupInv, Reading, ClosedOK, WillReturn, UnmarkAsRead, Yankback, SkipMissing, CatchUpHere
<1>1. /\ absfirst \in Nat \ {0} /\ lastart \in Nat
      /\ firstart \in absfirst .. lastart + 1 /\ absfirst <= lastart + 1
      /\ exists \subseteq 1 .. lastart
      /\ unread \subseteq absfirst .. lastart /\ yank \subseteq absfirst .. lastart
      /\ unread \cap Read(ng[cur].line) \subseteq returned
      /\ \A m \in unread : firstart <= m
      /\ \A m \in marked : m \in 1 .. lastart
  BY <1>0, InGroup DEF GroupInv, MarkedOK
<1>2. /\ UNCHANGED <<server, file, pc, cur, cached_ng, range, chase>>
      /\ UNCHANGED <<server, cur, cached_ng, range, chase>>
      /\ kchase' = kchase /\ marked' = marked
  BY DEF WillReturn, UnmarkAsRead, Yankback, SkipMissing, CatchUpHere, marks, chase
<1>3. ASSUME exists' = exists PROVE CacheOK'
  BY <1>0, <1>1, <1>2, <1>3, CacheStays
<1>4. \A m \in marked' : m \in 1 .. lastart
                         /\ (m \in kchase' \/ (m \in marked /\ m \notin kchase))
  BY <1>1, <1>2
<1>5. ASSUME CacheOK', ng' = [ng EXCEPT ![cur].toread = Cardinality(unread')],
             firstart' \in absfirst .. lastart + 1,
             unread' \subseteq absfirst .. lastart, yank' \subseteq absfirst .. lastart,
             unread' \cap Read(ng[cur].line) \subseteq returned',
             \A m \in unread' : firstart' <= m
      PROVE  GroupInv'
  BY <1>0, <1>2, <1>4, <1>5, ReadingMoves
<1>6. CASE WillReturn
  <2>1. PICK n \in exists \cap (absfirst .. lastart) :
          /\ yank' = yank \cup {n} /\ unread' = unread \ {n}
          /\ ng' = Less({n}) /\ returned' = returned \ {n}
    BY <1>6 DEF WillReturn
  <2>2. firstart' = firstart /\ exists' = exists
    BY <1>6 DEF WillReturn
  <2>3. ng' = [ng EXCEPT ![cur].toread = Cardinality(unread')]
    BY <1>0, <2>1, LessCounts
  <2>4. /\ unread' \subseteq absfirst .. lastart /\ yank' \subseteq absfirst .. lastart
        /\ unread' \cap Read(ng[cur].line) \subseteq returned'
        /\ \A m \in unread' : firstart' <= m
    BY <1>1, <2>1, <2>2
  <2> QED
    BY <1>1, <1>3, <1>5, <2>2, <2>3, <2>4
<1>7. CASE UnmarkAsRead
  <2>1. PICK n \in exists \cap (absfirst .. lastart) :
          /\ unread' = unread \cup {n}
          /\ firstart' = (IF n \in unread THEN firstart ELSE CheckFirst({n}))
          /\ ng' = More({n}) /\ returned' = returned \cup {n}
    BY <1>7 DEF UnmarkAsRead
  <2>2. yank' = yank /\ exists' = exists
    BY <1>7 DEF UnmarkAsRead
  <2>3. {n} \subseteq absfirst .. lastart
    OBVIOUS
  <2>4. ng' = [ng EXCEPT ![cur].toread = Cardinality(unread')]
    BY <1>0, <2>1, <2>3, MoreCounts
  <2>5. /\ CheckFirst({n}) \in absfirst .. lastart + 1
        /\ CheckFirst({n}) <= firstart /\ CheckFirst({n}) <= n
    BY <1>0, <2>3, CheckFirstIs
  <2>6. firstart' \in absfirst .. lastart + 1 /\ \A m \in unread' : firstart' <= m
    <3>1. CASE n \in unread
      BY <1>1, <2>1, <3>1
    <3>2. CASE n \notin unread
      <4>1. firstart' = CheckFirst({n})
        BY <2>1, <3>2
      <4>2. \A m \in unread : m \in Nat
        BY <1>1
      <4> QED
        BY <1>1, <2>1, <2>5, <4>1, <4>2
    <3> QED
      BY <3>1, <3>2
  <2>7. /\ unread' \subseteq absfirst .. lastart /\ yank' \subseteq absfirst .. lastart
        /\ unread' \cap Read(ng[cur].line) \subseteq returned'
    BY <1>1, <2>1, <2>2
  <2> QED
    BY <1>3, <1>5, <2>2, <2>4, <2>6, <2>7
<1>8. CASE Yankback
  <2>1. /\ unread' = unread \cup yank /\ firstart' = CheckFirst(yank \ unread)
        /\ ng' = More(yank) /\ yank' = {} /\ returned' = returned \cup yank
        /\ exists' = exists
    BY <1>8 DEF Yankback
  <2>2. ng' = [ng EXCEPT ![cur].toread = Cardinality(unread')]
    BY <1>0, <1>1, <2>1, MoreCounts
  <2>3. yank \ unread \subseteq absfirst .. lastart
    BY <1>1
  <2>4. /\ firstart' \in absfirst .. lastart + 1 /\ firstart' <= firstart
        /\ \A m \in yank \ unread : firstart' <= m
    BY <1>0, <2>1, <2>3, CheckFirstIs
  <2>5. \A m \in unread' : firstart' <= m
    <3>1. \A m \in unread : m \in Nat
      BY <1>1
    <3>2. firstart' \in Int /\ firstart \in Int
      BY <1>1, <2>4
    <3>3. \A m \in unread : firstart' <= m
      BY <1>1, <2>4, <3>1, <3>2
    <3>4. \A m \in unread' : m \in unread \/ m \in yank \ unread
      BY <2>1
    <3> QED
      BY <2>4, <3>3, <3>4
  <2>6. /\ unread' \subseteq absfirst .. lastart /\ yank' \subseteq absfirst .. lastart
        /\ unread' \cap Read(ng[cur].line) \subseteq returned'
    BY <1>1, <2>1
  <2> QED
    BY <1>3, <1>5, <2>1, <2>2, <2>4, <2>5, <2>6
<1>9. CASE SkipMissing
  <2>1. PICK n \in exists \ There(cur) :
          /\ exists' = exists \ {n} /\ unread' = unread \ {n} /\ yank' = yank \ {n}
          /\ ng' = Less({n}) /\ returned' = returned \ {n}
    BY <1>9 DEF SkipMissing
  <2>2. firstart' = firstart
    BY <1>9 DEF SkipMissing
  <2>3. ng' = [ng EXCEPT ![cur].toread = Cardinality(unread')]
    BY <1>0, <2>1, LessCounts
  <2>4. CacheOK'
    <3>1. exists' \subseteq 1 .. lastart /\ \A m \in There(cur) : m \in exists => m \in exists'
      BY <1>1, <2>1
    <3> QED
      BY <1>0, <1>2, <3>1, CacheStays
  <2>5. /\ unread' \subseteq absfirst .. lastart /\ yank' \subseteq absfirst .. lastart
        /\ unread' \cap Read(ng[cur].line) \subseteq returned'
        /\ \A m \in unread' : firstart' <= m
    BY <1>1, <2>1, <2>2
  <2> QED
    BY <1>1, <1>5, <2>2, <2>3, <2>4, <2>5
<1>10. CASE CatchUpHere
  <2>0. exists' = exists
    BY <1>10 DEF CatchUpHere
  <2>1. PICK leave_unread \in 0 .. 1 :
          LET left == {n \in unread : n > lastart - leave_unread}
          IN IF leave_unread > 0
             THEN /\ unread' = left
                  /\ firstart' = CountSubjects(left, lastart)
                  /\ ng' = [ng EXCEPT ![cur].toread = Cardinality(left)]
                  /\ returned' = returned \cap left
                  /\ UNCHANGED yank
             ELSE /\ unread' = yank
                  /\ firstart' = CheckFirst(yank)
                  /\ ng' = [ng EXCEPT ![cur].toread = Cardinality(yank)]
                  /\ yank' = {}
                  /\ returned' = yank
    BY <1>10, Zenon DEF CatchUpHere
  <2>2. CASE leave_unread > 0
    <3> DEFINE left == {n \in unread : n > lastart - leave_unread}
    <3>1. /\ unread' = left /\ firstart' = CountSubjects(left, lastart)
          /\ ng' = [ng EXCEPT ![cur].toread = Cardinality(left)]
          /\ returned' = returned \cap left /\ yank' = yank
      BY <2>1, <2>2
    <3>2. left \subseteq unread /\ left \subseteq absfirst .. lastart
      BY <1>1
    <3> HIDE DEF left
    <3>3. firstart' \in absfirst .. lastart + 1 /\ \A m \in unread' : firstart' <= m
      BY <1>1, <3>1, <3>2, CountSubjectsIs
    <3>4. unread' \cap Read(ng[cur].line) \subseteq returned'
      BY <1>1, <3>1, <3>2
    <3> QED
      BY <1>1, <1>3, <1>5, <2>0, <3>1, <3>2, <3>3, <3>4
  <2>3. CASE ~(leave_unread > 0)
    <3>1. /\ unread' = yank /\ firstart' = CheckFirst(yank)
          /\ ng' = [ng EXCEPT ![cur].toread = Cardinality(yank)]
          /\ yank' = {} /\ returned' = yank
      BY <2>1, <2>3
    <3>2. firstart' \in absfirst .. lastart + 1 /\ \A m \in yank : firstart' <= m
      BY <1>0, <1>1, <3>1, CheckFirstIs
    <3> QED
      BY <1>1, <1>3, <1>5, <2>0, <3>1, <3>2
  <2> QED
    BY <2>2, <2>3
<1> QED
  BY <1>6, <1>7, <1>8, <1>9, <1>10

\* NGDATA with another count.
LEMMA Recounted ==
  ASSUME NEW np \in NgData, NEW c \in Int, NEW new, new = [np EXCEPT !.toread = c]
  PROVE  new \in NgData /\ new.line = np.line /\ new.sub = np.sub /\ new.toread = c
         /\ new.abs1st = np.abs1st /\ new.ngmax = np.ngmax
<1>1. PICK l \in Seq(ItemType), b \in BOOLEAN, t \in Int, a \in Nat, m \in Nat :
        np = [line |-> l, sub |-> b, toread |-> t, abs1st |-> a, ngmax |-> m]
  BY NgFields
<1>2. new = [line |-> l, sub |-> b, toread |-> c, abs1st |-> a, ngmax |-> m]
  BY <1>1
<1>3. new \in NgData
  BY <1>2 DEF NgData
<1> QED
  BY <1>1, <1>2, <1>3

\* NGDATA with another mark of the subscription.
LEMMA Remarked ==
  ASSUME NEW np \in NgData, NEW s \in BOOLEAN, NEW new, new = [np EXCEPT !.sub = s]
  PROVE  new \in NgData /\ new.line = np.line /\ new.sub = s /\ new.toread = np.toread
         /\ new.abs1st = np.abs1st /\ new.ngmax = np.ngmax
<1>1. PICK l \in Seq(ItemType), b \in BOOLEAN, t \in Int, a \in Nat, m \in Nat :
        np = [line |-> l, sub |-> b, toread |-> t, abs1st |-> a, ngmax |-> m]
  BY NgFields
<1>2. new = [line |-> l, sub |-> s, toread |-> t, abs1st |-> a, ngmax |-> m]
  BY <1>1
<1>3. new \in NgData
  BY <1>2 DEF NgData
<1> QED
  BY <1>1, <1>2, <1>3

\* chase_xrefs begins, or is ended by a key.
LEMMA WalkStep ==
  ASSUME GroupInv, ChaseInBackground \/ KeyPressed
  PROVE  GroupInv'
<1>0. cur # NoGroup
  BY DEF GroupInv, Reading, ClosedOK, ChaseInBackground, KeyPressed
<1>1. /\ UNCHANGED server /\ ng' = ng /\ file' = file /\ cur' = cur /\ cached_ng' = cached_ng
      /\ absfirst' = absfirst /\ lastart' = lastart /\ firstart' = firstart
      /\ exists' = exists /\ unread' = unread /\ yank' = yank /\ kchase' = kchase
      /\ marked' = marked /\ returned' = returned
  BY DEF ChaseInBackground, KeyPressed, newsrc, range, bits, chase, marks
<1>2. pc \in {"read", "chase"} /\ pc' \in {"read", "chase"}
  BY DEF ChaseInBackground, KeyPressed, Reading
<1>3. (chase_count' = chase_count /\ keyed' = keyed) \/ (chase_count' = 0 /\ keyed' = TRUE)
  BY DEF ChaseInBackground, KeyPressed, chase
<1>4. /\ arrived' = arrived /\ carried' = carried
      /\ \A x : High(x)' = High(x) /\ There(x)' = There(x)
  BY <1>1, SameServer
<1>5. ServerOK' /\ NgOK' /\ FileOK'
  BY <1>1, <1>4 DEF GroupInv, ServerOK, NgOK, FileOK
<1>6. CacheOK'
  <2>1. Cardinality(kchase) \in Nat
    BY <1>0, InGroup, FiniteSets
  <2>2. CacheOK
    BY DEF GroupInv
  <2>3. /\ chase_count' \in Nat /\ chase_count' <= Cardinality(kchase')
        /\ ~keyed' => chase_count' = Cardinality(kchase')
    BY <1>1, <1>3, <2>1, <2>2 DEF CacheOK
  <2>4. High(cached_ng)' = High(cached_ng) /\ There(cached_ng)' = There(cached_ng)
    BY <1>1 DEF High, There, server
  <2> QED
    BY <1>1, <2>2, <2>3, <2>4 DEF CacheOK
<1>7. ClosedOK' /\ OpenOK' /\ CountsKept'
  BY <1>0, <1>1, <1>2 DEF GroupInv, ClosedOK, OpenOK, CountsKept, ToreadCounts, FirstartFirst
<1>8. MarkedOK'
  BY <1>1 DEF GroupInv, MarkedOK, MarkedIn
<1> QED
  BY <1>5, <1>6, <1>7, <1>8 DEF GroupInv

\* The way out of a group begins, perhaps by unsubscribing it.
LEMMA LeaveStep ==
  ASSUME GroupInv, Leave
  PROVE  GroupInv'
<1>0. cur # NoGroup /\ cur \in Group
  BY InGroup DEF GroupInv, Reading, ClosedOK, Leave
<1>1. /\ UNCHANGED server /\ file' = file /\ cur' = cur /\ cached_ng' = cached_ng
      /\ absfirst' = absfirst /\ lastart' = lastart /\ firstart' = firstart
      /\ exists' = exists /\ unread' = unread /\ yank' = yank /\ kchase' = kchase
      /\ chase_count' = chase_count /\ keyed' = keyed
      /\ marked' = marked /\ returned' = returned /\ pc' = "leave"
  BY DEF Leave, range, bits, chase, marks
<1>2. PICK s \in BOOLEAN : ng' = [ng EXCEPT ![cur] = [ng[cur] EXCEPT !.sub = s]]
  <2>1. PICK s \in {TRUE} \cup (IF "unsubscribe" \in Env THEN {FALSE} ELSE {}) :
          Update(cur, [ng[cur] EXCEPT !.sub = s],
                 IF s THEN changed ELSE changed \cup {RcOf[cur]})
    BY Zenon DEF Leave
  <2> QED
    BY <2>1 DEF Update
<1> DEFINE np == [ng[cur] EXCEPT !.sub = s]
<1>3. Fits(ng[cur], High(cur)) /\ (ng[cur].toread = TR_BOGUS => cur \notin carried)
      /\ ng \in [Group -> NgData]
  BY <1>0 DEF GroupInv, NgOK
<1>4. np \in NgData /\ np.line = ng[cur].line /\ np.sub = s /\ np.toread = ng[cur].toread
      /\ np.abs1st = ng[cur].abs1st /\ np.ngmax = ng[cur].ngmax
  <2>1. ng[cur] \in NgData /\ ng[cur].toread \in Int
    BY <1>3, NgFields DEF Fits
  <2> HIDE DEF np
  <2>2. np = [ng[cur] EXCEPT !.sub = s]
    BY DEF np
  <2> QED
    BY <2>1, <2>2, Remarked
<1>5. ng' = [ng EXCEPT ![cur] = np]
  BY <1>2
<1> HIDE DEF np
<1>6. NgOK'
  <2>1. Fits(np, High(cur)) /\ (np.toread = TR_BOGUS => cur \notin carried)
    BY <1>3, <1>4 DEF Fits
  <2> QED
    BY <1>0, <1>1, <1>5, <2>1, OneGroup DEF GroupInv
<1>7. /\ ng'[cur].line = ng[cur].line /\ ng'[cur].toread = ng[cur].toread
      /\ \A x \in Group \ {cur} : ng'[x] = ng[x]
  BY <1>0, <1>3, <1>4, <1>5
<1>8. ServerOK' /\ FileOK'
  BY <1>1, SameFile, SameServer DEF GroupInv, ServerOK
<1>9. CacheOK'
  BY <1>0, <1>1, CacheStays, InGroup DEF range, chase
<1>10. ClosedOK' /\ OpenOK' /\ CountsKept'
  BY <1>0, <1>1, <1>7 DEF GroupInv, ClosedOK, OpenOK, CountsKept, ToreadCounts, FirstartFirst
<1>11. MarkedOK'
  BY <1>0, <1>1, <1>7, MarksStay DEF GroupInv, MarkedOK
<1> QED
  BY <1>6, <1>8, <1>9, <1>10, <1>11 DEF GroupInv

\* grow_ng at the end of the group: what has arrived joins the unread articles.
LEMMA EndOfGroupStep ==
  ASSUME GroupInv, EndOfGroup
  PROVE  GroupInv'
<1>0. cur # NoGroup /\ cur \in Group /\ pc = "read"
  BY InGroup DEF GroupInv, Reading, ClosedOK, EndOfGroup
<1>1. /\ UNCHANGED server /\ file' = file /\ pc' = pc /\ cur' = cur /\ cached_ng' = cached_ng
      /\ absfirst' = absfirst /\ yank' = yank /\ kchase' = kchase
      /\ chase_count' = chase_count /\ keyed' = keyed
      /\ marked' = marked /\ returned' = returned
  BY DEF EndOfGroup, chase, marks
<1>2. /\ cached_ng = cur /\ arrived \in 0 .. Len(Posts)
      /\ High(cur) \in Nat /\ lastart <= High(cur)
      /\ absfirst \in Nat \ {0} /\ lastart \in Nat /\ absfirst <= lastart + 1
      /\ firstart \in absfirst .. lastart + 1
      /\ exists \subseteq 1 .. lastart /\ kchase \subseteq 1 .. lastart
      /\ unread \subseteq absfirst .. lastart /\ yank \subseteq absfirst .. lastart
      /\ Read(ng[cur].line) \subseteq 1 .. lastart
      /\ unread \cap Read(ng[cur].line) \subseteq returned
      /\ ng[cur].toread = Cardinality(unread)
      /\ \A n \in unread : firstart <= n
  BY <1>0, InGroup
<1>3. \A n \in There(cur) : absfirst <= n /\ (n <= lastart => n \in exists)
  BY <1>0, InGroup
<1>4. ng \in [Group -> NgData] /\ Fits(ng[cur], High(cur)) /\ cur \in Group
      /\ (ng[cur].toread = TR_BOGUS => cur \notin carried)
  BY <1>0 DEF GroupInv, NgOK
<1> DEFINE np    == NntpGroup(cur, ng[cur])
           last  == IF np.ngmax > lastart THEN np.ngmax ELSE lastart
           grown == {n \in There(cur) : n \in lastart + 1 .. last}
           left  == unread \cup grown
<1>5. /\ lastart' = last /\ exists' = exists \cup grown /\ unread' = left
      /\ \/ /\ ng' = [ng EXCEPT ![cur] = [np EXCEPT !.toread = Cardinality(left)]]
            /\ firstart' = CountSubjects(left, last)
         \/ /\ ng' = [ng EXCEPT ![cur] = [np EXCEPT !.toread = @ + Cardinality(grown)]]
            /\ firstart' = firstart
  BY Zenon DEF EndOfGroup
<1>6. /\ Fits(np, High(cur)) /\ np.line = ng[cur].line /\ np.sub = ng[cur].sub
      /\ np.toread = ng[cur].toread
      /\ \A n \in There(cur) : np.ngmax = High(cur)
  BY <1>2, <1>4, NntpGroupFits
<1>7. np \in NgData /\ np.ngmax \in Nat /\ np.ngmax <= High(cur) /\ np.sub \in BOOLEAN
  BY <1>6, NgFields DEF Fits
<1> HIDE DEF np
<1>8. last \in Nat /\ lastart <= last /\ last <= High(cur)
  BY <1>2, <1>7
<1>9. /\ \A n \in There(cur) : n \in 1 .. High(cur) /\ n <= last
      /\ There(cur) \in SUBSET Nat
  <2>1. There(cur) \in SUBSET (1 .. High(cur))
    BY <1>2, FirstThere
  <2>2. \A n \in There(cur) : n <= last
    BY <1>2, <1>6, <2>1
  <2> QED
    BY <1>2, <2>1, <2>2
<1> HIDE DEF last
<1>10. \A n \in grown : n \in There(cur) /\ n \in lastart + 1 .. last /\ absfirst <= n /\ n \in Nat
  BY <1>2, <1>3, <1>9
<1>11. \A n \in There(cur) : n <= lastart \/ n \in grown
  BY <1>2, <1>8, <1>9
<1> HIDE DEF grown
<1>12. /\ left \subseteq absfirst .. last /\ unread \cap grown = {}
       /\ exists' \subseteq 1 .. last
  BY <1>2, <1>5, <1>8, <1>10
<1>13. IsFiniteSet(left) /\ IsFiniteSet(unread) /\ IsFiniteSet(grown)
  <2>1. IsFiniteSet(absfirst .. last)
    BY <1>2, <1>8, FS_Interval
  <2> QED
    BY <1>12, <2>1, FS_Subset
<1>14. /\ Cardinality(left) = Cardinality(unread) + Cardinality(grown)
       /\ Cardinality(left) \in Nat
  <2>1. Cardinality(unread \cap grown) = 0
    BY <1>12, FS_EmptySet
  <2>2. Cardinality(left)
          = Cardinality(unread) + Cardinality(grown) - Cardinality(unread \cap grown)
    BY <1>13, FS_Union
  <2>3. Cardinality(left) \in Nat /\ Cardinality(unread) \in Nat /\ Cardinality(grown) \in Nat
    BY <1>13, FS_CardinalityType
  <2> QED
    BY <2>1, <2>2, <2>3
<1> DEFINE c    == Cardinality(left)
           new  == [np EXCEPT !.toread = c]
<1>15. ng' = [ng EXCEPT ![cur] = new]
  <2>1. np.toread + Cardinality(grown) = c
    BY <1>2, <1>6, <1>14
  <2>2. [np EXCEPT !.toread = @ + Cardinality(grown)] = new
    BY <2>1
  <2> QED
    BY <1>5, <2>2
<1>16. /\ new \in NgData /\ new.line = ng[cur].line /\ new.sub = ng[cur].sub
       /\ new.toread = c /\ new.abs1st = np.abs1st /\ new.ngmax = np.ngmax
  <2> HIDE DEF new, c
  <2>1. c \in Int /\ new = [np EXCEPT !.toread = c]
    BY <1>14 DEF c, new
  <2>2. /\ new \in NgData /\ new.line = np.line /\ new.sub = np.sub
        /\ new.toread = c /\ new.abs1st = np.abs1st /\ new.ngmax = np.ngmax
    BY <1>7, <2>1, Recounted
  <2> QED
    BY <1>6, <2>2
<1> HIDE DEF new
<1>17. Fits(new, High(cur)) /\ new.toread # TR_BOGUS
  BY <1>6, <1>14, <1>16 DEF Fits, TR_BOGUS
<1>18. NgOK'
  BY <1>1, <1>4, <1>15, <1>17, OneGroup DEF GroupInv
<1>19. /\ ng'[cur].line = ng[cur].line /\ ng'[cur].sub = ng[cur].sub /\ ng'[cur].toread = c
       /\ \A x \in Group \ {cur} : ng'[x] = ng[x]
  BY <1>4, <1>15, <1>16
<1>20. ServerOK' /\ FileOK'
  BY <1>1, SameFile, SameServer DEF GroupInv, ServerOK
<1>21. CacheOK'
  <2>1. High(cached_ng)' = High(cached_ng) /\ There(cached_ng)' = There(cached_ng)
    BY <1>1 DEF High, There, server
  <2>2. CacheOK
    BY DEF GroupInv
  <2>3. kchase' \subseteq 1 .. last
    BY <1>1, <1>2, <1>8
  <2>4. \A n \in There(cur) : absfirst <= n /\ n \in exists'
    BY <1>3, <1>5, <1>11
  <2>5. last \in Nat /\ absfirst <= last + 1 /\ last <= High(cur)
    BY <1>2, <1>8
  <2> QED
    BY <1>1, <1>2, <1>5, <1>12, <2>1, <2>2, <2>3, <2>4, <2>5 DEF CacheOK
<1>22. ClosedOK'
  BY <1>0, <1>1 DEF ClosedOK
<1>23. firstart' \in absfirst .. last + 1 /\ \A n \in unread' : firstart' <= n
  <2>1. CASE firstart' = CountSubjects(left, last)
    <3>1. absfirst \in Nat /\ last \in Nat /\ absfirst <= last + 1
      BY <1>2, <1>8
    <3> HIDE DEF left
    <3> QED
      BY <1>5, <1>12, <2>1, <3>1, CountSubjectsIs
  <2>2. CASE firstart' = firstart
    <3>1. \A n \in grown : firstart <= n
      BY <1>2, <1>8, <1>10
    <3> QED
      BY <1>2, <1>5, <1>8, <2>2, <3>1
  <2> QED
    BY <1>5, <2>1, <2>2
<1>24. /\ unread' \subseteq absfirst .. last /\ yank' \subseteq absfirst .. last
       /\ Read(ng'[cur].line) \subseteq 1 .. last
       /\ unread' \cap Read(ng'[cur].line) \subseteq returned'
  <2>1. grown \cap Read(ng[cur].line) = {}
    BY <1>2, <1>10
  <2>2. 1 .. lastart \subseteq 1 .. last /\ absfirst .. lastart \subseteq absfirst .. last
    BY <1>2, <1>8
  <2> QED
    BY <1>1, <1>2, <1>5, <1>12, <1>19, <2>1, <2>2
<1>25. OpenOK'
  <2>1. pc # "leave" => ng[cur].sub
    BY <1>0 DEF GroupInv, OpenOK
  <2> QED
    BY <1>0, <1>1, <1>2, <1>5, <1>19, <1>23, <1>24, <2>1 DEF OpenOK
<1>26. CountsKept'
  BY <1>1, <1>5, <1>19, <1>23 DEF CountsKept, ToreadCounts, FirstartFirst
<1>27. MarkedOK'
  <2> SUFFICES ASSUME NEW n \in marked
               PROVE  /\ n \in 1 .. last
                      /\ n \in kchase \/ \A h \in DOMAIN Xrefs(cur, n) : MarkedIn(h, n)'
    BY <1>1, <1>5 DEF MarkedOK
  <2>1. n \in 1 .. lastart /\ (n \in kchase \/ \A h \in DOMAIN Xrefs(cur, n) : MarkedIn(h, n))
    BY <1>0 DEF GroupInv, MarkedOK
  <2>2. n \in 1 .. last
    BY <1>2, <1>8, <2>1
  <2> QED
    BY <1>0, <1>1, <1>19, <2>1, <2>2, MarksStay
<1> QED
  BY <1>18, <1>20, <1>21, <1>22, <1>25, <1>26, <1>27 DEF GroupInv

\* bits_to_rc: the line marks all but N, and nothing else has changed.
LEMMA RcBits ==
  ASSUME GroupInv, cur # NoGroup, NEW N, N \subseteq absfirst .. lastart
  PROVE  LET data == BitsToRc(N)
         IN  /\ data \in [Group -> NgData]
             /\ \A x \in Group : Fits(data[x], High(x))
             /\ \A x \in Group \ {cur} : data[x] = ng[x]
             /\ Read(data[cur].line) = (1 .. lastart) \ N
             /\ data[cur].sub = ng[cur].sub
             /\ data[cur].toread = IF ng[cur].sub THEN Cardinality(N) ELSE TR_UNSUB
             /\ data[cur].toread # TR_BOGUS
             /\ data = [ng EXCEPT ![cur] = data[cur]]
<1> DEFINE data == BitsToRc(N)
           line == BitsToLine(absfirst, lastart, N)
           c    == IF ng[cur].sub THEN Cardinality(N) ELSE TR_UNSUB
<1>1. /\ cur \in Group /\ absfirst \in Nat \ {0} /\ lastart \in Nat /\ absfirst <= lastart + 1
      /\ High(cur) \in Nat /\ lastart <= High(cur)
  BY InGroup
<1>2. ng \in [Group -> NgData] /\ \A x \in Group : Fits(ng[x], High(x))
  BY DEF GroupInv, NgOK
<1>3. c \in Int /\ c # TR_BOGUS
  <2>1. Cardinality(N) \in Nat
    BY FiniteSets
  <2>2. CASE ng[cur].sub
    BY <2>1, <2>2 DEF TR_BOGUS
  <2>3. CASE ~ng[cur].sub
    BY <2>3 DEF TR_UNSUB, TR_BOGUS
  <2> QED
    BY <2>2, <2>3
<1>4. data = [ng EXCEPT ![cur].line = line, ![cur].toread = c]
  BY Zenon DEF BitsToRc
<1>5. InOrder(line, lastart) /\ Read(line) = (1 .. lastart) \ N
  BY <1>1, LineMarksTheRest
<1>6. InOrder(line, High(cur)) /\ line \in Seq(ItemType)
  BY <1>1, <1>5, OrderGrows, Ordered
<1> HIDE DEF line, c
<1>7. data = [ng EXCEPT ![cur] = [@ EXCEPT !.line = line, !.toread = c]]
  BY <1>1, <1>2, <1>4
<1> DEFINE new == [ng[cur] EXCEPT !.line = line, !.toread = c]
<1>8. data = [ng EXCEPT ![cur] = new]
  BY <1>7
<1>9. new = [line |-> line, sub |-> ng[cur].sub, toread |-> c,
             abs1st |-> ng[cur].abs1st, ngmax |-> ng[cur].ngmax]
  <2>1. ng[cur] \in NgData
    BY <1>1, <1>2
  <2> HIDE DEF new
  <2>2. new = [ng[cur] EXCEPT !.line = line, !.toread = c]
    BY DEF new
  <2> QED
    BY <2>1, <2>2, NgMarked
<1> HIDE DEF new, data
<1>10. /\ new \in NgData /\ new.line = line /\ new.toread = c /\ new.sub = ng[cur].sub
       /\ new.abs1st = ng[cur].abs1st /\ new.ngmax = ng[cur].ngmax
  <2>1. ng[cur] \in NgData
    BY <1>1, <1>2
  <2>2. ng[cur].sub \in BOOLEAN /\ ng[cur].abs1st \in Nat /\ ng[cur].ngmax \in Nat
    BY <2>1, NgFields
  <2>3. new \in NgData
    BY <1>3, <1>6, <1>9, <2>2 DEF NgData
  <2> QED
    BY <1>9, <2>3
<1>11. Fits(new, High(cur))
  <2>1. Fits(ng[cur], High(cur))
    BY <1>1, <1>2
  <2> QED
    BY <1>6, <1>10, <2>1 DEF Fits
<1>12. data \in [Group -> NgData]
  BY <1>2, <1>8, <1>10
<1>13. data[cur] = new /\ \A x \in Group \ {cur} : data[x] = ng[x]
  BY <1>1, <1>2, <1>8
<1>14. \A x \in Group : Fits(data[x], High(x))
  BY <1>2, <1>11, <1>13
<1> QED
  BY <1>3, <1>5, <1>8, <1>10, <1>12, <1>13, <1>14 DEF data, c

\* checkpoint_newsrcs.
LEMMA CheckpointStep ==
  ASSUME GroupInv, Checkpoint
  PROVE  GroupInv'
<1>0. cur # NoGroup /\ cur \in Group /\ pc = "read"
  BY InGroup DEF GroupInv, Reading, ClosedOK, Checkpoint
<1>1. /\ UNCHANGED server /\ pc' = pc /\ cur' = cur /\ cached_ng' = cached_ng
      /\ absfirst' = absfirst /\ lastart' = lastart /\ firstart' = firstart
      /\ exists' = exists /\ unread' = unread /\ yank' = yank /\ kchase' = kchase
      /\ chase_count' = chase_count /\ keyed' = keyed
      /\ marked' = marked /\ returned' = returned
  BY DEF Checkpoint, range, bits, chase, marks
<1>2. ng' = BitsToRc(unread) /\ WriteNewsrcs(ng', changed \cup {RcOf[cur]})
  BY DEF Checkpoint
<1>3. /\ unread \subseteq absfirst .. lastart /\ cached_ng = cur
      /\ Read(ng[cur].line) \subseteq 1 .. lastart
  BY <1>0, InGroup
<1>4. ng[cur].sub
  BY <1>0 DEF GroupInv, OpenOK
<1>5. /\ ng' \in [Group -> NgData]
      /\ \A x \in Group : Fits(ng'[x], High(x))
      /\ \A x \in Group \ {cur} : ng'[x] = ng[x]
      /\ Read(ng'[cur].line) = (1 .. lastart) \ unread
      /\ ng'[cur].sub = ng[cur].sub /\ ng'[cur].toread = Cardinality(unread)
      /\ ng'[cur].toread # TR_BOGUS
  <2>1. /\ ng' \in [Group -> NgData]
        /\ \A x \in Group : Fits(ng'[x], High(x))
        /\ \A x \in Group \ {cur} : ng'[x] = ng[x]
        /\ Read(ng'[cur].line) = (1 .. lastart) \ unread
        /\ ng'[cur].toread # TR_BOGUS
    BY <1>0, <1>2, <1>3, RcBits
  <2>2. ng'[cur].sub = ng[cur].sub
    BY <1>0, <1>2, <1>3, RcBits
  <2>3. ng'[cur].toread = IF ng[cur].sub THEN Cardinality(unread) ELSE TR_UNSUB
    BY <1>0, <1>2, <1>3, RcBits
  <2> QED
    BY <1>4, <2>1, <2>2, <2>3
<1>6. NgOK'
  <2>1. carried' = carried /\ \A x : High(x)' = High(x)
    BY <1>1, SameServer
  <2>2. \A x \in Group : ng'[x].toread = TR_BOGUS => x \notin carried
    BY <1>5 DEF GroupInv, NgOK
  <2> QED
    BY <1>5, <2>1, <2>2 DEF NgOK
<1>7. FileOK' /\ ServerOK'
  <2>1. \A x \in Group : InOrder(ng'[x].line, High(x))
    BY <1>5 DEF Fits
  <2> QED
    BY <1>1, <1>2, <1>5, <2>1, Written, SameServer DEF GroupInv, ServerOK
<1>8. CacheOK'
  BY <1>0, <1>1, CacheStays, InGroup DEF range, chase
<1>9. ClosedOK' /\ OpenOK' /\ CountsKept'
  BY <1>0, <1>1, <1>3, <1>5
     DEF GroupInv, ClosedOK, OpenOK, CountsKept, ToreadCounts, FirstartFirst
<1>10. MarkedOK'
  BY <1>0, <1>1, <1>5, MarksStay DEF GroupInv, MarkedOK
<1> QED
  BY <1>6, <1>7, <1>8, <1>9, <1>10 DEF GroupInv

\* The group is left, and its line written.
LEMMA CloseGroupStep ==
  ASSUME GroupInv, CloseGroup
  PROVE  GroupInv'
<1>0. cur # NoGroup /\ cur \in Group
  BY InGroup DEF GroupInv, ClosedOK, CloseGroup
<1>1. /\ UNCHANGED server /\ pc' = "prompt" /\ cur' = NoGroup /\ cached_ng' = cached_ng
      /\ absfirst' = absfirst /\ lastart' = lastart
      /\ exists' = exists /\ unread' = {} /\ yank' = {} /\ kchase' = kchase
      /\ chase_count = 0 /\ chase_count' = chase_count /\ keyed' = keyed /\ marked' = {}
  BY DEF CloseGroup, range, chase
<1>2. /\ ng' = BitsToRc(unread \cup yank)
      /\ WriteNewsrcs(ng', changed \cup {RcOf[cur]})
  BY DEF CloseGroup
<1>3. unread \cup yank \subseteq absfirst .. lastart
  BY <1>0, InGroup
<1>4. /\ ng' \in [Group -> NgData]
      /\ \A x \in Group : Fits(ng'[x], High(x))
      /\ \A x \in Group \ {cur} : ng'[x] = ng[x]
      /\ ng'[cur].toread # TR_BOGUS
  BY <1>0, <1>2, <1>3, RcBits
<1>5. NgOK'
  <2>1. carried' = carried /\ \A x : High(x)' = High(x)
    BY <1>1, SameServer
  <2>2. \A x \in Group : ng'[x].toread = TR_BOGUS => x \notin carried
    BY <1>4 DEF GroupInv, NgOK
  <2> QED
    BY <1>4, <2>1, <2>2 DEF NgOK
<1>6. FileOK' /\ ServerOK'
  <2>1. \A x \in Group : InOrder(ng'[x].line, High(x))
    BY <1>4 DEF Fits
  <2> QED
    BY <1>1, <1>2, <1>4, <2>1, Written, SameServer DEF GroupInv, ServerOK
<1>7. CacheOK'
  <2>1. High(cached_ng)' = High(cached_ng) /\ There(cached_ng)' = There(cached_ng)
    BY <1>1 DEF High, There, server
  <2> QED
    BY <1>1, <2>1 DEF GroupInv, CacheOK
<1>8. ClosedOK' /\ OpenOK' /\ CountsKept' /\ MarkedOK'
  BY <1>1 DEF ClosedOK, OpenOK, CountsKept, ToreadCounts, FirstartFirst, MarkedOK
<1> QED
  BY <1>5, <1>6, <1>7, <1>8 DEF GroupInv

\* A signal ends trn in a group.
LEMMA HangupStep ==
  ASSUME GroupInv, Hangup
  PROVE  GroupInv'
<1>1. cur # NoGroup /\ UNCHANGED server /\ Restart(file')
      /\ WriteNewsrcs(BitsToRc(unread \cup yank), changed \cup {RcOf[cur]})
  BY DEF Hangup, Restart
<1>2. unread \cup yank \subseteq absfirst .. lastart
  BY <1>1, InGroup
<1> DEFINE data == BitsToRc(unread \cup yank)
<1>3. data \in [Group -> NgData] /\ \A x \in Group : InOrder(data[x].line, High(x))
  BY <1>1, <1>2, RcBits DEF Fits
<1> HIDE DEF data
<1>4. WriteNewsrcs(data, changed \cup {RcOf[cur]})
  BY <1>1 DEF data
<1>5. FileOK'
  BY <1>1, <1>3, <1>4, Written DEF GroupInv
<1> QED
  BY <1>1, <1>5, Restarted DEF GroupInv

\* check_chase, for the article that it comes to: the other groups it was posted
\* to have it marked, and it is read in the open group.
LEMMA ChaseFacts ==
  ASSUME GroupInv, ChaseArticle, NEW n, n = Min(kchase)
  PROVE  /\ cur # NoGroup /\ n \in kchase /\ n \in 1 .. lastart
         /\ DOMAIN Xrefs(cur, n) \in SUBSET (Group \ {cur})
         /\ \A h \in DOMAIN Xrefs(cur, n) :
              /\ Xrefs(cur, n)[h] \in 1 .. High(h)
              /\ ng'[h] = AddArtnum(h, ng[h], Xrefs(cur, n)[h])
         /\ \A x \in Group \ {cur} : x \notin DOMAIN Xrefs(cur, n) => ng'[x] = ng[x]
         /\ Fits(ng'[cur], High(cur))
         /\ ng'[cur].line = ng[cur].line /\ ng'[cur].sub = ng[cur].sub
         /\ ng'[cur].toread = Cardinality(unread')
         /\ unread' = IF n \in absfirst .. lastart THEN unread \ {n} ELSE unread
         /\ kchase' = kchase \ {n} /\ chase_count' = chase_count - 1
         /\ DOMAIN ng' = Group
<1>0. cur # NoGroup
  BY DEF GroupInv, ClosedOK, ChaseArticle
<1>1. /\ cur \in Group /\ kchase \subseteq 1 .. lastart /\ lastart <= High(cur)
      /\ High(cur) \in Nat /\ lastart \in Nat /\ arrived \in 0 .. Len(Posts)
      /\ ng[cur].toread = Cardinality(unread) /\ unread \subseteq absfirst .. lastart
  BY <1>0, InGroup
<1>2. n \in kchase
  <2>1. kchase # {}
    <3>1. kchase = {} => Cardinality(kchase) = 0
      BY FS_EmptySet
    <3>2. chase_count > 0 /\ chase_count \in Nat /\ chase_count <= Cardinality(kchase)
      BY DEF GroupInv, CacheOK, ChaseArticle
    <3> QED
      BY <3>1, <3>2
  <2>2. kchase \in SUBSET Nat
    BY <1>1
  <2> QED
    BY <2>1, <2>2, MinNat
<1>3. n \in 1 .. lastart /\ n \in 1 .. High(cur)
  BY <1>1, <1>2
<1>4. /\ DOMAIN Xrefs(cur, n) \in SUBSET (Group \ {cur})
      /\ \A h \in DOMAIN Xrefs(cur, n) : Xrefs(cur, n)[h] \in 1 .. High(h)
  BY <1>1, <1>3, XrefNumbers
<1> DEFINE xrefs == Xrefs(cur, n)
           less  == Less({n})
<1>5. /\ ng' = [g \in Group |->
                  IF g \in DOMAIN xrefs THEN AddArtnum(g, ng[g], xrefs[g])
                  ELSE IF n \in absfirst .. lastart THEN less[g] ELSE ng[g]]
      /\ unread' = IF n \in absfirst .. lastart THEN unread \ {n} ELSE unread
      /\ kchase' = kchase \ {n} /\ chase_count' = chase_count - 1
  BY Zenon DEF ChaseArticle
<1>6. less = [ng EXCEPT ![cur].toread = Cardinality(unread \ {n})]
  BY <1>0, LessCounts
<1>7. Fits(ng[cur], High(cur)) /\ ng \in [Group -> NgData] /\ ng[cur] \in NgData
  BY <1>1 DEF GroupInv, NgOK, Fits
<1> DEFINE c   == Cardinality(unread \ {n})
           new == [ng[cur] EXCEPT !.toread = c]
<1>8. less = [ng EXCEPT ![cur] = new]
  BY <1>6
<1>9. c \in Nat
  BY <1>0, <1>1, FiniteSets
<1> HIDE DEF c
<1>10. /\ new \in NgData /\ new.line = ng[cur].line /\ new.sub = ng[cur].sub
       /\ new.toread = c /\ new.abs1st = ng[cur].abs1st /\ new.ngmax = ng[cur].ngmax
  <2> HIDE DEF new
  <2>1. new = [ng[cur] EXCEPT !.toread = c]
    BY DEF new
  <2> QED
    BY <1>7, <1>9, <2>1, Recounted
<1> HIDE DEF new, less
<1>11. less[cur] = new /\ \A x \in Group \ {cur} : less[x] = ng[x]
  BY <1>1, <1>7, <1>8
<1>12. Fits(new, High(cur))
  BY <1>7, <1>10 DEF Fits
<1>13. /\ \A h \in DOMAIN xrefs : ng'[h] = AddArtnum(h, ng[h], xrefs[h])
       /\ \A x \in Group \ {cur} : x \notin DOMAIN xrefs => ng'[x] = ng[x]
       /\ ng'[cur] = IF n \in absfirst .. lastart THEN new ELSE ng[cur]
       /\ DOMAIN ng' = Group
  <2>1. DOMAIN xrefs \in SUBSET (Group \ {cur})
    BY <1>4
  <2> HIDE DEF xrefs
  <2>2. \A h \in DOMAIN xrefs : ng'[h] = AddArtnum(h, ng[h], xrefs[h])
    BY <1>5, <2>1
  <2>3. \A x \in Group \ {cur} : x \notin DOMAIN xrefs => ng'[x] = ng[x]
    BY <1>5, <1>11
  <2>4. ng'[cur] = IF n \in absfirst .. lastart THEN new ELSE ng[cur]
    BY <1>1, <1>5, <1>11, <2>1
  <2>5. DOMAIN ng' = Group
    BY <1>5
  <2> QED
    BY <2>2, <2>3, <2>4, <2>5
<1>14. /\ Fits(ng'[cur], High(cur))
       /\ ng'[cur].line = ng[cur].line /\ ng'[cur].sub = ng[cur].sub
       /\ ng'[cur].toread = Cardinality(unread')
  <2>1. CASE n \in absfirst .. lastart
    BY <1>5, <1>10, <1>12, <1>13, <2>1 DEF c
  <2>2. CASE ~(n \in absfirst .. lastart)
    BY <1>1, <1>5, <1>7, <1>13, <2>2
  <2> QED
    BY <2>1, <2>2
<1> QED
  BY <1>0, <1>2, <1>3, <1>4, <1>5, <1>13, <1>14

\* A mark in another group outlives a walk over the cross references.
LEMMA ChaseKeeps ==
  ASSUME GroupInv, ChaseArticle, NEW m \in 1 .. lastart, NEW h \in DOMAIN Xrefs(cur, m),
         MarkedIn(h, m) \/ m = Min(kchase)
  PROVE  \/ ng'[h].toread = TR_BOGUS
         \/ Xrefs(cur, m)[h] \in Read(ng'[h].line) /\ ng'[h].abs1st # 0
<1> DEFINE n == Min(kchase)
<1>0. cur # NoGroup
  BY ChaseFacts
<1>1. m \in 1 .. High(cur) /\ cur \in Group /\ arrived \in 0 .. Len(Posts)
  BY <1>0, InGroup
<1>2. h \in Group \ {cur}
  <2>1. DOMAIN Xrefs(cur, m) \in SUBSET (Group \ {cur})
    BY <1>1, XrefNumbers
  <2> QED
    BY <2>1
<1>3. Fits(ng[h], High(h)) /\ (ng[h].toread = TR_BOGUS => h \notin carried)
  BY <1>2 DEF GroupInv, NgOK
<1>4. CASE h \in DOMAIN Xrefs(cur, n)
  <2>1. /\ Xrefs(cur, n)[h] \in 1 .. High(h)
        /\ ng'[h] = AddArtnum(h, ng[h], Xrefs(cur, n)[h])
    BY <1>4, ChaseFacts
  <2> DEFINE artnum  == Xrefs(cur, n)[h]
             trimmed == Trimmed(h, ng[h])
             new     == AddArtnum(h, ng[h], artnum)
  <2>2. /\ new.toread = TR_BOGUS <=> trimmed.toread = TR_BOGUS
        /\ Read(trimmed.line) \subseteq Read(new.line)
        /\ new.toread # TR_BOGUS => artnum \in Read(new.line) /\ new.abs1st # 0
    BY <1>1, <1>3, <2>1, AddArtnumFits
  <2>3. /\ ng[h].toread = TR_BOGUS => trimmed.toread = TR_BOGUS
        /\ ng[h].abs1st # 0 => trimmed = ng[h]
    BY <1>1, <1>3, TrimmedFits
  <2>4. ng'[h] = new
    BY <2>1
  <2> HIDE DEF trimmed, new
  <2> QED
    BY <2>2, <2>3, <2>4 DEF MarkedIn
<1>5. CASE h \notin DOMAIN Xrefs(cur, n)
  <2>1. ng'[h] = ng[h]
    BY <1>2, <1>5, ChaseFacts
  <2>2. m # n
    BY <1>5
  <2> QED
    BY <2>1, <2>2 DEF MarkedIn
<1> QED
  BY <1>4, <1>5

LEMMA ChaseStep ==
  ASSUME GroupInv, ChaseArticle
  PROVE  GroupInv'
<1> DEFINE n == Min(kchase)
<1>1. /\ UNCHANGED server /\ file' = file /\ cur' = cur /\ cached_ng' = cached_ng
      /\ absfirst' = absfirst /\ lastart' = lastart /\ firstart' = firstart
      /\ exists' = exists /\ yank' = yank /\ keyed' = keyed
      /\ marked' = marked /\ returned' = returned
      /\ pc \in {"chase", "leave"}
  BY DEF ChaseArticle, range, marks
<1>2. pc' \in {"read", "chase", "leave"} /\ (pc' = "leave" <=> pc = "leave")
  BY DEF ChaseArticle
<1>3. /\ cur # NoGroup /\ n \in kchase /\ n \in 1 .. lastart
      /\ DOMAIN Xrefs(cur, n) \in SUBSET (Group \ {cur})
      /\ \A h \in DOMAIN Xrefs(cur, n) :
           /\ Xrefs(cur, n)[h] \in 1 .. High(h)
           /\ ng'[h] = AddArtnum(h, ng[h], Xrefs(cur, n)[h])
      /\ \A x \in Group \ {cur} : x \notin DOMAIN Xrefs(cur, n) => ng'[x] = ng[x]
      /\ Fits(ng'[cur], High(cur))
      /\ ng'[cur].line = ng[cur].line /\ ng'[cur].sub = ng[cur].sub
      /\ ng'[cur].toread = Cardinality(unread')
      /\ unread' = IF n \in absfirst .. lastart THEN unread \ {n} ELSE unread
      /\ kchase' = kchase \ {n} /\ chase_count' = chase_count - 1
      /\ DOMAIN ng' = Group
  BY ChaseFacts
<1> HIDE DEF n
<1>4. /\ cur \in Group /\ cached_ng = cur /\ arrived \in 0 .. Len(Posts)
      /\ kchase \subseteq 1 .. lastart /\ lastart \in Nat
      /\ unread \subseteq absfirst .. lastart /\ yank \subseteq absfirst .. lastart
      /\ firstart \in absfirst .. lastart + 1
      /\ Read(ng[cur].line) \subseteq 1 .. lastart
      /\ unread \cap Read(ng[cur].line) \subseteq returned
      /\ \A m \in unread : firstart <= m
  BY <1>3, InGroup
<1>5. unread' \subseteq unread
  BY <1>3
<1>6. NgOK'
  <2>1. carried' = carried /\ \A x : High(x)' = High(x)
    BY <1>1, SameServer
  <2>2. ASSUME NEW x \in Group
        PROVE  Fits(ng'[x], High(x)) /\ (ng'[x].toread = TR_BOGUS => x \notin carried)
    <3>1. Fits(ng[x], High(x)) /\ (ng[x].toread = TR_BOGUS => x \notin carried)
      BY DEF GroupInv, NgOK
    <3>2. CASE x \in DOMAIN Xrefs(cur, n)
      <4> DEFINE artnum  == Xrefs(cur, n)[x]
                 trimmed == Trimmed(x, ng[x])
                 new     == AddArtnum(x, ng[x], artnum)
      <4>1. artnum \in 1 .. High(x) /\ ng'[x] = new
        BY <1>3, <3>2
      <4>2. Fits(new, High(x)) /\ (new.toread = TR_BOGUS <=> trimmed.toread = TR_BOGUS)
        BY <1>4, <3>1, <4>1, AddArtnumFits
      <4>3. trimmed.toread = TR_BOGUS => x \notin carried
        BY <1>4, <3>1, TrimmedFits
      <4> HIDE DEF trimmed, new
      <4> QED
        BY <4>1, <4>2, <4>3
    <3>3. CASE x \notin DOMAIN Xrefs(cur, n) /\ x # cur
      BY <1>3, <3>1, <3>3
    <3>4. CASE x = cur
      <4>1. Cardinality(unread') \in Nat
        BY <1>3, <1>4, <1>5, FiniteSets
      <4>2. ng'[x].toread # TR_BOGUS
        BY <1>3, <3>4, <4>1 DEF TR_BOGUS
      <4> QED
        BY <1>3, <3>4, <4>2
    <3> QED
      BY <3>2, <3>3, <3>4
  <2>3. ng' = [x \in Group |-> ng'[x]]
    BY Zenon DEF ChaseArticle
  <2>4. ng' \in [Group -> NgData]
    <3>1. \A x \in Group : ng'[x] \in NgData
      BY <2>2 DEF Fits
    <3> QED
      BY <2>3, <3>1
  <2> QED
    BY <2>1, <2>2, <2>4 DEF NgOK
<1>7. FileOK' /\ ServerOK'
  BY <1>1, SameFile, SameServer DEF GroupInv, ServerOK
<1>8. CacheOK'
  <2>1. High(cached_ng)' = High(cached_ng) /\ There(cached_ng)' = There(cached_ng)
    BY <1>1 DEF High, There, server
  <2>2. CacheOK
    BY DEF GroupInv
  <2>3. IsFiniteSet(kchase) /\ Cardinality(kchase) \in Nat
    BY <1>3, <1>4, FiniteSets
  <2>4. Cardinality(kchase') = Cardinality(kchase) - 1
    BY <1>3, <2>3, FS_RemoveElement
  <2>5. chase_count > 0
    BY DEF ChaseArticle
  <2>6. /\ chase_count' \in Nat /\ chase_count' <= Cardinality(kchase')
        /\ ~keyed' => chase_count' = Cardinality(kchase')
    BY <1>1, <1>3, <2>2, <2>3, <2>4, <2>5 DEF CacheOK
  <2>7. kchase' \subseteq 1 .. lastart
    BY <1>3, <1>4
  <2> QED
    BY <1>1, <2>1, <2>2, <2>6, <2>7 DEF CacheOK
<1>9. ClosedOK'
  BY <1>1, <1>3 DEF ClosedOK
<1>10. OpenOK'
  <2>1. pc # "leave" => ng[cur].sub
    BY <1>3 DEF GroupInv, OpenOK
  <2> QED
    BY <1>1, <1>2, <1>3, <1>4, <1>5, <2>1 DEF OpenOK
<1>11. CountsKept'
  BY <1>1, <1>3, <1>4, <1>5 DEF CountsKept, ToreadCounts, FirstartFirst
<1>12. MarkedOK'
  <2> SUFFICES ASSUME NEW m \in marked
               PROVE  /\ m \in 1 .. lastart
                      /\ m \in kchase' \/ \A h \in DOMAIN Xrefs(cur, m) : MarkedIn(h, m)'
    BY <1>1, <1>3 DEF MarkedOK
  <2>1. m \in 1 .. lastart
    BY <1>3 DEF GroupInv, MarkedOK
  <2>2. CASE m \in kchase'
    BY <2>1, <2>2
  <2>3. CASE m \notin kchase'
    <3>1. m = n \/ \A h \in DOMAIN Xrefs(cur, m) : MarkedIn(h, m)
      BY <1>3, <2>3 DEF GroupInv, MarkedOK
    <3>2. ASSUME NEW h \in DOMAIN Xrefs(cur, m) PROVE MarkedIn(h, m)'
      <4>1. \/ ng'[h].toread = TR_BOGUS
            \/ Xrefs(cur, m)[h] \in Read(ng'[h].line) /\ ng'[h].abs1st # 0
        BY <2>1, <3>1, ChaseKeeps DEF n
      <4> QED
        BY <1>1, <4>1 DEF MarkedIn
    <3> QED
      BY <2>1, <3>2
  <2> QED
    BY <2>2, <2>3
<1> QED
  BY <1>6, <1>7, <1>8, <1>9, <1>10, <1>11, <1>12 DEF GroupInv

\* Every step in a group.
LEMMA GroupStep ==
  ASSUME GroupInv, GroupNext
  PROVE  GroupInv'
<1>1. CASE MarkAsRead
  BY <1>1, SetReadStep DEF MarkAsRead
<1>2. CASE ReturnLater
  <2>1. PICK n \in exists \cap (absfirst .. lastart) : SetRead(n) /\ yank' = yank \cup {n}
    BY <1>2 DEF ReturnLater
  <2>2. Reading /\ UNCHANGED <<server, file, pc, cur, cached_ng, range, firstart, exists>>
    BY <1>2 DEF ReturnLater
  <2> QED
    BY <2>1, <2>2, SetReadStep
<1>3. CASE WillReturn \/ UnmarkAsRead \/ Yankback \/ SkipMissing \/ CatchUpHere
  BY <1>3, BitsStep
<1>4. CASE EndOfGroup
  BY <1>4, EndOfGroupStep
<1>5. CASE Checkpoint
  BY <1>5, CheckpointStep
<1>6. CASE ChaseInBackground \/ KeyPressed
  BY <1>6, WalkStep
<1>7. CASE ChaseArticle
  BY <1>7, ChaseStep
<1>8. CASE Leave
  BY <1>8, LeaveStep
<1>9. CASE CloseGroup
  BY <1>9, CloseGroupStep
<1>10. CASE Hangup
  BY <1>10, HangupStep
<1> QED
  BY <1>1, <1>2, <1>3, <1>4, <1>5, <1>6, <1>7, <1>8, <1>9, <1>10 DEF GroupNext

(* The invariant holds at first, and every step keeps it.                   *)

LEMMA InitInv ==
  ASSUME Init
  PROVE  GroupInv
<1>0. Len(Posts) \in Nat
  BY GroupAssumption
<1>1. ServerOK
  BY <1>0 DEF Init, ServerOK
<1>2. \A x \in Group : High(x) \in Nat
  BY <1>1, NumberType DEF High, ServerOK
<1> DEFINE no  == TRUE
           new == [line |-> << >>, sub |-> no, toread |-> TR_NONE, abs1st |-> 0, ngmax |-> 0]
<1>3. ng = [g \in Group |-> new] /\ file = [g \in Group |-> [line |-> << >>, sub |-> no]]
  BY DEF Init
<1>4. no \in BOOLEAN /\ << >> \in Seq(ItemType) /\ TR_NONE \in Int /\ TR_NONE # TR_BOGUS
  BY DEF TR_NONE, TR_BOGUS
<1> HIDE DEF no
<1>5. new \in NgData /\ new.line = << >> /\ new.abs1st = 0 /\ new.ngmax = 0 /\ new.toread = TR_NONE
  BY <1>4 DEF NgData
<1> HIDE DEF new
<1>6. \A x \in Group : InOrder(<< >>, High(x))
  BY <1>2, PlainLines
<1>7. NgOK
  BY <1>2, <1>3, <1>4, <1>5, <1>6 DEF NgOK, Fits
<1>8. FileOK
  <2>1. [line |-> << >>, sub |-> no] \in FileData
    BY <1>4 DEF FileData
  <2> QED
    BY <1>3, <1>6, <2>1 DEF FileOK
<1>9. CacheOK
  BY FS_EmptySet DEF Init, CacheOK
<1>10. ClosedOK /\ OpenOK /\ CountsKept /\ MarkedOK
  BY DEF Init, ClosedOK, OpenOK, CountsKept, ToreadCounts, FirstartFirst, MarkedOK
<1> QED
  BY <1>1, <1>7, <1>8, <1>9, <1>10 DEF GroupInv

LEMMA StutterInv ==
  ASSUME GroupInv, UNCHANGED vars
  PROVE  GroupInv'
<1>1. /\ UNCHANGED server /\ ng' = ng /\ file' = file /\ pc' = pc /\ cur' = cur
      /\ cached_ng' = cached_ng /\ absfirst' = absfirst /\ lastart' = lastart
      /\ firstart' = firstart /\ exists' = exists /\ unread' = unread /\ yank' = yank
      /\ kchase' = kchase /\ chase_count' = chase_count /\ keyed' = keyed
      /\ marked' = marked /\ returned' = returned
  BY DEF vars, newsrc, range, bits, chase, marks
<1>2. /\ arrived' = arrived /\ carried' = carried
      /\ \A x : High(x)' = High(x)
      /\ High(cached_ng)' = High(cached_ng) /\ There(cached_ng)' = There(cached_ng)
  <2>1. arrived' = arrived /\ carried' = carried /\ \A x : High(x)' = High(x)
    BY <1>1, SameServer
  <2>2. High(cached_ng)' = High(cached_ng) /\ There(cached_ng)' = There(cached_ng)
    BY <1>1 DEF High, There, server
  <2> QED
    BY <2>1, <2>2
<1>3. ServerOK' /\ NgOK' /\ FileOK' /\ CacheOK'
  BY <1>1, <1>2 DEF GroupInv, ServerOK, NgOK, FileOK, CacheOK
<1>4. ClosedOK' /\ OpenOK' /\ CountsKept' /\ MarkedOK'
  BY <1>1 DEF GroupInv, ClosedOK, OpenOK, CountsKept, ToreadCounts, FirstartFirst,
              MarkedOK, MarkedIn
<1> QED
  BY <1>3, <1>4 DEF GroupInv

\* The inductive invariant of the groups and their bits.  Every theorem below
\* rests on it.
THEOREM GroupInvariant == Spec => []GroupInv
<1>1. Init => GroupInv
  BY InitInv
<1>2. GroupInv /\ [Next]_vars => GroupInv'
  BY ServerStep, PromptStep, GroupStep, StutterInv DEF Next
<1> QED
  BY <1>1, <1>2, PTL DEF Spec

(* What it says of the lines and the counts.                                *)

\* The numbers of every line are ascending, and none is on it twice, after any
\* number of marks, trimmings, counts, checkpoints and restarts, for any posts
\* and any number of groups.
THEOREM LinesStayInOrder == Spec => []LineInOrder
<1>1. ASSUME GroupInv PROVE LineInOrder
  <2> SUFFICES ASSUME NEW g \in Group, NEW i \in DOMAIN ng[g].line
               PROVE  /\ \/ ng[g].line[i].min <= ng[g].line[i].max
                         \/ i = 1 /\ ng[g].line[i] = RangeOf(1, 0)
                      /\ i > 1 => ng[g].line[i - 1].max < ng[g].line[i].min
    BY DEF LineInOrder
  <2>1. High(g) \in Nat /\ InOrder(ng[g].line, High(g))
    BY <1>1, NumberType DEF GroupInv, ServerOK, NgOK, Fits, High
  <2> DEFINE line == ng[g].line
  <2>2. InOrder(line, High(g))
    BY <2>1
  <2>3. i \in 1 .. Len(line) /\ Len(line) \in Nat
    BY <2>1, <2>2, Ordered
  <2> HIDE DEF line
  <2>4. line[i].min <= line[i].max \/ (i = 1 /\ line[i] = RangeOf(1, 0))
    BY <2>1, <2>2, <2>3, Ordered
  <2>5. i > 1 => line[i - 1].max < line[i].min
    BY <2>1, <2>2, <2>3, Ordered
  <2> QED
    BY <2>4, <2>5 DEF line
<1> QED
  BY <1>1, GroupInvariant, PTL

\* The count of the open group and g_firstart, which oneless, onemore, yankback,
\* onemissing, catch_up, grow_ng and chase_xrefs keep up to date mark by mark,
\* are always right.
THEOREM CountsAreKept == Spec => []CountsKept
<1>1. GroupInv => CountsKept
  BY DEF GroupInv
<1> QED
  BY <1>1, GroupInvariant, PTL

\* Only Enter opens a group.
LEMMA OpenedByEnter ==
  ASSUME GroupInv, Next, cur = NoGroup, cur' # NoGroup
  PROVE  \E g \in Group : Enter(g)
<1>1. pc = "prompt"
  BY DEF GroupInv, ClosedOK
<1>2. ~GroupNext
  BY <1>1 DEF GroupNext, Reading, MarkAsRead, ReturnLater, WillReturn, UnmarkAsRead,
              Yankback, SkipMissing, CatchUpHere, EndOfGroup, Checkpoint,
              ChaseInBackground, ChaseArticle, KeyPressed, Leave, CloseGroup, Hangup
<1>3. ~ServerNext
  BY DEF ServerNext, Arrive, Expire, Remove
<1>4. ~Quit
  BY DEF Quit, Restart
<1>5. \A g \in Group : ~Recount(g) /\ ~CatchUp(g) /\ ~Unsubscribe(g)
                       /\ ~Resubscribe(g) /\ ~EnterBogus(g)
  BY DEF Recount, CatchUp, Unsubscribe, Resubscribe, EnterBogus
<1> QED
  BY <1>2, <1>3, <1>4, <1>5 DEF Next, PromptNext

\* What is unread when a group is entered is what exists and its line does not
\* mark.
THEOREM EnteringFitsLine == Spec => BitsFitLine
<1> DEFINE Fit == cur = NoGroup /\ cur' # NoGroup
                  /\ (\A i \in DOMAIN ng'[cur'].line :
                        ng'[cur'].line[i].min >= firstart'
                          \/ (i = 1 /\ HasHead(ng'[cur'].line)))
                  => unread' = {n \in exists' : n \in absfirst' .. lastart'}
                                 \ Read(ng'[cur'].line)
<1>1. GroupInv /\ [Next]_vars => [Fit]_vars
  <2> SUFFICES ASSUME GroupInv, Next, cur = NoGroup, cur' # NoGroup
               PROVE  Fit
    OBVIOUS
  <2>1. PICK g \in Group : Enter(g)
    BY OpenedByEnter
  <2>2. cur' = g
    BY <2>1, EnterFacts
  <2> QED
    BY <2>1, <2>2, EnterBits
<1>2. Spec => [][Fit]_vars
  BY <1>1, GroupInvariant, PTL DEF Spec
<1> QED
  BY <1>2, PTL DEF BitsFitLine

\* Each article that was read in a group the user leaves has been marked in the
\* other groups it was posted to, unless a key ended a walk and it is still to
\* be chased; and a cross reference marks its number there and no more.
THEOREM XrefsAreChased == Spec => XrefsChased
<1> DEFINE Chase == CloseGroup => \A n \in marked : Chased(n) \/ (keyed /\ n \in kchase)
           One   == ChaseArticle => \A g \in DOMAIN Xrefs(cur, Min(kchase)) :
                      LET trimmed == Trimmed(g, ng[g])
                      IN trimmed.toread # TR_BOGUS /\ trimmed.line # <<RangeOf(1, 0)>>
                           => Read(ng'[g].line)
                                = Read(trimmed.line) \cup {Xrefs(cur, Min(kchase))[g]}
<1>1. ASSUME GroupInv PROVE Chase
  <2> SUFFICES ASSUME CloseGroup, NEW n \in marked, ~(keyed /\ n \in kchase)
               PROVE  Chased(n)
    OBVIOUS
  <2>0. cur # NoGroup
    BY <1>1 DEF GroupInv, ClosedOK, CloseGroup
  <2>1. n \notin kchase
    <3>1. CASE keyed
      BY <3>1
    <3>2. CASE ~keyed
      <4>1. Cardinality(kchase) = 0
        BY <1>1, <3>2 DEF GroupInv, CacheOK, CloseGroup
      <4>2. IsFiniteSet(kchase)
        BY <1>1, <2>0, InGroup, FiniteSets
      <4> QED
        BY <4>1, <4>2, FS_EmptySet
    <3> QED
      BY <3>1, <3>2
  <2>2. n \in 1 .. lastart /\ \A h \in DOMAIN Xrefs(cur, n) : MarkedIn(h, n)
    BY <1>1, <2>0, <2>1 DEF GroupInv, MarkedOK
  <2>3. \A x \in Group \ {cur} : ng'[x] = ng[x]
    <3>1. unread \cup yank \subseteq absfirst .. lastart /\ ng' = BitsToRc(unread \cup yank)
      BY <1>1, <2>0, InGroup DEF CloseGroup
    <3> QED
      BY <1>1, <2>0, <3>1, RcBits
  <2>4. DOMAIN Xrefs(cur, n) \in SUBSET (Group \ {cur})
    BY <1>1, <2>0, <2>2, InGroup, XrefNumbers
  <2> QED
    BY <2>2, <2>3, <2>4 DEF Chased, MarkedIn
<1>2. ASSUME GroupInv PROVE One
  <2> SUFFICES ASSUME ChaseArticle, NEW g \in DOMAIN Xrefs(cur, Min(kchase)),
                      Trimmed(g, ng[g]).toread # TR_BOGUS,
                      Trimmed(g, ng[g]).line # <<RangeOf(1, 0)>>
               PROVE  Read(ng'[g].line)
                        = Read(Trimmed(g, ng[g]).line) \cup {Xrefs(cur, Min(kchase))[g]}
    BY Zenon
  <2> DEFINE artnum == Xrefs(cur, Min(kchase))[g]
  <2>1. g \in Group /\ artnum \in 1 .. High(g) /\ ng'[g] = AddArtnum(g, ng[g], artnum)
    BY <1>2, ChaseFacts
  <2>2. /\ arrived \in 0 .. Len(Posts) /\ Fits(ng[g], High(g))
        /\ ng[g].toread = TR_BOGUS => g \notin carried
    BY <1>2, <2>1 DEF GroupInv, ServerOK, NgOK
  <2> QED
    BY <2>1, <2>2, AddArtnumFits
<1>3. Spec => [][Chase]_vars
  BY <1>1, GroupInvariant, PTL DEF Spec
<1>4. Spec => [][One]_vars
  BY <1>2, GroupInvariant, PTL DEF Spec
<1> QED
  BY <1>3, <1>4 DEF XrefsChased, ChasedUnlessKey, ChaseMarksOne

(* What each step does to the lines, and to the newsrcs.                    *)

\* NGDATA with another count, whatever that is, has the line it had.
LEMMA CountedLine ==
  ASSUME NEW np \in NgData, NEW c, NEW new, new = [np EXCEPT !.toread = c]
  PROVE  new.line = np.line /\ new.sub = np.sub
<1>1. PICK l \in Seq(ItemType), b \in BOOLEAN, t \in Int, a \in Nat, m \in Nat :
        np = [line |-> l, sub |-> b, toread |-> t, abs1st |-> a, ngmax |-> m]
  BY NgFields
<1>2. new = [line |-> l, sub |-> b, toread |-> c, abs1st |-> a, ngmax |-> m]
  BY <1>1
<1> QED
  BY <1>1, <1>2

LEMMA CountedOnly ==
  ASSUME GroupInv, cur # NoGroup, NEW np \in NgData, np.line = ng[cur].line, NEW c,
         ng' = [ng EXCEPT ![cur] = [np EXCEPT !.toread = c]]
  PROVE  /\ ng'[cur].line = ng[cur].line
         /\ \A x \in Group \ {cur} : ng'[x] = ng[x]
<1>1. cur \in Group /\ ng \in [Group -> NgData]
  BY InGroup DEF GroupInv, NgOK
<1> DEFINE new == [np EXCEPT !.toread = c]
<1>2. ng' = [ng EXCEPT ![cur] = new]
  OBVIOUS
<1>3. new = [np EXCEPT !.toread = c]
  OBVIOUS
<1> HIDE DEF new
<1>4. new.line = np.line
  BY <1>3, CountedLine
<1> QED
  BY <1>1, <1>2, <1>4

\* The steps in a group that leave the lines and the files alone.
LEMMA OpenLines ==
  ASSUME GroupInv,
         \/ MarkAsRead \/ ReturnLater \/ WillReturn \/ UnmarkAsRead \/ Yankback
         \/ SkipMissing \/ CatchUpHere \/ EndOfGroup
         \/ ChaseInBackground \/ KeyPressed \/ Leave
  PROVE  /\ cur # NoGroup /\ cur' = cur /\ file' = file /\ changed \subseteq changed'
         /\ ng'[cur].line = ng[cur].line
         /\ \A x \in Group \ {cur} : ng'[x] = ng[x]
<1>0. cur # NoGroup
  BY DEF GroupInv, ClosedOK, Reading, MarkAsRead, ReturnLater, WillReturn, UnmarkAsRead,
         Yankback, SkipMissing, CatchUpHere, EndOfGroup, ChaseInBackground, KeyPressed, Leave
<1>1. cur' = cur /\ file' = file
  BY DEF MarkAsRead, ReturnLater, WillReturn, UnmarkAsRead, Yankback, SkipMissing,
         CatchUpHere, EndOfGroup, ChaseInBackground, KeyPressed, Leave, newsrc
<1>2. cur \in Group /\ ng \in [Group -> NgData] /\ Fits(ng[cur], High(cur)) /\ ng[cur] \in NgData
  BY <1>0, InGroup DEF GroupInv, NgOK, Fits
<1>3. ASSUME NEW c, ng' = [ng EXCEPT ![cur].toread = c]
      PROVE  /\ ng'[cur].line = ng[cur].line
             /\ \A x \in Group \ {cur} : ng'[x] = ng[x]
  <2>1. ng' = [ng EXCEPT ![cur] = [ng[cur] EXCEPT !.toread = c]]
    BY <1>3
  <2> QED
    BY <1>0, <1>2, <2>1, CountedOnly
<1>4. ASSUME NEW n, ng' = Less({n})
      PROVE  /\ ng'[cur].line = ng[cur].line
             /\ \A x \in Group \ {cur} : ng'[x] = ng[x]
  BY <1>0, <1>3, <1>4, LessCounts
<1>5. ASSUME NEW N, N \subseteq absfirst .. lastart \/ N \subseteq 1 .. lastart, ng' = More(N)
      PROVE  /\ ng'[cur].line = ng[cur].line
             /\ \A x \in Group \ {cur} : ng'[x] = ng[x]
  BY <1>0, <1>3, <1>5, MoreCounts
<1>6. CASE MarkAsRead
  <2>1. PICK n \in exists \cap (absfirst .. lastart) : SetRead(n)
    BY <1>6 DEF MarkAsRead
  <2> QED
    BY <1>0, <1>1, <1>4, <1>6, <2>1 DEF MarkAsRead, SetRead
<1>7. CASE ReturnLater
  <2>1. PICK n \in exists \cap (absfirst .. lastart) : SetRead(n) /\ yank' = yank \cup {n}
    BY <1>7 DEF ReturnLater
  <2> QED
    BY <1>0, <1>1, <1>4, <1>7, <2>1 DEF ReturnLater, SetRead
<1>8. CASE WillReturn
  BY <1>0, <1>1, <1>4, <1>8 DEF WillReturn
<1>9. CASE UnmarkAsRead
  <2>1. PICK n \in exists \cap (absfirst .. lastart) : ng' = More({n})
    BY <1>9 DEF UnmarkAsRead
  <2>2. {n} \subseteq absfirst .. lastart
    OBVIOUS
  <2> QED
    BY <1>0, <1>1, <1>5, <1>9, <2>1, <2>2 DEF UnmarkAsRead
<1>10. CASE Yankback
  <2>1. yank \subseteq absfirst .. lastart
    BY <1>0, InGroup
  <2> QED
    BY <1>0, <1>1, <1>5, <1>10, <2>1 DEF Yankback
<1>11. CASE SkipMissing
  BY <1>0, <1>1, <1>4, <1>11 DEF SkipMissing
<1>12. CASE CatchUpHere
  <2>1. PICK leave_unread \in 0 .. 1 :
          IF leave_unread > 0
          THEN ng' = [ng EXCEPT ![cur].toread =
                        Cardinality({n \in unread : n > lastart - leave_unread})]
          ELSE ng' = [ng EXCEPT ![cur].toread = Cardinality(yank)]
    BY <1>12 DEF CatchUpHere
  <2>2. changed' = changed
    BY <1>12 DEF CatchUpHere
  <2> QED
    BY <1>0, <1>1, <1>3, <2>1, <2>2
<1>13. CASE EndOfGroup
  <2> DEFINE np == NntpGroup(cur, ng[cur])
  <2>1. \E c : ng' = [ng EXCEPT ![cur] = [np EXCEPT !.toread = c]]
    BY <1>13, Zenon DEF EndOfGroup
  <2>2. PICK c : ng' = [ng EXCEPT ![cur] = [np EXCEPT !.toread = c]]
    BY <2>1
  <2>3. np \in NgData /\ np.line = ng[cur].line
    BY <1>0, <1>2, InGroup, NntpGroupFits DEF Fits
  <2>4. changed' = changed
    BY <1>13 DEF EndOfGroup
  <2> HIDE DEF np
  <2> QED
    BY <1>0, <1>1, <2>2, <2>3, <2>4, CountedOnly
<1>14. CASE ChaseInBackground \/ KeyPressed
  BY <1>0, <1>1, <1>14 DEF ChaseInBackground, KeyPressed, newsrc
<1>15. CASE Leave
  <2>1. PICK s \in BOOLEAN :
          ng' = [ng EXCEPT ![cur] = [ng[cur] EXCEPT !.sub = s]] /\ changed \subseteq changed'
    <3>1. PICK s \in {TRUE} \cup (IF "unsubscribe" \in Env THEN {FALSE} ELSE {}) :
            Update(cur, [ng[cur] EXCEPT !.sub = s],
                   IF s THEN changed ELSE changed \cup {RcOf[cur]})
      BY <1>15, Zenon DEF Leave
    <3> QED
      BY <3>1 DEF Update
  <2> DEFINE np == [ng[cur] EXCEPT !.sub = s]
  <2>2. ng' = [ng EXCEPT ![cur] = np] /\ np = [ng[cur] EXCEPT !.sub = s]
    BY <2>1
  <2> HIDE DEF np
  <2>3. np.line = ng[cur].line
    BY <1>2, <2>2, Remarked
  <2> QED
    BY <1>0, <1>1, <1>2, <2>1, <2>2, <2>3
<1> QED
  BY <1>6, <1>7, <1>8, <1>9, <1>10, <1>11, <1>12, <1>13, <1>14, <1>15

\* The steps at the prompt that change one group and write nothing.
LEMMA PromptLines ==
  ASSUME GroupInv, NEW g \in Group,
         Recount(g) \/ Unsubscribe(g) \/ Resubscribe(g) \/ EnterBogus(g) \/ Enter(g)
  PROVE  /\ cur = NoGroup /\ (cur' = NoGroup \/ cur' = g)
         /\ file' = file /\ changed \subseteq changed'
         /\ \A x \in Group \ {g} : ng'[x] = ng[x]
         /\ Keeps(g, ng[g].line, ng'[g])
         /\ RcOf[g] \in changed'
              \/ (ng'[g].line = ng[g].line /\ ng'[g].sub = ng[g].sub)
<1>0. cur = NoGroup
  BY DEF GroupInv, AtPrompt, OpenOK, Recount, Unsubscribe, Resubscribe, EnterBogus, Enter
<1>1. /\ arrived \in 0 .. Len(Posts) /\ Fits(ng[g], High(g)) /\ ng[g] \in NgData
      /\ ng \in [Group -> NgData]
  BY DEF GroupInv, ServerOK, NgOK, Fits
<1>2. (cur' = NoGroup \/ cur' = g) /\ file' = file
  BY <1>0 DEF Recount, Unsubscribe, Resubscribe, EnterBogus, Enter
<1>3. ASSUME NEW np, ng' = [ng EXCEPT ![g] = np]
      PROVE  ng'[g] = np /\ \A x \in Group \ {g} : ng'[x] = ng[x]
  BY <1>1, <1>3
<1>4. ASSUME NEW np, np.line = ng[g].line PROVE Keeps(g, ng[g].line, np)
  BY <1>4 DEF Keeps
<1>5. CASE Recount(g)
  <2>1. PICK lax \in BOOLEAN : ng' = [ng EXCEPT ![g] = SetToread(g, ng[g], lax)]
                               /\ changed' = Flagged(g, SetToread(g, ng[g], lax))
    BY <1>5 DEF Recount, Update
  <2> DEFINE np == SetToread(g, ng[g], lax)
  <2>2. Keeps(g, ng[g].line, np)
    BY <1>1, SetToreadFits
  <2>3. ng' = [ng EXCEPT ![g] = np] /\ changed' = Flagged(g, np)
    BY <2>1
  <2> HIDE DEF np
  <2>4. /\ changed \subseteq changed'
        /\ RcOf[g] \in changed' \/ (np.line = ng[g].line /\ np.sub = ng[g].sub)
    BY <2>3 DEF Flagged
  <2> QED
    BY <1>0, <1>2, <1>3, <2>2, <2>3, <2>4
<1>6. CASE Unsubscribe(g)
  <2> DEFINE no  == FALSE
             np1 == [ng[g] EXCEPT !.sub = no]
             np  == [np1 EXCEPT !.toread = TR_UNSUB]
  <2>1. ng' = [ng EXCEPT ![g] = np] /\ changed' = changed \cup {RcOf[g]}
    BY <1>6 DEF Unsubscribe, Update
  <2>2. np1 = [ng[g] EXCEPT !.sub = no] /\ no \in BOOLEAN
    OBVIOUS
  <2>3. np = [np1 EXCEPT !.toread = TR_UNSUB]
    OBVIOUS
  <2> HIDE DEF np, np1, no
  <2>4. np1 \in NgData /\ np1.line = ng[g].line
    BY <1>1, <2>2, Remarked
  <2>5. np.line = ng[g].line
    BY <2>3, <2>4, CountedLine
  <2> QED
    BY <1>0, <1>2, <1>3, <1>4, <2>1, <2>5
<1>7. CASE Resubscribe(g)
  <2> DEFINE yes  == TRUE
             base == [ng[g] EXCEPT !.sub = yes]
             np   == SetToread(g, base, FALSE)
  <2>1. ng' = [ng EXCEPT ![g] = np] /\ changed' = changed \cup {RcOf[g]}
    BY <1>7 DEF Resubscribe, Update
  <2>2. base = [ng[g] EXCEPT !.sub = yes] /\ yes \in BOOLEAN
    OBVIOUS
  <2> HIDE DEF base, yes
  <2>3. /\ base \in NgData /\ base.line = ng[g].line
        /\ base.abs1st = ng[g].abs1st /\ base.ngmax = ng[g].ngmax
    BY <1>1, <2>2, Remarked
  <2>4. Fits(base, High(g))
    BY <1>1, <2>3 DEF Fits
  <2>5. Keeps(g, ng[g].line, np)
    BY <1>1, <2>3, <2>4, SetToreadFits
  <2> HIDE DEF np
  <2> QED
    BY <1>0, <1>2, <1>3, <2>1, <2>5
<1>8. CASE EnterBogus(g)
  <2> DEFINE np == [ng[g] EXCEPT !.toread = TR_BOGUS]
  <2>1. ng' = [ng EXCEPT ![g] = np] /\ changed' = changed
    BY <1>8 DEF EnterBogus, Update
  <2>2. np = [ng[g] EXCEPT !.toread = TR_BOGUS]
    OBVIOUS
  <2> HIDE DEF np
  <2>3. np.line = ng[g].line /\ np.sub = ng[g].sub
    BY <1>1, <2>2, CountedLine
  <2> QED
    BY <1>0, <1>2, <1>3, <1>4, <2>1, <2>3
<1>9. CASE Enter(g)
  <2>1. /\ absfirst' \in 1 .. High(g) + 1 /\ High(g) \in Nat
        /\ \A n \in There(g) : absfirst' <= n
        /\ ng' = [ng EXCEPT ![g] = ng'[g]]
        /\ ng'[g].line = ng[g].line \/ ng'[g].line = CheckExpired(ng[g].line, absfirst')
    BY <1>9, EnterFacts
  <2>2. changed' = changed \cup {RcOf[g]}
    BY <1>9, Zenon DEF Enter, Update
  <2>3. Keeps(g, ng[g].line, ng'[g])
    <3>1. CASE ng'[g].line = ng[g].line
      BY <1>4, <3>1
    <3>2. CASE ng'[g].line = CheckExpired(ng[g].line, absfirst')
      <4>1. InOrder(ng[g].line, High(g)) /\ absfirst' \in 0 .. High(g) + 1
        BY <1>1, <2>1 DEF Fits
      <4>2. Read(ng'[g].line) = Read(ng[g].line) \cup 1 .. absfirst' - 1
        BY <2>1, <3>2, <4>1, ExpiredAreRead
      <4>3. There(g) \cap (1 .. absfirst' - 1) = {}
        BY <1>1, <2>1, FirstThere
      <4> QED
        BY <4>2, <4>3 DEF Keeps
    <3> QED
      BY <2>1, <3>1, <3>2
  <2> QED
    BY <1>0, <1>2, <1>3, <2>1, <2>2, <2>3
<1> QED
  BY <1>5, <1>6, <1>7, <1>8, <1>9

\* catch_up.
LEMMA CatchUpLines ==
  ASSUME GroupInv, NEW g \in Group, CatchUp(g)
  PROVE  /\ cur = NoGroup /\ cur' = NoGroup
         /\ WriteNewsrcs(ng', changed \cup {RcOf[g]})
         /\ \A x \in Group \ {g} : ng'[x] = ng[x]
         /\ Read(ng[g].line) \subseteq Read(ng'[g].line)
              \/ (ng'[g].line = << >> /\ ng'[g].abs1st # 0)
<1>0. cur = NoGroup /\ cur' = NoGroup
  BY DEF GroupInv, CatchUp, AtPrompt, OpenOK
<1>1. /\ arrived \in 0 .. Len(Posts) /\ Fits(ng[g], High(g)) /\ g \in carried
      /\ ng \in [Group -> NgData]
  BY DEF GroupInv, ServerOK, NgOK, CatchUp
<1>2. PICK leave_count \in IF ng[g].abs1st = 0 THEN {0} ELSE 0 .. 1 :
        /\ ng' = [ng EXCEPT ![g] = CaughtUp(g, ng[g], leave_count)]
        /\ WriteNewsrcs([ng EXCEPT ![g] = CaughtUp(g, ng[g], leave_count)],
                        changed \cup {RcOf[g]})
  BY Zenon DEF CatchUp
<1> DEFINE np == CaughtUp(g, ng[g], leave_count)
<1>3. Read(ng[g].line) \subseteq Read(np.line) \/ (np.line = << >> /\ np.abs1st # 0)
  <2>1. ng[g].toread # TR_BOGUS
    BY DEF CatchUp, TR_NONE, TR_BOGUS
  <2>2. leave_count \in 0 .. 1
    BY <1>2
  <2> DEFINE old == ng[g]
  <2>3. arrived \in 0 .. Len(Posts) /\ g \in carried /\ Fits(old, High(g)) /\ old.toread # TR_BOGUS
    BY <1>1, <2>1
  <2>4. np = CaughtUp(g, old, leave_count)
    OBVIOUS
  <2> HIDE DEF np, old
  <2>5. Read(old.line) \subseteq Read(np.line) \/ (np.line = << >> /\ np.abs1st # 0)
    BY <2>2, <2>3, <2>4, CaughtUpFits
  <2> QED
    BY <2>5 DEF old
<1> HIDE DEF np
<1>4. ng' = [ng EXCEPT ![g] = np] /\ WriteNewsrcs(ng', changed \cup {RcOf[g]})
  BY <1>2 DEF np
<1> QED
  BY <1>0, <1>1, <1>3, <1>4

\* chase_xrefs: the lines of other groups gain, if they do not get wiped; and
\* set_toread wipes and trims them as it does elsewhere.
LEMMA ChaseLines ==
  ASSUME GroupInv, ChaseArticle
  PROVE  /\ cur # NoGroup /\ cur' = cur /\ file' = file /\ changed \subseteq changed'
         /\ ng'[cur].line = ng[cur].line
         /\ \A x \in Group \ {cur} :
              \/ ng'[x] = ng[x]
              \/ x \in DOMAIN Xrefs(cur, Min(kchase)) /\ Min(kchase) \in 1 .. High(cur)
         /\ \A x \in Group \ {cur} :
              \/ Read(ng[x].line) \subseteq Read(ng'[x].line)
              \/ Trimmed(x, ng[x]).line = << >>
<1> DEFINE n == Min(kchase)
<1>1. /\ cur # NoGroup /\ n \in 1 .. lastart
      /\ DOMAIN Xrefs(cur, n) \in SUBSET (Group \ {cur})
      /\ \A h \in DOMAIN Xrefs(cur, n) :
           /\ Xrefs(cur, n)[h] \in 1 .. High(h)
           /\ ng'[h] = AddArtnum(h, ng[h], Xrefs(cur, n)[h])
      /\ \A x \in Group \ {cur} : x \notin DOMAIN Xrefs(cur, n) => ng'[x] = ng[x]
      /\ ng'[cur].line = ng[cur].line
  BY ChaseFacts
<1>2. cur' = cur /\ file' = file /\ changed \subseteq changed'
  BY DEF ChaseArticle
<1>3. n \in 1 .. High(cur)
  BY <1>1, InGroup
<1>4. ASSUME NEW x \in Group \ {cur}
      PROVE  Read(ng[x].line) \subseteq Read(ng'[x].line) \/ Trimmed(x, ng[x]).line = << >>
  <2>1. CASE x \notin DOMAIN Xrefs(cur, n)
    BY <1>1, <2>1
  <2>2. CASE x \in DOMAIN Xrefs(cur, n)
    <3> DEFINE artnum  == Xrefs(cur, n)[x]
               trimmed == Trimmed(x, ng[x])
    <3>1. artnum \in 1 .. High(x) /\ ng'[x] = AddArtnum(x, ng[x], artnum)
      BY <1>1, <2>2
    <3>2. /\ arrived \in 0 .. Len(Posts) /\ Fits(ng[x], High(x))
          /\ ng[x].toread = TR_BOGUS => x \notin carried
      BY DEF GroupInv, ServerOK, NgOK
    <3>3. Read(trimmed.line) \subseteq Read(ng'[x].line)
      BY <3>1, <3>2, AddArtnumFits
    <3>4. Keeps(x, ng[x].line, trimmed)
      BY <3>2, TrimmedFits
    <3> QED
      BY <3>3, <3>4 DEF Keeps
  <2> QED
    BY <2>1, <2>2
<1> QED
  BY <1>1, <1>2, <1>3, <1>4

(* Lines that have changed are written.                                     *)

\* No article is posted to groups of different newsrcs.
LocalXrefs == \A i \in DOMAIN Posts : \A x, y \in Posts[i] : RcOf[x] = RcOf[y]

\* A line that differs from the one on disk is flagged, or the newsrc is that of
\* the open group, which bits_to_rc and write_newsrcs will write.
FlagsOK ==
  \A x \in Group :
    \/ RcOf[x] \in changed
    \/ cur # NoGroup /\ RcOf[x] = RcOf[cur]
    \/ file[x] = Saved(ng[x])

\* Writing the flagged newsrcs makes the file what memory is.
LEMMA AllWritten ==
  ASSUME NEW data, NEW flagged, WriteNewsrcs(data, flagged),
         \A x \in Group : RcOf[x] \in flagged \/ file[x] = Saved(data[x])
  PROVE  \A x \in Group : file'[x] = Saved(data[x])
<1>1. file' = [x \in Group |-> IF RcOf[x] \in flagged THEN Saved(data[x]) ELSE file[x]]
  BY DEF WriteNewsrcs
<1> QED
  BY <1>1

\* And starting anew makes memory what the file is.
LEMMA AllRead ==
  ASSUME FileOK', Restart(file')
  PROVE  /\ cur' = NoGroup
         /\ \A x \in Group : file'[x] = Saved(ng'[x]) /\ ng'[x].line = file'[x].line
<1>1. ng' = [x \in Group |-> [line |-> file'[x].line, sub |-> file'[x].sub,
                              toread |-> IF file'[x].sub THEN TR_NONE ELSE TR_UNSUB,
                              abs1st |-> 0, ngmax |-> 0]]
  BY DEF Restart
<1>2. ASSUME NEW x \in Group
      PROVE  file'[x] = Saved(ng'[x]) /\ ng'[x].line = file'[x].line
  <2>1. file'[x] = [line |-> file'[x].line, sub |-> file'[x].sub]
    BY DEF FileOK, FileData
  <2>2. ng'[x].line = file'[x].line /\ ng'[x].sub = file'[x].sub
    BY <1>1
  <2> QED
    BY <2>1, <2>2 DEF Saved
<1>3. cur' = NoGroup
  BY DEF Restart
<1> QED
  BY <1>2, <1>3

\* The groups that an article is chased to are in the newsrc of the open one.
LEMMA XrefsAreLocal ==
  ASSUME LocalXrefs, GroupInv, cur # NoGroup, NEW n \in 1 .. High(cur),
         NEW x \in DOMAIN Xrefs(cur, n)
  PROVE  RcOf[x] = RcOf[cur]
<1> DEFINE i == PostOf(cur, n)
<1>1. arrived \in 0 .. Len(Posts) /\ n \in 1 .. Number(cur, arrived)
  BY InGroup DEF High
<1>2. i \in 1 .. arrived /\ cur \in Posts[i]
  BY <1>1, PostOfNumber
<1>3. i \in DOMAIN Posts
  BY <1>1, <1>2, GroupAssumption
<1>4. DOMAIN Xrefs(cur, n) = Posts[i] \ {cur}
  BY DEF Xrefs
<1> HIDE DEF i
<1> QED
  BY <1>2, <1>3, <1>4 DEF LocalXrefs

\* What is left of the lines when trn ends: what it had, and of the open group
\* what bits_to_rc makes of it.
LEMMA QuitLines ==
  ASSUME GroupInv, FlagsOK, FileOK', Quit
  PROVE  /\ cur = NoGroup /\ cur' = NoGroup
         /\ \A x \in Group : file'[x] = Saved(ng'[x]) /\ ng'[x].line = ng[x].line
<1>1. cur = NoGroup
  BY DEF GroupInv, AtPrompt, OpenOK, Quit
<1>2. \A x \in Group : file'[x] = Saved(ng[x])
  BY <1>1, AllWritten DEF Quit, FlagsOK
<1>3. \A x \in Group : Saved(ng[x]).line = ng[x].line
  BY DEF Saved
<1> QED
  BY <1>1, <1>2, <1>3, AllRead DEF Quit

LEMMA HangupLines ==
  ASSUME GroupInv, FlagsOK, FileOK', Hangup
  PROVE  /\ cur # NoGroup /\ cur' = NoGroup
         /\ \A x \in Group : file'[x] = Saved(ng'[x])
         /\ \A x \in Group \ {cur} : ng'[x].line = ng[x].line
         /\ Read(ng'[cur].line) = (1 .. lastart) \ (unread \cup yank)
<1> DEFINE N    == unread \cup yank
           data == BitsToRc(N)
           all  == changed \cup {RcOf[cur]}
<1>1. cur # NoGroup /\ Restart(file') /\ WriteNewsrcs(data, all)
  BY DEF Hangup
<1>2. N \subseteq absfirst .. lastart /\ cur \in Group
  BY <1>1, InGroup
<1> HIDE DEF N
<1>3. /\ \A x \in Group \ {cur} : data[x] = ng[x]
      /\ Read(data[cur].line) = (1 .. lastart) \ N
  BY <1>1, <1>2, RcBits
<1> HIDE DEF data
<1>4. \A x \in Group : RcOf[x] \in all \/ file[x] = Saved(data[x])
  BY <1>1, <1>3 DEF FlagsOK
<1> HIDE DEF all
<1>5. \A x \in Group : file'[x] = Saved(data[x])
  BY <1>1, <1>4, AllWritten
<1>6. \A x \in Group : Saved(data[x]).line = data[x].line
  BY DEF Saved
<1>7. /\ cur' = NoGroup
      /\ \A x \in Group : file'[x] = Saved(ng'[x]) /\ ng'[x].line = file'[x].line
  BY <1>1, AllRead
<1>8. \A x \in Group : ng'[x].line = data[x].line
  BY <1>5, <1>6, <1>7
<1> QED
  BY <1>1, <1>2, <1>3, <1>7, <1>8 DEF N

\* A checkpoint, and the way out of the group.
LEMMA RcBitsLines ==
  ASSUME GroupInv, Checkpoint \/ CloseGroup
  PROVE  /\ cur # NoGroup /\ cur \in Group
         /\ WriteNewsrcs(ng', changed \cup {RcOf[cur]})
         /\ \A x \in Group \ {cur} : ng'[x] = ng[x]
         /\ Checkpoint => Read(ng'[cur].line) = (1 .. lastart) \ unread
         /\ CloseGroup => Read(ng'[cur].line) = (1 .. lastart) \ (unread \cup yank)
<1>1. cur # NoGroup
  BY DEF GroupInv, ClosedOK, Reading, Checkpoint, CloseGroup
<1>2. cur \in Group /\ WriteNewsrcs(ng', changed \cup {RcOf[cur]})
  BY <1>1, InGroup DEF Checkpoint, CloseGroup
<1>3. ASSUME NEW N, N \subseteq absfirst .. lastart, ng' = BitsToRc(N)
      PROVE  /\ Read(ng'[cur].line) = (1 .. lastart) \ N
             /\ \A x \in Group \ {cur} : ng'[x] = ng[x]
  <2> DEFINE data == BitsToRc(N)
  <2>1. Read(data[cur].line) = (1 .. lastart) \ N
    BY <1>1, <1>3, RcBits
  <2>2. \A x \in Group \ {cur} : data[x] = ng[x]
    BY <1>1, <1>3, RcBits
  <2>3. ng' = data
    BY <1>3
  <2> HIDE DEF data
  <2> QED
    BY <2>1, <2>2, <2>3
<1>4. unread \subseteq absfirst .. lastart /\ unread \cup yank \subseteq absfirst .. lastart
  BY <1>1, InGroup
<1>5. CASE Checkpoint
  <2>1. ng' = BitsToRc(unread) /\ ~CloseGroup
    BY <1>5 DEF Checkpoint, CloseGroup, Reading
  <2>2. /\ Read(ng'[cur].line) = (1 .. lastart) \ unread
        /\ \A x \in Group \ {cur} : ng'[x] = ng[x]
    BY <1>3, <1>4, <2>1
  <2> QED
    BY <1>1, <1>2, <2>1, <2>2
<1>6. CASE CloseGroup
  <2>1. ng' = BitsToRc(unread \cup yank) /\ ~Checkpoint
    BY <1>6 DEF Checkpoint, CloseGroup, Reading
  <2>2. /\ Read(ng'[cur].line) = (1 .. lastart) \ (unread \cup yank)
        /\ \A x \in Group \ {cur} : ng'[x] = ng[x]
    BY <1>3, <1>4, <2>1
  <2> QED
    BY <1>1, <1>2, <2>1, <2>2
<1> QED
  BY <1>5, <1>6

LEMMA FlagsStep ==
  ASSUME LocalXrefs, GroupInv, FlagsOK, FileOK', Next
  PROVE  FlagsOK'
<1>1. CASE ServerNext
  BY <1>1 DEF FlagsOK, ServerNext, Arrive, Expire, Remove, newsrc
<1>2. CASE Quit
  BY <1>2, QuitLines DEF FlagsOK
<1>3. ASSUME NEW g \in Group,
             Recount(g) \/ Unsubscribe(g) \/ Resubscribe(g) \/ EnterBogus(g) \/ Enter(g)
      PROVE  FlagsOK'
  <2>1. /\ cur = NoGroup /\ file' = file /\ changed \subseteq changed'
        /\ \A x \in Group \ {g} : ng'[x] = ng[x]
        /\ RcOf[g] \in changed'
             \/ (ng'[g].line = ng[g].line /\ ng'[g].sub = ng[g].sub)
    BY <1>3, PromptLines
  <2>2. \A x \in Group : RcOf[x] \in changed' \/ Saved(ng'[x]) = Saved(ng[x])
    BY <2>1 DEF Saved
  <2> QED
    BY <2>1, <2>2 DEF FlagsOK
<1>4. ASSUME NEW g \in Group, CatchUp(g) PROVE FlagsOK'
  <2> DEFINE all == changed \cup {RcOf[g]}
  <2>1. /\ cur = NoGroup /\ WriteNewsrcs(ng', all)
        /\ \A x \in Group \ {g} : ng'[x] = ng[x]
    BY <1>4, CatchUpLines
  <2>2. \A x \in Group : RcOf[x] \in all \/ file[x] = Saved(ng'[x])
    BY <2>1 DEF FlagsOK
  <2> HIDE DEF all
  <2>3. \A x \in Group : file'[x] = Saved(ng'[x])
    BY <2>1, <2>2, AllWritten
  <2> QED
    BY <2>3 DEF FlagsOK
<1>5. CASE \/ MarkAsRead \/ ReturnLater \/ WillReturn \/ UnmarkAsRead \/ Yankback
           \/ SkipMissing \/ CatchUpHere \/ EndOfGroup
           \/ ChaseInBackground \/ KeyPressed \/ Leave
  <2>1. /\ cur # NoGroup /\ cur' = cur /\ file' = file /\ changed \subseteq changed'
        /\ \A x \in Group \ {cur} : ng'[x] = ng[x]
    BY <1>5, OpenLines
  <2> QED
    BY <2>1 DEF FlagsOK
<1>6. CASE Checkpoint \/ CloseGroup
  <2> DEFINE all == changed \cup {RcOf[cur]}
  <2>1. /\ cur # NoGroup /\ WriteNewsrcs(ng', all)
        /\ \A x \in Group \ {cur} : ng'[x] = ng[x]
    BY <1>6, RcBitsLines
  <2>2. \A x \in Group : RcOf[x] \in all \/ file[x] = Saved(ng'[x])
    BY <2>1 DEF FlagsOK
  <2> HIDE DEF all
  <2>3. \A x \in Group : file'[x] = Saved(ng'[x])
    BY <2>1, <2>2, AllWritten
  <2> QED
    BY <2>3 DEF FlagsOK
<1>7. CASE ChaseArticle
  <2>1. /\ cur # NoGroup /\ cur' = cur /\ file' = file /\ changed \subseteq changed'
        /\ \A x \in Group \ {cur} :
             \/ ng'[x] = ng[x]
             \/ x \in DOMAIN Xrefs(cur, Min(kchase)) /\ Min(kchase) \in 1 .. High(cur)
    BY <1>7, ChaseLines
  <2>2. \A x \in Group \ {cur} : ng'[x] = ng[x] \/ RcOf[x] = RcOf[cur]
    BY <2>1, XrefsAreLocal
  <2> QED
    BY <2>1, <2>2 DEF FlagsOK
<1>8. CASE Hangup
  BY <1>8, HangupLines DEF FlagsOK
<1> QED
  BY <1>1, <1>2, <1>3, <1>4, <1>5, <1>6, <1>7, <1>8 DEF Next, PromptNext, GroupNext

LEMMA FlagsInv ==
  ASSUME LocalXrefs
  PROVE  Spec => []FlagsOK
<1>1. Init => FlagsOK
  <2> SUFFICES ASSUME Init PROVE FlagsOK
    OBVIOUS
  <2> DEFINE yes == TRUE
             new == [line |-> << >>, sub |-> yes, toread |-> TR_NONE, abs1st |-> 0, ngmax |-> 0]
  <2>1. /\ file = [g \in Group |-> [line |-> << >>, sub |-> yes]]
        /\ ng = [g \in Group |-> new]
    BY DEF Init
  <2>2. Saved(new) = [line |-> << >>, sub |-> yes]
    BY DEF Saved
  <2> HIDE DEF yes, new
  <2> QED
    BY <2>1, <2>2 DEF FlagsOK
<1>2. LocalXrefs /\ GroupInv /\ GroupInv' /\ FlagsOK /\ [Next]_vars => FlagsOK'
  <2>1. ASSUME FlagsOK, UNCHANGED vars PROVE FlagsOK'
    BY <2>1 DEF FlagsOK, vars, newsrc
  <2> QED
    BY <2>1, FlagsStep DEF GroupInv
<1> QED
  BY <1>1, <1>2, GroupInvariant, PTL DEF Spec

\* When no group is open, a line that differs from the one on disk is flagged,
\* so that write_newsrcs does not pass it over, if articles are only crossposted
\* within a newsrc: addartnum, which sets no flag, then marks lines of the
\* newsrc that the open group is in.
THEOREM ChangesGetWritten ==
  ASSUME LocalXrefs
  PROVE  Spec => []ChangesAreFlagged
<1>1. GroupInv /\ FlagsOK => ChangesAreFlagged
  BY DEF FlagsOK, ChangesAreFlagged
<1> QED
  BY <1>1, FlagsInv, GroupInvariant, PTL

(* Marks are neither lost nor made up.                                      *)

LosesOnlyReturned(g) ==
  \/ Read(ng[g].line) \ Read(ng'[g].line)
       \subseteq IF g = cur THEN returned \cup yank ELSE {}
  \/ ng'[g].line = <<>> /\ ng'[g].abs1st # 0
  \/ Trimmed(g, ng[g]).line = <<>>

GainsOnlyRead(g) ==
  \/ CatchUp(g) \/ ChaseArticle
  \/ (Read(ng'[g].line) \ Read(ng[g].line)) \cap There(g)
       \subseteq IF g = cur THEN exists \ unread ELSE {}

\* bits_to_rc only takes from a line what the user has returned, and only puts
\* on it what was read in the open group.
LEMMA RcBitsMarks ==
  ASSUME GroupInv, cur # NoGroup, NEW N, N = unread \/ N = unread \cup yank,
         Read(ng'[cur].line) = (1 .. lastart) \ N
  PROVE  /\ Read(ng[cur].line) \ Read(ng'[cur].line) \subseteq returned \cup yank
         /\ (Read(ng'[cur].line) \ Read(ng[cur].line)) \cap There(cur)
              \subseteq exists \ unread
<1>1. /\ Read(ng[cur].line) \subseteq 1 .. lastart
      /\ unread \cap Read(ng[cur].line) \subseteq returned
      /\ \A n \in There(cur) : n <= lastart => n \in exists
      /\ lastart \in Nat
  BY InGroup
<1> QED
  BY <1>1

LEMMA MarksStep ==
  ASSUME GroupInv, FlagsOK, FileOK', Next, NEW g \in Group
  PROVE  LosesOnlyReturned(g) /\ GainsOnlyRead(g)
<1>1. ASSUME ng'[g].line = ng[g].line PROVE LosesOnlyReturned(g) /\ GainsOnlyRead(g)
  BY <1>1 DEF LosesOnlyReturned, GainsOnlyRead
<1>2. CASE ServerNext
  BY <1>1, <1>2 DEF ServerNext, Arrive, Expire, Remove, newsrc
<1>3. CASE Quit
  BY <1>1, <1>3, QuitLines
<1>4. ASSUME NEW h \in Group,
             Recount(h) \/ Unsubscribe(h) \/ Resubscribe(h) \/ EnterBogus(h) \/ Enter(h)
      PROVE  LosesOnlyReturned(g) /\ GainsOnlyRead(g)
  <2>1. Keeps(h, ng[h].line, ng'[h]) /\ \A x \in Group \ {h} : ng'[x] = ng[x]
    BY <1>4, PromptLines
  <2>2. CASE g = h
    BY <2>1, <2>2 DEF Keeps, LosesOnlyReturned, GainsOnlyRead
  <2> QED
    BY <1>1, <2>1, <2>2
<1>5. ASSUME NEW h \in Group, CatchUp(h) PROVE LosesOnlyReturned(g) /\ GainsOnlyRead(g)
  <2>1. /\ \A x \in Group \ {h} : ng'[x] = ng[x]
        /\ Read(ng[h].line) \subseteq Read(ng'[h].line)
             \/ (ng'[h].line = << >> /\ ng'[h].abs1st # 0)
    BY <1>5, CatchUpLines
  <2>2. CASE g = h
    BY <1>5, <2>1, <2>2 DEF LosesOnlyReturned, GainsOnlyRead
  <2> QED
    BY <1>1, <2>1, <2>2
<1>6. CASE \/ MarkAsRead \/ ReturnLater \/ WillReturn \/ UnmarkAsRead \/ Yankback
           \/ SkipMissing \/ CatchUpHere \/ EndOfGroup
           \/ ChaseInBackground \/ KeyPressed \/ Leave
  <2>1. ng'[cur].line = ng[cur].line /\ \A x \in Group \ {cur} : ng'[x] = ng[x]
    BY <1>6, OpenLines
  <2> QED
    BY <1>1, <2>1
<1>7. ASSUME cur # NoGroup, NEW N, N = unread \/ N = unread \cup yank,
             Read(ng'[cur].line) = (1 .. lastart) \ N,
             \A x \in Group \ {cur} : ng'[x].line = ng[x].line
      PROVE  LosesOnlyReturned(g) /\ GainsOnlyRead(g)
  <2>1. CASE g = cur
    BY <1>7, <2>1, RcBitsMarks DEF LosesOnlyReturned, GainsOnlyRead
  <2> QED
    BY <1>1, <1>7, <2>1
<1>8. CASE Checkpoint
  <2>1. /\ cur # NoGroup /\ Read(ng'[cur].line) = (1 .. lastart) \ unread
        /\ \A x \in Group \ {cur} : ng'[x] = ng[x]
    BY <1>8, RcBitsLines
  <2> QED
    BY <1>7, <2>1
<1>9. CASE CloseGroup
  <2>1. /\ cur # NoGroup
        /\ Read(ng'[cur].line) = (1 .. lastart) \ (unread \cup yank)
        /\ \A x \in Group \ {cur} : ng'[x] = ng[x]
    BY <1>9, RcBitsLines
  <2> QED
    BY <1>7, <2>1
<1>10. CASE Hangup
  <2> DEFINE N == unread \cup yank
  <2>1. N = unread \cup yank
    OBVIOUS
  <2>2. /\ cur # NoGroup /\ Read(ng'[cur].line) = (1 .. lastart) \ N
        /\ \A x \in Group \ {cur} : ng'[x].line = ng[x].line
    BY <1>10, HangupLines
  <2> HIDE DEF N
  <2> QED
    BY <1>7, <2>1, <2>2
<1>11. CASE ChaseArticle
  <2>1. GainsOnlyRead(g)
    BY <1>11 DEF GainsOnlyRead
  <2>2. /\ ng'[cur].line = ng[cur].line
        /\ g # cur => Read(ng[g].line) \subseteq Read(ng'[g].line)
                        \/ Trimmed(g, ng[g]).line = << >>
    BY <1>11, ChaseLines
  <2> QED
    BY <1>1, <2>1, <2>2 DEF LosesOnlyReturned
<1> QED
  BY <1>2, <1>3, <1>4, <1>5, <1>6, <1>8, <1>9, <1>10, <1>11
     DEF Next, PromptNext, GroupNext

\* What is read stays read, unless the user returns it or set_toread wipes the
\* line; and what a line gains, other than by catch_up and cross references, has
\* expired or was read in the open group: however lines are trimmed, counted,
\* written and read again.
THEOREM OnlyMarksCounted ==
  ASSUME LocalXrefs
  PROVE  Spec => OnlyMarksCount
<1> DEFINE Loses == \A g \in Group : LosesOnlyReturned(g)
           Gains == \A g \in Group : GainsOnlyRead(g)
<1>1. GroupInv /\ GroupInv' /\ FlagsOK /\ [Next]_vars => [Loses]_vars /\ [Gains]_vars
  BY MarksStep DEF GroupInv
<1>2. Spec => [][Loses]_vars
  BY <1>1, FlagsInv, GroupInvariant, PTL DEF Spec
<1>3. Spec => [][Gains]_vars
  BY <1>1, FlagsInv, GroupInvariant, PTL DEF Spec
<1> QED
  BY <1>2, <1>3 DEF OnlyMarksCount, ReadOnlyGrows, NothingSkipped,
                    LosesOnlyReturned, GainsOnlyRead

(* What the user returns stays unread.                                      *)

\* Only articles that other groups have too are to be chased, and what the user
\* has returned is unread, unless it has been chased.
ReturnedOK ==
  /\ \A n \in kchase : cached_ng # NoGroup /\ Crossposted(cached_ng, n)
  /\ cur = NoGroup => returned = {}
  /\ cur # NoGroup => \A n \in returned : n \in unread \/ Crossposted(cur, n)

LEMMA ReturnedStep ==
  ASSUME GroupInv, ReturnedOK, Next
  PROVE  ReturnedOK'
<1>1. cur # NoGroup => cached_ng = cur
  BY DEF GroupInv, OpenOK
<1>2. AtPrompt => cur = NoGroup
  BY DEF AtPrompt, GroupInv, OpenOK
<1>3. Reading => cur # NoGroup
  BY DEF Reading, GroupInv, ClosedOK
<1>4. CASE Quit \/ Hangup
  BY <1>4 DEF Quit, Hangup, Restart, ReturnedOK
<1>5. ASSUME NEW g \in Group, Enter(g) PROVE ReturnedOK'
  <2>1. cur = NoGroup /\ cur' = g /\ cached_ng' = g /\ g # NoGroup
    BY <1>2, <1>5, GroupAssumption DEF Enter
  <2>2. returned' = {}
    BY <1>5, <2>1 DEF Enter, marks, ReturnedOK
  <2>3. kchase' = {} \/ (kchase' = kchase /\ cached_ng = g)
    BY <1>5, Zenon DEF Enter
  <2> QED
    BY <2>1, <2>2, <2>3 DEF ReturnedOK
<1>6. ASSUME cur' = cur, cached_ng' = cached_ng, kchase' = kchase,
             returned' = returned, unread \subseteq unread'
      PROVE  ReturnedOK'
  BY <1>6 DEF ReturnedOK
<1>7. CASE ServerNext
  BY <1>6, <1>7 DEF ServerNext, Arrive, Expire, Remove, bits, chase, marks
<1>8. ASSUME NEW g \in Group,
             Recount(g) \/ CatchUp(g) \/ Unsubscribe(g) \/ Resubscribe(g) \/ EnterBogus(g)
      PROVE  ReturnedOK'
  BY <1>6, <1>8 DEF Recount, CatchUp, Unsubscribe, Resubscribe, EnterBogus, bits, chase, marks
<1>9. ASSUME NEW n, SetRead(n), cur # NoGroup, cur' = cur, cached_ng' = cached_ng
      PROVE  ReturnedOK'
  <2>1. unread' = unread \ {n} /\ returned' = returned \ {n}
    BY <1>9 DEF SetRead
  <2>2. kchase' = kchase \cup (IF Crossposted(cur, n) THEN {n} \ kchase ELSE {})
    BY <1>9, Zenon DEF SetRead
  <2> QED
    BY <1>1, <1>9, <2>1, <2>2 DEF ReturnedOK
<1>10. CASE MarkAsRead
  BY <1>3, <1>9, <1>10 DEF MarkAsRead
<1>11. CASE ReturnLater
  BY <1>3, <1>9, <1>11 DEF ReturnLater
<1>12. CASE WillReturn \/ SkipMissing
  <2>1. PICK n : unread' = unread \ {n} /\ returned' = returned \ {n}
    BY <1>12 DEF WillReturn, SkipMissing
  <2>2. cur' = cur /\ cached_ng' = cached_ng /\ kchase' = kchase
    BY <1>12 DEF WillReturn, SkipMissing, chase
  <2> QED
    BY <2>1, <2>2 DEF ReturnedOK
<1>13. CASE UnmarkAsRead
  <2>1. PICK n : unread' = unread \cup {n} /\ returned' = returned \cup {n}
    BY <1>13 DEF UnmarkAsRead
  <2>2. cur' = cur /\ cached_ng' = cached_ng /\ kchase' = kchase /\ cur # NoGroup
    BY <1>3, <1>13 DEF UnmarkAsRead, chase
  <2> QED
    BY <2>1, <2>2 DEF ReturnedOK
<1>14. CASE Yankback
  BY <1>3, <1>14 DEF Yankback, chase, ReturnedOK
<1>15. CASE CatchUpHere
  <2>1. PICK left : \/ unread' = left /\ returned' = returned \cap left
                    \/ unread' = yank /\ returned' = yank
    BY <1>15, Zenon DEF CatchUpHere
  <2>2. cur' = cur /\ cached_ng' = cached_ng /\ kchase' = kchase /\ cur # NoGroup
    BY <1>3, <1>15 DEF CatchUpHere, chase
  <2> QED
    BY <2>1, <2>2 DEF ReturnedOK
<1>16. CASE EndOfGroup
  <2>1. unread \subseteq unread'
    <3>1. \E grown : unread' = unread \cup grown
      BY <1>16, Zenon DEF EndOfGroup
    <3> QED
      BY <3>1
  <2> QED
    BY <1>6, <1>16, <2>1 DEF EndOfGroup, chase, marks
<1>17. CASE Checkpoint \/ ChaseInBackground \/ KeyPressed \/ Leave
  BY <1>6, <1>17 DEF Checkpoint, ChaseInBackground, KeyPressed, Leave, bits, chase, marks
<1>18. CASE ChaseArticle
  <2> DEFINE n == Min(kchase)
  <2>1. /\ cur # NoGroup /\ n \in kchase /\ kchase' = kchase \ {n}
        /\ unread' = unread \ {n} \/ unread' = unread
    BY <1>18, ChaseFacts
  <2>2. cur' = cur /\ cached_ng' = cached_ng /\ returned' = returned
    BY <1>18 DEF ChaseArticle, marks
  <2> HIDE DEF n
  <2>3. Crossposted(cur, n)
    BY <1>1, <2>1 DEF ReturnedOK
  <2> QED
    BY <2>1, <2>2, <2>3 DEF ReturnedOK
<1>19. CASE CloseGroup
  BY <1>19 DEF CloseGroup, chase, ReturnedOK
<1> QED
  BY <1>4, <1>5, <1>7, <1>8, <1>10, <1>11, <1>12, <1>13, <1>14, <1>15, <1>16,
     <1>17, <1>18, <1>19 DEF Next, PromptNext, GroupNext

\* What the user has marked as still unread, or to return, and not read again
\* since, is unread when the group has been left, if no other group has it.
THEOREM ReturnedStayUnread == Spec => ReturnedStay
<1> DEFINE Stay == CloseGroup => \A n \in returned \cup yank :
                     n \notin Read(ng'[cur].line) \/ Crossposted(cur, n)
<1>1. Init => ReturnedOK
  BY DEF Init, ReturnedOK
<1>2. GroupInv /\ ReturnedOK /\ [Next]_vars => ReturnedOK'
  <2>1. ASSUME ReturnedOK, UNCHANGED vars PROVE ReturnedOK'
    BY <2>1 DEF ReturnedOK, vars, bits, chase, marks
  <2> QED
    BY <2>1, ReturnedStep
<1>3. ASSUME GroupInv, ReturnedOK PROVE Stay
  <2> SUFFICES ASSUME CloseGroup, NEW n \in returned \cup yank, ~Crossposted(cur, n)
               PROVE  n \notin Read(ng'[cur].line)
    OBVIOUS
  <2>1. /\ cur # NoGroup
        /\ Read(ng'[cur].line) = (1 .. lastart) \ (unread \cup yank)
    BY <1>3, RcBitsLines
  <2> QED
    BY <1>3, <2>1 DEF ReturnedOK
<1> QED
  BY <1>1, <1>2, <1>3, GroupInvariant, PTL DEF Spec, ReturnedStay

=============================================================================
