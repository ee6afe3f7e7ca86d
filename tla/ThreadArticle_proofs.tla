------------------------ MODULE ThreadArticle_proofs ------------------------
(***************************************************************************)
(* What thread_article leaves, whatever threads it gets and whatever       *)
(* references: every article that has a subject stands in one list of      *)
(* siblings, below its parent or at the top of the thread of its subject,  *)
(* the subjects of a thread are one ring, no article is its own ancestor,  *)
(* and nobody has got another parent but the article that is threaded      *)
(* (ThreadArticleWhole).                                                   *)
(*                                                                         *)
(* The way there: the sequences and rings the model is built from; what    *)
(* link_child, unlink_child and merge_threads leave; the ancestors of an   *)
(* article; what holds between two references; the thread the article      *)
(* joins.  The functions of the model are lemmas about the state that they *)
(* return: x is the state before, y or z the one after.                    *)
(***************************************************************************)
EXTENDS Threading, NatFacts

-----------------------------------------------------------------------------
(* Sequences                                                               *)

\* Max finds the greatest of a set of numbers with a bound.
LEMMA MaxOfNat ==
  ASSUME NEW n \in Nat, NEW S \in SUBSET (1 .. n), S # {}
  PROVE  Max(S) \in S /\ \A y \in S : y <= Max(S)
<1>1. S \in SUBSET (0 .. n)
  OBVIOUS
<1>2. PICK x \in S : \A y \in S : y <= x
  BY <1>1, GreatestNat
<1>3. Max(S) \in S /\ \A y \in S : Max(S) >= y
  BY <1>2, Zenon, \A a, b \in Int : (a <= b) = (b >= a) DEF Max
<1> QED
  BY <1>3

\* Only the empty sequence has no element.
LEMMA EmptyRange ==
  ASSUME NEW D, NEW lst \in Seq(D)
  PROVE  Range(lst) = {} <=> lst = <<>>
<1>1. DOMAIN lst = 1 .. Len(lst) /\ Len(lst) \in Nat
  OBVIOUS
<1>2. lst # <<>> => 1 \in DOMAIN lst
  BY <1>1
<1>3. lst = <<>> => DOMAIN lst = {}
  OBVIOUS
<1> QED
  BY <1>2, <1>3 DEF Range

\* What is inserted at place k is there, and what was from k on is one further.
LEMMA InsertAtFacts ==
  ASSUME NEW D, NEW lst \in Seq(D), NEW e \in D, NEW k \in 1 .. Len(lst) + 1
  PROVE  /\ InsertAt(lst, k, e) \in Seq(D)
         /\ Len(InsertAt(lst, k, e)) = Len(lst) + 1
         /\ \A i \in 1 .. Len(lst) + 1 :
               InsertAt(lst, k, e)[i] = IF i < k THEN lst[i]
                                        ELSE IF i = k THEN e ELSE lst[i - 1]
         /\ Range(InsertAt(lst, k, e)) = Range(lst) \cup {e}
         /\ IsInjective(lst) /\ e \notin Range(lst)
               => IsInjective(InsertAt(lst, k, e))
<1> DEFINE new == InsertAt(lst, k, e)
           left == SubSeq(lst, 1, k - 1)
           right == SubSeq(lst, k, Len(lst))
<1>1. /\ left \in Seq(D) /\ Len(left) = k - 1
      /\ \A i \in 1 .. k - 1 : left[i] = lst[i]
  OBVIOUS
<1>2. /\ right \in Seq(D) /\ Len(right) = Len(lst) + 1 - k
      /\ \A i \in 1 .. Len(lst) + 1 - k : right[i] = lst[k - 1 + i]
  OBVIOUS
<1>3. new = (left \o <<e>>) \o right
  BY DEF InsertAt
<1> HIDE DEF left, right
<1>4. /\ left \o <<e>> \in Seq(D) /\ Len(left \o <<e>>) = k
      /\ \A i \in 1 .. k : (left \o <<e>>)[i] = IF i < k THEN lst[i] ELSE e
  BY <1>1
<1>5. new \in Seq(D) /\ Len(new) = Len(lst) + 1
  <2>1. left \o <<e>> \in Seq(D) /\ right \in Seq(D)
    BY <1>2, <1>4
  <2>2. new \in Seq(D) /\ Len(new) = Len(left \o <<e>>) + Len(right)
    BY <1>3, <2>1
  <2>3. Len(left \o <<e>>) = k /\ Len(right) = Len(lst) + 1 - k
    BY <1>2, <1>4
  <2>4. k \in Int /\ Len(lst) \in Int
    OBVIOUS
  <2> HIDE DEF new
  <2> QED
    BY <2>2, <2>3, <2>4
<1>6. ASSUME NEW i \in 1 .. Len(lst) + 1
      PROVE  new[i] = IF i < k THEN lst[i] ELSE IF i = k THEN e ELSE lst[i - 1]
  <2>1. CASE i <= k
    BY <1>2, <1>3, <1>4, <2>1
  <2>2. CASE i > k
    <3>1. new[i] = right[i - k]
      BY <1>2, <1>3, <1>4, <2>2
    <3> QED
      BY <1>2, <2>2, <3>1
  <2> QED
    BY <2>1, <2>2
<1> HIDE DEF new
<1>7. DOMAIN new = 1 .. Len(lst) + 1 /\ DOMAIN lst = 1 .. Len(lst)
  BY <1>5
<1>8. Range(new) = Range(lst) \cup {e}
  <2>1. ASSUME NEW i \in DOMAIN new PROVE new[i] \in Range(lst) \cup {e}
    BY <1>6, <1>7 DEF Range
  <2>2. ASSUME NEW i \in DOMAIN lst PROVE lst[i] \in Range(new)
    <3>1. CASE i < k
      <4>1. new[i] = lst[i] /\ i \in DOMAIN new
        BY <1>6, <1>7, <3>1
      <4> QED
        BY <4>1 DEF Range
    <3>2. CASE i >= k
      <4>1. new[i + 1] = lst[i] /\ i + 1 \in DOMAIN new
        BY <1>6, <1>7, <3>2
      <4> QED
        BY <4>1, Zenon DEF Range
    <3> QED
      BY <1>7, <3>1, <3>2
  <2>3. e \in Range(new)
    <3>1. new[k] = e /\ k \in DOMAIN new
      BY <1>6, <1>7
    <3> QED
      BY <3>1 DEF Range
  <2> QED
    BY <2>1, <2>2, <2>3 DEF Range
<1>9. ASSUME IsInjective(lst), e \notin Range(lst)
      PROVE  IsInjective(new)
  <2>1. \A i, j \in 1 .. Len(lst) : lst[i] = lst[j] => i = j
    BY <1>7, <1>9 DEF IsInjective
  <2>2. \A i \in 1 .. Len(lst) : lst[i] # e
    BY <1>7, <1>9 DEF Range
  <2>3. ASSUME NEW i \in 1 .. Len(lst) + 1, NEW j \in 1 .. Len(lst) + 1,
               new[i] = new[j]
        PROVE  i = j
    BY <1>6, <2>1, <2>2, <2>3
  <2> QED
    BY <1>7, <2>3 DEF IsInjective
<1> QED
  BY <1>5, <1>6, <1>8, <1>9 DEF new

\* What is removed is gone, and the rest keeps its order.
LEMMA RemoveFirstFacts ==
  ASSUME NEW D, NEW lst \in Seq(D), NEW e, IsInjective(lst)
  PROVE  /\ RemoveFirst(lst, e) \in Seq(D)
         /\ IsInjective(RemoveFirst(lst, e))
         /\ Range(RemoveFirst(lst, e)) = Range(lst) \ {e}
         /\ e \notin Range(lst) => RemoveFirst(lst, e) = lst
         /\ e \in Range(lst) =>
               \E k \in 1 .. Len(lst) :
                  /\ lst[k] = e
                  /\ Len(RemoveFirst(lst, e)) = Len(lst) - 1
                  /\ \A i \in 1 .. Len(lst) - 1 :
                        RemoveFirst(lst, e)[i] = IF i < k THEN lst[i] ELSE lst[i + 1]
<1> DEFINE new == RemoveFirst(lst, e)
<1>1. DOMAIN lst = 1 .. Len(lst) /\ Len(lst) \in Nat
  OBVIOUS
<1>2. CASE e \notin Range(lst)
  <2>1. ~\E i \in 1 .. Len(lst) : lst[i] = e
    BY <1>1, <1>2 DEF Range
  <2>2. new = lst
    BY <2>1 DEF RemoveFirst
  <2> QED
    BY <1>2, <2>2
<1>3. CASE e \in Range(lst)
  <2>1. \E i \in 1 .. Len(lst) : lst[i] = e
    BY <1>1, <1>3 DEF Range
  <2> DEFINE I == {i \in 1 .. Len(lst) : lst[i] = e}
             k == Min(I)
  <2>2. I # {} /\ I \in SUBSET Nat
    BY <2>1
  <2>3. k \in I
    <3> HIDE DEF I
    <3> QED
      BY <2>2, MinNat
  <2>4. k \in 1 .. Len(lst) /\ lst[k] = e
    BY <2>3
  <2>5. new = RemoveAt(lst, k)
    BY <2>1, <2>2 DEF RemoveFirst, SelectInSeq
  <2> HIDE DEF k, I
  <2> DEFINE left == SubSeq(lst, 1, k - 1)
             right == SubSeq(lst, k + 1, Len(lst))
  <2>6. /\ left \in Seq(D) /\ Len(left) = k - 1
        /\ \A i \in 1 .. k - 1 : left[i] = lst[i]
    BY <2>4
  <2>7. /\ right \in Seq(D) /\ Len(right) = Len(lst) - k
        /\ \A i \in 1 .. Len(lst) - k : right[i] = lst[k + i]
    BY <2>4
  <2>8. new = left \o right
    BY <2>5 DEF RemoveAt
  <2> HIDE DEF left, right, new
  <2>9. new \in Seq(D) /\ Len(new) = Len(lst) - 1
    <3>1. left \in Seq(D) /\ right \in Seq(D)
      BY <2>6, <2>7
    <3>2. new \in Seq(D) /\ Len(new) = Len(left) + Len(right)
      BY <2>8, <3>1
    <3> QED
      BY <2>4, <2>6, <2>7, <3>2
  <2>10. ASSUME NEW i \in 1 .. Len(lst) - 1
         PROVE  new[i] = IF i < k THEN lst[i] ELSE lst[i + 1]
    <3>1. CASE i < k
      BY <2>4, <2>6, <2>7, <2>8, <3>1
    <3>2. CASE i >= k
      <4>1. new[i] = right[i - (k - 1)]
        BY <2>4, <2>6, <2>7, <2>8, <3>2
      <4> QED
        BY <2>4, <2>7, <3>2, <4>1
    <3> QED
      BY <2>4, <3>1, <3>2
  <2>11. DOMAIN new = 1 .. Len(lst) - 1
    BY <2>9
  <2>12. \A i, j \in 1 .. Len(lst) : lst[i] = lst[j] => i = j
    BY <1>1 DEF IsInjective
  <2>13. IsInjective(new)
    <3>1. ASSUME NEW i \in 1 .. Len(lst) - 1, NEW j \in 1 .. Len(lst) - 1,
                 new[i] = new[j]
          PROVE  i = j
      BY <2>4, <2>10, <2>12, <3>1
    <3> QED
      BY <2>11, <3>1 DEF IsInjective
  <2>14. Range(new) = Range(lst) \ {e}
    <3>1. ASSUME NEW i \in DOMAIN new PROVE new[i] \in Range(lst) \ {e}
      <4>1. \E j \in 1 .. Len(lst) : j # k /\ new[i] = lst[j]
        BY <2>4, <2>10, <2>11
      <4> QED
        BY <1>1, <2>4, <2>12, <4>1 DEF Range
    <3>2. ASSUME NEW i \in DOMAIN lst, lst[i] # e PROVE lst[i] \in Range(new)
      <4>1. CASE i < k
        <5>1. new[i] = lst[i] /\ i \in DOMAIN new
          BY <1>1, <2>4, <2>10, <2>11, <4>1
        <5> QED
          BY <5>1 DEF Range
      <4>2. CASE i > k
        <5>1. new[i - 1] = lst[i] /\ i - 1 \in DOMAIN new
          BY <1>1, <2>4, <2>10, <2>11, <4>2
        <5> QED
          BY <5>1, Zenon DEF Range
      <4> QED
        BY <1>1, <2>4, <3>2, <4>1, <4>2
    <3> QED
      BY <3>1, <3>2 DEF Range
  <2> QED
    BY <1>3, <2>4, <2>9, <2>10, <2>13, <2>14 DEF new
<1> QED
  BY <1>2, <1>3

-----------------------------------------------------------------------------
(* Rings of subjects (thread_link)                                         *)

\* g is what f leads to from d, step by step.
Iterates(g, D, f, d, n) ==
    /\ g \in [1 .. n -> D]
    /\ \A k \in 1 .. n : g[k] = IF k = 1 THEN d ELSE f[g[k - 1]]

\* There is such a function for every n.
LEMMA IterateExists ==
  ASSUME NEW D, NEW f \in [D -> D], NEW d \in D, NEW n \in Nat
  PROVE  \E g : Iterates(g, D, f, d, n)
<1> DEFINE Is(g, i) == /\ g \in [1 .. i -> D]
                       /\ \A k \in 1 .. i : g[k] = IF k = 1 THEN d ELSE f[g[k - 1]]
           Done == {i \in 0 .. n : \E g : Is(g, i)}
<1>1. 0 \in Done
  <2>1. Is([k \in 1 .. 0 |-> d], 0)
    OBVIOUS
  <2> HIDE DEF Is
  <2> QED
    BY <2>1
<1>2. ASSUME NEW i \in 1 .. n, i - 1 \in Done
      PROVE  i \in Done
  <2>1. PICK g : Is(g, i - 1)
    BY <1>2
  <2> DEFINE h == [k \in 1 .. i |-> IF k = i THEN IF i = 1 THEN d ELSE f[g[i - 1]]
                                    ELSE g[k]]
  <2>2. IF i = 1 THEN TRUE ELSE g[i - 1] \in D
    BY <2>1
  <2>3. h \in [1 .. i -> D]
    BY <2>1, <2>2
  <2>4. ASSUME NEW k \in 1 .. i PROVE h[k] = IF k = 1 THEN d ELSE f[h[k - 1]]
    <3>1. k # 1 => h[k - 1] = g[k - 1]
      OBVIOUS
    <3>2. CASE k = i
      BY <3>1, <3>2
    <3>3. CASE k # i
      BY <2>1, <3>1, <3>3
    <3> QED
      BY <3>2, <3>3
  <2>5. Is(h, i)
    BY <2>3, <2>4
  <2> HIDE DEF Is, h
  <2> QED
    BY <2>5
<1>3. n \in Done
  <2> HIDE DEF Done
  <2> QED
    BY <1>1, <1>2, UpTo
<1> QED
  BY <1>3 DEF Iterates

\* thread_link goes round: every subject has one before it.
Permutes(link) == link \in [Subjects -> Subjects] /\ IsInjective(link)

\* RingOrder and Ring for a link function.
OrbitSeq(link, s) ==
    LET at[k \in 1 .. Cardinality(Subjects)] ==
            IF k = 1 THEN link[s] ELSE link[at[k - 1]]
        size == CHOOSE k \in DOMAIN at :
                   at[k] = s /\ \A j \in 1 .. k - 1 : at[j] # s
    IN  SubSeq(at, 1, size)

\* The subjects of the ring of s.
Orbit(link, s) == Range(OrbitSeq(link, s))

\* The model's rings are those of the link function of a state.
LEMMA RingIsOrbit ==
  ASSUME NEW x, NEW s
  PROVE  RingOrder(x, s) = OrbitSeq(x.link, s) /\ Ring(x, s) = Orbit(x.link, s)
BY DEF RingOrder, Ring, OrbitSeq, Orbit

\* The links lead nowhere out of T.
Closed(link, T) == \A r \in T : link[r] \in T

\* The sequence ends with s, is closed under the links, and has no part that is.
LEMMA OrbitFacts ==
  ASSUME IsFiniteSet(Subjects), NEW link, Permutes(link), NEW s \in Subjects
  PROVE  /\ OrbitSeq(link, s) \in Seq(Subjects)
         /\ s \in Orbit(link, s)
         /\ Orbit(link, s) \subseteq Subjects
         /\ Closed(link, Orbit(link, s))
         /\ \A T \in SUBSET Orbit(link, s) :
               T # {} /\ Closed(link, T) => T = Orbit(link, s)
<1> DEFINE N == Cardinality(Subjects)
           at == CHOOSE at : at = [k \in 1 .. N |-> IF k = 1 THEN link[s] ELSE link[at[k - 1]]]
<1>1. N \in Nat /\ link \in [Subjects -> Subjects]
  BY FS_CardinalityType DEF Permutes
<1>2. /\ at \in [1 .. N -> Subjects]
      /\ \A k \in 1 .. N : at[k] = IF k = 1 THEN link[s] ELSE link[at[k - 1]]
  <2>1. link[s] \in Subjects
    BY <1>1
  <2> HIDE DEF N, at
  <2>9. PICK g : Iterates(g, Subjects, link, link[s], N)
    BY <1>1, <2>1, IterateExists
  <2>2. /\ g \in [1 .. N -> Subjects]
        /\ \A k \in 1 .. N : g[k] = IF k = 1 THEN link[s] ELSE link[g[k - 1]]
    BY <2>9 DEF Iterates
  <2>3. at = [k \in 1 .. N |-> IF k = 1 THEN link[s] ELSE link[at[k - 1]]]
    <3>1. g = [k \in 1 .. N |-> IF k = 1 THEN link[s] ELSE link[g[k - 1]]]
      BY <2>2
    <3> QED
      BY <3>1 DEF at
  <2>4. \A k \in 1 .. N : at[k] = IF k = 1 THEN link[s] ELSE link[at[k - 1]]
    BY <2>3
  <2> DEFINE Same == {k \in 0 .. N : k = 0 \/ at[k] = g[k]}
  <2>5. 0 \in Same
    BY <1>1
  <2>6. ASSUME NEW i \in 1 .. N, i - 1 \in Same PROVE i \in Same
    BY <2>2, <2>4, <2>6
  <2>7. \A i \in 0 .. N : i \in Same
    <3> HIDE DEF Same
    <3> QED
      BY <1>1, <2>5, <2>6, UpTo
  <2>8. \A i \in 1 .. N : at[i] = g[i]
    BY <2>7
  <2> QED
    BY <2>2, <2>3, <2>4, <2>8
<1> DEFINE size == CHOOSE k \in DOMAIN at : at[k] = s /\ \A j \in 1 .. k - 1 : at[j] # s
<1>3. OrbitSeq(link, s) = SubSeq(at, 1, size)
  BY DEF OrbitSeq
<1> HIDE DEF N, at
<1>4. DOMAIN at = 1 .. N
  BY <1>2
<1>5. \E k \in 1 .. N : at[k] = s
  <2> SUFFICES ASSUME \A k \in 1 .. N : at[k] # s PROVE FALSE
    OBVIOUS
  <2>1. \A a, b \in Subjects : link[a] = link[b] => a = b
    BY <1>1 DEF Permutes, IsInjective
  <2>2. \E i, j \in 1 .. N : i # j /\ at[i] = at[j]
    <3>1. at \in [1 .. N -> Subjects \ {s}]
      BY <1>2
    <3>2. IsFiniteSet(Subjects \ {s}) /\ Cardinality(Subjects \ {s}) = N - 1
      BY FS_RemoveElement DEF N
    <3>3. IsFiniteSet(1 .. N) /\ Cardinality(1 .. N) = N
      BY <1>1, FS_Interval
    <3> QED
      BY <1>1, <3>1, <3>2, <3>3, FS_PigeonHole
  <2> DEFINE Twice == {i \in 1 .. N : \E j \in 1 .. N : i < j /\ at[i] = at[j]}
  <2>3. Twice # {} /\ Twice \in SUBSET Nat
    BY <1>1, <2>2
  <2>4. PICK i \in Twice : \A y \in Twice : i <= y
    <3> HIDE DEF Twice
    <3> QED
      BY <2>3, LeastNat
  <2>5. PICK j \in 1 .. N : i < j /\ at[i] = at[j]
    BY <2>4
  <2>6. CASE i = 1
    <3>1. link[s] = link[at[j - 1]] /\ at[j - 1] \in Subjects /\ j - 1 \in 1 .. N
      BY <1>1, <1>2, <2>5, <2>6
    <3> QED
      BY <2>1, <3>1
  <2>7. CASE i # 1
    <3>1. i - 1 \in 1 .. N /\ j - 1 \in 1 .. N /\ i - 1 < j - 1
      BY <1>1, <2>4, <2>5, <2>7
    <3>2. link[at[i - 1]] = link[at[j - 1]]
      BY <1>1, <1>2, <2>4, <2>5, <2>7
    <3>3. at[i - 1] = at[j - 1]
      BY <1>2, <2>1, <3>1, <3>2
    <3>4. i - 1 \in Twice
      BY <3>1, <3>3
    <3> QED
      BY <2>4, <3>1, <3>4
  <2> QED
    BY <2>6, <2>7
<1>6. size \in 1 .. N /\ at[size] = s /\ \A j \in 1 .. size - 1 : at[j] # s
  <2> DEFINE Hits == {k \in 1 .. N : at[k] = s}
  <2>1. Hits # {} /\ Hits \in SUBSET Nat
    BY <1>1, <1>5
  <2>2. PICK k \in Hits : \A y \in Hits : k <= y
    <3> HIDE DEF Hits
    <3> QED
      BY <2>1, LeastNat
  <2>3. \E q \in DOMAIN at : at[q] = s /\ \A j \in 1 .. q - 1 : at[j] # s
    <3>1. k \in DOMAIN at /\ at[k] = s
      BY <1>4, <2>2
    <3>2. ASSUME NEW j \in 1 .. k - 1, at[j] = s PROVE FALSE
      <4>1. j \in Hits /\ j < k
        BY <1>1, <2>2, <3>2
      <4> QED
        BY <2>2, <4>1
    <3> QED
      BY <3>1, <3>2
  <2>4. size \in DOMAIN at /\ at[size] = s /\ \A j \in 1 .. size - 1 : at[j] # s
    BY <2>3, Zenon
  <2> QED
    BY <1>4, <2>4
<1> HIDE DEF size
<1>7. /\ OrbitSeq(link, s) \in Seq(Subjects)
      /\ Len(OrbitSeq(link, s)) = size
      /\ \A i \in 1 .. size : OrbitSeq(link, s)[i] = at[i]
  <2>1. at \in Seq(Subjects) /\ Len(at) = N
    BY <1>1, <1>2
  <2> QED
    BY <1>1, <1>3, <1>6, <2>1
<1>8. DOMAIN OrbitSeq(link, s) = 1 .. size
  BY <1>6, <1>7
<1>9. Orbit(link, s) = {at[i] : i \in 1 .. size}
  BY <1>7, <1>8 DEF Orbit, Range
<1>10. s \in Orbit(link, s)
  BY <1>6, <1>9
<1>11. Orbit(link, s) \subseteq Subjects
  BY <1>1, <1>2, <1>6, <1>9
<1>12. \A i \in 1 .. size : link[at[i]] = IF i = size THEN at[1] ELSE at[i + 1]
  BY <1>1, <1>2, <1>6
<1>13. Closed(link, Orbit(link, s))
  BY <1>6, <1>9, <1>12 DEF Closed
<1>14. ASSUME NEW T \in SUBSET Orbit(link, s), T # {}, Closed(link, T)
       PROVE  T = Orbit(link, s)
  <2>1. PICK h \in 1 .. size : at[h] \in T
    BY <1>9, <1>14
  <2> DEFINE In == {i \in 0 .. size : i < h \/ at[i] \in T}
  <2>2. \A i \in 0 .. size : i \in In
    <3>1. 0 \in In
      BY <1>6, <2>1
    <3>2. ASSUME NEW i \in 1 .. size, i - 1 \in In PROVE i \in In
      <4>1. CASE i <= h
        BY <2>1, <4>1
      <4>2. CASE i > h
        <5>1. i - 1 \in 1 .. size /\ i - 1 # size /\ at[i - 1] \in T
          BY <1>1, <1>6, <2>1, <3>2, <4>2
        <5>2. at[i] = link[at[i - 1]]
          BY <1>6, <1>12, <5>1
        <5> QED
          BY <1>14, <5>1, <5>2 DEF Closed
      <4> QED
        BY <1>6, <2>1, <4>1, <4>2
    <3> HIDE DEF In
    <3> QED
      BY <1>6, <3>1, <3>2, UpTo
  <2>3. s \in T
    BY <1>6, <2>1, <2>2
  <2>4. at[1] \in T
    BY <1>1, <1>2, <1>6, <1>14, <2>3 DEF Closed
  <2> DEFINE All == {i \in 0 .. size : i = 0 \/ at[i] \in T}
  <2>5. \A i \in 0 .. size : i \in All
    <3>1. 0 \in All
      BY <1>6
    <3>2. ASSUME NEW i \in 1 .. size, i - 1 \in All PROVE i \in All
      <4>1. CASE i = 1
        BY <2>4, <4>1
      <4>2. CASE i # 1
        <5>1. i - 1 \in 1 .. size /\ i - 1 # size /\ at[i - 1] \in T
          BY <1>1, <1>6, <3>2, <4>2
        <5>2. at[i] = link[at[i - 1]]
          BY <1>6, <1>12, <5>1
        <5> QED
          BY <1>14, <5>1, <5>2 DEF Closed
      <4> QED
        BY <4>1, <4>2
    <3> HIDE DEF All
    <3> QED
      BY <1>6, <3>1, <3>2, UpTo
  <2>6. \A i \in 1 .. size : at[i] \in T
    BY <2>5
  <2> QED
    BY <1>9, <2>6
<1> QED
  BY <1>7, <1>10, <1>11, <1>13, <1>14

\* A set closed under the links that meets a ring holds the ring.
LEMMA OrbitInside ==
  ASSUME IsFiniteSet(Subjects), NEW link, Permutes(link), NEW s \in Subjects,
         NEW T, Closed(link, T), NEW r \in T, r \in Orbit(link, s)
  PROVE  Orbit(link, s) \subseteq T
<1> DEFINE U == T \cap Orbit(link, s)
<1>1. U \in SUBSET Orbit(link, s) /\ U # {}
  OBVIOUS
<1>2. Closed(link, U)
  BY OrbitFacts DEF Closed
<1> HIDE DEF U
<1>3. U = Orbit(link, s)
  BY <1>1, <1>2, OrbitFacts
<1> QED
  BY <1>3 DEF U

\* The rings are the classes of an equivalence.
LEMMA OrbitClass ==
  ASSUME IsFiniteSet(Subjects), NEW link, Permutes(link), NEW s \in Subjects,
         NEW r \in Orbit(link, s)
  PROVE  r \in Subjects /\ Orbit(link, r) = Orbit(link, s)
<1>1. r \in Subjects
  BY OrbitFacts
<1>2. r \in Orbit(link, r) /\ Closed(link, Orbit(link, r)) /\ Closed(link, Orbit(link, s))
  BY <1>1, OrbitFacts
<1> HIDE DEF Orbit
<1>3. Orbit(link, s) \subseteq Orbit(link, r)
  BY <1>1, <1>2, OrbitInside
<1>4. Orbit(link, r) \subseteq Orbit(link, s)
  BY <1>1, <1>2, OrbitInside
<1> QED
  BY <1>1, <1>3, <1>4

\* Two rings are the same or have no subject in common.
LEMMA OrbitsApart ==
  ASSUME IsFiniteSet(Subjects), NEW link, Permutes(link),
         NEW r \in Subjects, NEW s \in Subjects
  PROVE  \/ Orbit(link, r) = Orbit(link, s)
         \/ Orbit(link, r) \cap Orbit(link, s) = {}
BY OrbitClass

\* A closed set that no smaller nonempty set is closed in is the ring of each
\* of its members.
LEMMA OrbitIs ==
  ASSUME IsFiniteSet(Subjects), NEW link, Permutes(link),
         NEW C \in SUBSET Subjects, Closed(link, C),
         \A T \in SUBSET C : T # {} /\ Closed(link, T) => T = C,
         NEW s \in C
  PROVE  Orbit(link, s) = C
<1>1. s \in Orbit(link, s) /\ Closed(link, Orbit(link, s))
  BY OrbitFacts
<1>2. Orbit(link, s) \subseteq C
  BY <1>1, OrbitInside
<1> QED
  BY <1>1, <1>2

\* Swapping the links of two subjects of different rings makes one ring of the
\* two, and leaves the others.
LEMMA SwapJoins ==
  ASSUME IsFiniteSet(Subjects), NEW link, Permutes(link),
         NEW s1 \in Subjects, NEW s2 \in Subjects, s2 \notin Orbit(link, s1),
         NEW swapped, swapped = [link EXCEPT ![s2] = link[s1], ![s1] = link[s2]]
  PROVE  /\ Permutes(swapped)
         /\ \A s \in Orbit(link, s1) \cup Orbit(link, s2) :
               Orbit(swapped, s) = Orbit(link, s1) \cup Orbit(link, s2)
         /\ \A s \in Subjects \ (Orbit(link, s1) \cup Orbit(link, s2)) :
               Orbit(swapped, s) = Orbit(link, s)
<1> DEFINE R1 == Orbit(link, s1)
           R2 == Orbit(link, s2)
<1>1. /\ s1 \in R1 /\ s2 \in R2 /\ R1 \in SUBSET Subjects /\ R2 \in SUBSET Subjects
      /\ Closed(link, R1) /\ Closed(link, R2)
      /\ \A T \in SUBSET R1 : T # {} /\ Closed(link, T) => T = R1
      /\ \A T \in SUBSET R2 : T # {} /\ Closed(link, T) => T = R2
  BY OrbitFacts
<1>2. R1 \cap R2 = {}
  BY <1>1, OrbitsApart
<1>3. link \in [Subjects -> Subjects] /\ \A a, b \in Subjects : link[a] = link[b] => a = b
  BY DEF Permutes, IsInjective
<1>4. s1 # s2
  BY <1>1, <1>2
<1>5. /\ swapped \in [Subjects -> Subjects]
      /\ \A a \in Subjects : swapped[a] = IF a = s1 THEN link[s2]
                                          ELSE IF a = s2 THEN link[s1] ELSE link[a]
  BY <1>3, <1>4
<1>6. Permutes(swapped)
  <2>1. \A a, b \in Subjects : swapped[a] = swapped[b] => a = b
    BY <1>3, <1>5
  <2> QED
    BY <1>5, <2>1 DEF Permutes, IsInjective
<1> HIDE DEF R1, R2
<1>7. ASSUME NEW s \in Subjects, s \in R1 \cup R2
      PROVE  Orbit(swapped, s) = R1 \cup R2
  <2>1. Closed(swapped, R1 \cup R2)
    BY <1>1, <1>5 DEF Closed
  <2>2. ASSUME NEW T \in SUBSET (R1 \cup R2), T # {}, Closed(swapped, T)
        PROVE  T = R1 \cup R2
    <3>1. T \cap R1 # {} => s1 \in T
      <4> SUFFICES ASSUME T \cap R1 # {}, s1 \notin T PROVE FALSE
        OBVIOUS
      <4>1. Closed(link, T \cap R1)
        BY <1>1, <1>2, <1>5, <2>2 DEF Closed
      <4>2. T \cap R1 = R1
        BY <1>1, <4>1
      <4> QED
        BY <1>1, <4>2
    <3>2. T \cap R2 # {} => s2 \in T
      <4> SUFFICES ASSUME T \cap R2 # {}, s2 \notin T PROVE FALSE
        OBVIOUS
      <4>1. Closed(link, T \cap R2)
        BY <1>1, <1>2, <1>5, <2>2 DEF Closed
      <4>2. T \cap R2 = R2
        BY <1>1, <4>1
      <4> QED
        BY <1>1, <4>2
    <3>3. s1 \in T => link[s2] \in T \cap R2
      BY <1>1, <1>5, <2>2 DEF Closed
    <3>4. s2 \in T => link[s1] \in T \cap R1
      BY <1>1, <1>4, <1>5, <2>2 DEF Closed
    <3>5. s1 \in T /\ s2 \in T
      BY <2>2, <3>1, <3>2, <3>3, <3>4
    <3>6. Closed(link, T \cap R1) /\ Closed(link, T \cap R2)
      BY <1>1, <1>2, <1>5, <2>2, <3>3, <3>4, <3>5 DEF Closed
    <3>7. T \cap R1 = R1 /\ T \cap R2 = R2
      BY <1>1, <3>5, <3>6
    <3> QED
      BY <3>7
  <2> DEFINE R == R1 \cup R2
  <2>3. R \in SUBSET Subjects /\ s \in R /\ Closed(swapped, R)
    BY <1>1, <1>7, <2>1
  <2>4. \A T \in SUBSET R : T # {} /\ Closed(swapped, T) => T = R
    BY <2>2
  <2> HIDE DEF R
  <2>5. Orbit(swapped, s) = R
    BY <1>6, <2>3, <2>4, OrbitIs
  <2> QED
    BY <2>5 DEF R
<1>8. ASSUME NEW s \in Subjects, s \notin R1 \cup R2
      PROVE  Orbit(swapped, s) = Orbit(link, s)
  <2> DEFINE R == Orbit(link, s)
  <2>1. s \in R /\ R \in SUBSET Subjects /\ Closed(link, R)
        /\ \A T \in SUBSET R : T # {} /\ Closed(link, T) => T = R
    BY OrbitFacts
  <2>2. s1 \notin R /\ s2 \notin R
    BY <1>1, <1>8, <2>1, OrbitsApart DEF R1, R2
  <2> HIDE DEF R
  <2>3. Closed(swapped, R)
    BY <1>5, <2>1, <2>2 DEF Closed
  <2>4. ASSUME NEW T \in SUBSET R, T # {}, Closed(swapped, T) PROVE T = R
    <3>1. Closed(link, T)
      BY <1>5, <2>1, <2>2, <2>4 DEF Closed
    <3> QED
      BY <2>1, <2>4, <3>1
  <2>5. Orbit(swapped, s) = R
    BY <1>6, <2>1, <2>3, <2>4, OrbitIs
  <2> QED
    BY <2>5 DEF R
<1>9. R1 \cup R2 \subseteq Subjects
  BY <1>1
<1> QED
  BY <1>6, <1>7, <1>8, <1>9 DEF R1, R2

-----------------------------------------------------------------------------
(* Lists of siblings: link_child, unlink_child                             *)

\* The states of the articles and subjects of a group.
State ==
    [held : [Ids -> {"none", "fake", "real"}],
     parent : [Ids -> Ids \cup {None}],
     kids : [Ids -> Seq(Ids)],
     subj : [Ids -> Subjects \cup {None}],
     date : [Ids -> Int],
     list : Seq(Subjects),
     link : [Subjects -> Subjects],
     thread : [Subjects -> Seq(Ids)],
     articles : [Subjects -> Seq(Ids)],
     sdate : [Subjects -> Int],
     short : [{Prefix[s] : s \in Subjects} -> Subjects \cup {None}],
     hashed : BOOLEAN]

\* What link_child, unlink_child and merge_threads leave alone.
SameArticles(y, x) ==
    /\ y.held = x.held /\ y.parent = x.parent
    /\ y.subj = x.subj /\ y.date = x.date
    /\ y.articles = x.articles /\ y.sdate = x.sdate
    /\ y.short = x.short /\ y.hashed = x.hashed

\* subject_article puts the article in the list and leaves the others
\* (cache.cpp).
LEMMA InsertByDateFacts ==
  ASSUME NEW x \in State, NEW lst \in Seq(Ids), NEW m \in Ids
  PROVE  /\ InsertByDate(x, lst, m) \in Seq(Ids)
         /\ Range(InsertByDate(x, lst, m)) = Range(lst) \cup {m}
         /\ IsInjective(lst) /\ m \notin Range(lst)
               => IsInjective(InsertByDate(x, lst, m))
<1>1. \E k \in 1 .. Len(lst) + 1 : InsertByDate(x, lst, m) = InsertAt(lst, k, m)
  <2>1. DOMAIN lst = 1 .. Len(lst) /\ Len(lst) \in Nat
    OBVIOUS
  <2>2. CASE lst = <<>> \/ x.date[m] < x.date[lst[1]]
    <3>1. InsertByDate(x, lst, m) = <<m>> \o lst
      BY <2>2 DEF InsertByDate
    <3>2. InsertAt(lst, 1, m) = <<m>> \o lst
      <4>1. SubSeq(lst, 1, 1 - 1) = <<>> /\ SubSeq(lst, 1, Len(lst)) = lst
        BY <2>1
      <4>2. <<>> \o <<m>> = <<m>>
        OBVIOUS
      <4> QED
        BY <4>1, <4>2 DEF InsertAt
    <3>3. 1 \in 1 .. Len(lst) + 1
      BY <2>1
    <3> QED
      BY <3>1, <3>2, <3>3, Zenon
  <2>3. CASE ~(lst = <<>> \/ x.date[m] < x.date[lst[1]])
    <3> DEFINE after == {k \in DOMAIN lst : k = Len(lst) \/ x.date[lst[k + 1]] > x.date[m]}
               k == CHOOSE i \in after : \A j \in after : i <= j
    <3>1. InsertByDate(x, lst, m) = InsertAt(lst, k + 1, m)
      BY <2>3 DEF InsertByDate
    <3>2. after \in SUBSET Nat /\ after # {}
      <4>1. Len(lst) \in after
        BY <2>1, <2>3
      <4> QED
        BY <2>1, <4>1
    <3>3. k \in after
      <4> HIDE DEF after
      <4> QED
        BY <3>2, LeastNat
    <3>4. k \in DOMAIN lst
      BY <3>3, Zenon
    <3> HIDE DEF k, after
    <3>5. k + 1 \in 1 .. Len(lst) + 1
      BY <2>1, <3>4
    <3> QED
      BY <3>1, <3>5, Zenon
  <2> QED
    BY <2>2, <2>3
<1>2. PICK k \in 1 .. Len(lst) + 1 : InsertByDate(x, lst, m) = InsertAt(lst, k, m)
  BY <1>1
<1>3. /\ InsertAt(lst, k, m) \in Seq(Ids)
      /\ Range(InsertAt(lst, k, m)) = Range(lst) \cup {m}
      /\ IsInjective(lst) /\ m \notin Range(lst) => IsInjective(InsertAt(lst, k, m))
  BY InsertAtFacts
<1> QED
  BY <1>2, <1>3, Zenon

\* Giving a ring a first article changes the lists of its subjects only.
LEMMA SetThreadFields ==
  ASSUME NEW x \in State, NEW s \in Subjects, NEW lst \in Seq(Ids)
  PROVE  LET y == SetThread(x, s, lst)
         IN  /\ y \in State /\ SameArticles(y, x)
             /\ y.kids = x.kids /\ y.link = x.link /\ y.list = x.list
             /\ \A r \in Subjects : y.thread[r] = IF r \in Orbit(x.link, s) THEN lst
                                                  ELSE x.thread[r]
<1> DEFINE th == [r \in Subjects |-> IF r \in Orbit(x.link, s) THEN lst
                                     ELSE x.thread[r]]
<1>1. SetThread(x, s, lst) = [x EXCEPT !.thread = th]
  BY RingIsOrbit DEF SetThread
<1>2. th \in [Subjects -> Seq(Ids)]
  BY DEF State
<1>3. \A r \in Subjects : th[r] = IF r \in Orbit(x.link, s) THEN lst ELSE x.thread[r]
  OBVIOUS
<1> HIDE DEF th
<1>4. /\ [x EXCEPT !.thread = th] \in State
      /\ SameArticles([x EXCEPT !.thread = th], x)
      /\ [x EXCEPT !.thread = th].kids = x.kids
      /\ [x EXCEPT !.thread = th].link = x.link
      /\ [x EXCEPT !.thread = th].list = x.list
      /\ [x EXCEPT !.thread = th].thread = th
  BY <1>2 DEF State, SameArticles
<1> QED
  BY <1>1, <1>3, <1>4, Zenon

\* A list of children changes nothing else.
LEMMA SetKidsFields ==
  ASSUME NEW x \in State, NEW p \in Ids, NEW lst \in Seq(Ids)
  PROVE  LET y == [x EXCEPT !.kids[p] = lst]
         IN  /\ y \in State /\ SameArticles(y, x)
             /\ y.thread = x.thread /\ y.link = x.link /\ y.list = x.list
             /\ \A q \in Ids : y.kids[q] = IF q = p THEN lst ELSE x.kids[q]
BY DEF State, SameArticles

\* The articles X hang in the lists they should be in: those with a parent
\* below it, the others in the thread of the subject home[m].
Hung(x, X, home) ==
    /\ X \subseteq Ids
    /\ Permutes(x.link)
    /\ \A s \in Subjects : \A r \in Orbit(x.link, s) : x.thread[r] = x.thread[s]
    /\ \A m \in X : x.parent[m] = None => home[m] \in Subjects
    /\ \A p \in Ids : /\ IsInjective(x.kids[p])
                      /\ Range(x.kids[p]) = {m \in X : x.parent[m] = p}
    /\ \A s \in Subjects :
          /\ IsInjective(x.thread[s])
          /\ Range(x.thread[s]) =
                {m \in X : x.parent[m] = None /\ home[m] \in Orbit(x.link, s)}

\* y is x with other lists of siblings.
OtherLists(y, x) ==
    y \in State /\ SameArticles(y, x) /\ y.link = x.link /\ y.list = x.list

\* unlink_child takes the article out of the list of its siblings and moves no
\* other.
LEMMA UnlinkHung ==
  ASSUME IsFiniteSet(Subjects), None \notin Ids, NEW x \in State, NEW X, NEW home,
         Hung(x, X, home), NEW m \in Ids,
         x.parent[m] = None =>
            x.subj[m] \in Subjects /\ home[m] \in Orbit(x.link, x.subj[m])
  PROVE  /\ OtherLists(UnlinkChild(x, m), x)
         /\ Hung(UnlinkChild(x, m), X \ {m}, home)
<1> DEFINE y == UnlinkChild(x, m)
<1>t. /\ x.parent \in [Ids -> Ids \cup {None}]
      /\ x.kids \in [Ids -> Seq(Ids)] /\ x.thread \in [Subjects -> Seq(Ids)]
  BY DEF State
<1>1. CASE x.parent[m] # None
  <2> DEFINE p == x.parent[m]
             lst == RemoveFirst(x.kids[p], m)
  <2>1. p \in Ids
    BY <1>t, <1>1
  <2>2. x.kids[p] \in Seq(Ids) /\ IsInjective(x.kids[p])
    BY <1>t, <2>1 DEF Hung
  <2>3. lst \in Seq(Ids) /\ IsInjective(lst) /\ Range(lst) = Range(x.kids[p]) \ {m}
    BY <2>2, RemoveFirstFacts
  <2>4. y = [x EXCEPT !.kids[p] = lst]
    BY <1>1 DEF UnlinkChild
  <2> HIDE DEF p, lst, y
  <2>5. /\ y \in State /\ SameArticles(y, x)
        /\ y.thread = x.thread /\ y.link = x.link /\ y.list = x.list
        /\ \A q \in Ids : y.kids[q] = IF q = p THEN lst ELSE x.kids[q]
    BY <2>1, <2>3, <2>4, SetKidsFields
  <2>6. OtherLists(y, x)
    BY <2>5 DEF OtherLists
  <2>7. y.parent = x.parent
    BY <2>5 DEF SameArticles
  <2>8. ASSUME NEW q \in Ids
        PROVE  IsInjective(y.kids[q]) /\ Range(y.kids[q]) = {a \in X \ {m} : y.parent[a] = q}
    BY <2>3, <2>5, <2>7 DEF Hung, p
  <2>9. ASSUME NEW s \in Subjects
        PROVE  /\ IsInjective(y.thread[s])
               /\ Range(y.thread[s]) =
                    {a \in X \ {m} : y.parent[a] = None /\ home[a] \in Orbit(y.link, s)}
    BY <1>1, <2>5, <2>7 DEF Hung
  <2>10. Hung(y, X \ {m}, home)
    BY <2>5, <2>7, <2>8, <2>9 DEF Hung
  <2> QED
    BY <2>6, <2>10 DEF y
<1>2. CASE x.parent[m] = None
  <2> DEFINE s == x.subj[m]
             lst == RemoveFirst(x.thread[s], m)
  <2>1. s \in Subjects /\ home[m] \in Orbit(x.link, s)
    BY <1>2
  <2>2. x.thread[s] \in Seq(Ids) /\ IsInjective(x.thread[s])
    BY <1>t, <2>1 DEF Hung
  <2>3. lst \in Seq(Ids) /\ IsInjective(lst) /\ Range(lst) = Range(x.thread[s]) \ {m}
    BY <2>2, RemoveFirstFacts
  <2>4. y = SetThread(x, s, lst)
    BY <1>2 DEF UnlinkChild
  <2> HIDE DEF s, lst, y
  <2>5. /\ y \in State /\ SameArticles(y, x)
        /\ y.kids = x.kids /\ y.link = x.link /\ y.list = x.list
        /\ \A r \in Subjects : y.thread[r] = IF r \in Orbit(x.link, s) THEN lst
                                             ELSE x.thread[r]
    BY <2>1, <2>3, <2>4, SetThreadFields
  <2>6. OtherLists(y, x)
    BY <2>5 DEF OtherLists
  <2>7. y.parent = x.parent
    BY <2>5 DEF SameArticles
  <2>8. ASSUME NEW q \in Ids
        PROVE  IsInjective(y.kids[q]) /\ Range(y.kids[q]) = {a \in X \ {m} : y.parent[a] = q}
    BY <1>2, <2>5, <2>7 DEF Hung
  <2>9. Permutes(x.link)
    BY DEF Hung
  <2>10. ASSUME NEW r \in Subjects
        PROVE  /\ IsInjective(y.thread[r])
               /\ Range(y.thread[r]) =
                    {a \in X \ {m} : y.parent[a] = None /\ home[a] \in Orbit(y.link, r)}
    <3>1. CASE r \in Orbit(x.link, s)
      <4>1. Orbit(x.link, r) = Orbit(x.link, s)
        BY <2>1, <2>9, <3>1, OrbitClass
      <4>2. Range(x.thread[s]) = {a \in X : x.parent[a] = None /\ home[a] \in Orbit(x.link, s)}
        BY <2>1 DEF Hung
      <4> QED
        BY <2>3, <2>5, <2>7, <3>1, <4>1, <4>2
    <3>2. CASE r \notin Orbit(x.link, s)
      <4>1. ASSUME home[m] \in Orbit(x.link, r) PROVE FALSE
        <5>1. Orbit(x.link, home[m]) = Orbit(x.link, r)
          BY <2>9, <4>1, OrbitClass
        <5>2. Orbit(x.link, home[m]) = Orbit(x.link, s)
          BY <2>1, <2>9, OrbitClass
        <5>3. r \in Orbit(x.link, r)
          BY <2>9, OrbitFacts
        <5> QED
          BY <3>2, <5>1, <5>2, <5>3
      <4>2. /\ IsInjective(x.thread[r])
            /\ Range(x.thread[r]) = {a \in X : x.parent[a] = None /\ home[a] \in Orbit(x.link, r)}
        BY DEF Hung
      <4> QED
        BY <2>5, <2>7, <3>2, <4>1, <4>2
    <3> QED
      BY <3>1, <3>2
  <2>11. ASSUME NEW q \in Subjects, NEW r \in Orbit(y.link, q)
         PROVE  y.thread[r] = y.thread[q]
    <3>1. r \in Subjects /\ r \in Orbit(x.link, q) /\ Orbit(x.link, r) = Orbit(x.link, q)
      BY <2>5, <2>9, <2>11, OrbitClass
    <3>2. x.thread[r] = x.thread[q]
      BY <3>1 DEF Hung
    <3>3. q \in Orbit(x.link, q) /\ s \in Orbit(x.link, s)
      BY <2>1, <2>9, OrbitFacts
    <3>4. r \in Orbit(x.link, s) <=> q \in Orbit(x.link, s)
      BY <2>1, <2>9, <3>1, <3>3, OrbitClass
    <3> QED
      BY <2>5, <3>1, <3>2, <3>4
  <2>12. Hung(y, X \ {m}, home)
    BY <2>5, <2>7, <2>8, <2>9, <2>10, <2>11 DEF Hung
  <2> QED
    BY <2>6, <2>12 DEF y
<1> QED
  BY <1>1, <1>2

\* link_child puts the article in the list of its siblings and moves no other.
LEMMA LinkHung ==
  ASSUME IsFiniteSet(Subjects), None \notin Ids, NEW x \in State, NEW X, NEW home,
         Hung(x, X, home), NEW m \in Ids \ X,
         x.parent[m] = None =>
            x.subj[m] \in Subjects /\ home[m] \in Orbit(x.link, x.subj[m])
  PROVE  /\ OtherLists(LinkChild(x, m), x)
         /\ Hung(LinkChild(x, m), X \cup {m}, home)
<1> DEFINE y == LinkChild(x, m)
<1>t. /\ x.parent \in [Ids -> Ids \cup {None}]
      /\ x.kids \in [Ids -> Seq(Ids)] /\ x.thread \in [Subjects -> Seq(Ids)]
  BY DEF State
<1>1. CASE x.parent[m] # None
  <2> DEFINE p == x.parent[m]
             lst == InsertByDate(x, x.kids[p], m)
  <2>1. p \in Ids
    BY <1>t, <1>1
  <2>2. x.kids[p] \in Seq(Ids) /\ IsInjective(x.kids[p]) /\ m \notin Range(x.kids[p])
    BY <1>t, <2>1 DEF Hung
  <2>3. lst \in Seq(Ids) /\ IsInjective(lst) /\ Range(lst) = Range(x.kids[p]) \cup {m}
    BY <2>2, InsertByDateFacts
  <2>4. y = [x EXCEPT !.kids[p] = lst]
    BY <1>1 DEF LinkChild
  <2> HIDE DEF p, lst, y
  <2>5. /\ y \in State /\ SameArticles(y, x)
        /\ y.thread = x.thread /\ y.link = x.link /\ y.list = x.list
        /\ \A q \in Ids : y.kids[q] = IF q = p THEN lst ELSE x.kids[q]
    BY <2>1, <2>3, <2>4, SetKidsFields
  <2>6. OtherLists(y, x)
    BY <2>5 DEF OtherLists
  <2>7. y.parent = x.parent
    BY <2>5 DEF SameArticles
  <2>8. ASSUME NEW q \in Ids
        PROVE  IsInjective(y.kids[q]) /\ Range(y.kids[q]) = {a \in X \cup {m} : y.parent[a] = q}
    BY <2>3, <2>5, <2>7 DEF Hung, p
  <2>9. ASSUME NEW s \in Subjects
        PROVE  /\ IsInjective(y.thread[s])
               /\ Range(y.thread[s]) =
                    {a \in X \cup {m} : y.parent[a] = None /\ home[a] \in Orbit(y.link, s)}
    BY <1>1, <2>5, <2>7 DEF Hung
  <2>10. Hung(y, X \cup {m}, home)
    BY <1>1, <2>5, <2>7, <2>8, <2>9 DEF Hung
  <2> QED
    BY <2>6, <2>10 DEF y
<1>2. CASE x.parent[m] = None
  <2> DEFINE s == x.subj[m]
             lst == InsertByDate(x, x.thread[s], m)
  <2>1. s \in Subjects /\ home[m] \in Orbit(x.link, s)
    BY <1>2
  <2>2. x.thread[s] \in Seq(Ids) /\ IsInjective(x.thread[s]) /\ m \notin Range(x.thread[s])
    BY <1>t, <2>1 DEF Hung
  <2>3. lst \in Seq(Ids) /\ IsInjective(lst) /\ Range(lst) = Range(x.thread[s]) \cup {m}
    BY <2>2, InsertByDateFacts
  <2>4. y = SetThread(x, s, lst)
    BY <1>2 DEF LinkChild
  <2> HIDE DEF s, lst, y
  <2>5. /\ y \in State /\ SameArticles(y, x)
        /\ y.kids = x.kids /\ y.link = x.link /\ y.list = x.list
        /\ \A r \in Subjects : y.thread[r] = IF r \in Orbit(x.link, s) THEN lst
                                             ELSE x.thread[r]
    BY <2>1, <2>3, <2>4, SetThreadFields
  <2>6. OtherLists(y, x)
    BY <2>5 DEF OtherLists
  <2>7. y.parent = x.parent
    BY <2>5 DEF SameArticles
  <2>8. ASSUME NEW q \in Ids
        PROVE  IsInjective(y.kids[q]) /\ Range(y.kids[q]) = {a \in X \cup {m} : y.parent[a] = q}
    BY <1>2, <2>5, <2>7 DEF Hung
  <2>9. Permutes(x.link)
    BY DEF Hung
  <2>10. ASSUME NEW r \in Subjects
        PROVE  /\ IsInjective(y.thread[r])
               /\ Range(y.thread[r]) =
                    {a \in X \cup {m} : y.parent[a] = None /\ home[a] \in Orbit(y.link, r)}
    <3>1. CASE r \in Orbit(x.link, s)
      <4>1. Orbit(x.link, r) = Orbit(x.link, s)
        BY <2>1, <2>9, <3>1, OrbitClass
      <4>2. Range(x.thread[s]) = {a \in X : x.parent[a] = None /\ home[a] \in Orbit(x.link, s)}
        BY <2>1 DEF Hung
      <4> QED
        BY <1>2, <2>1, <2>3, <2>5, <2>7, <3>1, <4>1, <4>2
    <3>2. CASE r \notin Orbit(x.link, s)
      <4>1. ASSUME home[m] \in Orbit(x.link, r) PROVE FALSE
        <5>1. Orbit(x.link, home[m]) = Orbit(x.link, r)
          BY <2>9, <4>1, OrbitClass
        <5>2. Orbit(x.link, home[m]) = Orbit(x.link, s)
          BY <2>1, <2>9, OrbitClass
        <5>3. r \in Orbit(x.link, r)
          BY <2>9, OrbitFacts
        <5> QED
          BY <3>2, <5>1, <5>2, <5>3
      <4>2. /\ IsInjective(x.thread[r])
            /\ Range(x.thread[r]) = {a \in X : x.parent[a] = None /\ home[a] \in Orbit(x.link, r)}
        BY DEF Hung
      <4> QED
        BY <2>5, <2>7, <3>2, <4>1, <4>2
    <3> QED
      BY <3>1, <3>2
  <2>11. ASSUME NEW q \in Subjects, NEW r \in Orbit(y.link, q)
         PROVE  y.thread[r] = y.thread[q]
    <3>1. r \in Subjects /\ r \in Orbit(x.link, q) /\ Orbit(x.link, r) = Orbit(x.link, q)
      BY <2>5, <2>9, <2>11, OrbitClass
    <3>2. x.thread[r] = x.thread[q]
      BY <3>1 DEF Hung
    <3>3. q \in Orbit(x.link, q) /\ s \in Orbit(x.link, s)
      BY <2>1, <2>9, OrbitFacts
    <3>4. r \in Orbit(x.link, s) <=> q \in Orbit(x.link, s)
      BY <2>1, <2>9, <3>1, <3>3, OrbitClass
    <3> QED
      BY <2>5, <3>1, <3>2, <3>4
  <2>12. home[m] \in Subjects
    BY <2>1, <2>9, OrbitFacts
  <2>13. Hung(y, X \cup {m}, home)
    BY <1>2, <2>5, <2>7, <2>8, <2>9, <2>10, <2>11, <2>12 DEF Hung
  <2> QED
    BY <2>6, <2>13 DEF y
<1> QED
  BY <1>1, <1>2

-----------------------------------------------------------------------------
(* Merging two threads: merge_threads                                      *)

\* The folds of link_child, of merge_threads.
Linking == INSTANCE FoldFacts WITH op <- LAMBDA x, d, a, b : LinkChild(x, d)

\* Linking a list of articles goes through it one by one.
LEMMA LinkFold ==
  ASSUME NEW x, NEW lst \in Seq(Ids)
  PROVE  \E g : /\ g[0] = x
                /\ \A i \in 1 .. Len(lst) : g[i] = LinkChild(g[i - 1], lst[i])
                /\ FoldLeft(LinkChild, x, lst) = g[Len(lst)]
<1>1. \E g : Linking!Goes(g, x, lst, 0, 0) /\ Linking!Fold(x, lst, 0, 0) = g[Len(lst)]
  BY Linking!FoldSteps
<1>2. Linking!Fold(x, lst, 0, 0) = FoldLeft(LinkChild, x, lst)
  BY DEF Linking!Fold, FoldLeft, Linking!FoldLeft, MapThenFoldSet, Linking!MapThenFoldSet,
         Max, Linking!Max
<1> QED
  BY <1>1, <1>2 DEF Linking!Goes

\* The elements of two sequences one after the other.
LEMMA ConcatFacts ==
  ASSUME NEW D, NEW A \in Seq(D), NEW B \in Seq(D), NEW a, a = Len(A), NEW b, b = Len(B)
  PROVE  /\ A \o B \in Seq(D) /\ Len(A \o B) = a + b
         /\ a \in Nat /\ b \in Nat
         /\ \A i \in 1 .. a : (A \o B)[i] = A[i]
         /\ \A i \in 1 .. b : (A \o B)[a + i] = B[i]
<1>1. a \in Nat /\ b \in Nat
  OBVIOUS
<1>2. ASSUME NEW i \in 1 .. b PROVE (A \o B)[a + i] = B[i]
  <2>1. a + i \in 1 .. a + b /\ a + i > a /\ (a + i) - a = i
    BY <1>1
  <2> QED
    BY <2>1
<1> QED
  BY <1>1, <1>2

\* The elements of four.
LEMMA ConcatFour ==
  ASSUME NEW D, NEW A \in Seq(D), NEW B \in Seq(D), NEW C \in Seq(D), NEW E \in Seq(D),
         NEW a, NEW b, NEW c, NEW e,
         a = Len(A), b = Len(B), c = Len(C), e = Len(E)
  PROVE  LET new == A \o B \o C \o E
         IN  /\ new \in Seq(D) /\ Len(new) = a + b + c + e
             /\ \A i \in 1 .. a : new[i] = A[i]
             /\ \A i \in 1 .. b : new[a + i] = B[i]
             /\ \A i \in 1 .. c : new[a + b + i] = C[i]
             /\ \A i \in 1 .. e : new[a + b + c + i] = E[i]
<1> DEFINE AB == A \o B
           ABC == AB \o C
           new == ABC \o E
           ab == a + b
           abc == ab + c
<1> HIDE DEF AB, ABC, new
<1>0. a \in Nat /\ b \in Nat /\ c \in Nat /\ e \in Nat
  OBVIOUS
<1>1. /\ AB \in Seq(D) /\ Len(AB) = ab
      /\ \A i \in 1 .. a : AB[i] = A[i]
      /\ \A i \in 1 .. b : AB[a + i] = B[i]
  BY ConcatFacts DEF AB
<1> HIDE DEF ab
<1>2. /\ ABC \in Seq(D) /\ Len(ABC) = abc
      /\ \A i \in 1 .. ab : ABC[i] = AB[i]
      /\ \A i \in 1 .. c : ABC[ab + i] = C[i]
  <2>1. AB \in Seq(D) /\ ab = Len(AB)
    BY <1>1
  <2> HIDE DEF abc
  <2> QED
    BY <2>1, ConcatFacts DEF ABC, abc
<1> HIDE DEF abc
<1>3. /\ new \in Seq(D) /\ Len(new) = abc + e
      /\ \A i \in 1 .. abc : new[i] = ABC[i]
      /\ \A i \in 1 .. e : new[abc + i] = E[i]
  <2>1. ABC \in Seq(D) /\ abc = Len(ABC)
    BY <1>2
  <2> QED
    BY <2>1, ConcatFacts DEF new
<1>4. ASSUME NEW i \in 1 .. a PROVE new[i] = A[i]
  <2>1. i \in 1 .. ab /\ i \in 1 .. abc
    BY <1>0 DEF ab, abc
  <2> QED
    BY <1>1, <1>2, <1>3, <2>1
<1>5. ASSUME NEW i \in 1 .. b PROVE new[a + i] = B[i]
  <2>1. a + i \in 1 .. ab /\ a + i \in 1 .. abc
    BY <1>0 DEF ab, abc
  <2> QED
    BY <1>1, <1>2, <1>3, <2>1
<1>6. ASSUME NEW i \in 1 .. c PROVE new[ab + i] = C[i]
  <2>1. ab + i \in 1 .. abc
    BY <1>0 DEF ab, abc
  <2> QED
    BY <1>2, <1>3, <2>1
<1> QED
  BY <1>3, <1>4, <1>5, <1>6 DEF ab, abc, new, ABC, AB

\* Two neighbouring pieces of a sequence are swapped.
Swapped(lst, p, q, r) ==
    SubSeq(lst, 1, p) \o SubSeq(lst, q + 1, r)
        \o SubSeq(lst, p + 1, q) \o SubSeq(lst, r + 1, Len(lst))

\* Two neighbouring parts of a list change places: the same elements, once
\* each.
LEMMA SwapBlocks ==
  ASSUME NEW D, NEW lst \in Seq(D),
         NEW p \in 0 .. Len(lst), NEW q \in p .. Len(lst), NEW r \in q .. Len(lst)
  PROVE  /\ Swapped(lst, p, q, r) \in Seq(D)
         /\ Range(Swapped(lst, p, q, r)) = Range(lst)
         /\ IsInjective(lst) => IsInjective(Swapped(lst, p, q, r))
<1> DEFINE n == Len(lst)
           A == SubSeq(lst, 1, p)
           B == SubSeq(lst, q + 1, r)
           C == SubSeq(lst, p + 1, q)
           E == SubSeq(lst, r + 1, n)
           new == A \o B \o C \o E
           at(i) == IF i <= p THEN i ELSE IF i <= p + (r - q) THEN q + (i - p)
                    ELSE IF i <= r THEN i - (r - q) ELSE i
<1> HIDE DEF new
<1>1. n \in Nat /\ DOMAIN lst = 1 .. n
  OBVIOUS
<1>2. A \in Seq(D) /\ Len(A) = p /\ \A i \in 1 .. p : A[i] = lst[i]
  OBVIOUS
<1>3. B \in Seq(D) /\ Len(B) = r - q /\ \A i \in 1 .. r - q : B[i] = lst[q + i]
  OBVIOUS
<1>4. C \in Seq(D) /\ Len(C) = q - p /\ \A i \in 1 .. q - p : C[i] = lst[p + i]
  OBVIOUS
<1>5. E \in Seq(D) /\ Len(E) = n - r /\ \A i \in 1 .. n - r : E[i] = lst[r + i]
  OBVIOUS
<1> HIDE DEF A, B, C, E
<1>7. /\ new \in Seq(D) /\ Len(new) = p + (r - q) + (q - p) + (n - r)
      /\ \A i \in 1 .. p : new[i] = A[i]
      /\ \A i \in 1 .. r - q : new[p + i] = B[i]
      /\ \A i \in 1 .. q - p : new[p + (r - q) + i] = C[i]
      /\ \A i \in 1 .. n - r : new[p + (r - q) + (q - p) + i] = E[i]
  <2>1. A \in Seq(D) /\ B \in Seq(D) /\ C \in Seq(D) /\ E \in Seq(D)
    BY <1>2, <1>3, <1>4, <1>5
  <2> DEFINE b == r - q
             c == q - p
             e == n - r
  <2>2. p = Len(A) /\ b = Len(B) /\ c = Len(C) /\ e = Len(E)
    BY <1>2, <1>3, <1>4, <1>5
  <2> HIDE DEF b, c, e
  <2>3. /\ new \in Seq(D) /\ Len(new) = p + b + c + e
        /\ \A i \in 1 .. p : new[i] = A[i]
        /\ \A i \in 1 .. b : new[p + i] = B[i]
        /\ \A i \in 1 .. c : new[p + b + i] = C[i]
        /\ \A i \in 1 .. e : new[p + b + c + i] = E[i]
    BY <2>1, <2>2, ConcatFour DEF new
  <2> QED
    BY <2>3 DEF b, c, e
<1>8. p + (r - q) + (q - p) = r /\ p + (r - q) + (q - p) + (n - r) = n
  BY <1>1
<1>9. new \in Seq(D) /\ Len(new) = n
  BY <1>7, <1>8
<1>10. ASSUME NEW i \in 1 .. n
       PROVE  at(i) \in 1 .. n /\ new[i] = lst[at(i)]
  <2>1. at(i) \in 1 .. n
    BY <1>1
  <2>2. CASE i <= p
    BY <1>2, <1>7, <2>2
  <2>3. CASE i > p /\ i <= p + (r - q)
    <3> DEFINE k == i - p
    <3>1. k \in 1 .. r - q /\ p + k = i /\ at(i) = q + k
      BY <1>1, <2>3
    <3> HIDE DEF k, at
    <3>2. new[i] = B[k] /\ B[k] = lst[q + k]
      BY <1>3, <1>7, <3>1
    <3> QED
      BY <2>1, <3>1, <3>2
  <2>4. CASE i > p + (r - q) /\ i <= r
    <3> DEFINE k == i - (p + (r - q))
    <3>1. k \in 1 .. q - p /\ p + (r - q) + k = i /\ at(i) = p + k
      BY <1>1, <2>4
    <3> HIDE DEF k, at
    <3>2. new[i] = C[k] /\ C[k] = lst[p + k]
      BY <1>4, <1>7, <3>1
    <3> QED
      BY <2>1, <3>1, <3>2
  <2>5. CASE i > r
    <3> DEFINE k == i - r
    <3>1. k \in 1 .. n - r /\ r + k = i /\ at(i) = r + k
      BY <1>1, <2>5
    <3> HIDE DEF k, at
    <3>2. new[i] = E[k] /\ E[k] = lst[r + k]
      BY <1>5, <1>7, <1>8, <3>1
    <3> QED
      BY <2>1, <3>1, <3>2
  <2> QED
    BY <1>1, <2>1, <2>2, <2>3, <2>4, <2>5
<1>11. \A i, j \in 1 .. n : at(i) = at(j) => i = j
  BY <1>1
<1>12. ASSUME NEW k \in 1 .. n
       PROVE  \E i \in 1 .. n : at(i) = k
  <2> DEFINE i == IF k <= p THEN k ELSE IF k <= q THEN k + (r - q)
                  ELSE IF k <= r THEN (k - q) + p ELSE k
  <2>1. i \in 1 .. n /\ at(i) = k
    BY <1>1
  <2> QED
    BY <2>1
<1> HIDE DEF at
<1>13. DOMAIN new = 1 .. n
  BY <1>9
<1>14. Range(new) = Range(lst)
  <2>1. ASSUME NEW i \in 1 .. n PROVE new[i] \in Range(lst)
    BY <1>1, <1>10 DEF Range
  <2>2. ASSUME NEW k \in 1 .. n PROVE lst[k] \in Range(new)
    <3>1. PICK i \in 1 .. n : at(i) = k
      BY <1>12
    <3>2. new[i] = lst[k]
      BY <1>10, <3>1
    <3> QED
      BY <1>13, <3>2 DEF Range
  <2> QED
    BY <1>1, <1>13, <2>1, <2>2 DEF Range
<1>15. ASSUME IsInjective(lst) PROVE IsInjective(new)
  <2>1. ASSUME NEW i \in 1 .. n, NEW j \in 1 .. n, new[i] = new[j] PROVE i = j
    <3>1. lst[at(i)] = lst[at(j)] /\ at(i) \in 1 .. n /\ at(j) \in 1 .. n
      BY <1>10, <2>1
    <3>2. at(i) = at(j)
      BY <1>1, <1>15, <3>1 DEF IsInjective
    <3> QED
      BY <1>11, <3>2
  <2> QED
    BY <1>13, <2>1 DEF IsInjective
<1> QED
  BY <1>9, <1>14, <1>15 DEF new, A, B, C, E, Swapped

\* Moving the subjects of a thread behind another subject loses none and
\* doubles none.
LEMMA MoveAfterFacts ==
  ASSUME NEW lst \in Seq(Subjects), IsInjective(lst),
         NEW s1 \in Range(lst), NEW s2 \in Range(lst), NEW same, s2 \in same
  PROVE  /\ MoveAfter(lst, s1, s2, same) \in Seq(Subjects)
         /\ IsInjective(MoveAfter(lst, s1, s2, same))
         /\ Range(MoveAfter(lst, s1, s2, same)) = Range(lst)
<1> DEFINE at(s) == CHOOSE k \in DOMAIN lst : lst[k] = s
           run == {k \in DOMAIN lst :
                      \A j \in DOMAIN lst :
                         (k <= j /\ j <= at(s2)) \/ (at(s2) <= j /\ j <= k)
                            => lst[j] \in same}
           lo == Min(run)
           hi == Max(run)
           n == Len(lst)
           a1 == at(s1)
           a2 == at(s2)
<1>1. n \in Nat /\ DOMAIN lst = 1 .. n
  OBVIOUS
<1>2. a1 \in 1 .. n /\ a2 \in 1 .. n /\ lst[a2] = s2
  BY <1>1 DEF Range
<1>3. run \in SUBSET (1 .. n) /\ a2 \in run
  BY <1>1, <1>2
<1>4. MoveAfter(lst, s1, s2, same) =
        CASE a1 < lo -> SubSeq(lst, 1, a1) \o SubSeq(lst, lo, hi)
                           \o SubSeq(lst, a1 + 1, lo - 1) \o SubSeq(lst, hi + 1, n)
          [] a1 > hi -> SubSeq(lst, 1, lo - 1) \o SubSeq(lst, hi + 1, a1)
                           \o SubSeq(lst, lo, hi) \o SubSeq(lst, a1 + 1, n)
          [] OTHER -> lst
  BY DEF MoveAfter
<1> HIDE DEF run, a1, a2
<1>5. lo \in 1 .. n /\ hi \in 1 .. n /\ lo <= hi
  <2>1. lo \in run /\ \A y \in run : lo <= y
    BY <1>3, MinNat
  <2>2. hi \in run
    BY <1>1, <1>3, MaxOfNat
  <2> QED
    BY <1>3, <2>1, <2>2
<1>l. n = Len(lst)
  OBVIOUS
<1> HIDE DEF lo, hi, n
<1>6. CASE a1 < lo
  <2> DEFINE q == lo - 1
  <2>1. a1 \in 0 .. Len(lst) /\ q \in a1 .. Len(lst) /\ hi \in q .. Len(lst) /\ lo = q + 1
    BY <1>1, <1>2, <1>5, <1>6, <1>l
  <2>2. MoveAfter(lst, s1, s2, same) =
           SubSeq(lst, 1, a1) \o SubSeq(lst, q + 1, hi)
               \o SubSeq(lst, a1 + 1, q) \o SubSeq(lst, hi + 1, n)
    <3>0. ~(a1 > hi)
      BY <1>2, <1>5, <1>6
    <3>1. MoveAfter(lst, s1, s2, same) =
             SubSeq(lst, 1, a1) \o SubSeq(lst, lo, hi)
               \o SubSeq(lst, a1 + 1, lo - 1) \o SubSeq(lst, hi + 1, n)
      BY <1>4, <1>6, <3>0, Zenon
    <3> QED
      BY <2>1, <3>1, Zenon
  <2> HIDE DEF q
  <2>3. MoveAfter(lst, s1, s2, same) = Swapped(lst, a1, q, hi)
    BY <2>2 DEF Swapped, n
  <2>4. /\ Swapped(lst, a1, q, hi) \in Seq(Subjects)
        /\ Range(Swapped(lst, a1, q, hi)) = Range(lst)
        /\ IsInjective(Swapped(lst, a1, q, hi))
    BY <2>1, SwapBlocks
  <2> QED
    BY <2>3, <2>4
<1>7. CASE a1 > hi
  <2> DEFINE p == lo - 1
  <2>1. p \in 0 .. Len(lst) /\ hi \in p .. Len(lst) /\ a1 \in hi .. Len(lst) /\ lo = p + 1
    BY <1>1, <1>2, <1>5, <1>7, <1>l
  <2>2. MoveAfter(lst, s1, s2, same) =
           SubSeq(lst, 1, p) \o SubSeq(lst, hi + 1, a1)
               \o SubSeq(lst, p + 1, hi) \o SubSeq(lst, a1 + 1, n)
    <3>1. ~(a1 < lo)
      BY <1>2, <1>5, <1>7
    <3>2. MoveAfter(lst, s1, s2, same) =
             SubSeq(lst, 1, lo - 1) \o SubSeq(lst, hi + 1, a1)
               \o SubSeq(lst, lo, hi) \o SubSeq(lst, a1 + 1, n)
      BY <1>4, <1>7, <3>1, Zenon
    <3> QED
      BY <2>1, <3>2, Zenon
  <2> HIDE DEF p
  <2>3. MoveAfter(lst, s1, s2, same) = Swapped(lst, p, hi, a1)
    BY <2>2 DEF Swapped, n
  <2>4. /\ Swapped(lst, p, hi, a1) \in Seq(Subjects)
        /\ Range(Swapped(lst, p, hi, a1)) = Range(lst)
        /\ IsInjective(Swapped(lst, p, hi, a1))
    BY <2>1, SwapBlocks
  <2> QED
    BY <2>3, <2>4
<1>8. CASE ~(a1 < lo) /\ ~(a1 > hi)
  BY <1>4, <1>8
<1> QED
  BY <1>6, <1>7, <1>8

\* The lists of siblings stay right when the subjects of top articles change
\* within a ring.
LEMMA HungAlike ==
  ASSUME IsFiniteSet(Subjects), NEW x, NEW y, NEW X, NEW home, NEW home2, Hung(x, X, home),
         y.link = x.link, y.thread = x.thread, y.kids = x.kids,
         \A m \in X : y.parent[m] = x.parent[m],
         \A m \in X : x.parent[m] = None =>
            home2[m] \in Subjects /\ home2[m] \in Orbit(x.link, home[m])
  PROVE  Hung(y, X, home2)
<1>1. ASSUME NEW s \in Subjects, NEW m \in X, x.parent[m] = None
      PROVE  home[m] \in Orbit(x.link, s) <=> home2[m] \in Orbit(x.link, s)
  <2>1. Permutes(x.link) /\ home[m] \in Subjects /\ home2[m] \in Subjects
    BY <1>1 DEF Hung
  <2>2. home2[m] \in Orbit(x.link, home[m])
    BY <1>1
  <2>3. Orbit(x.link, home2[m]) = Orbit(x.link, home[m])
    BY <2>1, <2>2, OrbitClass
  <2>4. home[m] \in Orbit(x.link, home[m]) /\ home2[m] \in Orbit(x.link, home2[m])
    BY <2>1, OrbitFacts
  <2>5. home[m] \in Orbit(x.link, s) => Orbit(x.link, home[m]) = Orbit(x.link, s)
    BY <2>1, OrbitClass
  <2>6. home2[m] \in Orbit(x.link, s) => Orbit(x.link, home2[m]) = Orbit(x.link, s)
    BY <2>1, OrbitClass
  <2> QED
    BY <2>3, <2>4, <2>5, <2>6
<1>2. ASSUME NEW s \in Subjects
      PROVE  Range(y.thread[s]) =
                {m \in X : y.parent[m] = None /\ home2[m] \in Orbit(y.link, s)}
  BY <1>1 DEF Hung
<1> QED
  BY <1>2 DEF Hung

\* The state is x with the subjects around s2 pointing at the first article of
\* s1, and the two rings tied together.
Tied(x, s1, s2, lst) ==
    [SetThread(x, s2, x.thread[s1]) EXCEPT !.link[s2] = x.link[s1],
                                           !.link[s1] = x.link[s2],
                                           !.list = lst]

\* What tying two rings together changes.
LEMMA TiedFields ==
  ASSUME NEW x \in State, NEW s1 \in Subjects, NEW s2 \in Subjects, NEW lst \in Seq(Subjects)
  PROVE  LET y == Tied(x, s1, s2, lst)
         IN  /\ y \in State /\ SameArticles(y, x)
             /\ y.kids = x.kids /\ y.list = lst
             /\ y.link = [x.link EXCEPT ![s2] = x.link[s1], ![s1] = x.link[s2]]
             /\ \A r \in Subjects : y.thread[r] = IF r \in Orbit(x.link, s2) THEN x.thread[s1]
                                                  ELSE x.thread[r]
<1> DEFINE z == SetThread(x, s2, x.thread[s1])
           ln == [x.link EXCEPT ![s2] = x.link[s1], ![s1] = x.link[s2]]
           y == [z EXCEPT !.link = ln, !.list = lst]
<1>1. x.thread[s1] \in Seq(Ids) /\ x.link[s1] \in Subjects /\ x.link[s2] \in Subjects
      /\ x.link \in [Subjects -> Subjects]
  BY DEF State
<1>2. /\ z \in State /\ SameArticles(z, x)
      /\ z.kids = x.kids /\ z.link = x.link
      /\ \A r \in Subjects : z.thread[r] = IF r \in Orbit(x.link, s2) THEN x.thread[s1]
                                           ELSE x.thread[r]
  BY <1>1, SetThreadFields
<1> HIDE DEF z
<1>3. ln \in [Subjects -> Subjects]
  BY <1>1
<1>4. Tied(x, s1, s2, lst) = y
  BY <1>2 DEF Tied, z, State
<1> HIDE DEF ln
<1>5. /\ y \in State /\ SameArticles(y, z)
      /\ y.kids = z.kids /\ y.list = lst /\ y.link = ln /\ y.thread = z.thread
  BY <1>2, <1>3 DEF State, SameArticles
<1>6. SameArticles(y, x)
  BY <1>2, <1>5 DEF SameArticles
<1> QED
  BY <1>2, <1>4, <1>5, <1>6 DEF ln

\* merge_threads ties the rings and then links the second thread's top articles
\* one by one.
LEMMA MergeIsTied ==
  ASSUME NEW x \in State, NEW s1 \in Subjects, NEW s2 \in Subjects
  PROVE  \E lst \in {x.list, MoveAfter(x.list, s1, s2,
                        Orbit([x.link EXCEPT ![s2] = x.link[s1], ![s1] = x.link[s2]], s1))} :
           /\ mode # "thread" => lst = x.list
           /\ lst \in Seq(Subjects) =>
                MergeThreads(x, s1, s2) = FoldLeft(LinkChild, Tied(x, s1, s2, lst), x.thread[s2])
<1> DEFINE z == SetThread(x, s2, x.thread[s1])
           ln == [x.link EXCEPT ![s2] = x.link[s1], ![s1] = x.link[s2]]
           joined == [z EXCEPT !.link[s2] = x.link[s1], !.link[s1] = x.link[s2]]
           moved == MoveAfter(x.list, s1, s2, Orbit(ln, s1))
<1>1. x.thread[s1] \in Seq(Ids) /\ x.link[s1] \in Subjects /\ x.link[s2] \in Subjects
      /\ x.link \in [Subjects -> Subjects] /\ x.list \in Seq(Subjects)
  BY DEF State
<1>2. z \in State /\ z.link = x.link /\ z.list = x.list
  BY <1>1, SetThreadFields
<1>d. Tied(x, s1, s2, x.list) = [z EXCEPT !.link[s2] = x.link[s1],
                                         !.link[s1] = x.link[s2],
                                         !.list = x.list]
      /\ Tied(x, s1, s2, moved) = [z EXCEPT !.link[s2] = x.link[s1],
                                         !.link[s1] = x.link[s2],
                                         !.list = moved]
  BY DEF Tied
<1>m. MergeThreads(x, s1, s2) =
        FoldLeft(LinkChild,
                 IF mode = "thread"
                 THEN [joined EXCEPT !.list = MoveAfter(@, s1, s2, Ring(joined, s1))]
                 ELSE joined, x.thread[s2])
  BY DEF MergeThreads
<1> HIDE DEF z
<1>3. joined.link = ln /\ joined.list = x.list
  BY <1>2 DEF State
<1>4. Ring(joined, s1) = Orbit(ln, s1)
  BY <1>3, RingIsOrbit
<1> HIDE DEF ln
<1>5. CASE mode = "thread"
  <2>1. [joined EXCEPT !.list = MoveAfter(@, s1, s2, Ring(joined, s1))] = Tied(x, s1, s2, moved)
    BY <1>2, <1>3, <1>4, <1>d DEF State
  <2>2. MergeThreads(x, s1, s2) = FoldLeft(LinkChild, Tied(x, s1, s2, moved), x.thread[s2])
    BY <1>5, <1>m, <2>1
  <2> QED
    BY <1>5, <2>2 DEF ln
<1>6. CASE mode # "thread"
  <2>1. joined = Tied(x, s1, s2, x.list)
    BY <1>2, <1>3, <1>d DEF State
  <2>2. MergeThreads(x, s1, s2) = FoldLeft(LinkChild, Tied(x, s1, s2, x.list), x.thread[s2])
    BY <1>6, <1>m, <2>1
  <2> QED
    BY <1>6, <2>2 DEF ln
<1> QED
  BY <1>5, <1>6

\* y is x with the threads of two subjects made one.
Merged(y, x, s1, s2) ==
    /\ y \in State /\ SameArticles(y, x)
    /\ Permutes(y.link)
    /\ y.link = [x.link EXCEPT ![s2] = x.link[s1], ![s1] = x.link[s2]]
    /\ IsInjective(y.list) /\ Range(y.list) = Range(x.list)
    /\ mode # "thread" => y.list = x.list

\* After merge_threads every sibling of both threads is in the list of the one
\* thread, once.
LEMMA MergeHung ==
  ASSUME IsFiniteSet(Subjects), None \notin Ids, NEW x \in State, NEW X, NEW home,
         Hung(x, X, home), IsInjective(x.list),
         NEW s1 \in Range(x.list), NEW s2 \in Range(x.list), s2 \notin Orbit(x.link, s1),
         \A m \in Range(x.thread[s2]) :
            x.subj[m] \in Orbit(x.link, s1) \cup Orbit(x.link, s2)
  PROVE  /\ Merged(MergeThreads(x, s1, s2), x, s1, s2)
         /\ Hung(MergeThreads(x, s1, s2), X, home)
<1>t. /\ x.parent \in [Ids -> Ids \cup {None}] /\ x.link \in [Subjects -> Subjects]
      /\ x.kids \in [Ids -> Seq(Ids)] /\ x.thread \in [Subjects -> Seq(Ids)]
      /\ x.list \in Seq(Subjects)
  BY DEF State
<1>1. s1 \in Subjects /\ s2 \in Subjects
  BY <1>t DEF Range
<1>2. Permutes(x.link)
  BY DEF Hung
<1> DEFINE ln == [x.link EXCEPT ![s2] = x.link[s1], ![s1] = x.link[s2]]
           R1 == Orbit(x.link, s1)
           R2 == Orbit(x.link, s2)
           moved == x.thread[s2]
           M == Range(moved)
<1>3. /\ Permutes(ln)
      /\ \A s \in Subjects : Orbit(ln, s) = IF s \in R1 \cup R2 THEN R1 \cup R2
                                            ELSE Orbit(x.link, s)
  <2>1. ln = [x.link EXCEPT ![s2] = x.link[s1], ![s1] = x.link[s2]]
    OBVIOUS
  <2> HIDE DEF ln
  <2>2. /\ Permutes(ln)
        /\ \A s \in R1 \cup R2 : Orbit(ln, s) = R1 \cup R2
        /\ \A s \in Subjects \ (R1 \cup R2) : Orbit(ln, s) = Orbit(x.link, s)
    BY <1>1, <1>2, <2>1, SwapJoins
  <2> HIDE DEF R1, R2
  <2> QED
    BY <2>2
<1>4. /\ s1 \in R1 /\ s2 \in R2 /\ R1 \subseteq Subjects /\ R2 \subseteq Subjects
  BY <1>1, <1>2, OrbitFacts
<1>5. R1 \cap R2 = {}
  BY <1>1, <1>2, <1>4, OrbitsApart
<1>6. s2 \in Orbit(ln, s1)
  BY <1>1, <1>3, <1>4
<1>7. MoveAfter(x.list, s1, s2, Orbit(ln, s1)) \in Seq(Subjects)
      /\ IsInjective(MoveAfter(x.list, s1, s2, Orbit(ln, s1)))
      /\ Range(MoveAfter(x.list, s1, s2, Orbit(ln, s1))) = Range(x.list)
  BY <1>t, <1>6, MoveAfterFacts
<1>8. PICK lst : /\ lst \in Seq(Subjects)
                 /\ IsInjective(lst) /\ Range(lst) = Range(x.list)
                 /\ mode # "thread" => lst = x.list
                 /\ MergeThreads(x, s1, s2) =
                       FoldLeft(LinkChild, Tied(x, s1, s2, lst), moved)
  <2>1. PICK lst \in {x.list, MoveAfter(x.list, s1, s2, Orbit(ln, s1))} :
           /\ mode # "thread" => lst = x.list
           /\ lst \in Seq(Subjects) =>
                MergeThreads(x, s1, s2) = FoldLeft(LinkChild, Tied(x, s1, s2, lst), moved)
    BY <1>1, MergeIsTied
  <2>2. lst \in Seq(Subjects) /\ IsInjective(lst) /\ Range(lst) = Range(x.list)
    BY <1>t, <1>7, <2>1
  <2> HIDE DEF ln, moved
  <2> QED
    BY <2>1, <2>2
<1> DEFINE y == Tied(x, s1, s2, lst)
<1>9. /\ y \in State /\ SameArticles(y, x)
      /\ y.kids = x.kids /\ y.list = lst /\ y.link = ln
      /\ \A r \in Subjects : y.thread[r] = IF r \in R2 THEN x.thread[s1] ELSE x.thread[r]
  <2>1. lst \in Seq(Subjects)
    BY <1>8
  <2> QED
    BY <1>1, <2>1, TiedFields
<1> HIDE DEF y, ln
<1>10. y.parent = x.parent /\ y.subj = x.subj
  BY <1>9 DEF SameArticles
<1>11. /\ moved \in Seq(Ids) /\ IsInjective(moved)
       /\ M = {m \in X : x.parent[m] = None /\ home[m] \in R2}
       /\ IsInjective(x.thread[s1])
       /\ Range(x.thread[s1]) = {m \in X : x.parent[m] = None /\ home[m] \in R1}
  BY <1>1, <1>t DEF Hung
<1>12. /\ X \subseteq Ids /\ \A m \in X : x.parent[m] = None => home[m] \in Subjects
       /\ \A p \in Ids : /\ IsInjective(x.kids[p])
                         /\ Range(x.kids[p]) = {m \in X : x.parent[m] = p}
  BY DEF Hung
<1>o. \A s \in Subjects : s \notin R1 \cup R2 => Orbit(x.link, s) \cap (R1 \cup R2) = {}
  BY <1>1, <1>2, <1>4, OrbitsApart, OrbitFacts
<1> HIDE DEF R1, R2, M, moved
<1>13. Hung(y, X \ M, home)
  <2>1. ASSUME NEW p \in Ids
        PROVE  IsInjective(y.kids[p]) /\ Range(y.kids[p]) = {m \in X \ M : y.parent[m] = p}
    BY <1>9, <1>10, <1>11, <1>12
  <2>2. ASSUME NEW s \in Subjects
        PROVE  /\ IsInjective(y.thread[s])
               /\ Range(y.thread[s]) =
                    {m \in X \ M : y.parent[m] = None /\ home[m] \in Orbit(y.link, s)}
    <3>1. CASE s \in R1 \cup R2
      <4>1. y.thread[s] = x.thread[s1]
        <5>1. s \in R1 => x.thread[s] = x.thread[s1]
          BY <1>1 DEF Hung, R1
        <5> QED
          BY <1>5, <1>9, <3>1, <5>1
      <4>2. Orbit(y.link, s) = R1 \cup R2
        BY <1>3, <1>9, <3>1
      <4> QED
        BY <1>5, <1>10, <1>11, <4>1, <4>2
    <3>2. CASE s \notin R1 \cup R2
      <4>1. y.thread[s] = x.thread[s] /\ Orbit(y.link, s) = Orbit(x.link, s)
        BY <1>3, <1>9, <3>2
      <4>2. Orbit(x.link, s) \cap R2 = {}
        BY <1>o, <3>2
      <4>3. /\ IsInjective(x.thread[s])
            /\ Range(x.thread[s]) = {m \in X : x.parent[m] = None /\ home[m] \in Orbit(x.link, s)}
        BY DEF Hung
      <4> QED
        BY <1>10, <1>11, <4>1, <4>2, <4>3
    <3> QED
      BY <3>1, <3>2
  <2>3. ASSUME NEW s \in Subjects, NEW r \in Orbit(y.link, s)
        PROVE  y.thread[r] = y.thread[s]
    <3>1. CASE s \in R1 \cup R2
      <4>1. r \in R1 \cup R2
        BY <1>3, <1>9, <2>3, <3>1
      <4>2. \A q \in R1 : x.thread[q] = x.thread[s1]
        BY <1>1 DEF Hung, R1
      <4> QED
        BY <1>4, <1>5, <1>9, <3>1, <4>1, <4>2
    <3>2. CASE s \notin R1 \cup R2
      <4>1. r \in Orbit(x.link, s) /\ r \notin R1 \cup R2
        BY <1>3, <1>9, <1>o, <2>3, <3>2
      <4>2. r \in Subjects
        BY <1>2, <4>1, OrbitFacts
      <4>3. x.thread[r] = x.thread[s]
        BY <4>1 DEF Hung
      <4> QED
        BY <1>9, <3>2, <4>1, <4>2, <4>3
    <3> QED
      BY <3>1, <3>2
  <2> QED
    BY <1>3, <1>9, <1>10, <1>12, <2>1, <2>2, <2>3 DEF Hung
<1>14. PICK g : /\ g[0] = y
                /\ \A i \in 1 .. Len(moved) : g[i] = LinkChild(g[i - 1], moved[i])
                /\ FoldLeft(LinkChild, y, moved) = g[Len(moved)]
  BY <1>11, LinkFold
<1>15. Len(moved) \in Nat /\ DOMAIN moved = 1 .. Len(moved)
       /\ \A i \in 1 .. Len(moved) : moved[i] \in Ids /\ moved[i] \in M
  BY <1>11 DEF M, Range
<1> DEFINE Upto(i) == (X \ M) \cup {moved[j] : j \in 1 .. i}
           Done == {i \in 0 .. Len(moved) :
                      OtherLists(g[i], y) /\ Hung(g[i], Upto(i), home)}
<1>16. 0 \in Done
  <2>1. Upto(0) = X \ M
    OBVIOUS
  <2>2. OtherLists(g[0], y) /\ Hung(g[0], Upto(0), home)
    <3> HIDE DEF Upto
    <3> QED
      BY <1>9, <1>13, <1>14, <2>1 DEF OtherLists, SameArticles
  <2> HIDE DEF Upto
  <2> QED
    BY <1>15, <2>2
<1>17. ASSUME NEW i \in 1 .. Len(moved), i - 1 \in Done
       PROVE  i \in Done
  <2> DEFINE m == moved[i]
             z == g[i - 1]
  <2>1. OtherLists(z, y) /\ Hung(z, Upto(i - 1), home)
    BY <1>17
  <2>2. z \in State /\ SameArticles(z, y) /\ z.link = y.link /\ z.list = y.list
    BY <2>1 DEF OtherLists
  <2>3. z.parent = x.parent /\ z.subj = x.subj
    BY <1>10, <2>2 DEF SameArticles
  <2>4. m \in Ids /\ m \in M /\ x.parent[m] = None /\ home[m] \in R2
    BY <1>11, <1>15
  <2>5. m \notin Upto(i - 1)
    <3>1. \A j \in 1 .. i - 1 : moved[j] # moved[i]
      BY <1>11, <1>15 DEF IsInjective
    <3> QED
      BY <2>4, <3>1
  <2>6. x.subj[m] \in R1 \cup R2
    BY <2>4 DEF R1, R2, M, moved
  <2>7. x.subj[m] \in Subjects /\ home[m] \in Orbit(z.link, x.subj[m])
    BY <1>3, <1>4, <1>9, <2>2, <2>4, <2>6
  <2>8. Upto(i) = Upto(i - 1) \cup {m}
    BY <1>15
  <2> HIDE DEF Upto, m, z
  <2>9. /\ OtherLists(LinkChild(z, m), z)
        /\ Hung(LinkChild(z, m), Upto(i - 1) \cup {m}, home)
    BY <2>1, <2>2, <2>3, <2>4, <2>5, <2>7, LinkHung
  <2>10. g[i] = LinkChild(z, m)
    BY <1>14 DEF m, z
  <2>11. OtherLists(g[i], y) /\ Hung(g[i], Upto(i), home)
    BY <2>2, <2>8, <2>9, <2>10 DEF OtherLists, SameArticles
  <2> QED
    BY <2>11
<1>18. Len(moved) \in Done
  <2> HIDE DEF Done
  <2> QED
    BY <1>15, <1>16, <1>17, UpTo
<1>19. Upto(Len(moved)) = X
  <2>1. {moved[j] : j \in 1 .. Len(moved)} = M
    BY <1>15 DEF M, Range
  <2> QED
    BY <1>11, <2>1
<1>20. OtherLists(g[Len(moved)], y) /\ Hung(g[Len(moved)], X, home)
  <2> HIDE DEF Upto
  <2> QED
    BY <1>18, <1>19
<1>21. MergeThreads(x, s1, s2) = g[Len(moved)]
  BY <1>8, <1>14 DEF y, moved
<1>22. Merged(g[Len(moved)], x, s1, s2)
  BY <1>3, <1>8, <1>9, <1>20 DEF OtherLists, SameArticles, Merged, ln
<1> QED
  BY <1>20, <1>21, <1>22

-----------------------------------------------------------------------------
(* What a whole group of threads is                                        *)

\* The articles that are in a thread: those with a subject.
PlacedIn(x) == {a \in Ids : x.subj[a] # None}

\* Every set of articles has one whose parent is not in it.
Acyclic(x) == \A S \in SUBSET Ids : S # {} => \E a \in S : x.parent[a] \notin S

\* An article that was given up.
Bare(x) == \A a \in Ids : x.subj[a] = None =>
              x.parent[a] = None /\ x.date[a] = 0 /\ x.held[a] # "real"

\* An article and its parent are in one thread.
Kin(x, a) == x.parent[a] # None =>
    /\ x.subj[a] \in Subjects /\ x.subj[x.parent[a]] \in Subjects
    /\ x.subj[x.parent[a]] \in Orbit(x.link, x.subj[a])

\* The subjects somebody has are in the list, the others in no ring.
Listed(x) ==
    /\ IsInjective(x.list)
    /\ \A a \in Ids : x.subj[a] # None => x.subj[a] \in Range(x.list)
    /\ \A p \in DOMAIN x.short : x.short[p] # None => x.short[p] \in Range(x.list)
    /\ \A s \in Subjects \ Range(x.list) : x.link[s] = s

\* Everything but the place of m: m is in no list when m is not in X.
Sound(x, X) ==
    /\ x \in State
    /\ Hung(x, X, x.subj)
    /\ Acyclic(x) /\ Bare(x) /\ \A a \in Ids : Kin(x, a)
    /\ Listed(x)

\* Every article with a subject has its place.
Whole(x) == Sound(x, PlacedIn(x))

\* y is x with other lists of siblings and perhaps some threads made one.
Joins(y, x) ==
    /\ y \in State /\ SameArticles(y, x)
    /\ Permutes(x.link) /\ Permutes(y.link)
    /\ \A s \in Subjects : Orbit(x.link, s) \subseteq Orbit(y.link, s)
    /\ IsInjective(y.list) /\ Range(y.list) = Range(x.list)
    /\ mode # "thread" => y.list = x.list
    /\ \A s \in Subjects \ Range(x.list) : y.link[s] = x.link[s]

\* Other lists of siblings join nothing.
LEMMA OtherListsJoin ==
  ASSUME NEW x, NEW y, OtherLists(y, x), Permutes(x.link), IsInjective(x.list)
  PROVE  Joins(y, x)
BY DEF OtherLists, Joins

\* What joins rings twice joins them.
LEMMA JoinsTrans ==
  ASSUME NEW x, NEW y, NEW z, Joins(z, y), Joins(y, x)
  PROVE  Joins(z, x)
<1>1. \A s \in Subjects \ Range(x.list) : z.link[s] = x.link[s]
  BY DEF Joins
<1> QED
  BY <1>1 DEF Joins, SameArticles

\* merge_threads joins the two rings.
LEMMA MergedJoins ==
  ASSUME IsFiniteSet(Subjects), NEW x \in State, NEW y, Permutes(x.link),
         NEW s1 \in Range(x.list), NEW s2 \in Range(x.list), s2 \notin Orbit(x.link, s1),
         Merged(y, x, s1, s2)
  PROVE  Joins(y, x) /\ s2 \in Orbit(y.link, s1)
<1>1. s1 \in Subjects /\ s2 \in Subjects /\ x.link \in [Subjects -> Subjects]
  <2>1. x.list \in Seq(Subjects)
    BY DEF State
  <2> QED
    BY <2>1 DEF State, Range
<1>2. y.link = [x.link EXCEPT ![s2] = x.link[s1], ![s1] = x.link[s2]]
  BY DEF Merged
<1>3. /\ Permutes(y.link)
      /\ \A s \in Orbit(x.link, s1) \cup Orbit(x.link, s2) :
            Orbit(y.link, s) = Orbit(x.link, s1) \cup Orbit(x.link, s2)
      /\ \A s \in Subjects \ (Orbit(x.link, s1) \cup Orbit(x.link, s2)) :
            Orbit(y.link, s) = Orbit(x.link, s)
  BY <1>1, <1>2, SwapJoins
<1>4. s1 \in Orbit(x.link, s1) /\ s2 \in Orbit(x.link, s2)
  BY <1>1, OrbitFacts
<1>5. s2 \in Orbit(y.link, s1)
  BY <1>3, <1>4
<1>6. ASSUME NEW s \in Subjects
      PROVE  Orbit(x.link, s) \subseteq Orbit(y.link, s)
  <2>1. CASE s \in Orbit(x.link, s1)
    <3>1. Orbit(x.link, s) = Orbit(x.link, s1)
      BY <1>1, <2>1, OrbitClass
    <3> QED
      BY <1>3, <2>1, <3>1
  <2>2. CASE s \in Orbit(x.link, s2)
    <3>1. Orbit(x.link, s) = Orbit(x.link, s2)
      BY <1>1, <2>2, OrbitClass
    <3> QED
      BY <1>3, <2>2, <3>1
  <2>3. CASE s \notin Orbit(x.link, s1) \cup Orbit(x.link, s2)
    BY <1>3, <2>3
  <2> QED
    BY <2>1, <2>2, <2>3
<1>7. \A s \in Subjects \ Range(x.list) : y.link[s] = x.link[s]
  BY <1>1, <1>2
<1> QED
  BY <1>3, <1>5, <1>6, <1>7 DEF Joins, Merged

\* Joining the threads of two subjects, at least one of which has an article.
LEMMA JoinHung ==
  ASSUME IsFiniteSet(Subjects), None \notin Ids, NEW x \in State, NEW X, NEW home,
         Hung(x, X, home), IsInjective(x.list),
         NEW s1 \in Range(x.list), NEW s2 \in Range(x.list),
         s2 \notin Orbit(x.link, s1) =>
           \A m \in Range(x.thread[s2]) :
              x.subj[m] \in Orbit(x.link, s1) \cup Orbit(x.link, s2),
         NEW y, y = JoinThreads(x, s1, s2)
  PROVE  /\ Joins(y, x)
         /\ Hung(y, X, home)
         /\ x.thread[s1] # <<>> \/ x.thread[s2] # <<>> => s2 \in Orbit(y.link, s1)
<1>1. Permutes(x.link)
  BY DEF Hung
<1>2. s1 \in Subjects /\ s2 \in Subjects
  <2>1. x.list \in Seq(Subjects)
    BY DEF State
  <2> QED
    BY <2>1 DEF Range
<1>3. CASE s2 \in Orbit(x.link, s1)
  <2>1. x.thread[s2] = x.thread[s1]
    BY <1>2, <1>3 DEF Hung
  <2>2. y = x
    BY <2>1 DEF JoinThreads
  <2>3. Joins(x, x)
    BY <1>1 DEF Joins, SameArticles
  <2> QED
    BY <1>3, <2>2, <2>3
<1>4. CASE s2 \notin Orbit(x.link, s1) /\ x.thread[s1] # x.thread[s2]
  <2>1. y = MergeThreads(x, s1, s2)
    BY <1>4 DEF JoinThreads
  <2>2. Merged(y, x, s1, s2) /\ Hung(y, X, home)
    BY <1>4, <2>1, MergeHung
  <2>3. Joins(y, x) /\ s2 \in Orbit(y.link, s1)
    BY <1>1, <1>4, <2>2, MergedJoins
  <2> QED
    BY <2>2, <2>3
<1>5. CASE s2 \notin Orbit(x.link, s1) /\ x.thread[s1] = x.thread[s2]
  <2>1. y = x
    BY <1>5 DEF JoinThreads
  <2>2. Joins(x, x)
    BY <1>1 DEF Joins, SameArticles
  <2>3. x.thread[s1] = <<>>
    <3>1. Range(x.thread[s1]) = {m \in X : x.parent[m] = None /\ home[m] \in Orbit(x.link, s1)}
      BY <1>2 DEF Hung
    <3>2. Range(x.thread[s2]) = {m \in X : x.parent[m] = None /\ home[m] \in Orbit(x.link, s2)}
      BY <1>2 DEF Hung
    <3>3. Orbit(x.link, s1) \cap Orbit(x.link, s2) = {}
      <4>1. s2 \in Orbit(x.link, s2)
        BY <1>1, <1>2, OrbitFacts
      <4> QED
        BY <1>1, <1>2, <1>5, <4>1, OrbitsApart
    <3>4. Range(x.thread[s1]) = {}
      BY <1>5, <3>1, <3>2, <3>3
    <3>5. x.thread[s1] \in Seq(Ids)
      BY <1>2 DEF State
    <3> QED
      BY <3>4, <3>5, EmptyRange
  <2> QED
    BY <1>5, <2>1, <2>2, <2>3
<1> QED
  BY <1>3, <1>4, <1>5

\* Joining rings leaves everything right but the lists of siblings, which have
\* to be shown.
LEMMA JoinsSound ==
  ASSUME NEW x, NEW y, NEW X, Sound(x, X), Joins(y, x), NEW Y, Hung(y, Y, y.subj)
  PROVE  Sound(y, Y)
<1>1. /\ y \in State /\ x \in State /\ SameArticles(y, x)
      /\ \A s \in Subjects : Orbit(x.link, s) \subseteq Orbit(y.link, s)
  BY DEF Joins, Sound
<1>2. /\ y.held = x.held /\ y.parent = x.parent /\ y.subj = x.subj
      /\ y.date = x.date /\ y.short = x.short
  BY <1>1 DEF SameArticles
<1>3. Acyclic(y) /\ Bare(y)
  BY <1>2 DEF Sound, Acyclic, Bare
<1>4. \A a \in Ids : Kin(y, a)
  BY <1>1, <1>2 DEF Sound, Kin
<1>5. Listed(y)
  BY <1>2 DEF Sound, Listed, Joins
<1> QED
  BY <1>1, <1>3, <1>4, <1>5 DEF Sound

\* The top of every article's line of ancestors stands in the thread of its
\* subject.
LEMMA ThreadNotEmpty ==
  ASSUME IsFiniteSet(Subjects), None \notin Ids, NEW x, NEW X, NEW home,
         x \in State, Hung(x, X, home), Acyclic(x),
         NEW T \in SUBSET X,
         \A a \in T : x.parent[a] # None => x.parent[a] \in T,
         NEW s \in Subjects, \A a \in T : x.parent[a] = None => home[a] \in Orbit(x.link, s),
         T # {}
  PROVE  x.thread[s] # <<>>
<1>1. T \in SUBSET Ids
  BY DEF Hung
<1>2. PICK a \in T : x.parent[a] \notin T
  BY <1>1 DEF Acyclic
<1>3. x.parent[a] = None
  BY <1>2
<1>4. a \in Range(x.thread[s])
  BY <1>2, <1>3 DEF Hung
<1> QED
  BY <1>4 DEF Range

-----------------------------------------------------------------------------
(* Ancestors                                                               *)

\* Ancestors goes from parent to parent.
LEMMA AncestorFacts ==
  ASSUME IsFiniteSet(Ids), None \notin Ids, NEW x, x.parent \in [Ids -> Ids \cup {None}],
         NEW m \in Ids, NEW up, up = Ancestors(x, m), NEW N, N = Cardinality(Ids)
  PROVE  /\ N \in Nat /\ up \in [1 .. N -> Ids \cup {None}]
         /\ \A k \in 1 .. N :
               up[k] = IF k = 1 THEN x.parent[m]
                       ELSE IF up[k - 1] = None THEN None ELSE x.parent[up[k - 1]]
<1> DEFINE D == Ids \cup {None}
           f == [a \in D |-> IF a = None THEN None ELSE x.parent[a]]
           at == CHOOSE at : at = [k \in 1 .. N |->
                    LET below == IF k = 1 THEN m ELSE at[k - 1]
                    IN  IF below = None THEN None ELSE x.parent[below]]
<1>1. N \in Nat
  BY FS_CardinalityType
<1>2. up = at
  BY DEF Ancestors
<1>3. f \in [D -> D] /\ m \in D /\ f[m] = x.parent[m] /\ f[m] \in D
  OBVIOUS
<1> HIDE DEF at
<1>4. PICK g : Iterates(g, D, f, f[m], N)
  <2> HIDE DEF D, f
  <2> QED
    BY <1>1, <1>3, IterateExists
<1>5. /\ g \in [1 .. N -> D]
      /\ \A k \in 1 .. N : g[k] = IF k = 1 THEN f[m] ELSE f[g[k - 1]]
  BY <1>4 DEF Iterates
<1>6. g = [k \in 1 .. N |-> LET below == IF k = 1 THEN m ELSE g[k - 1]
                            IN  IF below = None THEN None ELSE x.parent[below]]
  <2>1. ASSUME NEW k \in 1 .. N
        PROVE  g[k] = LET below == IF k = 1 THEN m ELSE g[k - 1]
                      IN  IF below = None THEN None ELSE x.parent[below]
    <3>1. CASE k = 1
      BY <1>3, <1>5, <3>1
    <3>2. CASE k # 1
      <4>1. k - 1 \in 1 .. N /\ g[k - 1] \in D
        BY <1>1, <1>5, <3>2
      <4> QED
        BY <1>5, <3>2, <4>1
    <3> QED
      BY <3>1, <3>2
  <2> QED
    BY <1>5, <2>1
<1>7. at = [k \in 1 .. N |-> LET below == IF k = 1 THEN m ELSE at[k - 1]
                             IN  IF below = None THEN None ELSE x.parent[below]]
  BY <1>6 DEF at
<1>8. \A k \in 1 .. N : at[k] = IF k = 1 THEN x.parent[m]
                                ELSE IF at[k - 1] = None THEN None ELSE x.parent[at[k - 1]]
  <2>1. ASSUME NEW k \in 1 .. N
        PROVE  at[k] = IF k = 1 THEN x.parent[m]
                       ELSE IF at[k - 1] = None THEN None ELSE x.parent[at[k - 1]]
    <3>1. at[k] = LET below == IF k = 1 THEN m ELSE at[k - 1]
                  IN  IF below = None THEN None ELSE x.parent[below]
      BY <1>7
    <3> QED
      BY <3>1
  <2> QED
    BY <2>1
<1> DEFINE In == {k \in 0 .. N : k = 0 \/ at[k] \in D}
<1>9. 0 \in In
  BY <1>1
<1>10. ASSUME NEW k \in 1 .. N, k - 1 \in In PROVE k \in In
  BY <1>8, <1>10
<1>11. \A k \in 0 .. N : k \in In
  <2> HIDE DEF In
  <2> QED
    BY <1>1, <1>9, <1>10, UpTo
<1>12. \A k \in 1 .. N : at[k] \in D
  BY <1>11
<1>13. at \in [1 .. N -> D]
  BY <1>7, <1>12
<1> QED
  BY <1>1, <1>2, <1>8, <1>13

\* Where a way up that ends with c goes on.
Beyond(x, m, c) == IF Len(c) = 0 THEN x.parent[m] ELSE x.parent[c[Len(c)]]

\* c is a way up from m.
IsWayUp(x, m, c) ==
    \A i \in 1 .. Len(c) : c[i] = IF i = 1 THEN x.parent[m] ELSE x.parent[c[i - 1]]

\* ClimbWhile stays among the articles asked for and stops at the first other
\* one.
LEMMA ClimbFacts ==
  ASSUME IsFiniteSet(Ids), None \notin Ids, NEW x, x.parent \in [Ids -> Ids \cup {None}],
         NEW m \in Ids, NEW T \in SUBSET Ids, NEW c, c = ClimbWhile(x, m, T)
  PROVE  /\ c \in Seq(T) /\ Len(c) \in 0 .. Cardinality(Ids)
         /\ IsWayUp(x, m, c)
         /\ Len(c) < Cardinality(Ids) => Beyond(x, m, c) \notin T
<1> DEFINE up == Ancestors(x, m)
           N == Cardinality(Ids)
           ok == {k \in DOMAIN up : \A j \in 1 .. k : up[j] \in T}
           n == Cardinality(ok)
<1>1. /\ N \in Nat /\ up \in [1 .. N -> Ids \cup {None}]
      /\ \A k \in 1 .. N :
            up[k] = IF k = 1 THEN x.parent[m]
                    ELSE IF up[k - 1] = None THEN None ELSE x.parent[up[k - 1]]
  BY AncestorFacts
<1>2. c = SubSeq(up, 1, n)
  BY DEF ClimbWhile
<1> HIDE DEF up, N, n
<1>3. ok \in SUBSET (1 .. N) /\ \A i \in ok : \A j \in 1 .. i : j \in ok
  BY <1>1
<1>4. n \in 0 .. N /\ ok = 1 .. n
  <2> HIDE DEF ok
  <2> QED
    BY <1>1, <1>3, NatPrefix DEF n
<1>5. \A i \in 1 .. n : up[i] \in T
  BY <1>4
<1>6. n < N => up[n + 1] \notin T
  <2> SUFFICES ASSUME n < N, up[n + 1] \in T PROVE FALSE
    OBVIOUS
  <2>1. n + 1 \in 1 .. N /\ n + 1 \notin 1 .. n
    BY <1>1, <1>4
  <2>2. \A j \in 1 .. n + 1 : up[j] \in T
    BY <1>4, <1>5
  <2>3. n + 1 \in ok
    BY <1>1, <2>1, <2>2
  <2> QED
    BY <1>4, <2>1, <2>3
<1>7. /\ c \in Seq(T) /\ Len(c) = n
      /\ \A i \in 1 .. n : c[i] = up[i]
  <2>1. up \in Seq(Ids \cup {None}) /\ Len(up) = N
    BY <1>1
  <2>2. Len(c) = n /\ c \in Seq(Ids \cup {None}) /\ \A i \in 1 .. n : c[i] = up[i]
    BY <1>2, <1>4, <2>1
  <2>3. \A i \in 1 .. Len(c) : c[i] \in T
    BY <1>5, <2>2
  <2>4. c \in Seq(T)
    BY <2>2, <2>3
  <2> QED
    BY <2>2, <2>4
<1>8. ASSUME NEW i \in 1 .. n
      PROVE  c[i] = IF i = 1 THEN x.parent[m] ELSE x.parent[c[i - 1]]
  <2>1. CASE i = 1
    BY <1>1, <1>4, <1>7, <2>1
  <2>2. CASE i # 1
    <3>1. i - 1 \in 1 .. n /\ i \in 1 .. N /\ up[i - 1] # None
      BY <1>1, <1>4, <1>5, <2>2
    <3> QED
      BY <1>1, <1>7, <2>2, <3>1
  <2> QED
    BY <2>1, <2>2
<1>9. n < N => (IF n = 0 THEN x.parent[m] ELSE x.parent[c[n]]) \notin T
  <2> SUFFICES ASSUME n < N PROVE (IF n = 0 THEN x.parent[m] ELSE x.parent[c[n]]) \notin T
    OBVIOUS
  <2>1. n + 1 \in 1 .. N /\ (n + 1) - 1 = n /\ (n + 1 = 1 <=> n = 0)
    BY <1>1, <1>4
  <2>2. CASE n = 0
    BY <1>1, <1>6, <2>1, <2>2
  <2>3. CASE n # 0
    <3>1. n \in 1 .. n /\ up[n] # None /\ c[n] = up[n]
      BY <1>4, <1>5, <1>7, <2>3
    <3>2. up[n + 1] = x.parent[up[n]]
      BY <1>1, <2>1, <2>3, <3>1
    <3> QED
      BY <1>6, <2>3, <3>1, <3>2
  <2> QED
    BY <2>2, <2>3
<1> QED
  BY <1>4, <1>7, <1>8, <1>9 DEF N, IsWayUp, Beyond

\* No circle of parents that does not lead through m.
AcyclicBut(x, m) ==
    \A S \in SUBSET (Ids \ {m}) : S # {} => \E a \in S : x.parent[a] \notin S

\* Without a circle the way up meets no article twice.
LEMMA ClimbInjective ==
  ASSUME IsFiniteSet(Ids), None \notin Ids, NEW x, x.parent \in [Ids -> Ids \cup {None}],
         NEW m \in Ids, AcyclicBut(x, m), NEW T \in SUBSET (Ids \ {m}),
         NEW c, c = ClimbWhile(x, m, T)
  PROVE  IsInjective(c) /\ Len(c) < Cardinality(Ids)
<1>1. /\ c \in Seq(T) /\ Len(c) \in 0 .. Cardinality(Ids)
      /\ \A i \in 1 .. Len(c) : c[i] = IF i = 1 THEN x.parent[m] ELSE x.parent[c[i - 1]]
  <2>1. T \in SUBSET Ids
    OBVIOUS
  <2>2. c \in Seq(T) /\ Len(c) \in 0 .. Cardinality(Ids) /\ IsWayUp(x, m, c)
    BY <2>1, ClimbFacts
  <2> QED
    BY <2>2 DEF IsWayUp
<1>0. Cardinality(Ids) \in Nat
  BY FS_CardinalityType
<1>2. DOMAIN c = 1 .. Len(c) /\ Len(c) \in Nat /\ \A i \in 1 .. Len(c) : c[i] \in T
  BY <1>1
<1>3. ASSUME NEW i \in 1 .. Len(c), NEW j \in 1 .. Len(c), i < j, c[i] = c[j]
      PROVE  FALSE
  <2> DEFINE S == {c[k] : k \in i .. j - 1}
  <2>1. S \in SUBSET (Ids \ {m}) /\ c[i] \in S
    BY <1>2, <1>3
  <2>2. PICK a \in S : x.parent[a] \notin S
    BY <2>1 DEF AcyclicBut
  <2>3. PICK k \in i .. j - 1 : a = c[k]
    BY <2>2
  <2>4. k + 1 \in 1 .. Len(c) /\ k + 1 # 1 /\ (k + 1) - 1 = k
    BY <1>2, <1>3, <2>3
  <2>5. x.parent[a] = c[k + 1]
    BY <1>1, <2>3, <2>4
  <2>6. CASE k + 1 = j
    BY <1>3, <2>1, <2>2, <2>5, <2>6
  <2>7. CASE k + 1 # j
    <3>1. k + 1 \in i .. j - 1
      BY <2>3, <2>7
    <3>2. c[k + 1] \in S
      BY <3>1
    <3> QED
      BY <2>2, <2>5, <3>2
  <2> QED
    BY <2>6, <2>7
<1>4. \A i, j \in 1 .. Len(c) : c[i] = c[j] => i = j
  BY <1>2, <1>3
<1>5. IsInjective(c)
  BY <1>2, <1>4 DEF IsInjective
<1>6. Len(c) # Cardinality(Ids)
  <2> SUFFICES ASSUME Len(c) = Cardinality(Ids) PROVE FALSE
    OBVIOUS
  <2>1. IsFiniteSet(Ids \ {m}) /\ Cardinality(Ids \ {m}) = Cardinality(Ids) - 1
    BY FS_RemoveElement
  <2>2. IsFiniteSet(1 .. Len(c)) /\ Cardinality(1 .. Len(c)) = Len(c)
    BY <1>2, FS_Interval
  <2>3. c \in [1 .. Len(c) -> Ids \ {m}]
    BY <1>1, <1>2
  <2>4. Cardinality(Ids \ {m}) < Cardinality(1 .. Len(c))
    BY <1>2, <2>1, <2>2
  <2>5. \E i, j \in 1 .. Len(c) : i # j /\ c[i] = c[j]
    BY <2>1, <2>2, <2>3, <2>4, FS_PigeonHole
  <2> QED
    BY <1>4, <2>5
<1> QED
  BY <1>0, <1>1, <1>2, <1>5, <1>6

-----------------------------------------------------------------------------
(* Circles: the end of thread_article                                      *)

\* What is true of y after a step of threading m, for the articles besides m.
Onward(y, x, m) ==
    /\ y.articles = x.articles /\ y.sdate = x.sdate
    /\ y.short = x.short /\ y.hashed = x.hashed
    /\ Range(y.list) = Range(x.list)
    /\ mode # "thread" => y.list = x.list
    /\ \A s \in Subjects : Orbit(x.link, s) \subseteq Orbit(y.link, s)
    /\ \A a \in Ids :
          /\ y.held[a] = "real" <=> x.held[a] = "real"
          /\ x.held[a] = "real" => y.subj[a] = x.subj[a] /\ y.date[a] = x.date[a]
          /\ x.held[a] = "real" /\ a # m => y.parent[a] \in {x.parent[a], None}

\* Two steps on are a step on.
LEMMA OnwardTrans ==
  ASSUME NEW x, NEW y, NEW z, NEW m, Onward(z, y, m), Onward(y, x, m)
  PROVE  Onward(z, x, m)
<1>1. ASSUME NEW a \in Ids
      PROVE  /\ z.held[a] = "real" <=> x.held[a] = "real"
             /\ x.held[a] = "real" => z.subj[a] = x.subj[a] /\ z.date[a] = x.date[a]
             /\ x.held[a] = "real" /\ a # m => z.parent[a] \in {x.parent[a], None}
  BY DEF Onward
<1>2. \A s \in Subjects : Orbit(x.link, s) \subseteq Orbit(z.link, s)
  BY DEF Onward
<1> QED
  BY <1>1, <1>2 DEF Onward

\* Joining rings is a step on: nobody gets another parent.
LEMMA JoinsOnward ==
  ASSUME NEW x, NEW y, NEW m, Joins(y, x)
  PROVE  Onward(y, x, m)
BY DEF Joins, SameArticles, Onward

\* Sound but for a circle through m.
SoundBut(x, X, m) ==
    /\ x \in State
    /\ Hung(x, X, x.subj)
    /\ AcyclicBut(x, m) /\ Bare(x) /\ \A a \in Ids : Kin(x, a)
    /\ Listed(x)

\* The child of m that its way up leads to is the first article a way up
\* leads to that is below m.
LEMMA CircleChild ==
  ASSUME IsFiniteSet(Ids), None \notin Ids, NEW x, x.parent \in [Ids -> Ids \cup {None}],
         NEW m \in Ids, AcyclicBut(x, m),
         NEW S \in SUBSET Ids, S # {}, \A a \in S : x.parent[a] \in S,
         NEW up, up = Ancestors(x, m)
  PROVE  /\ m \in S
         /\ \A k \in DOMAIN up : up[k] \in S
         /\ \E k \in DOMAIN up : up[k] # None /\ x.parent[up[k]] = m
<1> DEFINE N == Cardinality(Ids)
<1>1. /\ N \in Nat /\ up \in [1 .. N -> Ids \cup {None}]
      /\ \A k \in 1 .. N :
            up[k] = IF k = 1 THEN x.parent[m]
                    ELSE IF up[k - 1] = None THEN None ELSE x.parent[up[k - 1]]
  BY AncestorFacts
<1> HIDE DEF N
<1>2. m \in S
  <2> SUFFICES ASSUME m \notin S PROVE FALSE
    OBVIOUS
  <2>1. S \in SUBSET (Ids \ {m})
    OBVIOUS
  <2> QED
    BY <2>1 DEF AcyclicBut
<1>3. \A k \in 0 .. N : k \in {i \in 0 .. N : i = 0 \/ up[i] \in S}
  <2> DEFINE In == {i \in 0 .. N : i = 0 \/ up[i] \in S}
  <2>1. 0 \in In
    BY <1>1
  <2>2. ASSUME NEW k \in 1 .. N, k - 1 \in In PROVE k \in In
    <3>1. CASE k = 1
      BY <1>1, <1>2, <3>1
    <3>2. CASE k # 1
      <4>1. up[k - 1] \in S /\ k - 1 \in 1 .. N
        BY <1>1, <2>2, <3>2
      <4>2. up[k] = x.parent[up[k - 1]]
        BY <1>1, <3>2, <4>1
      <4> QED
        BY <4>1, <4>2
    <3> QED
      BY <3>1, <3>2
  <2> HIDE DEF In
  <2>3. \A k \in 0 .. N : k \in In
    BY <1>1, <2>1, <2>2, UpTo
  <2> QED
    BY <2>3 DEF In
<1>4. \A k \in 1 .. N : up[k] \in S
  BY <1>3
<1>5. \E k \in DOMAIN up : up[k] # None /\ x.parent[up[k]] = m
  <2> SUFFICES ASSUME \A k \in 1 .. N : x.parent[up[k]] # m PROVE FALSE
    BY <1>1, <1>4
  <2>1. \A k \in 1 .. N : up[k] \in Ids \ {m}
    <3>1. ASSUME NEW k \in 1 .. N, up[k] = m PROVE FALSE
      <4>1. CASE k = 1
        BY <1>1, <3>1, <4>1
      <4>2. CASE k # 1
        <5>1. k - 1 \in 1 .. N /\ up[k - 1] # None
          BY <1>1, <1>4, <4>2
        <5> QED
          BY <1>1, <3>1, <4>2, <5>1
      <4> QED
        BY <4>1, <4>2
    <3> QED
      BY <1>4, <3>1
  <2>2. IsFiniteSet(Ids \ {m}) /\ Cardinality(Ids \ {m}) = N - 1
    BY FS_RemoveElement DEF N
  <2>3. IsFiniteSet(1 .. N) /\ Cardinality(1 .. N) = N
    BY <1>1, FS_Interval
  <2>4. Cardinality(Ids \ {m}) < Cardinality(1 .. N)
    BY <1>1, <2>2, <2>3
  <2>5. up \in [1 .. N -> Ids \ {m}]
    BY <1>1, <2>1
  <2>6. \E i, j \in 1 .. N : i # j /\ up[i] = up[j]
    <3> DEFINE A == 1 .. N
               B == Ids \ {m}
    <3> HIDE DEF A, B
    <3>1. IsFiniteSet(A) /\ IsFiniteSet(B) /\ Cardinality(B) < Cardinality(A) /\ up \in [A -> B]
      BY <2>2, <2>3, <2>4, <2>5 DEF A, B
    <3>2. \E i, j \in A : i # j /\ up[i] = up[j]
      BY <3>1, FS_PigeonHole
    <3> QED
      BY <3>2 DEF A
  <2>7. PICK i \in 1 .. N, j \in 1 .. N : i < j /\ up[i] = up[j]
    <3>1. PICK i \in 1 .. N, j \in 1 .. N : i # j /\ up[i] = up[j]
      BY <2>6
    <3>2. i < j \/ j < i
      BY <3>1
    <3> QED
      BY <3>1, <3>2
  <2> DEFINE U == {up[k] : k \in i .. j - 1}
  <2>8. U \in SUBSET (Ids \ {m}) /\ up[i] \in U
    <3>1. i \in i .. j - 1 /\ \A k \in i .. j - 1 : k \in 1 .. N
      BY <1>1, <2>7
    <3> QED
      BY <2>1, <3>1
  <2>9. PICK a \in U : x.parent[a] \notin U
    BY <2>8 DEF AcyclicBut
  <2>10. PICK k \in i .. j - 1 : a = up[k]
    BY <2>9
  <2>11. k \in 1 .. N /\ k + 1 \in 1 .. N /\ k + 1 # 1 /\ (k + 1) - 1 = k /\ up[k] # None
    BY <1>1, <2>1, <2>7, <2>10
  <2>12. x.parent[a] = up[k + 1]
    BY <1>1, <2>10, <2>11
  <2>13. CASE k + 1 = j
    BY <2>7, <2>8, <2>9, <2>12, <2>13
  <2>14. CASE k + 1 # j
    <3>1. k + 1 \in i .. j - 1
      BY <2>10, <2>14
    <3>2. up[k + 1] \in U
      BY <3>1
    <3> QED
      BY <2>9, <2>12, <3>2
  <2> QED
    BY <2>13, <2>14
<1> QED
  BY <1>1, <1>2, <1>4, <1>5

\* A new parent changes nothing else.
LEMMA SetParentFields ==
  ASSUME NEW x \in State, NEW m \in Ids, NEW p \in Ids \cup {None}
  PROVE  LET y == [x EXCEPT !.parent[m] = p]
         IN  /\ y \in State
             /\ y.held = x.held /\ y.kids = x.kids /\ y.subj = x.subj /\ y.date = x.date
             /\ y.list = x.list /\ y.link = x.link /\ y.thread = x.thread
             /\ y.articles = x.articles /\ y.sdate = x.sdate
             /\ y.short = x.short /\ y.hashed = x.hashed
             /\ \A a \in Ids : y.parent[a] = IF a = m THEN p ELSE x.parent[a]
BY DEF State

\* Cutting the child through which the article is its own ancestor leaves no
\* circle, and every article in a list (rt-process.cpp, end of thread_article).
LEMMA CutCircleSound ==
  ASSUME IsFiniteSet(Ids), IsFiniteSet(Subjects), None \notin Ids, NEW x, NEW m \in Ids,
         SoundBut(x, PlacedIn(x), m), NEW y, y = CutCircle(x, m)
  PROVE  Whole(y) /\ Onward(y, x, m)
<1> DEFINE up == Ancestors(x, m)
           N == Cardinality(Ids)
           at == {k \in DOMAIN up : up[k] # None /\ x.parent[up[k]] = m}
           k0 == CHOOSE k \in at : \A j \in at : k <= j
           child == up[k0]
<1>1. /\ x \in State /\ Hung(x, PlacedIn(x), x.subj) /\ AcyclicBut(x, m) /\ Bare(x)
      /\ \A a \in Ids : Kin(x, a)
      /\ Listed(x)
  BY DEF SoundBut
<1>t. /\ x.parent \in [Ids -> Ids \cup {None}]
      /\ x.subj \in [Ids -> Subjects \cup {None}]
  BY <1>1 DEF State
<1>2. N \in Nat /\ up \in [1 .. N -> Ids \cup {None}]
  BY <1>t, AncestorFacts
<1>3. CASE at = {}
  <2>1. y = x
    BY <1>3 DEF CutCircle
  <2>2. Acyclic(x)
    <3> SUFFICES ASSUME NEW S \in SUBSET Ids, S # {}, \A a \in S : x.parent[a] \in S
                 PROVE  FALSE
      BY DEF Acyclic
    <3>1. \E k \in DOMAIN up : up[k] # None /\ x.parent[up[k]] = m
      BY <1>1, <1>t, CircleChild
    <3> QED
      BY <1>3, <3>1
  <2>3. Onward(x, x, m)
    BY DEF Onward
  <2> QED
    BY <1>1, <2>1, <2>2, <2>3 DEF Whole, Sound
<1>4. CASE at # {}
  <2>1. k0 \in at
    <3>1. at \in SUBSET Nat
      BY <1>2
    <3> HIDE DEF at
    <3> QED
      BY <1>4, <3>1, LeastNat
  <2>2. /\ k0 \in 1 .. N /\ child \in Ids /\ x.parent[child] = m
    BY <1>2, <2>1
  <2> DEFINE z == UnlinkChild(x, child)
             w == [z EXCEPT !.parent[child] = None]
  <2>3. y = LinkChild(w, child)
    BY <1>4 DEF CutCircle
  <2> HIDE DEF child, k0, at, up
  <2>4. x.subj[child] \in Subjects
    BY <1>1, <2>2 DEF Kin
  <2>5. /\ OtherLists(z, x)
        /\ Hung(z, PlacedIn(x) \ {child}, x.subj)
    BY <1>1, <2>2, UnlinkHung
  <2>6. /\ z \in State /\ z.held = x.held /\ z.parent = x.parent /\ z.subj = x.subj
        /\ z.date = x.date /\ z.list = x.list /\ z.link = x.link
        /\ z.articles = x.articles /\ z.sdate = x.sdate
        /\ z.short = x.short /\ z.hashed = x.hashed
    BY <2>5 DEF OtherLists, SameArticles
  <2> HIDE DEF z
  <2>7. /\ w \in State
        /\ w.held = z.held /\ w.kids = z.kids /\ w.subj = z.subj /\ w.date = z.date
        /\ w.list = z.list /\ w.link = z.link /\ w.thread = z.thread
        /\ w.articles = z.articles /\ w.sdate = z.sdate
        /\ w.short = z.short /\ w.hashed = z.hashed
        /\ \A a \in Ids : w.parent[a] = IF a = child THEN None ELSE z.parent[a]
    BY <2>2, <2>6, SetParentFields
  <2> HIDE DEF w
  <2>l. Permutes(x.link)
    BY <1>1 DEF Hung
  <2>8. Hung(w, PlacedIn(x) \ {child}, x.subj)
    <3>1. \A a \in PlacedIn(x) \ {child} : w.parent[a] = z.parent[a]
      BY <2>7 DEF PlacedIn
    <3>2. \A a \in PlacedIn(x) \ {child} : x.subj[a] \in Subjects /\ x.subj[a] \in Orbit(z.link, x.subj[a])
      BY <1>t, <2>6, <2>l, OrbitFacts DEF PlacedIn
    <3> QED
      BY <2>5, <2>7, <3>1, <3>2, HungAlike
  <2>9. /\ OtherLists(y, w)
        /\ Hung(y, (PlacedIn(x) \ {child}) \cup {child}, x.subj)
    <3>1. w.subj[child] \in Subjects /\ x.subj[child] \in Orbit(w.link, w.subj[child])
      BY <2>4, <2>6, <2>7, <2>l, OrbitFacts
    <3>2. child \in Ids \ (PlacedIn(x) \ {child})
      BY <2>2
    <3> QED
      BY <2>3, <2>7, <2>8, <3>1, <3>2, LinkHung
  <2>10. /\ y \in State /\ y.held = x.held /\ y.subj = x.subj
         /\ y.date = x.date /\ y.list = x.list /\ y.link = x.link
         /\ y.articles = x.articles /\ y.sdate = x.sdate
         /\ y.short = x.short /\ y.hashed = x.hashed
         /\ \A a \in Ids : y.parent[a] = IF a = child THEN None ELSE x.parent[a]
    BY <2>6, <2>7, <2>9 DEF OtherLists, SameArticles
  <2>11. Hung(y, PlacedIn(y), y.subj)
    <3>1. (PlacedIn(x) \ {child}) \cup {child} = PlacedIn(y)
      BY <2>2, <2>4, <2>10, <1>1, <1>t DEF PlacedIn, Bare
    <3> QED
      BY <2>9, <2>10, <3>1
  <2>12. Acyclic(y)
    <3> SUFFICES ASSUME NEW S \in SUBSET Ids, S # {}, \A a \in S : y.parent[a] \in S
                 PROVE  FALSE
      BY DEF Acyclic
    <3>1. child \notin S
      BY <2>10
    <3>2. \A a \in S : x.parent[a] \in S
      BY <2>10, <3>1
    <3>3. \A k \in DOMAIN up : up[k] \in S
      BY <1>1, <1>t, <3>2, CircleChild DEF up
    <3> QED
      BY <1>2, <2>2, <3>1, <3>3 DEF child
  <2>13. Bare(y)
    BY <1>1, <2>10 DEF Bare
  <2>14. \A a \in Ids : Kin(y, a)
    BY <1>1, <2>10 DEF Kin
  <2>15. Listed(y)
    BY <1>1, <2>10 DEF Listed
  <2>16. Onward(y, x, m)
    BY <2>10 DEF Onward
  <2> QED
    BY <2>10, <2>11, <2>12, <2>13, <2>14, <2>15, <2>16 DEF Whole, Sound
<1> QED
  BY <1>3, <1>4

-----------------------------------------------------------------------------
(* References: the loop of thread_article                                  *)

\* y is x but for the parents and the lists of siblings.
OtherParents(y, x) ==
    /\ y \in State
    /\ y.held = x.held /\ y.subj = x.subj /\ y.date = x.date
    /\ y.list = x.list /\ y.link = x.link
    /\ y.articles = x.articles /\ y.sdate = x.sdate
    /\ y.short = x.short /\ y.hashed = x.hashed

\* An article that is in no list is put below another.
Below(x, m, p) == LinkChild([x EXCEPT !.parent[m] = p], m)

\* m has another parent, and nobody else.
HasParent(y, x, m, p) == \A a \in Ids : y.parent[a] = IF a = m THEN p ELSE x.parent[a]

\* An article that is put below another is among its children, and nobody else
\* moves.
LEMMA PutBelow ==
  ASSUME IsFiniteSet(Subjects), None \notin Ids, NEW x \in State, NEW X, Hung(x, X, x.subj),
         NEW m \in Ids \ X, NEW p \in Ids, NEW y, y = Below(x, m, p)
  PROVE  /\ OtherParents(y, x)
         /\ Hung(y, X \cup {m}, y.subj)
         /\ HasParent(y, x, m, p)
<1> DEFINE w == [x EXCEPT !.parent[m] = p]
<1>1. /\ w \in State
      /\ w.held = x.held /\ w.kids = x.kids /\ w.subj = x.subj /\ w.date = x.date
      /\ w.list = x.list /\ w.link = x.link /\ w.thread = x.thread
      /\ w.articles = x.articles /\ w.sdate = x.sdate
      /\ w.short = x.short /\ w.hashed = x.hashed
      /\ \A a \in Ids : w.parent[a] = IF a = m THEN p ELSE x.parent[a]
  BY SetParentFields
<1>2. y = LinkChild(w, m)
  BY DEF Below
<1> HIDE DEF w
<1>3. Hung(w, X, x.subj)
  <2>1. X \subseteq Ids /\ Permutes(x.link)
    BY DEF Hung
  <2>2. \A a \in X : w.parent[a] = x.parent[a]
    BY <1>1, <2>1
  <2>3. ASSUME NEW a \in X, x.parent[a] = None
        PROVE  x.subj[a] \in Subjects /\ x.subj[a] \in Orbit(x.link, x.subj[a])
    <3>1. x.subj[a] \in Subjects
      BY <2>3 DEF Hung
    <3> QED
      BY <2>1, <3>1, OrbitFacts
  <2> QED
    BY <1>1, <2>2, <2>3, HungAlike
<1>4. w.parent[m] # None
  BY <1>1
<1>5. OtherLists(y, w) /\ Hung(y, X \cup {m}, x.subj)
  BY <1>1, <1>2, <1>3, <1>4, LinkHung
<1> QED
  BY <1>1, <1>5 DEF OtherLists, SameArticles, OtherParents, HasParent

\* The fakes made for the references that are being looked at.
NewFakes(x) == {a \in Ids : x.subj[a] = None /\ x.date[a] # 0}

\* What thread_article starts from: m is in no list yet, or it is threaded
\* once more.
Start(x, m, again) ==
    /\ Sound(x, IF again THEN PlacedIn(x) ELSE PlacedIn(x) \ {m})
    /\ m \in PlacedIn(x) /\ x.date[m] # 0
    /\ again \in BOOLEAN
    /\ ~again => x.parent[m] = None

\* What the references leave alone.
Kept(x, x0, m) ==
    /\ x \in State
    /\ x.subj = x0.subj /\ x.list = x0.list /\ x.link = x0.link
    /\ x.articles = x0.articles /\ x.sdate = x0.sdate
    /\ x.short = x0.short /\ x.hashed = x0.hashed
    /\ \A a \in Ids : x.held[a] = "real" <=> x0.held[a] = "real"
    /\ \A a \in PlacedIn(x0) : /\ x.date[a] = x0.date[a]
                               /\ a # m => x.parent[a] = x0.parent[a]
    /\ \A a \in Ids \ PlacedIn(x0) : x.date[a] = 0 => x.parent[a] = None

\* Every new fake is above m.
AboveIt(x, m) ==
    \A T \in SUBSET Ids :
       m \in T /\ (\A a \in T : x.parent[a] \in NewFakes(x) => x.parent[a] \in T)
          => NewFakes(x) \subseteq T

\* No reference was of use yet.
Untouched(x, x0, m, again) ==
    /\ x.date = x0.date /\ x.parent = x0.parent
    /\ Hung(x, IF again THEN PlacedIn(x) ELSE PlacedIn(x) \ {m}, x.subj)

\* New fakes have been put above m, prev at the top.
Reaching(x, prev, m) ==
    /\ prev \in NewFakes(x) /\ x.parent[prev] = None
    /\ Hung(x, (PlacedIn(x) \cup NewFakes(x)) \ {prev}, x.subj)
    /\ \A a \in (NewFakes(x) \ {prev}) \cup {m} : x.parent[a] \in NewFakes(x)
    /\ Acyclic(x) /\ AboveIt(x, m)

\* The new fakes, or m itself, have been put below ap, which was in the tree.
Reached(x, ap, m) ==
    /\ ap \in PlacedIn(x) \ {m}
    /\ Hung(x, PlacedIn(x) \cup NewFakes(x), x.subj)
    /\ \A a \in NewFakes(x) \cup {m} : x.parent[a] \in NewFakes(x) \cup {ap}
    /\ AcyclicBut(x, m) /\ AboveIt(x, m)

\* What holds after any number of references: the article's way up is only as
\* far as they have been looked at, and the thread it will join is unchanged.
Referred(r, x0, m, again) ==
    /\ r = [x |-> r.x, prev |-> r.prev, ap |-> r.ap, found |-> r.found]
    /\ Kept(r.x, x0, m)
    /\ \/ /\ ~r.found /\ r.prev = m /\ r.ap = None
          /\ Untouched(r.x, x0, m, again)
       \/ /\ ~r.found /\ r.ap = r.prev
          /\ Reaching(r.x, r.prev, m)
       \/ /\ r.found = TRUE
          /\ Reached(r.x, r.ap, m)

\* Nobody in the tree is below a new fake.
LEMMA PlacedBelowPlaced ==
  ASSUME None \notin Subjects, NEW x0, NEW x, NEW m \in Ids, NEW again,
         Start(x0, m, again), Kept(x, x0, m)
  PROVE  /\ PlacedIn(x) = PlacedIn(x0) /\ m \in PlacedIn(x)
         /\ \A a \in PlacedIn(x) \ {m} : x.parent[a] = None \/ x.parent[a] \in PlacedIn(x)
         /\ \A a \in Ids \ (PlacedIn(x) \cup NewFakes(x)) : x.parent[a] = None /\ x.date[a] = 0
         /\ PlacedIn(x) \cap NewFakes(x) = {}
         /\ x.date[m] # 0
<1>1. x0 \in State /\ \A a \in Ids : Kin(x0, a)
  BY DEF Start, Sound
<1>2. x.subj = x0.subj /\ \A a \in PlacedIn(x0) : a # m => x.parent[a] = x0.parent[a]
  BY DEF Kept
<1>3. PlacedIn(x) = PlacedIn(x0)
  BY <1>2 DEF PlacedIn
<1>t. x0.parent \in [Ids -> Ids \cup {None}] /\ x0.subj \in [Ids -> Subjects \cup {None}]
  BY <1>1 DEF State
<1>4. ASSUME NEW a \in PlacedIn(x) \ {m}, x.parent[a] # None
      PROVE  x.parent[a] \in PlacedIn(x)
  <2>1. a \in Ids /\ x.parent[a] = x0.parent[a] /\ x.parent[a] \in Ids
    BY <1>2, <1>3, <1>4, <1>t DEF PlacedIn
  <2>2. x0.subj[x0.parent[a]] \in Orbit(x0.link, x0.subj[a]) /\ x0.subj[x0.parent[a]] \in Subjects
    BY <1>1, <1>4, <2>1 DEF Kin
  <2>3. x0.subj[x.parent[a]] # None
    BY <2>1, <2>2
  <2> QED
    BY <1>2, <2>1, <2>3 DEF PlacedIn
<1> QED
  BY <1>3, <1>4 DEF Kept, Start, NewFakes, PlacedIn

\* A fake article for an unknown reference changes nothing else.
LEMMA HeldFields ==
  ASSUME NEW x \in State, NEW ref \in Ids, NEW y,
         y = IF x.held[ref] = "none" THEN [x EXCEPT !.held[ref] = "fake"] ELSE x
  PROVE  /\ y \in State
         /\ y.parent = x.parent /\ y.kids = x.kids /\ y.subj = x.subj /\ y.date = x.date
         /\ y.list = x.list /\ y.link = x.link /\ y.thread = x.thread
         /\ y.articles = x.articles /\ y.sdate = x.sdate
         /\ y.short = x.short /\ y.hashed = x.hashed
         /\ \A a \in Ids : y.held[a] = "real" <=> x.held[a] = "real"
<1>1. CASE x.held[ref] = "none"
  BY <1>1 DEF State
<1>2. CASE x.held[ref] # "none"
  BY <1>2
<1> QED
  BY <1>1, <1>2

\* A date changes nothing else.
LEMMA DateFields ==
  ASSUME NEW x \in State, NEW a \in Ids, NEW d \in Int
  PROVE  LET y == [x EXCEPT !.date[a] = d]
         IN  /\ y \in State
             /\ y.held = x.held /\ y.kids = x.kids /\ y.subj = x.subj /\ y.parent = x.parent
             /\ y.list = x.list /\ y.link = x.link /\ y.thread = x.thread
             /\ y.articles = x.articles /\ y.sdate = x.sdate
             /\ y.short = x.short /\ y.hashed = x.hashed
             /\ \A b \in Ids : y.date[b] = IF b = a THEN d ELSE x.date[b]
BY DEF State

\* Hung says nothing of subjects of articles with a parent, dates and so on.
LEMMA HungSame ==
  ASSUME NEW x, NEW y, NEW X, NEW home, Hung(x, X, home),
         y.link = x.link, y.thread = x.thread, y.kids = x.kids, y.parent = x.parent
  PROVE  Hung(y, X, home)
BY DEF Hung

\* Making a fake article for a reference disturbs nothing that holds between
\* references.
LEMMA ReferenceHeld ==
  ASSUME NEW x, NEW y, NEW x0, NEW m \in Ids, NEW again, NEW ref \in Ids,
         Kept(x, x0, m),
         y = IF x.held[ref] = "none" THEN [x EXCEPT !.held[ref] = "fake"] ELSE x
  PROVE  /\ Kept(y, x0, m)
         /\ Untouched(x, x0, m, again) => Untouched(y, x0, m, again)
         /\ \A prev \in Ids : Reaching(x, prev, m) => Reaching(y, prev, m)
         /\ NewFakes(y) = NewFakes(x) /\ PlacedIn(y) = PlacedIn(x)
<1>0. x \in State
  BY DEF Kept
<1>1. /\ y \in State
      /\ y.parent = x.parent /\ y.kids = x.kids /\ y.subj = x.subj /\ y.date = x.date
      /\ y.list = x.list /\ y.link = x.link /\ y.thread = x.thread
      /\ y.articles = x.articles /\ y.sdate = x.sdate
      /\ y.short = x.short /\ y.hashed = x.hashed
      /\ \A a \in Ids : y.held[a] = "real" <=> x.held[a] = "real"
  BY <1>0, HeldFields
<1>2. NewFakes(y) = NewFakes(x) /\ PlacedIn(y) = PlacedIn(x)
  BY <1>1 DEF NewFakes, PlacedIn
<1>3. Kept(y, x0, m)
  BY <1>1 DEF Kept
<1>4. Untouched(x, x0, m, again) => Untouched(y, x0, m, again)
  BY <1>1, <1>2, HungSame DEF Untouched
<1>5. ASSUME NEW prev \in Ids, Reaching(x, prev, m) PROVE Reaching(y, prev, m)
  <2>1. Hung(y, (PlacedIn(y) \cup NewFakes(y)) \ {prev}, y.subj)
    <3> DEFINE X == (PlacedIn(x) \cup NewFakes(x)) \ {prev}
    <3>1. Hung(x, X, x.subj)
      BY <1>5 DEF Reaching
    <3> HIDE DEF X
    <3>2. Hung(y, X, y.subj)
      BY <1>1, <3>1, HungSame
    <3> QED
      BY <1>2, <3>2 DEF X
  <2>2. Acyclic(y) /\ AboveIt(y, m)
    BY <1>1, <1>2, <1>5 DEF Reaching, Acyclic, AboveIt
  <2> QED
    BY <1>1, <1>2, <1>5, <2>1, <2>2 DEF Reaching
<1> QED
  BY <1>2, <1>3, <1>4, <1>5

\* What was said of x when m, or the topmost new fake, is taken for prev: prev
\* is in no list, and what is above m is known.
Ready(x, prev, m) ==
    /\ prev \in NewFakes(x) \cup {m}
    /\ Hung(x, (PlacedIn(x) \cup NewFakes(x)) \ {prev}, x.subj)
    /\ \A a \in (NewFakes(x) \cup {m}) \ {prev} : x.parent[a] \in NewFakes(x)
    /\ prev = m => NewFakes(x) = {}
    /\ prev # m => x.parent[prev] = None
    /\ Acyclic(x)
    /\ prev # m => AboveIt(x, m)

\* Before the first found reference the article itself is what gets a parent.
LEMMA ReadyUntouched ==
  ASSUME IsFiniteSet(Subjects), None \notin Ids, None \notin Subjects,
         NEW x0, NEW x, NEW m \in Ids, NEW again,
         Start(x0, m, again), Kept(x, x0, m), Untouched(x, x0, m, again),
         NEW y, y = IF again /\ x.subj[m] # None THEN UnlinkChild(x, m) ELSE x
  PROVE  Kept(y, x0, m) /\ Ready(y, m, m) /\ y.parent = x.parent /\ y.date = x.date
<1>1. /\ PlacedIn(x) = PlacedIn(x0) /\ m \in PlacedIn(x)
      /\ \A a \in PlacedIn(x) \ {m} : x.parent[a] = None \/ x.parent[a] \in PlacedIn(x)
  BY PlacedBelowPlaced
<1>2. x \in State /\ x.subj = x0.subj /\ x.date = x0.date /\ x.parent = x0.parent
  BY DEF Kept, Untouched
<1>3. NewFakes(x) = {}
  BY <1>2 DEF Start, Sound, Bare, NewFakes
<1>4. Acyclic(x)
  BY <1>2 DEF Start, Sound, Acyclic
<1>5. m \in Ids /\ x.subj[m] \in Subjects
  BY <1>1, <1>2 DEF PlacedIn, State
<1>6. CASE again
  <2>1. y = UnlinkChild(x, m) /\ Hung(x, PlacedIn(x), x.subj)
    BY <1>1, <1>6 DEF Untouched, PlacedIn
  <2>2. x.subj[m] \in Orbit(x.link, x.subj[m])
    BY <1>5, <2>1, OrbitFacts DEF Hung
  <2>3. OtherLists(y, x) /\ Hung(y, PlacedIn(x) \ {m}, x.subj)
    BY <1>2, <1>5, <2>1, <2>2, UnlinkHung
  <2>4. /\ y \in State /\ y.held = x.held /\ y.parent = x.parent /\ y.subj = x.subj
        /\ y.date = x.date /\ y.list = x.list /\ y.link = x.link
        /\ y.articles = x.articles /\ y.sdate = x.sdate
        /\ y.short = x.short /\ y.hashed = x.hashed
    BY <2>3 DEF OtherLists, SameArticles
  <2>5. Kept(y, x0, m)
    BY <2>4 DEF Kept
  <2>6. PlacedIn(y) = PlacedIn(x) /\ NewFakes(y) = {} /\ Acyclic(y)
    BY <1>3, <1>4, <2>4 DEF PlacedIn, NewFakes, Acyclic
  <2>7. Hung(y, (PlacedIn(y) \cup NewFakes(y)) \ {m}, y.subj)
    BY <2>3, <2>4, <2>6
  <2> QED
    BY <2>4, <2>5, <2>6, <2>7 DEF Ready
<1>7. CASE ~again
  <2>1. y = x /\ Hung(x, PlacedIn(x) \ {m}, x.subj)
    BY <1>7 DEF Untouched
  <2>2. Hung(y, (PlacedIn(y) \cup NewFakes(y)) \ {m}, y.subj)
    BY <1>3, <2>1
  <2> QED
    BY <1>3, <1>4, <2>1, <2>2 DEF Ready
<1> QED
  BY <1>6, <1>7

\* Afterwards it is the last new fake article, which is in no list.
LEMMA ReadyReaching ==
  ASSUME None \notin Subjects, NEW x, NEW m \in PlacedIn(x), NEW prev, Reaching(x, prev, m),
         NEW again
  PROVE  /\ Ready(x, prev, m) /\ prev # m
         /\ (IF again /\ x.subj[prev] # None THEN UnlinkChild(x, prev) ELSE x) = x
BY DEF Ready, Reaching, NewFakes, PlacedIn

\* prev is put below an article that is in the tree.
LEMMA ReferenceFound ==
  ASSUME IsFiniteSet(Subjects), None \notin Ids, None \notin Subjects,
         NEW x0, NEW x, NEW m \in Ids, NEW again, NEW prev, NEW ref \in Ids \ {m},
         Start(x0, m, again), Kept(x, x0, m), Ready(x, prev, m), x.subj[ref] # None,
         NEW y, y = LinkChild([x EXCEPT !.parent[prev] = ref], prev)
  PROVE  Kept(y, x0, m) /\ Reached(y, ref, m)
<1> DEFINE C == NewFakes(x)
           P == PlacedIn(x)
           X == (P \cup C) \ {prev}
<1>1. /\ P = PlacedIn(x0) /\ m \in P
      /\ \A a \in P \ {m} : x.parent[a] = None \/ x.parent[a] \in P
      /\ \A a \in Ids \ (P \cup C) : x.parent[a] = None /\ x.date[a] = 0
      /\ P \cap C = {}
  BY PlacedBelowPlaced
<1>2. x \in State /\ prev \in C \cup {m} /\ prev \in Ids /\ Hung(x, X, x.subj)
      /\ (\A a \in (C \cup {m}) \ {prev} : x.parent[a] \in C)
      /\ (prev = m => C = {}) /\ Acyclic(x)
  BY DEF Kept, Ready, NewFakes
<1>s. P \subseteq Ids /\ C \subseteq Ids /\ ref \in P
  BY DEF NewFakes, PlacedIn
<1> HIDE DEF C, P, X
<1>3. prev \in Ids \ X
  BY <1>2 DEF X
<1>4. /\ OtherParents(y, x)
      /\ Hung(y, X \cup {prev}, y.subj)
      /\ \A a \in Ids : y.parent[a] = IF a = prev THEN ref ELSE x.parent[a]
  <2>1. x \in State /\ Hung(x, X, x.subj) /\ prev \in Ids \ X /\ ref \in Ids
    BY <1>2, <1>3
  <2>2. y = Below(x, prev, ref)
    BY DEF Below
  <2>3. IsFiniteSet(Subjects) /\ None \notin Ids
    OBVIOUS
  <2>4. OtherParents(y, x) /\ Hung(y, X \cup {prev}, y.subj) /\ HasParent(y, x, prev, ref)
    BY ONLY <2>1, <2>2, <2>3, PutBelow
  <2> QED
    BY <2>4 DEF HasParent
<1>5. /\ y \in State
      /\ y.held = x.held /\ y.subj = x.subj /\ y.date = x.date
      /\ y.list = x.list /\ y.link = x.link
      /\ y.articles = x.articles /\ y.sdate = x.sdate
      /\ y.short = x.short /\ y.hashed = x.hashed
  BY <1>4 DEF OtherParents
<1>6. PlacedIn(y) = P /\ NewFakes(y) = C
  BY <1>5 DEF PlacedIn, NewFakes, P, C
<1>7. X \cup {prev} = P \cup C
  BY <1>1, <1>2 DEF X
<1>8. Kept(y, x0, m)
  <2>1. \A a \in PlacedIn(x0) : /\ y.date[a] = x0.date[a]
                                /\ a # m => y.parent[a] = x0.parent[a]
    BY <1>1, <1>2, <1>4, <1>5, <1>s DEF Kept
  <2>2. \A a \in Ids \ PlacedIn(x0) : y.date[a] = 0 => y.parent[a] = None
    <3>1. ASSUME NEW a \in Ids \ PlacedIn(x0), y.date[a] = 0 PROVE y.parent[a] = None
      <4>1. a \notin C
        BY <1>5, <3>1 DEF C, NewFakes
      <4> QED
        BY <1>1, <1>2, <1>4, <3>1, <4>1
    <3> QED
      BY <3>1
  <2> QED
    BY <1>5, <2>1, <2>2 DEF Kept
<1>9. Hung(y, PlacedIn(y) \cup NewFakes(y), y.subj)
  BY <1>4, <1>6, <1>7
<1>10. \A a \in NewFakes(y) \cup {m} : y.parent[a] \in NewFakes(y) \cup {ref}
  BY <1>1, <1>2, <1>4, <1>6, <1>s
<1>11. AcyclicBut(y, m)
  <2> SUFFICES ASSUME NEW S \in SUBSET (Ids \ {m}), S # {}
               PROVE  \E a \in S : y.parent[a] \notin S
    BY DEF AcyclicBut
  <2>1. CASE S \cap P = {}
    <3>1. S \in SUBSET Ids
      OBVIOUS
    <3>2. PICK a \in S : x.parent[a] \notin S
      BY <1>2, <3>1 DEF Acyclic
    <3>3. ref \notin S
      BY <1>s, <2>1
    <3> QED
      BY <1>4, <3>1, <3>2, <3>3
  <2>2. CASE S \cap P # {}
    <3>1. S \cap P \in SUBSET Ids
      OBVIOUS
    <3>2. PICK a \in S \cap P : x.parent[a] \notin S \cap P
      BY <1>2, <2>2, <3>1 DEF Acyclic
    <3>3. x.parent[a] \notin S
      BY <1>1, <3>2
    <3>4. a # prev
      BY <1>1, <1>2, <3>2
    <3> QED
      BY <1>4, <3>2, <3>3, <3>4
  <2> QED
    BY <2>1, <2>2
<1>12. AboveIt(y, m)
  <2> SUFFICES ASSUME NEW T \in SUBSET Ids, m \in T,
                      \A a \in T : y.parent[a] \in C => y.parent[a] \in T
               PROVE  C \subseteq T
    BY <1>6 DEF AboveIt
  <2>1. CASE prev = m
    BY <1>2, <2>1
  <2>2. CASE prev # m
    <3>1. \A a \in T : x.parent[a] \in C => x.parent[a] \in T
      BY <1>4, <1>s, <2>2, None \notin Ids DEF Ready
    <3> QED
      BY <2>2, <3>1 DEF Ready, AboveIt, C
  <2> QED
    BY <2>1, <2>2
<1> QED
  BY <1>6, <1>8, <1>9, <1>10, <1>11, <1>12, <1>s DEF Reached

\* prev is put below an article nobody has seen, which becomes a new fake.
LEMMA ReferenceNew ==
  ASSUME IsFiniteSet(Subjects), None \notin Ids, None \notin Subjects,
         NEW x0, NEW x, NEW m \in Ids, NEW again, NEW prev, NEW ref \in Ids \ {m},
         Start(x0, m, again), Kept(x, x0, m), Ready(x, prev, m),
         x.subj[ref] = None, x.date[ref] = 0,
         NEW w, w = LinkChild([x EXCEPT !.parent[prev] = ref], prev),
         NEW d, d = x.date[m],
         NEW y, y = [w EXCEPT !.date[ref] = d]
  PROVE  Kept(y, x0, m) /\ Reaching(y, ref, m)
<1> DEFINE C == NewFakes(x)
           P == PlacedIn(x)
           X == (P \cup C) \ {prev}
<1>1. /\ P = PlacedIn(x0) /\ m \in P
      /\ \A a \in P \ {m} : x.parent[a] = None \/ x.parent[a] \in P
      /\ \A a \in Ids \ (P \cup C) : x.parent[a] = None /\ x.date[a] = 0
      /\ P \cap C = {} /\ x.date[m] # 0
  BY PlacedBelowPlaced
<1>2. x \in State /\ prev \in C \cup {m} /\ prev \in Ids /\ Hung(x, X, x.subj)
      /\ (\A a \in (C \cup {m}) \ {prev} : x.parent[a] \in C)
      /\ (prev = m => C = {}) /\ Acyclic(x)
  BY DEF Kept, Ready, NewFakes
<1>s. P \subseteq Ids /\ C \subseteq Ids /\ ref \notin P \cup C
  BY DEF NewFakes, PlacedIn
<1>d. d \in Int /\ d # 0
  BY <1>1, <1>2 DEF State
<1> HIDE DEF C, P, X
<1>3. prev \in Ids \ X
  BY <1>2 DEF X
<1>4. /\ OtherParents(w, x)
      /\ Hung(w, X \cup {prev}, w.subj)
      /\ \A a \in Ids : w.parent[a] = IF a = prev THEN ref ELSE x.parent[a]
  <2>1. x \in State /\ Hung(x, X, x.subj) /\ prev \in Ids \ X /\ ref \in Ids
    BY <1>2, <1>3
  <2>2. w = Below(x, prev, ref)
    BY DEF Below
  <2>3. IsFiniteSet(Subjects) /\ None \notin Ids
    OBVIOUS
  <2>4. OtherParents(w, x) /\ Hung(w, X \cup {prev}, w.subj) /\ HasParent(w, x, prev, ref)
    BY ONLY <2>1, <2>2, <2>3, PutBelow
  <2> QED
    BY <2>4 DEF HasParent
<1>5. /\ w \in State
      /\ w.held = x.held /\ w.subj = x.subj /\ w.date = x.date
      /\ w.list = x.list /\ w.link = x.link
      /\ w.articles = x.articles /\ w.sdate = x.sdate
      /\ w.short = x.short /\ w.hashed = x.hashed
  BY <1>4 DEF OtherParents
<1>y. /\ y \in State
      /\ y.held = w.held /\ y.kids = w.kids /\ y.subj = w.subj /\ y.parent = w.parent
      /\ y.list = w.list /\ y.link = w.link /\ y.thread = w.thread
      /\ y.articles = w.articles /\ y.sdate = w.sdate
      /\ y.short = w.short /\ y.hashed = w.hashed
      /\ \A b \in Ids : y.date[b] = IF b = ref THEN d ELSE x.date[b]
  BY <1>5, <1>d, DateFields
<1>6. PlacedIn(y) = P /\ NewFakes(y) = C \cup {ref}
  BY <1>5, <1>y, <1>d DEF PlacedIn, NewFakes, P, C
<1>7. X \cup {prev} = (P \cup (C \cup {ref})) \ {ref}
  BY <1>1, <1>2, <1>s DEF X
<1>p. \A a \in Ids : y.parent[a] = IF a = prev THEN ref ELSE x.parent[a]
  BY <1>4, <1>y
<1>r. x.parent[ref] = None /\ ref # prev
  BY <1>1, <1>2, <1>s
<1>8. Kept(y, x0, m)
  <2>1. \A a \in PlacedIn(x0) : /\ y.date[a] = x0.date[a]
                                /\ a # m => y.parent[a] = x0.parent[a]
    BY <1>1, <1>2, <1>p, <1>y, <1>s DEF Kept
  <2>2. \A a \in Ids \ PlacedIn(x0) : y.date[a] = 0 => y.parent[a] = None
    <3>1. ASSUME NEW a \in Ids \ PlacedIn(x0), y.date[a] = 0 PROVE y.parent[a] = None
      <4>1. a \notin NewFakes(y)
        BY <3>1 DEF NewFakes
      <4> QED
        BY <1>1, <1>2, <1>6, <1>p, <3>1, <4>1
    <3> QED
      BY <3>1
  <2> QED
    BY <1>5, <1>y, <2>1, <2>2 DEF Kept
<1>9. Hung(y, (PlacedIn(y) \cup NewFakes(y)) \ {ref}, y.subj)
  <2> DEFINE X2 == (P \cup (C \cup {ref})) \ {ref}
  <2>1. Hung(w, X2, w.subj)
    BY <1>4, <1>7
  <2>s. X2 = (PlacedIn(y) \cup NewFakes(y)) \ {ref}
    BY <1>6
  <2> HIDE DEF X2
  <2>2. Hung(y, X2, w.subj)
    BY ONLY <1>y, <2>1, HungSame
  <2> QED
    BY <1>y, <2>2, <2>s
<1>10. \A a \in (NewFakes(y) \ {ref}) \cup {m} : y.parent[a] \in NewFakes(y)
  BY <1>1, <1>2, <1>p, <1>6, <1>s
<1>11. Acyclic(y)
  <2> SUFFICES ASSUME NEW S \in SUBSET Ids, S # {}
               PROVE  \E a \in S : y.parent[a] \notin S
    BY DEF Acyclic
  <2>1. CASE ref \in S
    BY <1>p, <1>r, <2>1
  <2>2. CASE ref \notin S
    <3>1. PICK a \in S : x.parent[a] \notin S
      BY <1>2 DEF Acyclic
    <3> QED
      BY <1>p, <2>2, <3>1
  <2> QED
    BY <2>1, <2>2
<1>12. AboveIt(y, m)
  <2> SUFFICES ASSUME NEW T \in SUBSET Ids, m \in T,
                      \A a \in T : y.parent[a] \in C \cup {ref} => y.parent[a] \in T
               PROVE  C \cup {ref} \subseteq T
    BY <1>6 DEF AboveIt
  <2>1. C \subseteq T
    <3>1. CASE prev = m
      BY <1>2, <3>1
    <3>2. CASE prev # m
      <4>1. \A a \in T : x.parent[a] \in C => x.parent[a] \in T
        BY <1>p, <1>s, <3>2, None \notin Ids DEF Ready
      <4> QED
        BY <3>2, <4>1 DEF Ready, AboveIt, C
    <3> QED
      BY <3>1, <3>2
  <2>2. prev \in T
    BY <1>2, <2>1
  <2> QED
    BY <1>p, <2>1, <2>2
<1>13. ref \in NewFakes(y) /\ y.parent[ref] = None
  BY <1>6, <1>p, <1>r
<1> QED
  BY <1>8, <1>9, <1>10, <1>11, <1>12, <1>13 DEF Reaching

\* One more reference keeps what holds between references (the loop of
\* thread_article).
LEMMA ReferenceStep ==
  ASSUME IsFiniteSet(Subjects), None \notin Ids, None \notin Subjects,
         NEW x0, NEW m \in Ids, NEW again, Start(x0, m, again),
         NEW r, Referred(r, x0, m, again), NEW ref \in Ids,
         NEW q, q = Reference(r, ref, m, again)
  PROVE  Referred(q, x0, m, again)
<1> DEFINE x == IF r.x.held[ref] = "none" THEN [r.x EXCEPT !.held[ref] = "fake"]
                ELSE r.x
           seen == (x.date[ref] # 0 /\ x.subj[ref] = None) \/ ref = m
           loose == IF again /\ x.subj[r.prev] # None
                    THEN UnlinkChild(x, r.prev) ELSE x
           linked == LinkChild([loose EXCEPT !.parent[r.prev] = ref], r.prev)
<1>1. CASE r.found
  <2>1. q = r
    BY <1>1 DEF Reference
  <2> QED
    BY <2>1
<1>2. CASE ~r.found
  <2>1. r = [x |-> r.x, prev |-> r.prev, ap |-> r.ap, found |-> r.found]
        /\ Kept(r.x, x0, m)
    BY DEF Referred
  <2>2. \/ r.prev = m /\ r.ap = None /\ Untouched(r.x, x0, m, again)
        \/ r.ap = r.prev /\ Reaching(r.x, r.prev, m)
    BY <1>2 DEF Referred
  <2>q. q = IF seen
            THEN [r EXCEPT !.x = x, !.ap = IF r.prev = m THEN None ELSE r.prev]
            ELSE IF x.subj[ref] # None
            THEN [r EXCEPT !.x = linked, !.ap = ref, !.found = TRUE]
            ELSE [r EXCEPT !.x = [linked EXCEPT !.date[ref] = x.date[m]],
                           !.ap = ref, !.prev = ref]
    BY <1>2 DEF Reference
  <2> HIDE DEF linked, loose
  <2>3. /\ Kept(x, x0, m)
        /\ Untouched(r.x, x0, m, again) => Untouched(x, x0, m, again)
        /\ \A prev \in Ids : Reaching(r.x, prev, m) => Reaching(x, prev, m)
        /\ NewFakes(x) = NewFakes(r.x) /\ PlacedIn(x) = PlacedIn(r.x)
    BY <2>1, ReferenceHeld
  <2> HIDE DEF x
  <2>4. m \in PlacedIn(x) /\ m \notin NewFakes(x) /\ PlacedIn(x) = PlacedIn(x0)
    BY <2>3, PlacedBelowPlaced
  <2>5. \/ r.prev = m /\ r.ap = None /\ Untouched(x, x0, m, again)
        \/ r.ap = r.prev /\ Reaching(x, r.prev, m) /\ r.prev # m
    BY <2>2, <2>3, <2>4 DEF Reaching, NewFakes
  <2>6. CASE seen
    <3>1. q = [x |-> x, prev |-> r.prev, ap |-> IF r.prev = m THEN None ELSE r.prev,
               found |-> r.found]
      BY <2>1, <2>q, <2>6
    <3> QED
      BY <1>2, <2>3, <2>5, <3>1 DEF Referred
  <2>7. CASE ~seen
    <3>1. Kept(loose, x0, m) /\ Ready(loose, r.prev, m) /\ loose.date = x.date
          /\ loose.subj = x.subj
      <4>1. Kept(loose, x0, m) => loose.subj = x.subj
        BY <2>3 DEF Kept
      <4>2. CASE r.prev = m /\ Untouched(x, x0, m, again)
        BY <2>3, <4>1, <4>2, ReadyUntouched DEF loose
      <4>3. CASE r.prev # m /\ Reaching(x, r.prev, m)
        BY <2>3, <2>4, <4>3, ReadyReaching DEF loose
      <4> QED
        BY <2>5, <4>2, <4>3
    <3>2. ref \in Ids \ {m}
      BY <2>7
    <3>3. CASE x.subj[ref] # None
      <4>1. Kept(linked, x0, m) /\ Reached(linked, ref, m)
        BY <3>1, <3>2, <3>3, ReferenceFound DEF linked
      <4>2. q = [x |-> linked, prev |-> r.prev, ap |-> ref, found |-> TRUE]
        BY <2>1, <2>7, <2>q, <3>3
      <4> QED
        BY <4>1, <4>2 DEF Referred
    <3>4. CASE x.subj[ref] = None
      <4> DEFINE y == [linked EXCEPT !.date[ref] = x.date[m]]
      <4>1. x.date[ref] = 0
        BY <2>7, <3>4
      <4>2. Kept(y, x0, m) /\ Reaching(y, ref, m)
        BY <3>1, <3>2, <3>4, <4>1, ReferenceNew DEF linked
      <4>3. q = [x |-> y, prev |-> ref, ap |-> ref, found |-> r.found]
        BY <2>1, <2>7, <2>q, <3>4
      <4> HIDE DEF y
      <4> QED
        BY <1>2, <4>2, <4>3 DEF Referred
    <3> QED
      BY <3>3, <3>4
  <2> QED
    BY <2>6, <2>7
<1> QED
  BY <1>1, <1>2

\* The fold over the references, of thread_article.
Referring == INSTANCE FoldFacts WITH op <- LAMBDA r, ref, m, again : Reference(r, ref, m, again)

\* Before the first reference.
Unreferred(x, m) == [x |-> x, prev |-> m, ap |-> None, found |-> FALSE]

\* What the references make of the tree.
References(x, m, refs, again) ==
    FoldLeft(LAMBDA r, ref : Reference(r, ref, m, again), Unreferred(x, m), Reverse(refs))

\* thread_article after its loop, as one formula.
LEMMA ThreadArticleIs ==
  ASSUME NEW x, NEW m, NEW refs, NEW again
  PROVE  ThreadArticle(x, m, refs, again) =
            LET r == References(x, m, refs, again)
            IN  IF r.ap # None
                THEN CutCircle(NameFakes(Anchor(r.x, m, r), m), m)
                ELSE IF again THEN r.x ELSE LinkChild(r.x, m)
BY DEF ThreadArticle, References, Unreferred

\* The references are taken one by one, the nearest first.
LEMMA ReferencesFold ==
  ASSUME NEW x, NEW m, NEW refs \in Seq(Ids), NEW again
  PROVE  \E g : /\ g[0] = Unreferred(x, m)
                /\ \A i \in 1 .. Len(Reverse(refs)) :
                      g[i] = Reference(g[i - 1], Reverse(refs)[i], m, again)
                /\ References(x, m, refs, again) = g[Len(Reverse(refs))]
<1>1. Reverse(refs) \in Seq(Ids)
  BY DEF Reverse
<1> DEFINE rev == Reverse(refs)
           start == Unreferred(x, m)
<1> HIDE DEF rev, start
<1>2. rev \in Seq(Ids)
  BY <1>1 DEF rev
<1>3. \E g : /\ Referring!Goes(g, start, rev, m, again)
             /\ Referring!Fold(start, rev, m, again) = g[Len(rev)]
  BY <1>2, Referring!FoldSteps
<1>4. Referring!Fold(start, rev, m, again)
        = FoldLeft(LAMBDA r, ref : Reference(r, ref, m, again), start, rev)
  BY DEF Referring!Fold, FoldLeft, Referring!FoldLeft, MapThenFoldSet,
         Referring!MapThenFoldSet, Max, Referring!Max
<1> QED
  BY <1>3, <1>4 DEF Referring!Goes, References, rev, start

\* What holds after all references.
LEMMA ReferencesFacts ==
  ASSUME IsFiniteSet(Subjects), None \notin Ids, None \notin Subjects,
         NEW x, NEW m \in Ids, NEW again, Start(x, m, again), NEW refs \in Seq(Ids)
  PROVE  Referred(References(x, m, refs, again), x, m, again)
<1> DEFINE rev == Reverse(refs)
           n == Len(rev)
<1>1. rev \in Seq(Ids) /\ n \in Nat
  BY DEF Reverse
<1>2. PICK g : /\ g[0] = Unreferred(x, m)
               /\ \A i \in 1 .. n : g[i] = Reference(g[i - 1], rev[i], m, again)
               /\ References(x, m, refs, again) = g[n]
  BY ReferencesFold
<1> HIDE DEF rev
<1> DEFINE Good == {i \in 0 .. n : Referred(g[i], x, m, again)}
<1>3. 0 \in Good
  <2>1. g[0] = [x |-> x, prev |-> m, ap |-> None, found |-> FALSE]
    BY <1>2 DEF Unreferred
  <2>2. Kept(x, x, m)
    BY DEF Kept, Start, Sound, Bare, PlacedIn
  <2>3. Untouched(x, x, m, again)
    BY DEF Untouched, Start, Sound
  <2>4. Referred(g[0], x, m, again)
    BY <2>1, <2>2, <2>3 DEF Referred
  <2> QED
    BY <1>1, <2>4
<1>4. \A i \in 1 .. n : i - 1 \in Good => i \in Good
  <2> SUFFICES ASSUME NEW i \in 1 .. n, i - 1 \in Good PROVE i \in Good
    OBVIOUS
  <2>1. rev[i] \in Ids
    BY <1>1
  <2> DEFINE r == g[i - 1]
             q == g[i]
  <2>2. Referred(r, x, m, again) /\ q = Reference(r, rev[i], m, again)
    BY <1>2
  <2> HIDE DEF r, q
  <2>3. Referred(q, x, m, again)
    BY <2>1, <2>2, ReferenceStep
  <2> QED
    BY <1>1, <2>3 DEF q
<1>5. n \in Good
  <2> HIDE DEF Good, n
  <2>1. \A i \in 0 .. n : i \in Good
    BY <1>1, <1>3, <1>4, UpTo
  <2> QED
    BY <1>1, <2>1
<1> QED
  BY <1>2, <1>5

-----------------------------------------------------------------------------
(* The thread an article joins: thread_article after its loop              *)

\* What the references leave alone, said of the result.
LEMMA KeptFacts ==
  ASSUME None \notin Subjects, NEW x0, NEW x, NEW m \in Ids, NEW again,
         Start(x0, m, again), Kept(x, x0, m)
  PROVE  /\ \A a \in PlacedIn(x) \ {m} : Kin(x, a)
         /\ \A a \in Ids : x.subj[a] = None => x.held[a] # "real"
         /\ Listed(x)
         /\ Onward(x, x0, m)
<1>1. /\ x0 \in State /\ Bare(x0) /\ Listed(x0)
      /\ \A a \in Ids : Kin(x0, a)
  BY DEF Start, Sound
<1>2. PlacedIn(x) = PlacedIn(x0)
  BY PlacedBelowPlaced
<1>3. \A a \in PlacedIn(x) \ {m} : Kin(x, a)
  BY <1>1, <1>2 DEF Kept, Kin, PlacedIn
<1>4. \A a \in Ids : x.subj[a] = None => x.held[a] # "real"
  BY <1>1 DEF Kept, Bare
<1>5. Listed(x)
  BY <1>1 DEF Kept, Listed
<1>6. \A a \in Ids : x0.held[a] = "real" => a \in PlacedIn(x0)
  BY <1>1 DEF Bare, PlacedIn
<1>7. Onward(x, x0, m)
  BY <1>6 DEF Kept, Onward
<1> QED
  BY <1>3, <1>4, <1>5, <1>7

\* After the threads were joined, or the topmost fake was put into the thread:
\* only the fakes between m and ap have no subject yet.
Anchored(y, ap, m) ==
    /\ y \in State
    /\ m \in PlacedIn(y)
    /\ ap \in PlacedIn(y) \ {m} /\ y.subj[ap] \in Orbit(y.link, y.subj[m])
    /\ Hung(y, PlacedIn(y) \cup NewFakes(y), y.subj)
    /\ \A a \in NewFakes(y) \cup {m} : y.parent[a] \in NewFakes(y) \cup {ap}
    /\ AcyclicBut(y, m) /\ AboveIt(y, m)
    /\ \A a \in PlacedIn(y) \ {m} : Kin(y, a)
    /\ \A a \in Ids : y.subj[a] = None =>
          /\ y.held[a] # "real"
          /\ a \notin NewFakes(y) => y.parent[a] = None /\ y.date[a] = 0
    /\ Listed(y)

\* When the threads are the same already, so are the rings.
LEMMA SameThreadSameRing ==
  ASSUME IsFiniteSet(Subjects), None \notin Ids, None \notin Subjects,
         NEW x, x \in State, NEW X, Hung(x, X, x.subj), NEW m \in PlacedIn(x),
         PlacedIn(x) \subseteq X, AcyclicBut(x, m), NEW ap \in PlacedIn(x) \ {m},
         \A a \in PlacedIn(x) \ {m} : Kin(x, a),
         x.thread[x.subj[m]] = x.thread[x.subj[ap]]
  PROVE  x.subj[ap] \in Orbit(x.link, x.subj[m])
<1> DEFINE s1 == x.subj[ap]
           s2 == x.subj[m]
           T == {a \in PlacedIn(x) \ {m} : x.subj[a] \in Orbit(x.link, s1)}
<1>1. /\ x.subj \in [Ids -> Subjects \cup {None}] /\ x.parent \in [Ids -> Ids \cup {None}]
      /\ Permutes(x.link)
  BY DEF State, Hung
<1>2. s1 \in Subjects /\ s2 \in Subjects /\ m \in Ids /\ ap \in Ids
  BY <1>1 DEF PlacedIn
<1>3. s1 \in Orbit(x.link, s1) /\ s2 \in Orbit(x.link, s2)
  BY <1>1, <1>2, OrbitFacts
<1>4. ap \in T /\ T \in SUBSET (Ids \ {m})
  BY <1>3 DEF PlacedIn
<1>5. PICK a \in T : x.parent[a] \notin T
  BY <1>4 DEF AcyclicBut
<1>6. x.subj[a] \in Orbit(x.link, s1) /\ a \in PlacedIn(x) \ {m} /\ a \in Ids /\ a \in X
  BY <1>5 DEF PlacedIn
<1>7. Orbit(x.link, x.subj[a]) = Orbit(x.link, s1)
  BY <1>1, <1>2, <1>6, OrbitClass
<1>8. CASE x.parent[a] = None
  <2>1. a \in Range(x.thread[s1])
    BY <1>2, <1>6, <1>8 DEF Hung
  <2>2. a \in Range(x.thread[s2])
    BY <2>1
  <2>3. x.subj[a] \in Orbit(x.link, s2)
    BY <1>2, <2>2 DEF Hung
  <2>4. Orbit(x.link, x.subj[a]) = Orbit(x.link, s2)
    BY <1>1, <1>2, <2>3, OrbitClass
  <2> QED
    BY <1>3, <1>7, <2>4
<1>9. CASE x.parent[a] # None
  <2>1. /\ x.subj[a] \in Subjects /\ x.subj[x.parent[a]] \in Subjects
        /\ x.subj[x.parent[a]] \in Orbit(x.link, s1)
    BY <1>6, <1>7, <1>9 DEF Kin
  <2>2. x.parent[a] \in PlacedIn(x)
    BY <1>1, <1>6, <1>9, <2>1 DEF PlacedIn
  <2>3. x.parent[a] = m
    BY <1>5, <2>1, <2>2
  <2>4. Orbit(x.link, s2) = Orbit(x.link, s1)
    BY <1>1, <1>2, <2>1, <2>3, OrbitClass
  <2> QED
    BY <1>3, <2>4
<1> QED
  BY <1>8, <1>9

\* The article's thread is merged with the one its reference is found in.
LEMMA AnchorFound ==
  ASSUME IsFiniteSet(Subjects), None \notin Ids, None \notin Subjects,
         NEW x0, NEW x, NEW m \in Ids, NEW again, NEW ap,
         Start(x0, m, again), Kept(x, x0, m), Reached(x, ap, m),
         NEW y, y = IF x.thread[x.subj[m]] # x.thread[x.subj[ap]]
                    THEN MergeThreads(x, x.subj[ap], x.subj[m]) ELSE x
  PROVE  Anchored(y, ap, m) /\ Onward(y, x, m)
<1> DEFINE X == PlacedIn(x) \cup NewFakes(x)
           s1 == x.subj[ap]
           s2 == x.subj[m]
<1>1. /\ m \in PlacedIn(x) /\ \A a \in Ids \ X : x.parent[a] = None /\ x.date[a] = 0
  BY PlacedBelowPlaced
<1>2. /\ \A a \in PlacedIn(x) \ {m} : Kin(x, a)
      /\ \A a \in Ids : x.subj[a] = None => x.held[a] # "real"
      /\ Listed(x)
  BY KeptFacts
<1>3. /\ ap \in PlacedIn(x) \ {m} /\ Hung(x, X, x.subj) /\ x \in State
      /\ \A a \in NewFakes(x) \cup {m} : x.parent[a] \in NewFakes(x) \cup {ap}
      /\ AcyclicBut(x, m) /\ AboveIt(x, m)
  BY DEF Reached, Kept
<1>4. /\ x.subj \in [Ids -> Subjects \cup {None}] /\ Permutes(x.link)
      /\ x.list \in Seq(Subjects)
  BY <1>3 DEF State, Hung
<1>5. s1 \in Range(x.list) /\ s2 \in Range(x.list) /\ s1 \in Subjects /\ s2 \in Subjects
      /\ IsInjective(x.list)
  BY <1>1, <1>2, <1>3, <1>4 DEF Listed, PlacedIn
<1>6. Joins(y, x) /\ Hung(y, X, x.subj) /\ s1 \in Orbit(y.link, s2)
  <2> HIDE DEF X
  <2>1. CASE x.thread[s2] # x.thread[s1]
    <3>1. y = MergeThreads(x, s1, s2)
      BY <2>1
    <3>2. s2 \notin Orbit(x.link, s1)
      BY <1>3, <1>5, <2>1 DEF Hung
    <3>3. \A a \in Range(x.thread[s2]) :
             x.subj[a] \in Orbit(x.link, s1) \cup Orbit(x.link, s2)
      BY <1>3, <1>5 DEF Hung
    <3> HIDE DEF s1, s2
    <3>4. Merged(y, x, s1, s2) /\ Hung(y, X, x.subj)
      BY <1>3, <1>5, <3>1, <3>2, <3>3, MergeHung
    <3>5. Joins(y, x) /\ s2 \in Orbit(y.link, s1)
      BY <1>3, <1>4, <1>5, <3>2, <3>4, MergedJoins
    <3>6. Permutes(y.link)
      BY <3>4 DEF Merged
    <3>7. Orbit(y.link, s2) = Orbit(y.link, s1) /\ s1 \in Orbit(y.link, s1)
      BY <1>5, <3>5, <3>6, OrbitClass, OrbitFacts
    <3> QED
      BY <3>4, <3>5, <3>7
  <2>2. CASE x.thread[s2] = x.thread[s1]
    <3>1. y = x
      BY <2>2
    <3>2. PlacedIn(x) \subseteq X
      BY DEF X
    <3>3. s1 \in Orbit(x.link, s2)
      BY <1>1, <1>2, <1>3, <2>2, <3>2, SameThreadSameRing
    <3>4. Joins(x, x)
      BY <1>3, <1>4, <1>5 DEF Joins, SameArticles
    <3> QED
      BY <1>3, <3>1, <3>3, <3>4
  <2> QED
    BY <2>1, <2>2
<1>7. /\ y \in State /\ y.held = x.held /\ y.parent = x.parent /\ y.subj = x.subj
      /\ y.date = x.date /\ y.short = x.short
      /\ \A s \in Subjects : Orbit(x.link, s) \subseteq Orbit(y.link, s)
      /\ IsInjective(y.list) /\ Range(y.list) = Range(x.list)
      /\ \A s \in Subjects \ Range(x.list) : y.link[s] = x.link[s]
  BY <1>6 DEF Joins, SameArticles
<1>8. PlacedIn(y) = PlacedIn(x) /\ NewFakes(y) = NewFakes(x)
  BY <1>7 DEF PlacedIn, NewFakes
<1>9. Listed(y)
  BY <1>2, <1>7 DEF Listed
<1>10. \A a \in PlacedIn(y) \ {m} : Kin(y, a)
  BY <1>2, <1>7, <1>8 DEF Kin
<1>11. AcyclicBut(y, m) /\ AboveIt(y, m)
  BY <1>3, <1>7, <1>8 DEF AcyclicBut, AboveIt
<1>12. Onward(y, x, m)
  BY <1>6, JoinsOnward
<1>13. Hung(y, PlacedIn(y) \cup NewFakes(y), y.subj)
  BY <1>6, <1>7, <1>8
<1>14. \A a \in Ids : y.subj[a] = None =>
          /\ y.held[a] # "real"
          /\ a \notin NewFakes(y) => y.parent[a] = None /\ y.date[a] = 0
  <2>1. \A a \in Ids : x.subj[a] = None => a \notin PlacedIn(x)
    BY DEF PlacedIn
  <2> QED
    BY <1>1, <1>2, <1>7, <1>8, <2>1
<1> QED
  BY <1>1, <1>3, <1>6, <1>7, <1>8, <1>9, <1>10, <1>11, <1>12, <1>13, <1>14 DEF Anchored

\* A subject for an article changes nothing else.
LEMMA SubjFields ==
  ASSUME NEW x \in State, NEW a \in Ids, NEW s \in Subjects \cup {None}
  PROVE  LET y == [x EXCEPT !.subj[a] = s]
         IN  /\ y \in State
             /\ y.held = x.held /\ y.kids = x.kids /\ y.date = x.date /\ y.parent = x.parent
             /\ y.list = x.list /\ y.link = x.link /\ y.thread = x.thread
             /\ y.articles = x.articles /\ y.sdate = x.sdate
             /\ y.short = x.short /\ y.hashed = x.hashed
             /\ y.subj[a] = s
             /\ \A b \in Ids : b # a => y.subj[b] = x.subj[b]
BY DEF State

\* The topmost new fake article gets the subject and stands at the top of its
\* thread.
LEMMA AnchorNew ==
  ASSUME IsFiniteSet(Subjects), None \notin Ids, None \notin Subjects,
         NEW x0, NEW x, NEW m \in Ids, NEW again, NEW ap,
         Start(x0, m, again), Kept(x, x0, m), Reaching(x, ap, m),
         NEW y, y = LinkChild([x EXCEPT !.subj[ap] = x.subj[m]], ap)
  PROVE  Anchored(y, ap, m) /\ Onward(y, x, m)
<1> DEFINE P == PlacedIn(x)
           C == NewFakes(x)
           X == (P \cup C) \ {ap}
           w == [x EXCEPT !.subj[ap] = x.subj[m]]
<1>1. /\ m \in P /\ \A a \in Ids \ (P \cup C) : x.parent[a] = None /\ x.date[a] = 0
      /\ P \cap C = {}
  BY PlacedBelowPlaced
<1>2. /\ \A a \in P \ {m} : Kin(x, a)
      /\ \A a \in Ids : x.subj[a] = None => x.held[a] # "real"
      /\ Listed(x)
  BY KeptFacts
<1>3. /\ ap \in C /\ x.parent[ap] = None /\ Hung(x, X, x.subj) /\ x \in State
      /\ \A a \in (C \ {ap}) \cup {m} : x.parent[a] \in C
      /\ Acyclic(x) /\ AboveIt(x, m)
  BY DEF Reaching, Kept
<1>4. /\ x.subj \in [Ids -> Subjects \cup {None}] /\ Permutes(x.link)
  BY <1>3 DEF State, Hung
<1>5. P \subseteq Ids /\ C \subseteq Ids /\ ap \in Ids /\ x.subj[m] \in Subjects
      /\ x.subj[ap] = None
  BY <1>1, <1>3, <1>4 DEF PlacedIn, NewFakes
<1>6. /\ w \in State
      /\ w.held = x.held /\ w.kids = x.kids /\ w.date = x.date /\ w.parent = x.parent
      /\ w.list = x.list /\ w.link = x.link /\ w.thread = x.thread
      /\ w.articles = x.articles /\ w.sdate = x.sdate
      /\ w.short = x.short /\ w.hashed = x.hashed
      /\ w.subj[ap] = x.subj[m]
      /\ \A b \in Ids : b # ap => w.subj[b] = x.subj[b]
  BY <1>3, <1>5, SubjFields
<1>7. y = LinkChild(w, ap)
  OBVIOUS
<1> HIDE DEF w
<1>8. Hung(w, X, w.subj)
  <2>1. ASSUME NEW a \in X, x.parent[a] = None
        PROVE  w.subj[a] \in Subjects /\ w.subj[a] \in Orbit(x.link, x.subj[a])
    <3>1. x.subj[a] \in Subjects /\ a \in Ids /\ a # ap
      BY <1>3, <1>5, <2>1 DEF Hung
    <3>2. x.subj[a] \in Orbit(x.link, x.subj[a])
      BY <1>4, <3>1, OrbitFacts
    <3> QED
      BY <1>6, <3>1, <3>2
  <2>2. \A a \in X : w.parent[a] = x.parent[a]
    BY <1>6
  <2> HIDE DEF X
  <2> QED
    BY <1>3, <1>6, <2>1, <2>2, HungAlike
<1>9. /\ OtherLists(y, w) /\ Hung(y, X \cup {ap}, w.subj)
  <2>1. w.subj[ap] \in Subjects /\ w.subj[ap] \in Orbit(w.link, w.subj[ap])
    BY <1>4, <1>5, <1>6, OrbitFacts
  <2>2. ap \in Ids \ X
    BY <1>5
  <2> HIDE DEF X
  <2> QED
    BY <1>6, <1>7, <1>8, <2>1, <2>2, LinkHung
<1>10. /\ y \in State
       /\ y.held = x.held /\ y.date = x.date /\ y.parent = x.parent
       /\ y.list = x.list /\ y.link = x.link
       /\ y.articles = x.articles /\ y.sdate = x.sdate
       /\ y.short = x.short /\ y.hashed = x.hashed
       /\ y.subj = w.subj /\ y.subj[ap] = x.subj[m]
       /\ \A b \in Ids : b # ap => y.subj[b] = x.subj[b]
  BY <1>6, <1>9 DEF OtherLists, SameArticles
<1>11. PlacedIn(y) = P \cup {ap}
  BY <1>5, <1>10 DEF PlacedIn
<1>12. NewFakes(y) = C \ {ap}
  BY <1>5, <1>10 DEF NewFakes
<1>13. Hung(y, PlacedIn(y) \cup NewFakes(y), y.subj)
  <2>1. X \cup {ap} = PlacedIn(y) \cup NewFakes(y)
    BY <1>11, <1>12
  <2> QED
    BY <1>9, <1>10, <2>1
<1>14. m # ap
  BY <1>1, <1>3
<1>15. y.subj[m] = x.subj[m] /\ y.subj[ap] \in Orbit(y.link, y.subj[m])
  BY <1>4, <1>5, <1>10, <1>14, OrbitFacts
<1>16. \A a \in NewFakes(y) \cup {m} : y.parent[a] \in NewFakes(y) \cup {ap}
  BY <1>3, <1>10, <1>12
<1> HIDE DEF X, P, C
<1>17. AcyclicBut(y, m)
  BY <1>3, <1>10 DEF Acyclic, AcyclicBut
<1>18. AboveIt(y, m)
  <2> SUFFICES ASSUME NEW T \in SUBSET Ids, m \in T,
                      \A a \in T : y.parent[a] \in C \ {ap} => y.parent[a] \in T
               PROVE  C \ {ap} \subseteq T
    BY <1>12 DEF AboveIt
  <2> DEFINE U == T \cup {ap}
  <2>1. U \in SUBSET Ids /\ m \in U
    BY <1>5
  <2>2. \A a \in U : x.parent[a] \in C => x.parent[a] \in U
    BY <1>3, <1>5, <1>10, None \notin Ids
  <2>3. C \subseteq U
    BY <1>3, <2>1, <2>2 DEF AboveIt, C
  <2> QED
    BY <2>3
<1>19. \A a \in PlacedIn(y) \ {m} : Kin(y, a)
  <2> SUFFICES ASSUME NEW a \in PlacedIn(y) \ {m}, y.parent[a] # None PROVE Kin(y, a)
    BY DEF Kin
  <2>1. a # ap /\ a \in P \ {m} /\ a \in Ids
    BY <1>3, <1>5, <1>10, <1>11
  <2>2. x.subj[a] \in Subjects /\ x.subj[x.parent[a]] \in Subjects
        /\ x.subj[x.parent[a]] \in Orbit(x.link, x.subj[a]) /\ x.parent[a] \in Ids
    BY <1>2, <1>3, <1>10, <2>1 DEF Kin, State
  <2>3. x.parent[a] # ap
    BY <1>5, <2>2
  <2> QED
    BY <1>10, <2>1, <2>2, <2>3 DEF Kin
<1>20. \A a \in Ids : y.subj[a] = None =>
          /\ y.held[a] # "real"
          /\ a \notin NewFakes(y) => y.parent[a] = None /\ y.date[a] = 0
  <2> SUFFICES ASSUME NEW a \in Ids, y.subj[a] = None
               PROVE  /\ y.held[a] # "real"
                      /\ a \notin NewFakes(y) => y.parent[a] = None /\ y.date[a] = 0
    OBVIOUS
  <2>1. a # ap
    BY <1>5, <1>10
  <2>2. x.subj[a] = None /\ a \notin P
    BY <1>10, <2>1 DEF P, PlacedIn
  <2> QED
    BY <1>1, <1>2, <1>10, <1>12, <2>1, <2>2
<1>21. Listed(y)
  <2>1. x.subj[m] \in Range(x.list)
    BY <1>2, <1>5 DEF Listed
  <2>2. \A a \in Ids : y.subj[a] # None => y.subj[a] \in Range(x.list)
    BY <1>2, <1>10, <2>1 DEF Listed
  <2> QED
    BY <1>2, <1>10, <2>2 DEF Listed
<1>22. Onward(y, x, m)
  <2>1. x.held[ap] # "real"
    BY <1>2, <1>5
  <2> QED
    BY <1>10, <2>1 DEF Onward
<1> QED
  BY <1>1, <1>5, <1>10, <1>11, <1>13, <1>14, <1>15, <1>16, <1>17, <1>18, <1>19, <1>20, <1>21, <1>22
  DEF Anchored

\* The way up from m over articles without a subject meets the new fakes.
LEMMA ClimbMeetsFakes ==
  ASSUME IsFiniteSet(Ids), None \notin Ids, NEW y, NEW ap, NEW m \in Ids, Anchored(y, ap, m)
  PROVE  Range(ClimbWhile(y, m, {a \in Ids : y.subj[a] = None})) = NewFakes(y)
<1> DEFINE T0 == {a \in Ids : y.subj[a] = None}
           C == NewFakes(y)
           c == ClimbWhile(y, m, T0)
           new == Range(c)
<1>1. /\ y.parent \in [Ids -> Ids \cup {None}] /\ y.subj[m] # None /\ y.subj[ap] # None
      /\ AcyclicBut(y, m) /\ AboveIt(y, m)
      /\ \A a \in C \cup {m} : y.parent[a] \in C \cup {ap}
  BY DEF Anchored, State, PlacedIn
<1>2. T0 \in SUBSET (Ids \ {m}) /\ T0 \in SUBSET Ids /\ C \subseteq T0 /\ ap \notin T0 /\ C \subseteq Ids
  BY <1>1 DEF NewFakes
<1> HIDE DEF T0
<1>3. /\ c \in Seq(T0) /\ Len(c) \in 0 .. Cardinality(Ids)
      /\ IsWayUp(y, m, c)
      /\ Len(c) < Cardinality(Ids) => Beyond(y, m, c) \notin T0
  BY <1>1, <1>2, ClimbFacts
<1>4. Len(c) < Cardinality(Ids)
  BY <1>1, <1>2, ClimbInjective
<1> HIDE DEF C, c
<1>5. Beyond(y, m, c) \notin T0
  BY <1>3, <1>4
<1>6. Len(c) \in Nat /\ \A i \in 1 .. Len(c) : c[i] \in T0
  BY <1>3
<1>7. \A i \in 1 .. Len(c) : c[i] = IF i = 1 THEN y.parent[m] ELSE y.parent[c[i - 1]]
  BY <1>3 DEF IsWayUp
<1> DEFINE n == Len(c)
           Good == {i \in 0 .. n : i = 0 \/ c[i] \in C}
<1>8. \A i \in 1 .. n : i - 1 \in Good => i \in Good
  <2> SUFFICES ASSUME NEW i \in 1 .. n, i - 1 \in Good PROVE c[i] \in C
    BY <1>6
  <2>1. c[i] \in C \cup {ap}
    <3>1. CASE i = 1
      BY <1>1, <1>7, <3>1
    <3>2. CASE i # 1
      <4>1. c[i - 1] \in C
        BY <3>2
      <4>2. c[i] = y.parent[c[i - 1]]
        BY <1>7, <3>2
      <4> QED
        BY <1>1, <4>1, <4>2
    <3> QED
      BY <3>1, <3>2
  <2> QED
    BY <1>2, <1>6, <2>1
<1>9. \A i \in 1 .. n : c[i] \in C
  <2>1. 0 \in Good
    BY <1>6
  <2>2. n \in Nat
    BY <1>6
  <2>3. \A i \in 0 .. n : i \in Good
    <3> HIDE DEF Good, n
    <3> QED
      BY <1>8, <2>1, <2>2, UpTo
  <2>4. ASSUME NEW i \in 1 .. n PROVE c[i] \in C
    <3>1. i \in 0 .. n /\ i # 0
      BY <2>2
    <3> QED
      BY <2>3, <3>1
  <2> QED
    BY <2>4
<1>r. DOMAIN c = 1 .. n
  BY <1>3
<1>10. new \subseteq C
  BY <1>9, <1>r DEF Range
<1>11. C \subseteq new
  <2> DEFINE T == new \cup {m}
  <2>1. T \in SUBSET Ids /\ m \in T
    BY <1>2, <1>10
  <2>2. ASSUME NEW a \in T, y.parent[a] \in C PROVE y.parent[a] \in T
    <3>1. CASE a = m /\ n = 0
      BY <1>2, <1>5, <2>2, <3>1 DEF Beyond
    <3>2. CASE a = m /\ n # 0
      <4>1. 1 \in 1 .. n
        BY <1>6, <3>2
      <4>2. c[1] = y.parent[m]
        BY <1>7, <4>1
      <4> QED
        BY <1>r, <3>2, <4>1, <4>2 DEF Range
    <3>3. CASE a # m
      <4>1. PICK i \in 1 .. n : c[i] = a
        BY <1>r, <3>3 DEF Range
      <4>2. CASE i = n
        BY <1>2, <1>5, <1>6, <2>2, <4>1, <4>2 DEF Beyond
      <4>3. CASE i # n
        <5>1. i + 1 \in 1 .. n /\ i + 1 # 1 /\ (i + 1) - 1 = i
          BY <1>6, <4>3
        <5>2. c[i + 1] = y.parent[a]
          BY <1>7, <4>1, <5>1
        <5> QED
          BY <1>r, <5>1, <5>2 DEF Range
      <4> QED
        BY <4>2, <4>3
    <3> QED
      BY <3>1, <3>2, <3>3
  <2>3. C \subseteq T
    <3> HIDE DEF T
    <3> QED
      BY <1>1, <2>1, <2>2 DEF AboveIt, C
  <2>4. m \notin C
    BY <1>1 DEF C, NewFakes
  <2> QED
    BY <2>3, <2>4
<1> QED
  BY <1>10, <1>11 DEF c, C, T0

\* The fakes in between get the subject: everything has its place, except that
\* the article may still be its own ancestor.
LEMMA NameFakesSound ==
  ASSUME IsFiniteSet(Ids), IsFiniteSet(Subjects), None \notin Ids, None \notin Subjects,
         NEW y, NEW ap, NEW m \in Ids, Anchored(y, ap, m), NEW z, z = NameFakes(y, m)
  PROVE  SoundBut(z, PlacedIn(z), m) /\ Onward(z, y, m)
<1> DEFINE C == NewFakes(y)
           P == PlacedIn(y)
           s == y.subj[m]
           new == [a \in Ids |-> IF a \in C THEN s ELSE y.subj[a]]
<1>1. /\ y \in State
      /\ m \in P /\ ap \in P \ {m} /\ y.subj[ap] \in Orbit(y.link, s)
      /\ Hung(y, P \cup C, y.subj)
      /\ \A a \in C \cup {m} : y.parent[a] \in C \cup {ap}
      /\ AcyclicBut(y, m)
      /\ \A a \in P \ {m} : Kin(y, a)
      /\ Listed(y)
  BY DEF Anchored
<1>b. \A a \in Ids : y.subj[a] = None =>
          /\ y.held[a] # "real"
          /\ a \notin C => y.parent[a] = None /\ y.date[a] = 0
  BY DEF Anchored
<1>2. /\ y.subj \in [Ids -> Subjects \cup {None}] /\ Permutes(y.link)
      /\ y.parent \in [Ids -> Ids \cup {None}]
  BY <1>1 DEF State, Hung
<1>3. /\ s \in Subjects /\ y.subj[ap] \in Subjects /\ ap \in Ids
      /\ P \subseteq Ids /\ C \subseteq Ids
      /\ \A a \in C : y.subj[a] = None
      /\ \A a \in Ids : a \in P <=> y.subj[a] # None
  BY <1>1, <1>2 DEF PlacedIn, NewFakes
<1>4. z = [y EXCEPT !.subj = new]
  <2>1. y.parent \in [Ids -> Ids \cup {None}]
    BY <1>1 DEF State
  <2>2. Range(ClimbWhile(y, m, {a \in Ids : y.subj[a] = None})) = C
    BY <2>1, ClimbMeetsFakes
  <2> QED
    BY <2>2 DEF NameFakes
<1> HIDE DEF C, P, s
<1>5. new \in [Ids -> Subjects \cup {None}]
  BY <1>2, <1>3
<1>6. /\ z \in State
      /\ z.held = y.held /\ z.kids = y.kids /\ z.date = y.date /\ z.parent = y.parent
      /\ z.list = y.list /\ z.link = y.link /\ z.thread = y.thread
      /\ z.articles = y.articles /\ z.sdate = y.sdate
      /\ z.short = y.short /\ z.hashed = y.hashed
      /\ z.subj = new
  <2> HIDE DEF new
  <2> QED
    BY <1>1, <1>4, <1>5 DEF State
<1>7. /\ \A a \in Ids : a \in C => z.subj[a] = s
      /\ \A a \in Ids : a \notin C => z.subj[a] = y.subj[a]
  BY <1>6
<1> HIDE DEF new
<1>8. PlacedIn(z) = P \cup C
  <2>1. \A a \in Ids : z.subj[a] # None <=> a \in P \cup C
    BY <1>3, <1>7
  <2> QED
    BY <1>3, <2>1 DEF PlacedIn
<1>9. Hung(z, PlacedIn(z), z.subj)
  <2> DEFINE X == P \cup C
  <2>1. ASSUME NEW a \in X, y.parent[a] = None
        PROVE  z.subj[a] \in Subjects /\ z.subj[a] \in Orbit(y.link, y.subj[a])
    <3>1. a \notin C
      BY <1>1, <1>3, <2>1
    <3>2. a \in P /\ a \in Ids /\ y.subj[a] \in Subjects
      BY <1>2, <1>3, <3>1
    <3> QED
      BY <1>2, <1>7, <3>1, <3>2, OrbitFacts
  <2>2. Hung(y, X, y.subj) /\ \A a \in X : z.parent[a] = y.parent[a]
    BY <1>1, <1>6
  <2> HIDE DEF X
  <2>3. Hung(z, X, z.subj)
    BY <1>6, <2>1, <2>2, HungAlike
  <2> QED
    BY <1>8, <2>3 DEF X
<1>10. AcyclicBut(z, m)
  BY <1>1, <1>6 DEF AcyclicBut
<1>11. Bare(z)
  <2> SUFFICES ASSUME NEW a \in Ids, z.subj[a] = None
               PROVE  z.parent[a] = None /\ z.date[a] = 0 /\ z.held[a] # "real"
    BY DEF Bare
  <2>1. a \notin C /\ y.subj[a] = None
    BY <1>3, <1>7
  <2> QED
    BY <1>b, <1>6, <2>1
<1>12. ASSUME NEW a \in Ids, z.parent[a] # None PROVE Kin(z, a)
  <2>1. CASE a \in C \cup {m}
    <3>1. z.subj[a] = s
      BY <1>1, <1>3, <1>7, <2>1 DEF s
    <3>2. y.parent[a] \in C \cup {ap}
      BY <1>1, <2>1
    <3>3. s \in Orbit(y.link, s)
      BY <1>2, <1>3, OrbitFacts
    <3>4. z.subj[y.parent[a]] \in Subjects /\ z.subj[y.parent[a]] \in Orbit(y.link, s)
      <4>1. ap \notin C
        BY <1>1, <1>3
      <4> QED
        BY <1>1, <1>3, <1>7, <3>2, <3>3, <4>1
    <3> QED
      BY <1>3, <1>6, <3>1, <3>4 DEF Kin
  <2>2. CASE a \in P \ {m}
    <3>1. /\ y.subj[a] \in Subjects /\ y.subj[y.parent[a]] \in Subjects
          /\ y.subj[y.parent[a]] \in Orbit(y.link, y.subj[a]) /\ y.parent[a] \in Ids
      BY <1>1, <1>2, <1>6, <1>12, <2>2 DEF Kin
    <3>2. a \notin C /\ y.parent[a] \notin C
      BY <1>3, <3>1
    <3> QED
      BY <1>6, <1>7, <3>1, <3>2 DEF Kin
  <2>3. CASE a \notin P /\ a \notin C
    BY <1>b, <1>3, <1>6, <1>12, <2>3
  <2> QED
    BY <2>1, <2>2, <2>3
<1>13. \A a \in Ids : Kin(z, a)
  BY <1>12 DEF Kin
<1>14. Listed(z)
  <2>1. s \in Range(y.list)
    BY <1>1, <1>3 DEF Listed, s
  <2>2. \A a \in Ids : z.subj[a] # None => z.subj[a] \in Range(y.list)
    BY <1>1, <1>7, <2>1 DEF Listed
  <2> QED
    BY <1>1, <1>6, <2>2 DEF Listed
<1>15. Onward(z, y, m)
  <2>1. \A a \in Ids : y.held[a] = "real" => a \notin C
    BY <1>b, <1>3
  <2> QED
    BY <1>6, <1>7, <2>1 DEF Onward
<1> QED
  BY <1>6, <1>9, <1>10, <1>11, <1>13, <1>14, <1>15 DEF SoundBut

\* thread_article keeps the tree whole, and changes nothing for the others but
\* that one of them may be cut off.
LEMMA ThreadArticleWhole ==
  ASSUME IsFiniteSet(Ids), IsFiniteSet(Subjects), None \notin Ids, None \notin Subjects,
         NEW x, NEW m \in Ids, NEW again, Start(x, m, again), NEW refs \in Seq(Ids),
         NEW y, y = ThreadArticle(x, m, refs, again)
  PROVE  Whole(y) /\ Onward(y, x, m)
<1> DEFINE r == References(x, m, refs, again)
<1>1. Referred(r, x, m, again)
  BY ReferencesFacts
<1>2. y = IF r.ap # None
          THEN CutCircle(NameFakes(Anchor(r.x, m, r), m), m)
          ELSE IF again THEN r.x ELSE LinkChild(r.x, m)
  BY ThreadArticleIs
<1> HIDE DEF r
<1>3. Kept(r.x, x, m) /\ Onward(r.x, x, m)
  BY <1>1, KeptFacts DEF Referred
<1>4. CASE r.ap # None
  <2> DEFINE a == Anchor(r.x, m, r)
             b == NameFakes(a, m)
  <2>1. Anchored(a, r.ap, m) /\ Onward(a, r.x, m)
    <3>1. CASE r.found
      <4>1. a = IF (r.x).thread[(r.x).subj[m]] # (r.x).thread[(r.x).subj[r.ap]]
                THEN MergeThreads(r.x, (r.x).subj[r.ap], (r.x).subj[m]) ELSE r.x
        BY <3>1 DEF Anchor
      <4>2. Reached(r.x, r.ap, m)
        BY <1>1, <3>1 DEF Referred
      <4> HIDE DEF a
      <4> QED
        BY <1>3, <4>1, <4>2, AnchorFound
    <3>2. CASE ~r.found
      <4>1. a = LinkChild([r.x EXCEPT !.subj[r.ap] = (r.x).subj[m]], r.ap)
        BY <3>2 DEF Anchor
      <4>2. Reaching(r.x, r.ap, m)
        BY <1>1, <1>4, <3>2 DEF Referred
      <4> HIDE DEF a
      <4> QED
        BY <1>3, <4>1, <4>2, AnchorNew
    <3> QED
      BY <3>1, <3>2
  <2>3. y = CutCircle(b, m)
    BY <1>2, <1>4
  <2> HIDE DEF a
  <2>2. SoundBut(b, PlacedIn(b), m) /\ Onward(b, a, m)
    BY <2>1, NameFakesSound
  <2> HIDE DEF b
  <2>4. Whole(y) /\ Onward(y, b, m)
    BY <2>2, <2>3, CutCircleSound
  <2> QED
    BY <1>3, <2>1, <2>2, <2>4, OnwardTrans
<1>5. CASE r.ap = None
  <2>1. Untouched(r.x, x, m, again)
    BY <1>1, <1>5 DEF Referred, Reaching, Reached, NewFakes, PlacedIn
  <2> DEFINE q == r.x
             X == IF again THEN PlacedIn(q) ELSE PlacedIn(q) \ {m}
  <2>2. /\ Sound(x, IF again THEN PlacedIn(x) ELSE PlacedIn(x) \ {m})
        /\ m \in PlacedIn(x) /\ again \in BOOLEAN
        /\ ~again => x.parent[m] = None
    BY DEF Start
  <2>3. /\ q \in State /\ q.subj = x.subj /\ q.date = x.date /\ q.parent = x.parent
        /\ q.list = x.list /\ q.link = x.link /\ q.short = x.short
        /\ \A b \in Ids : q.held[b] = "real" <=> x.held[b] = "real"
        /\ Hung(q, X, q.subj)
    BY <1>3, <2>1 DEF Kept, Untouched
  <2> HIDE DEF q
  <2>4. Sound(q, X)
    <3> HIDE DEF X
    <3>1. Acyclic(q) /\ Bare(q)
      BY <2>2, <2>3 DEF Sound, Acyclic, Bare
    <3>2. \A b \in Ids : Kin(q, b)
      BY <2>2, <2>3 DEF Sound, Kin
    <3>3. Listed(q)
      BY <2>2, <2>3 DEF Sound, Listed
    <3> QED
      BY <2>3, <3>1, <3>2, <3>3 DEF Sound
  <2>5. CASE again
    BY <1>2, <1>3, <1>5, <2>4, <2>5 DEF Whole, q
  <2>6. CASE ~again
    <3>1. y = LinkChild(q, m)
      BY <1>2, <1>5, <2>6 DEF q
    <3> DEFINE Y == PlacedIn(q) \ {m}
    <3>2. Sound(q, Y)
      BY <2>4, <2>6
    <3>3. m \in Ids \ Y /\ m \in PlacedIn(q) /\ q.subj[m] \in Subjects /\ Y \cup {m} = PlacedIn(q)
      BY <2>2, <2>3 DEF PlacedIn, State
    <3> HIDE DEF Y
    <3>4. q.subj[m] \in Orbit(q.link, q.subj[m]) /\ Permutes(q.link) /\ Hung(q, Y, q.subj)
          /\ IsInjective(q.list)
      BY <3>2, <3>3, OrbitFacts DEF Sound, Hung, Listed
    <3>5. OtherLists(y, q) /\ Hung(y, Y \cup {m}, q.subj)
      BY <2>3, <3>1, <3>3, <3>4, LinkHung
    <3>6. Joins(y, q)
      BY <3>4, <3>5, OtherListsJoin
    <3>7. y.subj = q.subj
      BY <3>6 DEF Joins, SameArticles
    <3>8. Hung(y, PlacedIn(y), y.subj)
      BY <3>3, <3>5, <3>7 DEF PlacedIn
    <3>9. Whole(y)
      BY <3>2, <3>6, <3>8, JoinsSound DEF Whole
    <3>10. Onward(y, q, m)
      BY <3>6, JoinsOnward
    <3> QED
      BY <1>3, <3>9, <3>10, OnwardTrans DEF q
  <2> QED
    BY <2>2, <2>5, <2>6
<1> QED
  BY <1>4, <1>5

=============================================================================
