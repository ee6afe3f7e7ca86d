------------------------------ MODULE FoldFacts ------------------------------
(***************************************************************************)
(* What a fold over a sequence does, for a step that whoever           *)
(* instantiates the module gives.  The step may depend on two values       *)
(* besides what came so far and the element.                               *)
(***************************************************************************)
EXTENDS SequencesExt, NatFacts

CONSTANTS
    op(_, _, _, _)  \* the step: what came so far, an element, two values

LEMMA MaxNat ==
  ASSUME NEW n \in Nat, NEW S \in SUBSET (1 .. n), S # {}
  PROVE  Max(S) \in S /\ \A y \in S : y <= Max(S)
<1>1. \E x \in S : \A y \in S : x >= y
  <2>1. S \in SUBSET (0 .. n)
    OBVIOUS
  <2>2. PICK x \in S : \A y \in S : y <= x
    BY <2>1, GreatestNat
  <2> QED
    BY <2>2
<1>2. Max(S) \in S /\ \A y \in S : Max(S) >= y
  BY <1>1, Zenon DEF Max
<1> QED
  BY <1>2

\* The function a fold over seq[1], ..., seq[n] is defined by.
IsIter(f, base, seq, a, b, n) ==
  f = [s \in SUBSET (1 .. n) |->
         IF s = {} THEN base
         ELSE op(f[s \ {Max(s)}], seq[Max(s)], a, b)]

LEMMA IterExists ==
  ASSUME NEW base, NEW seq, NEW a, NEW b, NEW n \in Nat
  PROVE  \E f : IsIter(f, base, seq, a, b, n)
<1> DEFINE Done == {k \in 0 .. n : \E f : IsIter(f, base, seq, a, b, k)}
<1>1. 0 \in Done
  <2> DEFINE f == [s \in SUBSET (1 .. 0) |-> base]
  <2>1. \A s \in SUBSET (1 .. 0) : s = {}
    OBVIOUS
  <2>2. f = [s \in SUBSET (1 .. 0) |->
         IF s = {} THEN base
         ELSE op(f[s \ {Max(s)}], seq[Max(s)], a, b)]
    BY <2>1
  <2> QED
    BY <2>2 DEF IsIter
<1>2. ASSUME NEW k \in 1 .. n, k - 1 \in Done
      PROVE  k \in Done
  <2>1. PICK f : IsIter(f, base, seq, a, b, k - 1)
    BY <1>2
  <2> DEFINE g == [s \in SUBSET (1 .. k) |->
                     IF k \in s THEN op(f[s \ {k}], seq[k], a, b) ELSE f[s]]
  <2>2. ASSUME NEW s \in SUBSET (1 .. k)
        PROVE  g[s] = IF s = {} THEN base
                      ELSE op(g[s \ {Max(s)}], seq[Max(s)], a, b)
    <3>1. CASE k \in s
      <4>1. Max(s) \in s /\ \A y \in s : y <= Max(s)
        BY <3>1, MaxNat, k \in Nat, s # {}
      <4>2. Max(s) \in 1 .. k /\ k <= Max(s)
        BY <3>1, <4>1
      <4>3. Max(s) = k
        BY <4>2
      <4>4. s \ {k} \in SUBSET (1 .. k) /\ k \notin s \ {k}
        OBVIOUS
      <4>5. g[s \ {k}] = f[s \ {k}]
        BY <4>4
      <4>6. g[s] = op(f[s \ {k}], seq[k], a, b)
        BY <3>1
      <4> HIDE DEF g
      <4> QED
        BY <3>1, <4>3, <4>5, <4>6
    <3>2. CASE k \notin s
      <4>1. s \in SUBSET (1 .. k - 1)
        BY <3>2
      <4>2. g[s] = f[s]
        BY <3>2
      <4>3. f[s] = IF s = {} THEN base
                   ELSE op(f[s \ {Max(s)}], seq[Max(s)], a, b)
        BY <2>1, <4>1 DEF IsIter
      <4>4. s \ {Max(s)} \in SUBSET (1 .. k) /\ k \notin s \ {Max(s)}
        BY <3>2
      <4>5. g[s \ {Max(s)}] = f[s \ {Max(s)}]
        BY <4>4
      <4> HIDE DEF g
      <4> QED
        BY <4>2, <4>3, <4>5
    <3> QED
      BY <3>1, <3>2
  <2>3. g = [s \in SUBSET (1 .. k) |->
               IF s = {} THEN base
               ELSE op(g[s \ {Max(s)}], seq[Max(s)], a, b)]
    BY <2>2
  <2>4. IsIter(g, base, seq, a, b, k)
    BY <2>3 DEF IsIter
  <2> QED
    BY <2>4
<1> HIDE DEF Done
<1>3. n \in Done
  BY <1>1, <1>2, UpTo
<1> QED
  BY <1>3 DEF Done

\* The fold with this step.
Fold(base, seq, a, b) == FoldLeft(LAMBDA x, d : op(x, d, a, b), base, seq)

\* What it has made of the base after every element.
Goes(g, base, seq, a, b) ==
    /\ g[0] = base
    /\ \A i \in 1 .. Len(seq) : g[i] = op(g[i - 1], seq[i], a, b)

\* A fold goes through the sequence step by step.
THEOREM FoldSteps ==
  ASSUME NEW base, NEW D, NEW seq \in Seq(D), NEW a, NEW b
  PROVE  \E g : /\ Goes(g, base, seq, a, b)
                /\ Fold(base, seq, a, b) = g[Len(seq)]
<1>1. DOMAIN seq = 1 .. Len(seq) /\ Len(seq) \in Nat
  OBVIOUS
<1> DEFINE n == Len(seq)
           f == CHOOSE f : IsIter(f, base, seq, a, b, n)
           g == [i \in 0 .. n |-> f[1 .. i]]
<1>2. IsIter(f, base, seq, a, b, n)
  BY <1>1, IterExists
<1>3. Fold(base, seq, a, b) = f[1 .. n]
  BY <1>1 DEF Fold, FoldLeft, MapThenFoldSet, IsIter
<1>4. g[0] = base
  <2>1. 1 .. 0 = {}
    OBVIOUS
  <2>2. f[{}] = base
    BY <1>2 DEF IsIter
  <2> QED
    BY <1>1, <2>1, <2>2
<1>5. ASSUME NEW i \in 1 .. n
      PROVE  g[i] = op(g[i - 1], seq[i], a, b)
  <2>1. 1 .. i \in SUBSET (1 .. n) /\ 1 .. i # {} /\ i \in 1 .. i
    BY <1>1
  <2>2. f[1 .. i] = op(f[(1 .. i) \ {Max(1 .. i)}], seq[Max(1 .. i)], a, b)
    BY <1>2, <2>1 DEF IsIter
  <2>3. Max(1 .. i) \in 1 .. i /\ i <= Max(1 .. i)
    BY <1>1, <2>1, MaxNat
  <2>4. Max(1 .. i) = i
    BY <2>3
  <2>5. (1 .. i) \ {i} = 1 .. i - 1
    BY <1>1
  <2>6. i \in 0 .. n /\ i - 1 \in 0 .. n
    BY <1>1
  <2> HIDE DEF f
  <2> QED
    BY <2>2, <2>4, <2>5, <2>6
<1>6. g[n] = f[1 .. n]
  BY <1>1
<1> HIDE DEF f, g
<1>7. Goes(g, base, seq, a, b)
  BY <1>4, <1>5 DEF Goes
<1> QED
  BY <1>3, <1>6, <1>7

=============================================================================
