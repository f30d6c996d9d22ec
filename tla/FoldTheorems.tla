------------------------------ MODULE FoldTheorems ------------------------------
(***************************************************************************)
(* A fold over a sequence is a loop: facts about FoldLeft that the theorems  *)
(* on scores, models and transcripts need.  The library's theorems on         *)
(* induction take an operator, which the provers cannot instantiate; here     *)
(* induction is over a set of numbers, and what is folded is the constant     *)
(* Op of this module, so that an INSTANCE of the module instantiates it.      *)
(***************************************************************************)
EXTENDS Integers, Sequences, SequencesExt, WellFoundedInduction, TLAPS

CONSTANT Op(_, _, _)        \* of a parameter, what has been folded, and an element

----------------------------------------------------------------------------
(* Induction                                                                 *)

\* Every set of natural numbers that is not empty has a least element.
LEMMA LeastNumber ==
  ASSUME NEW T \in SUBSET Nat, T # {}
  PROVE  \E n \in T : \A m \in T : n <= m
  <1> DEFINE R == {ss \in Nat \X Nat : ss[1] < ss[2]}
  <1>1. IsWellFoundedOn(R, Nat)
    BY NatLessThanWellFounded DEF OpToRel
  <1> HIDE DEF R
  <1>2. PICK x \in T : \A y \in T : ~(<<y, x>> \in R)
    BY <1>1, WFMin
  <1>3. ASSUME NEW y \in T, y < x PROVE FALSE
    <2>1. <<y, x>> \in Nat \X Nat /\ <<y, x>>[1] < <<y, x>>[2]
      BY <1>3
    <2>2. <<y, x>> \in R
      BY <2>1 DEF R
    <2> QED
      BY <1>2, <2>2
  <1> QED
    BY <1>3

\* Induction: a set with 0 and with the successor of each of its numbers holds
\* every number.
LEMMA NumbersByInduction ==
  ASSUME NEW S, 0 \in S, \A n \in Nat : n \in S => n + 1 \in S
  PROVE  \A n \in Nat : n \in S
  <1> SUFFICES ASSUME Nat \ S # {} PROVE FALSE
    OBVIOUS
  <1>1. PICK n \in Nat \ S : \A m \in Nat \ S : n <= m
    BY LeastNumber
  <1>2. n # 0 /\ n - 1 \in Nat
    BY <1>1
  <1>3. n - 1 \in S
    BY <1>1, <1>2
  <1> QED
    BY <1>1, <1>2, <1>3

\* The same up to a bound.
LEMMA IntervalByInduction ==
  ASSUME NEW N \in Nat, NEW S, 0 \in S, \A n \in 0..N - 1 : n \in S => n + 1 \in S
  PROVE  \A n \in 0..N : n \in S
  <1> DEFINE T == {n \in Nat : n <= N => n \in S}
  <1>1. 0 \in T
    OBVIOUS
  <1>2. \A n \in Nat : n \in T => n + 1 \in T
    OBVIOUS
  <1> HIDE DEF T
  <1>3. \A n \in Nat : n \in T
    BY <1>1, <1>2, NumbersByInduction
  <1> QED
    BY <1>3 DEF T

LEMMA MaxOfInterval ==
  ASSUME NEW n \in Nat, NEW s \in SUBSET (1..n), s # {}
  PROVE  Max(s) \in s /\ \A i \in s : i <= Max(s)
  <1> DEFINE T == {n - i : i \in s}
  <1>1. T \in SUBSET Nat /\ T # {}
    <2>1. \A i \in s : i \in 1..n /\ n - i \in Nat
      OBVIOUS
    <2> QED
      BY <2>1
  <1>2. PICK t \in T : \A u \in T : t <= u
    BY <1>1, LeastNumber
  <1>3. PICK m \in s : t = n - m
    OBVIOUS
  <1>4. ASSUME NEW i \in s PROVE m >= i
    <2>1. n - i \in T /\ m \in 1..n /\ i \in 1..n
      OBVIOUS
    <2> QED
      BY <1>2, <1>3, <2>1
  <1> QED
    BY <1>3, <1>4 DEF Max

LEMMA MaxIsTop ==
  ASSUME NEW n \in Nat, NEW s \in SUBSET (1..n), n \in s
  PROVE  Max(s) = n
  <1>1. Max(s) \in s /\ \A i \in s : i <= Max(s)
    BY MaxOfInterval
  <1>2. n <= Max(s) /\ Max(s) \in 1..n
    BY <1>1
  <1> QED
    BY <1>2

----------------------------------------------------------------------------
(* Folds                                                                     *)

Fold(p, base, seq) == FoldLeft(LAMBDA acc, x : Op(p, acc, x), base, seq)

\* The function that FoldLeft is defined by.
Folds(g, p, base, seq, n) ==
    g = [s \in SUBSET (1..n) |-> IF s = {} THEN base
                                 ELSE Op(p, g[s \ {Max(s)}], seq[Max(s)])]

LEMMA FoldUnfolds ==
  ASSUME NEW p, NEW base, NEW seq, NEW n, DOMAIN seq = 1..n
  PROVE  Fold(p, base, seq) = (CHOOSE g : Folds(g, p, base, seq, n))[1..n]
  BY DEF Fold, FoldLeft, MapThenFoldSet, Folds

\* There is such a function, for any sequence.
LEMMA FoldExists ==
  ASSUME NEW p, NEW base, NEW seq, NEW N \in Nat
  PROVE  \E g : Folds(g, p, base, seq, N)
  <1> DEFINE S == {n \in Nat : \E g : Folds(g, p, base, seq, n)}
  <1>1. 0 \in S
    <2> DEFINE g == [s \in SUBSET (1..0) |-> base]
    <2>1. \A s \in SUBSET (1..0) : s = {}
      OBVIOUS
    <2>2. Folds(g, p, base, seq, 0)
      BY <2>1 DEF Folds
    <2> QED
      BY <2>2
  <1>2. ASSUME NEW n \in Nat, n \in S PROVE n + 1 \in S
    <2>1. PICK g : Folds(g, p, base, seq, n)
      BY <1>2
    <2> DEFINE m == n + 1
               h == [s \in SUBSET (1..m) |->
                       IF m \in s THEN Op(p, g[s \ {m}], seq[m]) ELSE g[s]]
    <2>2. ASSUME NEW s \in SUBSET (1..m)
          PROVE  h[s] = IF s = {} THEN base ELSE Op(p, h[s \ {Max(s)}], seq[Max(s)])
      <3>1. CASE m \in s
        <4>2. Max(s) = m
          BY <3>1, MaxIsTop
        <4>3. s \ {m} \in SUBSET (1..m) /\ m \notin s \ {m}
          OBVIOUS
        <4>4. h[s \ {m}] = g[s \ {m}] /\ h[s] = Op(p, g[s \ {m}], seq[m])
          BY <3>1, <4>3
        <4> HIDE DEF h, m
        <4> QED
          BY <3>1, <4>2, <4>4
      <3>2. CASE m \notin s
        <4>1. s \in SUBSET (1..n) /\ h[s] = g[s]
          BY <3>2
        <4>2. CASE s = {}
          BY <2>1, <4>1, <4>2 DEF Folds
        <4>3. CASE s # {}
          <5>1. g[s] = Op(p, g[s \ {Max(s)}], seq[Max(s)])
            BY <2>1, <4>1, <4>3 DEF Folds
          <5>2. s \ {Max(s)} \in SUBSET (1..m) /\ m \notin s \ {Max(s)}
            BY <3>2
          <5>3. h[s \ {Max(s)}] = g[s \ {Max(s)}]
            BY <5>2
          <5> HIDE DEF h, m
          <5> QED
            BY <4>1, <4>3, <5>1, <5>3
        <4> QED
          BY <4>2, <4>3
      <3> QED
        BY <3>1, <3>2
    <2>3. Folds(h, p, base, seq, m)
      <3>1. h = [s \in SUBSET (1..m) |-> h[s]]
        OBVIOUS
      <3> HIDE DEF h, m
      <3> QED
        BY <2>2, <3>1 DEF Folds
    <2> QED
      BY <2>3
  <1> HIDE DEF S
  <1>3. N \in S
    BY <1>1, <1>2, NumbersByInduction
  <1> QED
    BY <1>3 DEF S

\* What a loop over seq computes: acc has its values before the first element and
\* after each of them.
IsLoop(acc, p, base, seq, N) ==
    /\ acc[0] = base
    /\ \A k \in 0..N - 1 : acc[k + 1] = Op(p, acc[k], seq[k + 1])

\* A fold is what the loop over the sequence ends with.
THEOREM FoldIsLoop ==
  ASSUME NEW p, NEW base, NEW seq, NEW N \in Nat, DOMAIN seq = 1..N
  PROVE  \E acc : IsLoop(acc, p, base, seq, N) /\ Fold(p, base, seq) = acc[N]
  <1> DEFINE g == CHOOSE g : Folds(g, p, base, seq, N)
  <1>1. Folds(g, p, base, seq, N)
    BY FoldExists
  <1>2. Fold(p, base, seq) = g[1..N]
    BY FoldUnfolds
  <1> HIDE DEF g
  <1> DEFINE acc == [k \in 0..N |-> g[1..k]]
  <1>3. acc[0] = base
    <2>1. 1..0 = {}
      OBVIOUS
    <2> QED
      BY <1>1, <2>1 DEF Folds
  <1>4. ASSUME NEW k \in 0..N - 1 PROVE acc[k + 1] = Op(p, acc[k], seq[k + 1])
    <2>1. 1..k + 1 \in SUBSET (1..N) /\ 1..k + 1 # {}
      <3>1. 1 \in 1..k + 1 /\ \A i \in 1..k + 1 : i \in 1..N
        OBVIOUS
      <3> QED
        BY <3>1
    <2>2. Max(1..k + 1) = k + 1
      <3>1. Max(1..k + 1) \in 1..k + 1 /\ \A i \in 1..k + 1 : i <= Max(1..k + 1)
        BY <2>1, MaxOfInterval
      <3> QED
        BY <3>1
    <2>3. (1..k + 1) \ {k + 1} = 1..k
      OBVIOUS
    <2>4. g[1..k + 1] = Op(p, g[1..k], seq[k + 1])
      BY <1>1, <2>1, <2>2, <2>3 DEF Folds
    <2> QED
      BY <2>4
  <1> HIDE DEF acc
  <1>5. Fold(p, base, seq) = acc[N]
    BY <1>2 DEF acc
  <1>6. IsLoop(acc, p, base, seq, N)
    BY <1>3, <1>4 DEF IsLoop
  <1> QED
    BY <1>5, <1>6

----------------------------------------------------------------------------
(* The order of the elements                                                 *)

\* Op keeps within A, and does not mind in which order two elements of X come.
Commutes(p, A, X) ==
    /\ \A a \in A, x \in X : Op(p, a, x) \in A
    /\ \A a \in A, x, y \in X : Op(p, Op(p, a, x), y) = Op(p, Op(p, a, y), x)

\* What has been folded of a set of elements is what was folded before any one of them
\* was, and that one.
AnyLast(g, p, base, seq, N) ==
    /\ g[{}] = base
    /\ \A s \in SUBSET (1..N) : \A x \in s : g[s] = Op(p, g[s \ {x}], seq[x])

LEMMA FoldOfSet ==
  ASSUME NEW p, NEW A, NEW X, Commutes(p, A, X), NEW base \in A,
         NEW N \in Nat, NEW seq, \A i \in 1..N : seq[i] \in X,
         NEW g, Folds(g, p, base, seq, N)
  PROVE  AnyLast(g, p, base, seq, N)
  <1> DEFINE Good(s) == g[s] \in A /\ \A x \in s : g[s] = Op(p, g[s \ {x}], seq[x])
             K == {k \in 0..N : \A s \in SUBSET (1..k) : Good(s)}
  <1>1. 0 \in K
    <2>1. \A s \in SUBSET (1..0) : s = {} /\ s \in SUBSET (1..N)
      OBVIOUS
    <2>2. {} \in SUBSET (1..N)
      OBVIOUS
    <2>3. g[{}] = base
      BY <2>2 DEF Folds
    <2>4. Good({})
      BY <2>3
    <2> HIDE DEF Good
    <2>5. \A s \in SUBSET (1..0) : Good(s)
      BY <2>1, <2>4
    <2>6. 0 \in 0..N
      OBVIOUS
    <2> QED
      BY <2>5, <2>6
  <1>2. ASSUME NEW k \in 0..N - 1, k \in K PROVE k + 1 \in K
    <2> DEFINE m == k + 1
    <2>1. m \in 1..N /\ \A s \in SUBSET (1..k) : Good(s)
      BY <1>2
    <2>2. ASSUME NEW s \in SUBSET (1..m) PROVE Good(s)
      <3>1. CASE m \notin s
        <4>1. s \in SUBSET (1..k)
          BY <3>1
        <4> QED
          BY <2>1, <4>1
      <3>2. CASE m \in s
        <4>1. \A i \in 1..m : i \in 1..N /\ i <= m
          BY <2>1
        <4>2. ASSUME NEW t \in SUBSET (1..m), m \in t
              PROVE  g[t] = Op(p, g[t \ {m}], seq[m])
          <5>1. m \in Nat
            OBVIOUS
          <5> HIDE DEF m, K, Good
          <5>2. Max(t) = m
            BY <4>2, <5>1, MaxIsTop
          <5>3. t \in SUBSET (1..N) /\ t # {}
            BY <4>1, <4>2
          <5> QED
            BY <5>2, <5>3 DEF Folds
        <4>3. s \ {m} \in SUBSET (1..k)
          OBVIOUS
        <4>4. g[s \ {m}] \in A /\ g[s] = Op(p, g[s \ {m}], seq[m])
          BY <2>1, <3>2, <4>2, <4>3
        <4>5. g[s] \in A
          BY <2>1, <4>4 DEF Commutes
        <4>6. ASSUME NEW x \in s, x # m PROVE g[s] = Op(p, g[s \ {x}], seq[x])
          <5> DEFINE r == (s \ {m}) \ {x}
          <5>1. x \in 1..N /\ x \in s \ {m} /\ r \in SUBSET (1..k)
            BY <4>1, <4>6
          <5>2. g[s \ {m}] = Op(p, g[r], seq[x]) /\ g[r] \in A
            BY <2>1, <4>3, <5>1
          <5>3. s \ {x} \in SUBSET (1..m) /\ m \in s \ {x} /\ (s \ {x}) \ {m} = r
            BY <3>2, <4>6
          <5>4. g[s \ {x}] = Op(p, g[r], seq[m])
            BY <4>2, <5>3
          <5>5. seq[x] \in X /\ seq[m] \in X
            BY <2>1, <5>1
          <5> HIDE DEF r
          <5> QED
            BY <4>4, <5>2, <5>4, <5>5 DEF Commutes
        <4> QED
          BY <4>4, <4>5, <4>6
      <3> QED
        BY <3>1, <3>2
    <2> QED
      BY <2>2
  <1> HIDE DEF K
  <1>3. \A k \in 0..N : k \in K
    BY <1>1, <1>2, IntervalByInduction
  <1>4. \A s \in SUBSET (1..N) : \A x \in s : g[s] = Op(p, g[s \ {x}], seq[x])
    <2>1. N \in K
      BY <1>3
    <2> QED
      BY <2>1 DEF K
  <1>5. g[{}] = base
    <2>1. {} \in SUBSET (1..N)
      OBVIOUS
    <2> QED
      BY <2>1 DEF Folds
  <1> QED
    BY <1>4, <1>5 DEF AnyLast

\* perm puts the numbers to N in another order; first has those that it puts first.
IsOrder(perm, N) ==
    /\ perm \in [1..N -> 1..N]
    /\ \A i, j \in 1..N : perm[i] = perm[j] => i = j
    /\ \A j \in 1..N : \E i \in 1..N : perm[i] = j

IsFirst(first, perm, N) ==
    /\ first[0] = {} /\ first[N] = 1..N
    /\ \A k \in 0..N - 1 : /\ first[k + 1] \in SUBSET (1..N)
                           /\ perm[k + 1] \in first[k + 1]
                           /\ first[k + 1] \ {perm[k + 1]} = first[k]

LEMMA FirstOfOrder ==
  ASSUME NEW N \in Nat, NEW perm, IsOrder(perm, N)
  PROVE  \E first : IsFirst(first, perm, N)
  <1> DEFINE first == [k \in 0..N |-> {j \in 1..N : \E i \in 1..k : perm[i] = j}]
  <1>1. first[0] = {}
    OBVIOUS
  <1>2. first[N] = 1..N
    BY DEF IsOrder
  <1>3. ASSUME NEW k \in 0..N - 1
        PROVE  /\ first[k + 1] \in SUBSET (1..N)
               /\ perm[k + 1] \in first[k + 1]
               /\ first[k + 1] \ {perm[k + 1]} = first[k]
    <2>1. /\ k \in 0..N /\ k + 1 \in 0..N /\ k + 1 \in 1..N
          /\ \A i \in 1..k : i \in 1..N /\ i \in 1..k + 1 /\ i # k + 1
          /\ \A i \in 1..k + 1 : i \in 1..k \/ i = k + 1
      OBVIOUS
    <2>2. /\ first[k] = {j \in 1..N : \E i \in 1..k : perm[i] = j}
          /\ first[k + 1] = {j \in 1..N : \E i \in 1..k + 1 : perm[i] = j}
      BY <2>1
    <2> HIDE DEF first
    <2>3. perm[k + 1] \in 1..N /\ perm[k + 1] \in first[k + 1]
      BY <2>1, <2>2 DEF IsOrder
    <2>4. ASSUME NEW j \in first[k] PROVE j \in first[k + 1] /\ j # perm[k + 1]
      BY <2>1, <2>2 DEF IsOrder
    <2>5. ASSUME NEW j \in first[k + 1], j # perm[k + 1] PROVE j \in first[k]
      BY <2>1, <2>2, <2>5 DEF IsOrder
    <2>6. first[k + 1] \in SUBSET (1..N)
      BY <2>2
    <2> QED
      BY <2>3, <2>4, <2>5, <2>6
  <1> HIDE DEF first
  <1>4. IsFirst(first, perm, N)
    BY <1>1, <1>2, <1>3 DEF IsFirst
  <1> QED
    BY <1>4

\* A loop over the elements in another order has the fold of those it has met.
LEMMA LoopInOrder ==
  ASSUME NEW p, NEW base, NEW N \in Nat, NEW seq, NEW g, AnyLast(g, p, base, seq, N),
         NEW perm, IsOrder(perm, N), NEW first, IsFirst(first, perm, N),
         NEW other, \A i \in 1..N : other[i] = seq[perm[i]],
         NEW acc, IsLoop(acc, p, base, other, N)
  PROVE  acc[N] = g[first[N]]
  <1> DEFINE K == {k \in 0..N : acc[k] = g[first[k]]}
  <1>1. 0 \in K
    <2>1. acc[0] = base /\ first[0] = {} /\ g[{}] = base
      BY DEF IsLoop, IsFirst, AnyLast
    <2> QED
      BY <2>1
  <1>2. ASSUME NEW k \in 0..N - 1, k \in K PROVE k + 1 \in K
    <2>1. k + 1 \in 0..N /\ k + 1 \in 1..N
      OBVIOUS
    <2>2. acc[k + 1] = Op(p, acc[k], seq[perm[k + 1]])
      BY <2>1 DEF IsLoop
    <2>3. /\ first[k + 1] \in SUBSET (1..N) /\ perm[k + 1] \in first[k + 1]
          /\ first[k + 1] \ {perm[k + 1]} = first[k]
      BY DEF IsFirst
    <2>4. g[first[k + 1]] = Op(p, g[first[k]], seq[perm[k + 1]])
      <3> HIDE DEF K
      <3> QED
        BY <2>3 DEF AnyLast
    <2>5. acc[k] = g[first[k]]
      BY <1>2
    <2>6. acc[k + 1] = g[first[k + 1]]
      BY <2>2, <2>4, <2>5
    <2> QED
      BY <2>1, <2>6
  <1> HIDE DEF K
  <1>3. \A k \in 0..N : k \in K
    BY <1>1, <1>2, IntervalByInduction
  <1> QED
    BY <1>3 DEF K

\* A fold over the same elements in another order has the same value.
THEOREM FoldOfPermutation ==
  ASSUME NEW p, NEW A, NEW X, Commutes(p, A, X), NEW base \in A,
         NEW N \in Nat, NEW seq, DOMAIN seq = 1..N, \A i \in 1..N : seq[i] \in X,
         NEW perm, IsOrder(perm, N),
         NEW other, DOMAIN other = 1..N, \A i \in 1..N : other[i] = seq[perm[i]]
  PROVE  Fold(p, base, other) = Fold(p, base, seq)
  <1> DEFINE g == CHOOSE g : Folds(g, p, base, seq, N)
  <1>1. Folds(g, p, base, seq, N)
    BY FoldExists
  <1>2. Fold(p, base, seq) = g[1..N]
    BY FoldUnfolds
  <1> HIDE DEF g
  <1>3. PICK acc : IsLoop(acc, p, base, other, N) /\ Fold(p, base, other) = acc[N]
    BY FoldIsLoop
  <1>4. AnyLast(g, p, base, seq, N)
    BY <1>1, FoldOfSet
  <1>5. PICK first : IsFirst(first, perm, N)
    BY FirstOfOrder
  <1>6. acc[N] = g[first[N]]
    BY <1>3, <1>4, <1>5, LoopInOrder
  <1> QED
    BY <1>2, <1>3, <1>5, <1>6 DEF IsFirst
=============================================================================
