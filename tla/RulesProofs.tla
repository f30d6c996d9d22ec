------------------------------- MODULE RulesProofs -------------------------------
(* Theorems about the rules between a model file and a detection.             *)
EXTENDS ScoreFusion, ModelRegistry, DiscoveryProofs, FiniteSetTheorems, TLAPS

----------------------------------------------------------------------------
(* The weighted average                                                      *)

AddWeight(p, n, m) == n + Weight(m)
AddScore(s, n, m) == n + s[m.model] * Weight(m)

Weights == INSTANCE FoldTheorems WITH Op <- AddWeight
Products == INSTANCE FoldTheorems WITH Op <- AddScore

LEMMA SumsAreFolds ==
  ASSUME NEW e, NEW s
  PROVE  /\ TotalWeight(e) = Weights!Fold(0, 0, e.members)
         /\ WeightedSum(e, s) = Products!Fold(s, 0, e.members)
  <1>1. TotalWeight(e) = Weights!Fold(0, 0, e.members)
    BY DEF TotalWeight, AddWeight, FoldLeft, MapThenFoldSet, Max,
           Weights!Fold, Weights!FoldLeft, Weights!MapThenFoldSet, Weights!Max
  <1>2. WeightedSum(e, s) = Products!Fold(s, 0, e.members)
    BY DEF WeightedSum, AddScore, FoldLeft, MapThenFoldSet, Max,
           Products!Fold, Products!FoldLeft, Products!MapThenFoldSet, Products!Max
  <1> QED
    BY <1>1, <1>2

\* What FusionAssumption says of one wake word.
LEMMA EntryHasMembers ==
  ASSUME NEW e \in WakeWords
  PROVE  /\ Len(e.members) \in Nat \ {0} /\ DOMAIN e.members = 1..Len(e.members)
         /\ \A i \in 1..Len(e.members) :
               /\ e.members[i].model \in Models(e)
               /\ Weight(e.members[i]) \in Nat
               /\ \A t \in Int : ThresholdOf(e.members[i], t) \in Int
  <1>0. e.members \in Seq(ToSet(e.members)) /\ e.members # << >>
    BY FusionAssumption
  <1>1. DOMAIN e.members = 1..Len(e.members)
    BY <1>0
  <1>2. Len(e.members) \in Nat \ {0}
    BY <1>0
  <1>3. ASSUME NEW i \in 1..Len(e.members)
        PROVE  /\ e.members[i].model \in Models(e)
               /\ Weight(e.members[i]) \in Nat
               /\ \A t \in Int : ThresholdOf(e.members[i], t) \in Int
    <2>1. e.members[i] \in ToSet(e.members)
      BY <1>1 DEF ToSet
    <2> QED
      BY <1>1, <2>1, FusionAssumption DEF Weight, ThresholdOf, Models
  <1> QED
    BY <1>1, <1>2, <1>3

\* The sums as loops over the members.
LEMMA WeightLoop ==
  ASSUME NEW e, NEW N \in Nat, DOMAIN e.members = 1..N
  PROVE  \E acc : Weights!IsLoop(acc, 0, 0, e.members, N) /\ TotalWeight(e) = acc[N]
  BY Weights!FoldIsLoop, SumsAreFolds

LEMMA ProductLoop ==
  ASSUME NEW e, NEW s, NEW N \in Nat, DOMAIN e.members = 1..N
  PROVE  \E acc : Products!IsLoop(acc, s, 0, e.members, N) /\ WeightedSum(e, s) = acc[N]
  BY Products!FoldIsLoop, SumsAreFolds

LEMMA SumsAreNumbers ==
  ASSUME NEW e \in WakeWords, NEW s \in [Models(e) -> Scores]
  PROVE  TotalWeight(e) \in Nat /\ WeightedSum(e, s) \in Nat
  <1> DEFINE N == Len(e.members)
  <1>1. /\ N \in Nat /\ DOMAIN e.members = 1..N
        /\ \A i \in 1..N : e.members[i].model \in Models(e) /\ Weight(e.members[i]) \in Nat
    BY EntryHasMembers
  <1>2. TotalWeight(e) \in Nat
    <2>1. PICK acc : Weights!IsLoop(acc, 0, 0, e.members, N) /\ TotalWeight(e) = acc[N]
      BY <1>1, WeightLoop
    <2> DEFINE S == {k \in 0..N : acc[k] \in Nat}
    <2>2. 0 \in S
      BY <1>1, <2>1 DEF Weights!IsLoop, Products!IsLoop
    <2>3. ASSUME NEW k \in 0..N - 1, k \in S PROVE k + 1 \in S
      <3>1. acc[k + 1] = acc[k] + Weight(e.members[k + 1])
        BY <2>1 DEF Weights!IsLoop, AddWeight
      <3>2. acc[k] \in Nat /\ Weight(e.members[k + 1]) \in Nat /\ k + 1 \in 0..N
        BY <1>1, <2>3
      <3> QED
        BY <3>1, <3>2
    <2> HIDE DEF S
    <2>4. \A k \in 0..N : k \in S
      BY <1>1, <2>2, <2>3, Weights!IntervalByInduction
    <2> QED
      BY <1>1, <2>1, <2>4 DEF S
  <1>3. WeightedSum(e, s) \in Nat
    <2>1. PICK acc : Products!IsLoop(acc, s, 0, e.members, N) /\ WeightedSum(e, s) = acc[N]
      BY <1>1, ProductLoop
    <2> DEFINE S == {k \in 0..N : acc[k] \in Nat}
    <2>2. 0 \in S
      BY <1>1, <2>1 DEF Weights!IsLoop, Products!IsLoop
    <2>3. ASSUME NEW k \in 0..N - 1, k \in S PROVE k + 1 \in S
      <3> DEFINE m == e.members[k + 1]
      <3>1. acc[k + 1] = acc[k] + s[m.model] * Weight(m)
        BY <2>1 DEF Products!IsLoop, AddScore
      <3>2. acc[k] \in Nat /\ Weight(m) \in Nat /\ m.model \in Models(e) /\ k + 1 \in 0..N
        BY <1>1, <2>3
      <3>3. s[m.model] \in Nat
        BY <3>2, FusionAssumption DEF Scores
      <3> HIDE DEF m
      <3>4. s[m.model] * Weight(m) \in Nat
        BY <3>2, <3>3
      <3> QED
        BY <3>1, <3>2, <3>4
    <2> HIDE DEF S
    <2>4. \A k \in 0..N : k \in S
      BY <1>1, <2>2, <2>3, Weights!IntervalByInduction
    <2> QED
      BY <1>1, <2>1, <2>4 DEF S
  <1> QED
    BY <1>2, <1>3

LEMMA ProductMonotone ==
  ASSUME NEW a \in Int, NEW b \in Int, NEW w \in Nat, a <= b
  PROVE  a * w <= b * w
  <1>1. (b - a) * w \in Nat /\ b - a \in Nat
    OBVIOUS
  <1>2. b * w = a * w + (b - a) * w
    OBVIOUS
  <1> QED
    BY <1>1, <1>2

\* The weighted sum grows with each score, for the weights are not negative.
LEMMA SumGrows ==
  ASSUME NEW e \in WakeWords, NEW s \in [Models(e) -> Scores],
         NEW r \in [Models(e) -> Scores], \A m \in Models(e) : s[m] <= r[m]
  PROVE  WeightedSum(e, s) <= WeightedSum(e, r)
  <1> DEFINE N == Len(e.members)
  <1>1. /\ N \in Nat /\ DOMAIN e.members = 1..N
        /\ \A i \in 1..N : e.members[i].model \in Models(e) /\ Weight(e.members[i]) \in Nat
    BY EntryHasMembers
  <1>2. PICK acc : Products!IsLoop(acc, s, 0, e.members, N) /\ WeightedSum(e, s) = acc[N]
    BY <1>1, ProductLoop
  <1>3. PICK bcc : Products!IsLoop(bcc, r, 0, e.members, N) /\ WeightedSum(e, r) = bcc[N]
    BY <1>1, ProductLoop
  <1> DEFINE S == {k \in 0..N : acc[k] \in Nat /\ bcc[k] \in Nat /\ acc[k] <= bcc[k]}
  <1>4. 0 \in S
    BY <1>1, <1>2, <1>3 DEF Products!IsLoop
  <1>5. ASSUME NEW k \in 0..N - 1, k \in S PROVE k + 1 \in S
    <2> DEFINE m == e.members[k + 1]
               x == s[m.model]
               y == r[m.model]
    <2>1. acc[k + 1] = acc[k] + x * Weight(m) /\ bcc[k + 1] = bcc[k] + y * Weight(m)
      BY <1>2, <1>3 DEF Products!IsLoop, AddScore
    <2>2. /\ acc[k] \in Nat /\ bcc[k] \in Nat /\ acc[k] <= bcc[k]
          /\ Weight(m) \in Nat /\ m.model \in Models(e) /\ k + 1 \in 0..N
      BY <1>1, <1>5
    <2>3. x \in Nat /\ y \in Nat /\ x <= y
      BY <2>2, FusionAssumption DEF Scores
    <2> HIDE DEF m, x, y
    <2>4. x * Weight(m) \in Nat /\ y * Weight(m) \in Nat /\ x * Weight(m) <= y * Weight(m)
      BY <2>2, <2>3, ProductMonotone
    <2> QED
      BY <2>1, <2>2, <2>4
  <1> HIDE DEF S
  <1>6. \A k \in 0..N : k \in S
    BY <1>1, <1>4, <1>5, Weights!IntervalByInduction
  <1> QED
    BY <1>1, <1>2, <1>3, <1>6 DEF S

----------------------------------------------------------------------------
(* Fused scores                                                              *)

LEMMA PrimaryIsMember ==
  ASSUME NEW e \in WakeWords
  PROVE  \E i \in 1..Len(e.members) : Primary(e) = e.members[i]
  <1> DEFINE named == {i \in DOMAIN e.members : e.members[i].role = "primary"}
  <1>1. Len(e.members) \in Nat \ {0} /\ DOMAIN e.members = 1..Len(e.members)
    BY EntryHasMembers
  <1>2. CASE named = {}
    BY <1>1, <1>2 DEF Primary
  <1>3. CASE named # {}
    <2>1. named \in SUBSET Nat
      BY <1>1
    <2>2. Min(named) \in named
      BY <1>3, <2>1, LeastOfNumbers
    <2> QED
      BY <1>1, <1>3, <2>2 DEF Primary
  <1> QED
    BY <1>2, <1>3

\* The scores of the members, all of which "all" looks at.
LEMMA LeastScore ==
  ASSUME NEW e \in WakeWords, NEW s \in [Models(e) -> Scores]
  PROVE  LET least == Min({s[m] : m \in Models(e)})
         IN  least \in Nat /\ (\E m \in Models(e) : least = s[m])
             /\ \A m \in Models(e) : least <= s[m]
  <1> DEFINE S == {s[m] : m \in Models(e)}
  <1>1. \A m \in Models(e) : s[m] \in Nat
    BY FusionAssumption DEF Scores
  <1>2. e.members[1].model \in Models(e)
    BY EntryHasMembers
  <1>3. S \in SUBSET Nat /\ S # {}
    BY <1>1, <1>2
  <1>4. Min(S) \in S /\ \A n \in S : Min(S) <= n
    BY <1>3, LeastOfNumbers
  <1> QED
    BY <1>3, <1>4

LEMMA FusedIsFraction ==
  ASSUME NEW e \in WakeWords, NEW s \in [Models(e) -> Scores], NEW t
  PROVE  Fuse(e, s, t).num \in Nat /\ Fuse(e, s, t).den \in Nat \ {0}
  <1>1. \A i \in 1..Len(e.members) : e.members[i].model \in Models(e)
    BY EntryHasMembers
  <1>2. \A m \in Models(e) : s[m] \in Nat
    BY FusionAssumption DEF Scores
  <1>3. CASE e.fusion = "single"
    <2>1. 1 \in 1..Len(e.members)
      BY EntryHasMembers
    <2> QED
      BY <1>1, <1>2, <1>3, <2>1 DEF Fuse, Whole
  <1>4. CASE e.fusion = "weighted_average"
    <2>1. TotalWeight(e) \in Nat /\ WeightedSum(e, s) \in Nat
      BY SumsAreNumbers
    <2> QED
      BY <1>4, <2>1 DEF Fuse, WeightedAverage, Whole
  <1>5. CASE e.fusion = "all"
    BY <1>5, LeastScore DEF Fuse, Whole
  <1>6. CASE e.fusion \notin {"single", "weighted_average", "all"}
    <2>1. Primary(e).model \in Models(e)
      BY <1>1, PrimaryIsMember
    <2> QED
      BY <1>2, <1>6, <2>1 DEF Fuse, PrimaryAndVerifier, Whole
  <1> QED
    BY <1>3, <1>4, <1>5, <1>6

\* A fused score does not fall when scores rise.
LEMMA FusedGrows ==
  ASSUME NEW e \in WakeWords, NEW t \in Int, NEW s \in [Models(e) -> Scores],
         NEW r \in [Models(e) -> Scores], \A m \in Models(e) : s[m] <= r[m]
  PROVE  Fuse(e, s, t).num * Fuse(e, r, t).den <= Fuse(e, r, t).num * Fuse(e, s, t).den
  <1>1. \A i \in 1..Len(e.members) :
           e.members[i].model \in Models(e) /\ ThresholdOf(e.members[i], t) \in Int
    BY EntryHasMembers
  <1>2. \A m \in Models(e) : s[m] \in Nat /\ r[m] \in Nat
    BY FusionAssumption DEF Scores
  <1>3. CASE e.fusion = "single"
    <2>1. 1 \in 1..Len(e.members)
      BY EntryHasMembers
    <2> DEFINE m == e.members[1].model
    <2>2. Fuse(e, s, t) = Whole(s[m]) /\ Fuse(e, r, t) = Whole(r[m])
      BY <1>3, <2>1 DEF Fuse
    <2>3. s[m] \in Nat /\ r[m] \in Nat /\ s[m] <= r[m]
      BY <1>1, <1>2, <2>1
    <2> HIDE DEF m
    <2> QED
      BY <2>2, <2>3 DEF Whole
  <1>4. CASE e.fusion = "weighted_average"
    <2>1. /\ TotalWeight(e) \in Nat /\ WeightedSum(e, s) \in Nat /\ WeightedSum(e, r) \in Nat
          /\ WeightedSum(e, s) <= WeightedSum(e, r)
      BY SumsAreNumbers, SumGrows
    <2>2. WeightedSum(e, s) * TotalWeight(e) <= WeightedSum(e, r) * TotalWeight(e)
      BY <2>1, ProductMonotone
    <2> QED
      BY <1>4, <2>1, <2>2 DEF Fuse, WeightedAverage, Whole
  <1>5. CASE e.fusion = "all"
    <2> DEFINE a == Min({s[m] : m \in Models(e)})
               b == Min({r[m] : m \in Models(e)})
    <2>1. a \in Nat /\ (\A m \in Models(e) : a <= s[m])
      BY LeastScore
    <2>2. b \in Nat /\ (\E m \in Models(e) : b = r[m])
      BY LeastScore
    <2>3. a <= b
      BY <1>2, <2>1, <2>2
    <2>4. Fuse(e, s, t) = Whole(a) /\ Fuse(e, r, t) = Whole(b)
      BY <1>5 DEF Fuse
    <2> HIDE DEF a, b
    <2> QED
      BY <2>1, <2>2, <2>3, <2>4 DEF Whole
  <1>6. CASE e.fusion \notin {"single", "weighted_average", "all"}
    <2> DEFINE ask == {Primary(e)} \cup Verifiers(e)
    <2>1. \A m \in ask : m.model \in Models(e) /\ ThresholdOf(m, t) \in Int
      <3>1. Primary(e).model \in Models(e) /\ ThresholdOf(Primary(e), t) \in Int
        BY <1>1, PrimaryIsMember
      <3>2. ASSUME NEW m \in Verifiers(e)
            PROVE  m.model \in Models(e) /\ ThresholdOf(m, t) \in Int
        <4>1. PICK i \in DOMAIN e.members : m = e.members[i]
          BY DEF Verifiers, ToSet
        <4> QED
          BY <1>1, <4>1, EntryHasMembers
      <3> QED
        BY <3>1, <3>2
    <2>2. (\A m \in ask : s[m.model] > ThresholdOf(m, t))
          => \A m \in ask : r[m.model] > ThresholdOf(m, t)
      BY <1>2, <2>1
    <2>3. s[Primary(e).model] \in Nat /\ r[Primary(e).model] \in Nat
          /\ s[Primary(e).model] <= r[Primary(e).model]
      BY <1>2, <2>1
    <2>4. Fuse(e, s, t) = PrimaryAndVerifier(e, s, t)
          /\ Fuse(e, r, t) = PrimaryAndVerifier(e, r, t)
      BY <1>6 DEF Fuse
    <2> QED
      BY <2>2, <2>3, <2>4 DEF PrimaryAndVerifier, Whole
  <1> QED
    BY <1>3, <1>4, <1>5, <1>6

----------------------------------------------------------------------------
(* Live detectors and recording tests                                        *)

\* Rounding does not move a score over a threshold that it is not close to.
LEMMA FarFromThreshold ==
  ASSUME NEW f, f.num \in Int, f.den \in Nat \ {0}, Threshold \in Int,
         ~Close(f), NEW u \in Rounded(f)
  PROVE  u > Threshold <=> Exceeds(f, Threshold)
  <1> DEFINE n == f.num
             d == f.den
             T == Threshold
             half == Unit * d
  <1>1. u \in Int
    BY FusionAssumption DEF Rounded
  <1>2. half \in Nat /\ T * d \in Int /\ u * d \in Int
    BY <1>1, FusionAssumption
  <1>3. 2 * (u * d - n) <= half /\ 2 * (n - u * d) <= half
    BY DEF Rounded
  <1>4. ~(2 * (T * d - n) <= half /\ 2 * (n - T * d) <= half)
    BY DEF Close
  <1>5. u <= T => u * d <= T * d
    BY <1>1, ProductMonotone
  <1>6. u >= T => u * d >= T * d
    BY <1>1, ProductMonotone
  <1>7. n \in Int /\ d \in Int /\ T \in Int
    OBVIOUS
  <1>8. Exceeds(f, Threshold) <=> n > T * d
    BY DEF Exceeds
  <1> DEFINE td == T * d
             ud == u * d
  <1>9. /\ td \in Int /\ ud \in Int /\ half \in Nat
        /\ 2 * (ud - n) <= half /\ 2 * (n - ud) <= half
        /\ ~(2 * (td - n) <= half /\ 2 * (n - td) <= half)
        /\ u <= T => ud <= td
        /\ u >= T => ud >= td
    BY <1>2, <1>3, <1>4, <1>5, <1>6
  <1> HIDE DEF n, d, T, half, td, ud
  <1>10. u > T <=> n > td
    BY <1>1, <1>7, <1>9
  <1> QED
    BY <1>8, <1>10 DEF td, T

FusionInv ==
    /\ word \in WakeWords /\ default \in Int /\ trigger_level \in Int
    /\ scores \in [Models(word) -> Scores]
    /\ triggers_left \in Int
    /\ trigger_level <= 1 => triggers_left <= 1
    /\ fired \in BOOLEAN /\ would_detect \in BOOLEAN /\ close \in BOOLEAN
    /\ TestForetellsLive

LEMMA ThresholdIsNumber == FusionInv => Threshold \in Int
  BY FusionAssumption DEF FusionInv, Threshold, ThresholdOf

LEMMA FusionInvInit == FusionInit => FusionInv
  <1> SUFFICES ASSUME FusionInit PROVE FusionInv
    OBVIOUS
  <1>1. 0 \in Scores
    BY FusionAssumption DEF Scores
  <1> QED
    BY <1>1, FusionAssumption DEF FusionInit, FusionInv, TestForetellsLive

LEMMA FusionInvNext == FusionInv /\ [FusionNext]_fusionVars => FusionInv'
  <1> SUFFICES ASSUME FusionInv, [FusionNext]_fusionVars PROVE FusionInv'
    OBVIOUS
  <1> USE DEF FusionInv
  <1>1. ASSUME ~fired, Chunk PROVE FusionInv'
    <2>1. PICK s \in [Models(word) -> Scores] :
             /\ scores' = s
             /\ Test(Fuse(word, s, default))
             /\ close' = (close \/ Close(Fuse(word, s, default)))
             /\ \E heard \in [Models(word) -> Scores] :
                   /\ \A m \in SameScores : heard[m] = s[m]
                   /\ Live(Fuse(word, heard, default))
             /\ UNCHANGED <<word, default, trigger_level, recording>>
      BY <1>1 DEF Chunk
    <2>2. PICK heard \in [Models(word) -> Scores] :
             /\ \A m \in SameScores : heard[m] = s[m]
             /\ Live(Fuse(word, heard, default))
      BY <2>1
    <2> DEFINE tested == Fuse(word, s, default)
               live == Fuse(word, heard, default)
    <2>3. PICK u \in Rounded(tested) : would_detect' = (would_detect \/ u > Threshold)
      BY <2>1 DEF Test
    <2>4. /\ triggers_left' \in Int /\ fired' \in BOOLEAN
          /\ trigger_level <= 1 => triggers_left' <= 1
          /\ fired' => Exceeds(live, Threshold)
          /\ Exceeds(live, Threshold) /\ triggers_left <= 1 => fired'
      <3>1. CASE Exceeds(live, Threshold)
        <4>1. triggers_left' = IF triggers_left <= 1 THEN trigger_level ELSE triggers_left - 1
          BY <2>2, <3>1 DEF Live
        <4>2. fired' = (fired \/ triggers_left <= 1)
          BY <2>2, <3>1 DEF Live
        <4>3. triggers_left' \in Int /\ (trigger_level <= 1 => triggers_left' <= 1)
          BY <4>1
        <4>4. fired' \in BOOLEAN /\ (triggers_left <= 1 => fired')
          BY <4>2
        <4> QED
          BY <3>1, <4>3, <4>4
      <3>2. CASE ~Exceeds(live, Threshold)
        <4>1. triggers_left' = trigger_level /\ fired' = fired
          BY <2>2, <3>2 DEF Live
        <4> HIDE DEF live
        <4> QED
          BY <1>1, <3>2, <4>1
      <3> QED
        BY <3>1, <3>2
    <2>5. would_detect' \in BOOLEAN /\ close' \in BOOLEAN
      BY <2>1, <2>3
    <2>6. ASSUME Verbatim, Repeated(word) = {}, ~close'
          PROVE  (fired' => would_detect') /\ (would_detect' /\ trigger_level <= 1 => fired')
      <3>1. live = tested
        <4>1. heard = s
          BY <2>2, <2>6 DEF SameScores
        <4> QED
          BY <4>1
      <3>2. u > Threshold <=> Exceeds(tested, Threshold)
        <4>1. tested.num \in Nat /\ tested.den \in Nat \ {0}
          BY FusedIsFraction
        <4>2. ~Close(tested)
          BY <2>1, <2>6
        <4> HIDE DEF tested
        <4> QED
          BY <4>1, <4>2, FarFromThreshold, ThresholdIsNumber
      <3>3. ~close /\ (would_detect /\ trigger_level <= 1 => fired)
        BY <2>1, <2>6 DEF TestForetellsLive
      <3> HIDE DEF tested, live
      <3> QED
        BY <1>1, <2>3, <2>4, <3>1, <3>2, <3>3
    <2> HIDE DEF tested, live
    <2>7. /\ Models(word)' = Models(word) /\ Repeated(word)' = Repeated(word)
          /\ Verbatim' = Verbatim
      BY <2>1 DEF Repeated, Models, Verbatim
    <2>8. TestForetellsLive'
      BY <2>1, <2>6, <2>7 DEF TestForetellsLive
    <2> QED
      BY <2>1, <2>4, <2>5, <2>7, <2>8
  <1>2. CASE NextRecording
    BY <1>2 DEF NextRecording, TestForetellsLive, Models
  <1>3. CASE UNCHANGED fusionVars
    BY <1>3 DEF fusionVars, TestForetellsLive, Verbatim, Repeated, Models
  <1> QED
    BY <1>1, <1>2, <1>3 DEF FusionNext

LEMMA FusionInvariant == FusionSpec => []FusionInv
  BY FusionInvInit, FusionInvNext, PTL DEF FusionSpec

\* A recording test and a live detector agree, for any wake word whose members are
\* different models, any trigger level, and audio that the test neither scales nor
\* cuts anew.
THEOREM TestAndLiveAgree == FusionSpec => []TestForetellsLive
  <1>1. FusionInv => TestForetellsLive
    BY DEF FusionInv
  <1> QED
    BY <1>1, FusionInvariant, PTL

\* Fusion is monotone in every member's score, in every mode.
THEOREM FusionIsMonotone == FusionSpec => []MoreConfidentNeverLess
  <1>1. FusionInv => MoreConfidentNeverLess
    BY FusedGrows DEF FusionInv, MoreConfidentNeverLess
  <1> QED
    BY <1>1, FusionInvariant, PTL

----------------------------------------------------------------------------
(* The order of the members                                                  *)

\* What MemberOrderIrrelevant quantifies over: the orders of 1..N.
LEMMA PermutationIsOrder ==
  ASSUME NEW N \in Nat, NEW other \in SetToAllKPermutations(1..N), Len(other) = N
  PROVE  DOMAIN other = 1..N /\ Weights!IsOrder(other, N)
  <1>1. PICK S \in SUBSET (1..N) : other \in SetToSeqs(S)
    BY DEF SetToAllKPermutations
  <1>2. IsFiniteSet(1..N) /\ Cardinality(1..N) = N
    BY FS_Interval
  <1>3. IsFiniteSet(S) /\ Cardinality(S) \in Nat /\ (Cardinality(S) = N => S = 1..N)
    BY <1>2, FS_Subset, FS_CardinalityType
  <1>4. /\ other \in [1..Cardinality(S) -> S]
        /\ \A i, j \in 1..Cardinality(S) : i # j => other[i] # other[j]
    BY <1>1 DEF SetToSeqs
  <1>5. Cardinality(S) = N
    <2>1. other \in Seq(S) /\ Len(other) = Cardinality(S)
      BY <1>3, <1>4
    <2> QED
      BY <2>1
  <1>6. other \in [1..N -> 1..N] /\ \A i, j \in 1..N : other[i] = other[j] => i = j
    BY <1>3, <1>4, <1>5
  <1>7. other \in Surjection(1..N, 1..N)
    <2>1. other \in Injection(1..N, 1..N)
      BY <1>6 DEF Injection, IsInjective
    <2> QED
      BY <1>2, <2>1, FS_Injection
  <1>8. \A j \in 1..N : \E i \in 1..N : other[i] = j
    BY <1>7 DEF Surjection
  <1> QED
    BY <1>6, <1>8 DEF Weights!IsOrder

\* d is e with its members in another order.
Reordered(d, e, order) ==
    /\ Weights!IsOrder(order, Len(e.members))
    /\ d.fusion = e.fusion /\ d.threshold = e.threshold
    /\ d.members = [i \in 1..Len(e.members) |-> e.members[order[i]]]

LEMMA SameMembers ==
  ASSUME NEW e \in WakeWords, NEW d, NEW order, Reordered(d, e, order)
  PROVE  ToSet(d.members) = ToSet(e.members) /\ Models(d) = Models(e)
  <1> DEFINE N == Len(e.members)
  <1>1. DOMAIN e.members = 1..N /\ DOMAIN d.members = 1..N
    BY EntryHasMembers DEF Reordered
  <1>2. \A i \in 1..N : order[i] \in 1..N /\ d.members[i] = e.members[order[i]]
    BY DEF Reordered, Weights!IsOrder
  <1>3. ASSUME NEW j \in 1..N PROVE \E i \in 1..N : e.members[j] = d.members[i]
    <2>1. PICK i \in 1..N : order[i] = j
      BY DEF Reordered, Weights!IsOrder
    <2>2. d.members[i] = e.members[j]
      BY <1>2, <2>1
    <2> QED
      BY <2>2
  <1> HIDE DEF N
  <1>4. ToSet(d.members) = ToSet(e.members)
    <2>1. ASSUME NEW m \in ToSet(d.members) PROVE m \in ToSet(e.members)
      BY <1>1, <1>2 DEF ToSet
    <2>2. ASSUME NEW m \in ToSet(e.members) PROVE m \in ToSet(d.members)
      BY <1>1, <1>3 DEF ToSet
    <2> QED
      BY <2>1, <2>2
  <1>5. ASSUME NEW c PROVE Models(c) = {m.model : m \in ToSet(c.members)}
    BY DEF Models, ToSet
  <1> QED
    BY <1>4, <1>5

LEMMA SameSums ==
  ASSUME NEW e \in WakeWords, NEW d, NEW order, Reordered(d, e, order),
         NEW s \in [Models(e) -> Scores]
  PROVE  TotalWeight(d) = TotalWeight(e) /\ WeightedSum(d, s) = WeightedSum(e, s)
  <1> DEFINE N == Len(e.members)
             X == ToSet(e.members)
  <1>1. /\ N \in Nat /\ DOMAIN e.members = 1..N /\ DOMAIN d.members = 1..N
        /\ \A i \in 1..N : d.members[i] = e.members[order[i]]
    BY EntryHasMembers DEF Reordered
  <1>2. \A i \in 1..N : e.members[i] \in X
    BY <1>1 DEF ToSet
  <1>3. \A m \in X : Weight(m) \in Nat /\ s[m.model] \in Nat
    <2>1. ASSUME NEW m \in X PROVE \E i \in 1..N : m = e.members[i]
      BY <1>1 DEF ToSet
    <2>2. \A m \in Models(e) : s[m] \in Nat
      BY FusionAssumption DEF Scores
    <2>3. \A i \in 1..N : Weight(e.members[i]) \in Nat /\ e.members[i].model \in Models(e)
      BY EntryHasMembers
    <2> HIDE DEF N, X
    <2> QED
      BY <2>1, <2>2, <2>3
  <1>4. Weights!Commutes(0, Nat, X)
    <2>1. \A n \in Nat, m \in X : AddWeight(0, n, m) \in Nat
      BY <1>3 DEF AddWeight
    <2>2. ASSUME NEW n \in Nat, NEW m \in X, NEW k \in X
          PROVE  AddWeight(0, AddWeight(0, n, m), k) = AddWeight(0, AddWeight(0, n, k), m)
      BY <1>3 DEF AddWeight
    <2> QED
      BY <2>1, <2>2 DEF Weights!Commutes
  <1>5. Products!Commutes(s, Nat, X)
    <2> DEFINE term(m) == s[m.model] * Weight(m)
    <2>1. \A m \in X : term(m) \in Nat
      BY <1>3
    <2>2. \A n, m : AddScore(s, n, m) = n + term(m)
      BY DEF AddScore
    <2> HIDE DEF term
    <2>3. \A n \in Nat, m \in X : AddScore(s, n, m) \in Nat
      BY <2>1, <2>2
    <2>4. ASSUME NEW n \in Nat, NEW m \in X, NEW k \in X
          PROVE  AddScore(s, AddScore(s, n, m), k) = AddScore(s, AddScore(s, n, k), m)
      BY <2>1, <2>2
    <2> QED
      BY <2>3, <2>4 DEF Products!Commutes
  <1>6. Weights!IsOrder(order, N) /\ Products!IsOrder(order, N)
    BY DEF Reordered, Weights!IsOrder, Products!IsOrder
  <1> HIDE DEF N, X
  <1>7. 0 \in Nat
    OBVIOUS
  <1>8. Weights!Fold(0, 0, d.members) = Weights!Fold(0, 0, e.members)
    <2>1. \A i \in 1..N : e.members[i] \in X
      BY <1>2
    <2> QED
      BY <1>1, <2>1, <1>4, <1>6, <1>7, Weights!FoldOfPermutation
  <1>9. Products!Fold(s, 0, d.members) = Products!Fold(s, 0, e.members)
    BY <1>1, <1>2, <1>5, <1>6, <1>7, Products!FoldOfPermutation
  <1> QED
    BY <1>8, <1>9, SumsAreFolds

NamedPrimary(e) == {i \in DOMAIN e.members : e.members[i].role = "primary"}

LEMMA SamePrimary ==
  ASSUME NEW e \in WakeWords, NEW d, NEW order, Reordered(d, e, order),
         Cardinality(NamedPrimary(e)) = 1
  PROVE  Primary(d) = Primary(e)
  <1> DEFINE N == Len(e.members)
  <1>1. /\ N \in Nat /\ DOMAIN e.members = 1..N /\ DOMAIN d.members = 1..N
        /\ \A i \in 1..N : order[i] \in 1..N /\ d.members[i] = e.members[order[i]]
    BY EntryHasMembers DEF Reordered, Weights!IsOrder
  <1>2. IsFiniteSet(NamedPrimary(e))
    <2>1. NamedPrimary(e) \in SUBSET (1..N)
      BY <1>1 DEF NamedPrimary
    <2>2. IsFiniteSet(1..N)
      BY <1>1, FS_Interval
    <2> HIDE DEF N
    <2> QED
      BY <1>1, <2>1, <2>2, FS_Subset
  <1>3. PICK p : NamedPrimary(e) = {p}
    BY <1>2, FS_Singleton
  <1>4. p \in 1..N
    BY <1>1, <1>3 DEF NamedPrimary
  <1>5. PICK q \in 1..N : order[q] = p
    BY <1>4 DEF Reordered, Weights!IsOrder
  <1>6. NamedPrimary(d) = {q}
    <2>1. ASSUME NEW i \in 1..N, i \in NamedPrimary(d) PROVE i = q
      <3>1. order[i] \in NamedPrimary(e)
        BY <1>1, <2>1 DEF NamedPrimary
      <3>2. order[i] = order[q]
        BY <1>3, <1>5, <3>1
      <3> QED
        BY <3>2 DEF Reordered, Weights!IsOrder
    <2>2. q \in NamedPrimary(d)
      BY <1>1, <1>3, <1>5 DEF NamedPrimary
    <2> QED
      BY <1>1, <2>1, <2>2 DEF NamedPrimary
  <1>7. ASSUME NEW n \in 1..N PROVE Min({n}) = n
    <2>1. n \in Nat /\ {n} # {}
      OBVIOUS
    <2> QED
      BY <2>1, LeastOfNumbers
  <1>8. Primary(e) = e.members[p]
    BY <1>3, <1>4, <1>7 DEF Primary, NamedPrimary
  <1>9. Primary(d) = d.members[q]
    BY <1>5, <1>6, <1>7 DEF Primary, NamedPrimary
  <1> QED
    BY <1>1, <1>5, <1>8, <1>9

\* Whatever the order of the members, the fused score is the same.
LEMMA FusedInAnyOrder ==
  ASSUME NEW e \in WakeWords, NEW d, NEW order, Reordered(d, e, order),
         Cardinality(NamedPrimary(e)) = 1, NEW s \in [Models(e) -> Scores], NEW t
  PROVE  Fuse(d, s, t) = Fuse(e, s, t)
  <1>1. /\ TotalWeight(d) = TotalWeight(e) /\ WeightedSum(d, s) = WeightedSum(e, s)
        /\ ToSet(d.members) = ToSet(e.members) /\ Models(d) = Models(e)
        /\ Primary(d) = Primary(e) /\ d.fusion = e.fusion
    BY SameSums, SameMembers, SamePrimary DEF Reordered
  <1>2. CASE e.fusion = "single"
    <2>1. Len(e.members) = 1
      BY <1>2, FusionAssumption
    <2>2. order[1] = 1 /\ d.members[1] = e.members[order[1]]
      BY <2>1 DEF Reordered, Weights!IsOrder
    <2> QED
      BY <1>1, <1>2, <2>2 DEF Fuse
  <1>3. CASE e.fusion # "single"
    <2>1. WeightedAverage(d, s) = WeightedAverage(e, s)
      BY <1>1 DEF WeightedAverage
    <2>2. PrimaryAndVerifier(d, s, t) = PrimaryAndVerifier(e, s, t)
      BY <1>1 DEF PrimaryAndVerifier, Verifiers
    <2> QED
      BY <1>1, <1>3, <2>1, <2>2 DEF Fuse
  <1> QED
    BY <1>2, <1>3

\* With one primary named, models.yaml may list the members in any order.
THEOREM FusionIgnoresOrder == FusionSpec => []MemberOrderIrrelevant
  <1>1. FusionInv => MemberOrderIrrelevant
    <2> DEFINE N == Len(word.members)
    <2> SUFFICES ASSUME FusionInv, Cardinality(NamedPrimary(word)) = 1,
                        NEW other \in SetToAllKPermutations(DOMAIN word.members),
                        Len(other) = N
                 PROVE  LET e == [word EXCEPT !.members =
                                     [i \in DOMAIN other |-> word.members[other[i]]]]
                        IN  Fuse(e, scores, default).num * Fuse(word, scores, default).den
                            = Fuse(word, scores, default).num * Fuse(e, scores, default).den
      BY DEF MemberOrderIrrelevant, NamedPrimary
    <2> DEFINE e == [word EXCEPT !.members = [i \in DOMAIN other |-> word.members[other[i]]]]
    <2>1. word \in WakeWords /\ scores \in [Models(word) -> Scores]
      BY DEF FusionInv
    <2>2. N \in Nat /\ DOMAIN word.members = 1..N
      BY <2>1, EntryHasMembers
    <2>3. DOMAIN other = 1..N /\ Weights!IsOrder(other, N)
      BY <2>2, PermutationIsOrder
    <2>4. Reordered(e, word, other)
      <3>1. word = [fusion |-> word.fusion, threshold |-> word.threshold,
                    members |-> word.members]
        BY <2>1, FusionAssumption
      <3>2. /\ e.fusion = word.fusion /\ e.threshold = word.threshold
            /\ e.members = [i \in DOMAIN other |-> word.members[other[i]]]
        BY <3>1
      <3> HIDE DEF e
      <3> QED
        BY <2>3, <3>2 DEF Reordered
    <2> HIDE DEF e
    <2>5. Fuse(e, scores, default) = Fuse(word, scores, default)
      BY <2>1, <2>4, FusedInAnyOrder
    <2> QED
      BY <2>5 DEF e
  <1> QED
    BY <1>1, FusionInvariant, PTL

----------------------------------------------------------------------------
(* The registry                                                              *)

\* What the loop compares is the order of versions as it is meant to be.
LEMMA OlderIsNotNewer ==
  ASSUME NEW v \in Version, NEW w \in Version
  PROVE  Older(w, v) <=> Newer(v, w)
  <1> DEFINE differ == {i \in DOMAIN v \cap DOMAIN w : v[i] # w[i]}
  <1>1. /\ Len(v) \in Nat /\ DOMAIN v = 1..Len(v)
        /\ Len(w) \in Nat /\ DOMAIN w = 1..Len(w)
    BY VersionParts
  <1>2. CASE differ = {}
    <2>1. Older(w, v) <=> Len(w) < Len(v)
      BY <1>2 DEF Older
    <2>2. \A i \in 1..Len(v) : i <= Len(w) => v[i] = w[i]
      BY <1>1, <1>2
    <2>3. ASSUME NEW i \in 1..Len(v), NewerAt(i, v, w) PROVE Len(w) < Len(v)
      <3> SUFFICES ASSUME i <= Len(w) PROVE FALSE
        BY <1>1
      <3>1. i \in 1..Len(w) /\ v[i] = w[i] /\ v[i] \in {0, 1} \X Nat /\ PartLess(w[i], v[i])
        BY <1>1, <2>2, <2>3, VersionParts DEF NewerAt
      <3> QED
        BY <3>1, PartsAreOrdered
    <2>4. ASSUME Len(w) < Len(v) PROVE NewerAt(Len(w) + 1, v, w) /\ Len(w) + 1 \in 1..Len(v)
      BY <1>1, <2>2, <2>4 DEF NewerAt
    <2> QED
      BY <2>1, <2>3, <2>4, NewerSomewhere
  <1>3. CASE differ # {}
    <2> DEFINE m == Min(differ)
    <2>1. differ \in SUBSET Nat
      BY <1>1
    <2>2. m \in differ /\ \A i \in differ : m <= i
      BY <1>3, <2>1, LeastOfNumbers
    <2>3. m \in 1..Len(v) /\ m \in 1..Len(w) /\ v[m] # w[m]
      BY <1>1, <2>2
    <2>4. Older(w, v) <=> IF v[m][1] # w[m][1] THEN v[m][1] = 1 ELSE w[m][2] < v[m][2]
      BY <1>3 DEF Older
    <2>5. v[m] \in {0, 1} \X Nat /\ w[m] \in {0, 1} \X Nat
      BY <2>3, VersionParts
    <2>6. Older(w, v) <=> PartLess(w[m], v[m])
      <3> HIDE DEF m
      <3> QED
        BY <2>4, <2>5, PartsAreOrdered
    <2>7. \A i \in 1..m - 1 : v[i] = w[i]
      <3>1. \A i \in 1..m - 1 : i \in DOMAIN v \cap DOMAIN w /\ ~(m <= i)
        BY <1>1, <2>3
      <3> QED
        BY <2>2, <3>1
    <2> HIDE DEF m, differ
    <2>8. PartLess(w[m], v[m]) => NewerAt(m, v, w)
      BY <1>1, <2>3, <2>7 DEF NewerAt
    <2>9. ASSUME NEW i \in 1..Len(v), NewerAt(i, v, w) PROVE PartLess(w[m], v[m])
      <3>1. CASE i < m
        <4>1. i \in 1..m - 1 /\ i <= Len(w)
          BY <1>1, <2>3, <3>1
        <4>2. v[i] = w[i] /\ v[i] \in {0, 1} \X Nat /\ PartLess(w[i], v[i])
          BY <1>1, <2>7, <2>9, <4>1, VersionParts DEF NewerAt
        <4> QED
          BY <4>2, PartsAreOrdered
      <3>2. CASE m < i
        <4>1. m \in 1..i - 1
          BY <1>1, <2>3, <3>2
        <4> QED
          BY <2>3, <2>9, <4>1 DEF NewerAt
      <3>3. CASE i = m
        BY <1>1, <2>3, <2>9, <3>3 DEF NewerAt
      <3> QED
        BY <1>1, <2>3, <3>1, <3>2, <3>3
    <2> QED
      BY <2>3, <2>6, <2>8, <2>9, NewerSomewhere
  <1> QED
    BY <1>2, <1>3

RegistryInv ==
    /\ library \in Libraries
    /\ Verdict(ModelDirs) = "ok" /\ registry = Registry(ModelDirs)

LEMMA RegistryInvariant == RegistrySpec => []RegistryInv
  <1>1. RegistryInit => RegistryInv
    BY DEF RegistryInit, RegistryInv
  <1>2. RegistryInv /\ [RegistryNext]_registryVars => RegistryInv'
    <2> SUFFICES ASSUME RegistryInv, [RegistryNext]_registryVars PROVE RegistryInv'
      OBVIOUS
    <2>1. ASSUME NEW files, NEW yaml, Change(files, yaml) PROVE RegistryInv'
      <3>1. /\ Verdict(Directories(files, yaml)) = "ok"
            /\ uploaded' = files /\ mapping' = yaml /\ library' = library
            /\ registry' = Registry(Directories(files, yaml))
        BY <2>1 DEF Change
      <3>2. ModelDirs' = Directories(files, yaml)
        BY <3>1 DEF ModelDirs, Directories
      <3> QED
        BY <3>1, <3>2 DEF RegistryInv
    <2>2. CASE UNCHANGED registryVars
      BY <2>2 DEF registryVars, RegistryInv, ModelDirs, Directories
    <2> QED
      BY <2>1, <2>2 DEF RegistryNext
  <1> QED
    BY <1>1, <1>2, PTL DEF RegistrySpec

LEMMA ModelDirsAreDirs == RegistryInv => IsDirs(ModelDirs)
  <1> SUFFICES ASSUME RegistryInv PROVE IsDirs(ModelDirs)
    OBVIOUS
  <1> DEFINE first == [files |-> uploaded, yaml |-> mapping]
             S == ToSet(library) \cup {first}
  <1>1. library \in Seq(ToSet(library))
    BY RegistryAssumption DEF RegistryInv
  <1>2. library \in Seq(S) /\ <<first>> \in Seq(S)
    BY <1>1
  <1>3. ModelDirs = <<first>> \o library
    BY DEF ModelDirs, Directories
  <1> HIDE DEF first, S
  <1>4. ModelDirs \in Seq(S)
    BY <1>2, <1>3
  <1> QED
    BY <1>4 DEF IsDirs

\* The newest file of a wake word serves it, for any files, versions and directories.
THEOREM NewestServes == RegistrySpec => []ServesNewest
  <1>1. RegistryInv => ServesNewest
    <2> SUFFICES ASSUME RegistryInv, NEW id \in DOMAIN registry.backing
                 PROVE  LET best == registry.backing[id].path
                        IN  /\ best \in Candidates(id)
                            /\ \A p \in Candidates(id) \ {best} :
                                  \/ Older(p.name.version, best.name.version)
                                  \/ ~Older(best.name.version, p.name.version) /\ Precedes(best, p)
      BY DEF ServesNewest
    <2> DEFINE best == Served(ModelDirs)[id]
    <2>1. IsDirs(ModelDirs) /\ registry = Registry(ModelDirs)
      BY ModelDirsAreDirs DEF RegistryInv
    <2>2. id \in DOMAIN Served(ModelDirs) /\ registry.backing[id].path = best
      BY <2>1, BackingHasFiles
    <2>3. Candidates(id) = Main(Paths(ModelDirs), id)
      BY DEF Candidates, Main
    <2>4. IsBest(best, Candidates(id))
      BY <2>1, <2>2, <2>3, ServedIsFile
    <2>5. \A p \in Candidates(id) : p.name.version \in Version
      <3>1. \A p \in Candidates(id) : p.name \in ToSet(Names)
        BY DEF Candidates, Paths
      <3> QED
        BY <3>1, DiscoveryAssumption
    <2> HIDE DEF best
    <2>6. best \in Candidates(id)
      BY <2>4 DEF IsBest
    <2>7. ASSUME NEW p \in Candidates(id) \ {best}
          PROVE  \/ Older(p.name.version, best.name.version)
                 \/ ~Older(best.name.version, p.name.version) /\ Precedes(best, p)
      BY <2>4, <2>5, <2>6, OlderIsNotNewer DEF IsBest
    <2> QED
      BY <2>2, <2>6, <2>7
  <1> QED
    BY <1>1, RegistryInvariant, PTL

\* A model has the gate with its own full name, if there is one.
THEOREM GatesAreFit == RegistrySpec => []GatesFit
  <1>1. RegistryInv => GatesFit
    <2> SUFFICES ASSUME RegistryInv, NEW id \in DOMAIN registry.backing
                 PROVE  LET entry == registry.backing[id]
                            fitting == {p \in Paths(ModelDirs) :
                                           /\ p.name.lite
                                           /\ p.name.id = id
                                           /\ p.name.version = entry.path.name.version
                                           /\ p.name.spelling = entry.path.name.spelling}
                        IN  IF fitting = {} THEN entry.gate = NoPath ELSE entry.gate \in fitting
      BY DEF GatesFit
    <2> DEFINE V == Paths(ModelDirs)
               best == Served(ModelDirs)[id]
               stem == Stem(best.name)
               G == Gates(ModelDirs)
               gate == registry.backing[id].gate
               fitting == {p \in V : /\ p.name.lite
                                     /\ p.name.id = id
                                     /\ p.name.version = best.name.version
                                     /\ p.name.spelling = best.name.spelling}
    <2>1. IsDirs(ModelDirs) /\ registry = Registry(ModelDirs)
      BY ModelDirsAreDirs DEF RegistryInv
    <2>2. /\ id \in DOMAIN Served(ModelDirs) /\ registry.backing[id].path = best
          /\ gate = IF stem \in DOMAIN G THEN G[stem] ELSE NoPath
      BY <2>1, BackingHasFiles
    <2>3. best.name.id = id
      BY <2>1, <2>2, ServedIsFile DEF IsBest, Main
    <2>4. fitting = Lite(V, stem)
      BY <2>3 DEF Lite, Stem
    <2>5. IF Lite(V, stem) = {} THEN stem \notin DOMAIN G
          ELSE stem \in DOMAIN G /\ G[stem] \in Lite(V, stem)
      BY <2>1, ScanFindsBest DEF ScanInv, Gates
    <2>6. IF fitting = {} THEN gate = NoPath ELSE gate \in fitting
      <3> HIDE DEF fitting, gate, G, stem
      <3> QED
        BY <2>2, <2>4, <2>5
    <2> QED
      BY <2>2, <2>6
  <1> QED
    BY <1>1, RegistryInvariant, PTL

\* Whatever is offered has a file for each of its interpreters.
THEOREM OfferedAreBacked == RegistrySpec => []OfferedIsBacked
  <1>1. RegistryInv => OfferedIsBacked
    BY ModelDirsAreDirs, OfferedHasFiles DEF RegistryInv, OfferedIsBacked
  <1> QED
    BY <1>1, RegistryInvariant, PTL
=============================================================================
