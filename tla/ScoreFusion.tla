------------------------------ MODULE ScoreFusion ------------------------------
(***************************************************************************)
(* How the scores of an ensemble's members become one score (fusion.py), and *)
(* what a live detector and a recording test make of it.  Scores and         *)
(* thresholds are integers; Unit of them are the last digit that the test     *)
(* keeps when it rounds.  A fused score is a fraction, for the weighted       *)
(* average divides.                                                          *)
(***************************************************************************)
EXTENDS Integers, Sequences, FiniteSets, SequencesExt

CONSTANTS
    MaxScore,
    Unit,           \* one ten-thousandth, in steps of the scores
    NoThreshold,    \* no threshold in models.yaml
    WakeWords,      \* entries: fusion, threshold and members of each
    Thresholds,     \* values of settings.threshold
    Levels,         \* values of trigger_level
    Recordings,     \* the peak of the audio and the samples of the live chunks
    TargetPeak,     \* _SCORING_TARGET_PEAK
    TestSamples     \* _TEST_CHUNK_SAMPLES

Scores == 0..MaxScore

VARIABLES
    word,           \* the wake word, one of WakeWords
    default,        \* settings.threshold
    trigger_level,
    recording,      \* the audio, as a satellite streams it
    scores,         \* of each model, for the test's current chunk
    triggers_left,  \* of the live detector
    fired,          \* history: the live detector had a candidate
    would_detect,   \* of the recording test over the same audio
    close           \* history: a score was too near the threshold for the test

\* An ensemble has members, and what is none has one, itself (ModelEntry).
ASSUME FusionAssumption ==
    /\ MaxScore \in Nat /\ Unit \in Nat \ {0}
    /\ Thresholds \subseteq Int /\ Levels \subseteq Int
    /\ \A e \in WakeWords :
          /\ e = [fusion |-> e.fusion, threshold |-> e.threshold, members |-> e.members]
          /\ e.threshold = NoThreshold \/ e.threshold \in Int
          /\ e.members \in Seq(ToSet(e.members)) /\ e.members # << >>
          /\ e.fusion = "single" => Len(e.members) = 1
          /\ \A m \in ToSet(e.members) :
                /\ m.weight \in Int
                /\ m.threshold = NoThreshold \/ m.threshold \in Int

fusionVars == <<word, default, trigger_level, recording, scores, triggers_left, fired,
                would_detect, close>>

Models(e) == {e.members[i].model : i \in DOMAIN e.members}

\* A fraction; the denominator is positive.
Whole(n) == [num |-> n, den |-> 1]
Exceeds(f, t) == f.num > t * f.den

----------------------------------------------------------------------------
(* fuse_scores                                                               *)

ThresholdOf(m, t) == IF m.threshold = NoThreshold THEN t ELSE m.threshold

Weight_Signed(m) == m.weight                        \* mutant: without max(_, 0)
Weight(m) == IF m.weight > 0 THEN m.weight ELSE 0

TotalWeight(e) == FoldLeft(LAMBDA n, m : n + Weight(m), 0, e.members)
WeightedSum(e, s) == FoldLeft(LAMBDA n, m : n + s[m.model] * Weight(m), 0, e.members)

WeightedAverage(e, s) ==
    IF TotalWeight(e) <= 0 THEN Whole(0)
    ELSE [num |-> WeightedSum(e, s), den |-> TotalWeight(e)]

\* The first member called primary, or else the first.
Primary_First(e) == e.members[1]        \* mutant: roles not looked at
Primary(e) ==
    LET named == {i \in DOMAIN e.members : e.members[i].role = "primary"}
    IN  e.members[IF named = {} THEN 1 ELSE Min(named)]

\* Members with another role, and those with the primary's model, do not verify.
Verifiers(e) ==
    {m \in ToSet(e.members) : m.model # Primary(e).model /\ m.role = "verifier"}

PrimaryAndVerifier(e, s, t) ==
    IF \A m \in {Primary(e)} \cup Verifiers(e) : s[m.model] > ThresholdOf(m, t)
    THEN Whole(s[Primary(e).model]) ELSE Whole(0)

Fuse(e, s, t) ==
    CASE e.fusion = "single" -> Whole(s[e.members[1].model])
      [] e.fusion = "weighted_average" -> WeightedAverage(e, s)
      [] e.fusion = "all" -> Whole(Min({s[m] : m \in Models(e)}))
      [] OTHER -> PrimaryAndVerifier(e, s, t)

----------------------------------------------------------------------------
(* The same audio, heard by a live detector and in a recording test          *)

Threshold == ThresholdOf(word, default)

\* round(_, 4): a nearest multiple of Unit, either one if there are two.
Rounded_Up(f) == {u \in 0..MaxScore + Unit :    \* mutant: away from zero
    u % Unit = 0 /\ u * f.den >= f.num /\ (u - Unit) * f.den < f.num}
Rounded(f) == {u \in 0..MaxScore + Unit :
    /\ u % Unit = 0
    /\ 2 * (u * f.den - f.num) <= Unit * f.den
    /\ 2 * (f.num - u * f.den) <= Unit * f.den}

\* As far from the threshold as rounding can move a score, or nearer.
Close(f) ==
    /\ 2 * (Threshold * f.den - f.num) <= Unit * f.den
    /\ 2 * (f.num - Threshold * f.den) <= Unit * f.den

\* A live detector predicts for each member in turn, and a recording test for
\* each model: the model of two members hears every chunk twice when live, so
\* that what it makes of it is not what the test sees.
Repeated(e) ==
    {m \in Models(e) : \E i, j \in DOMAIN e.members :
                          i # j /\ e.members[i].model = m /\ e.members[j].model = m}

\* A recording test scales the audio to one peak, unless it is silent, and cuts
\* it anew: what its models hear is the live audio only if that changes nothing.
Normalized(r) ==
    [peak |-> IF r.peak = 0 THEN 0 ELSE TargetPeak, samples |-> TestSamples]

Verbatim == Normalized(recording) = recording

\* Models whose scores are the same live and in the test.
SameScores == IF Verbatim THEN Models(word) \ Repeated(word) ELSE {}

\* One chunk of a detector that has not had a candidate yet.
Live(f) ==
    IF ~Exceeds(f, Threshold)
    THEN triggers_left' = trigger_level /\ UNCHANGED fired
    ELSE /\ triggers_left' = IF triggers_left <= 1 THEN trigger_level ELSE triggers_left - 1
         /\ fired' = (fired \/ triggers_left <= 1)

Test(f) ==
    \E u \in Rounded(f) : would_detect' = (would_detect \/ u > Threshold)

Chunk ==
    \E s \in [Models(word) -> Scores] :
       LET tested == Fuse(word, s, default)
       IN  /\ scores' = s
           /\ Test(tested)
           /\ close' = (close \/ Close(tested))
           /\ \E heard \in [Models(word) -> Scores] :
                 /\ \A m \in SameScores : heard[m] = s[m]
                 /\ Live(Fuse(word, heard, default))
           /\ UNCHANGED <<word, default, trigger_level, recording>>

FusionInit ==
    /\ word \in WakeWords /\ default \in Thresholds /\ trigger_level \in Levels
    /\ recording \in Recordings
    /\ scores = [m \in Models(word) |-> 0]
    /\ triggers_left = trigger_level
    /\ fired = FALSE /\ would_detect = FALSE /\ close = FALSE

\* The audio ends, and another recording is heard.
NextRecording ==
    /\ recording' \in Recordings
    /\ triggers_left' = trigger_level
    /\ fired' = FALSE /\ would_detect' = FALSE /\ close' = FALSE
    /\ UNCHANGED <<word, default, trigger_level, scores>>

FusionNext == (~fired /\ Chunk) \/ NextRecording

FusionSpec == FusionInit /\ [][FusionNext]_fusionVars

----------------------------------------------------------------------------
\* What "both always agree on what a detection would be" (fusion.py:3) comes to:
\* a wake word that fires live is detected in a test of the same audio, and with
\* a trigger level of 1 or less the other way round.  That needs audio at the
\* test's peak, streamed in chunks of the test's length (nothing is said of quieter
\* or louder audio: http_api.py:42), no score that rounding moves over the
\* threshold, and no model that is a member twice.
TestForetellsLive ==
    Verbatim /\ Repeated(word) = {} /\ ~close =>
       /\ fired => would_detect
       /\ would_detect /\ trigger_level <= 1 => fired

\* A member that grows more confident never makes the fused score fall, in any
\* mode and with any weights (fuse_scores).
MoreConfidentNeverLess ==
    \A s \in [Models(word) -> Scores] :
       (\A m \in Models(word) : s[m] >= scores[m]) =>
          LET now == Fuse(word, scores, default)
              then == Fuse(word, s, default)
          IN  now.num * then.den <= then.num * now.den

\* models.yaml lists members in any order: with one primary named, the order
\* does not matter (_primary_and_verifier_score).
MemberOrderIrrelevant ==
    LET members == word.members
        named == {i \in DOMAIN members : members[i].role = "primary"}
        score == Fuse(word, scores, default)
    IN  Cardinality(named) = 1 =>
          \A other \in SetToAllKPermutations(DOMAIN members) :
             Len(other) = Len(members) =>
                LET e == [word EXCEPT !.members = [i \in DOMAIN other |-> members[other[i]]]]
                    permuted == Fuse(e, scores, default)
                IN  permuted.num * score.den = score.num * permuted.den
=============================================================================
