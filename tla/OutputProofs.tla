------------------------------ MODULE OutputProofs ------------------------------
(* Theorems about what leaves the handlers: capture files, counts of detections,      *)
(* events, entities.                                                                  *)
EXTENDS Captures, Scores, EventStream, HomeAssistant, FiniteSetTheorems,
        SequenceTheorems, TLAPS

\* For LeastNumber; nothing is folded here.
Newest(p, acc, x) == x
Folding == INSTANCE FoldTheorems WITH Op <- Newest

----------------------------------------------------------------------------
(* Capture files                                                              *)

Later(S, f) == {g \in S : Before(f, g)}

LEMMA FilesAreOrdered ==
  ASSUME NEW a \in FileName, NEW b \in FileName, NEW c \in FileName
  PROVE  /\ ~Before(a, a)
         /\ a = b \/ Before(a, b) \/ Before(b, a)
         /\ Before(a, b) /\ Before(b, c) => Before(a, c)
  <1>1. /\ a[1] \in Nat /\ a[2] \in Nat /\ a[3] \in Nat /\ a = <<a[1], a[2], a[3]>>
        /\ b[1] \in Nat /\ b[2] \in Nat /\ b[3] \in Nat /\ b = <<b[1], b[2], b[3]>>
        /\ c[1] \in Nat /\ c[2] \in Nat /\ c[3] \in Nat
    <2>1. ASSUME NEW d \in FileName
          PROVE  d[1] \in Nat /\ d[2] \in Nat /\ d[3] \in Nat /\ d = <<d[1], d[2], d[3]>>
      <3>1. PICK i \in Stems, j \in Seconds, k \in Handlers : d = <<i, j, k>>
        BY DEF FileName
      <3>2. i \in Nat /\ j \in Nat /\ k \in Nat
        BY CapturesAssumption
      <3> QED
        BY <3>1, <3>2
    <2> QED
      BY <2>1
  <1>2. ~Before(a, a)
    BY <1>1 DEF Before
  <1>3. a = b \/ Before(a, b) \/ Before(b, a)
    BY <1>1 DEF Before
  <1>4. Before(a, b) /\ Before(b, c) => Before(a, c)
    BY <1>1 DEF Before
  <1> QED
    BY <1>2, <1>3, <1>4

LEMMA LaterIsFinite ==
  ASSUME NEW S \in SUBSET FileName, IsFiniteSet(S), NEW f
  PROVE  IsFiniteSet(Later(S, f)) /\ Cardinality(Later(S, f)) \in Nat
  <1>1. Later(S, f) \in SUBSET S
    BY DEF Later
  <1> QED
    BY <1>1, FS_Subset, FS_CardinalityType

\* What is left of a listing without its surplus is no more than capture_keep files.
LEMMA KeptAreFew ==
  ASSUME NEW S \in SUBSET FileName, IsFiniteSet(S)
  PROVE  Cardinality(S \ Surplus(S)) <= capture_keep
  <1> DEFINE T == S \ Surplus(S)
             n == Cardinality(S)
             size(f) == Cardinality(Later(S, f))
  <1>1. n \in Nat /\ T \in SUBSET S /\ IsFiniteSet(T) /\ Cardinality(T) \in Nat
    BY FS_Subset, FS_CardinalityType
  <1>2. \A f \in S : size(f) \in Nat /\ size(f) <= n /\ Later(S, f) \in SUBSET S
    BY FS_Subset, LaterIsFinite DEF Later
  <1>3. \A f \in T : size(f) < capture_keep
    <2>1. ASSUME NEW f \in T PROVE ~(size(f) >= capture_keep)
      BY DEF Surplus, Later
    <2> QED
      BY <1>1, <1>2, <2>1, CapturesAssumption
  <1>4. CASE T = {}
    BY <1>4, FS_EmptySet, CapturesAssumption
  <1>5. CASE T # {}
    <2> DEFINE R == {n - size(f) : f \in T}
    <2>1. \A f \in T : n - size(f) \in Nat
      <3> HIDE DEF n, size, T
      <3> QED
        BY <1>1, <1>2
    <2>2. R \in SUBSET Nat /\ R # {}
      BY <1>5, <2>1
    <2>3. PICK r \in R : \A q \in R : r <= q
      BY <2>2, Folding!LeastNumber
    <2>4. PICK m \in T : r = n - size(m)
      OBVIOUS
    <2>5. ASSUME NEW f \in T PROVE size(f) <= size(m)
      <3>1. n - size(m) <= n - size(f)
        BY <2>3, <2>4
      <3>2. size(f) \in Nat /\ size(m) \in Nat /\ n \in Nat
        BY <1>1, <1>2
      <3> HIDE DEF n, size, T, R
      <3> QED
        BY <3>1, <3>2
    <2>6. ASSUME NEW f \in T, f # m PROVE f \in Later(S, m)
      <3>1. f \in FileName /\ m \in FileName /\ f \in S /\ m \in S
        BY <1>1
      <3>2. CASE Before(f, m)
        <4>1. Later(S, m) \in SUBSET Later(S, f) /\ m \in Later(S, f) /\ m \notin Later(S, m)
          BY <3>1, <3>2, FilesAreOrdered DEF Later
        <4>2. IsFiniteSet(Later(S, f)) /\ IsFiniteSet(Later(S, m))
          BY LaterIsFinite
        <4>3. size(m) <= size(f) /\ (size(f) = size(m) => Later(S, f) = Later(S, m))
          BY <4>1, <4>2, FS_Subset
        <4>4. size(f) \in Nat /\ size(m) \in Nat /\ size(f) <= size(m)
          BY <1>2, <2>5, <3>1
        <4>5. size(f) = size(m)
          <5> HIDE DEF size
          <5> QED
            BY <4>3, <4>4
        <4> QED
          BY <4>1, <4>3, <4>5
      <3> QED
        BY <2>6, <3>1, <3>2, FilesAreOrdered DEF Later
    <2>7. T \in SUBSET (Later(S, m) \cup {m})
      BY <2>6
    <2>8. /\ IsFiniteSet(Later(S, m) \cup {m})
          /\ Cardinality(Later(S, m) \cup {m}) <= size(m) + 1
      <3>1. IsFiniteSet(Later(S, m))
        BY LaterIsFinite
      <3>2. m \notin Later(S, m)
        BY <1>1, FilesAreOrdered DEF Later
      <3>3. IsFiniteSet(Later(S, m) \cup {m}) /\ Cardinality(Later(S, m) \cup {m}) = size(m) + 1
        BY <3>1, <3>2, FS_AddElement
      <3>4. size(m) \in Nat
        BY <1>1, <1>2
      <3> HIDE DEF size
      <3> QED
        BY <3>3, <3>4
    <2>9. Cardinality(T) <= Cardinality(Later(S, m) \cup {m})
      BY <2>7, <2>8, FS_Subset
    <2>10. size(m) < capture_keep /\ size(m) \in Nat /\ Cardinality(T) \in Nat
           /\ Cardinality(Later(S, m) \cup {m}) \in Nat
      BY <1>1, <1>2, <1>3, <2>8, FS_CardinalityType
    <2> HIDE DEF T, size
    <2> QED
      BY <2>8, <2>9, <2>10, CapturesAssumption DEF T
  <1> QED
    BY <1>4, <1>5

Doomed == UNION {job[h].doomed : h \in Handlers}

\* There are enough files after one that is gone or going, and once the last thread has
\* listed the files those that stay are few.
CapturesInv ==
    /\ captures \in SUBSET FileName /\ IsFiniteSet(captures)
    /\ gone \in SUBSET FileName
    /\ job \in [Handlers -> [step : {"idle", "list", "unlink"}, doomed : SUBSET FileName]]
    /\ \A h \in Handlers : job[h].step # "unlink" => job[h].doomed = {}
    /\ \A g \in gone \cup Doomed : Cardinality(Later(captures, g)) >= capture_keep
    /\ pruned /\ (\A h \in Handlers : job[h].step # "list") =>
          Cardinality(captures \ Doomed) <= capture_keep

\* More files do not make fewer come after one.
LEMMA LaterGrows ==
  ASSUME NEW R \in SUBSET FileName, NEW S \in SUBSET FileName, IsFiniteSet(S), R \subseteq S,
         NEW f, Cardinality(Later(R, f)) >= capture_keep
  PROVE  Cardinality(Later(S, f)) >= capture_keep
  <1>1. IsFiniteSet(R)
    BY FS_Subset
  <1>2. Later(R, f) \in SUBSET Later(S, f) /\ IsFiniteSet(Later(S, f))
    BY LaterIsFinite DEF Later
  <1>3. Cardinality(Later(R, f)) <= Cardinality(Later(S, f))
    BY <1>2, FS_Subset
  <1> QED
    BY <1>1, <1>3, LaterIsFinite, CapturesAssumption

\* Nor does the removal of one that has enough files after it.
LEMMA LaterStays ==
  ASSUME NEW S \in SUBSET FileName, IsFiniteSet(S),
         NEW f \in FileName, Cardinality(Later(S, f)) >= capture_keep,
         NEW g \in FileName, Cardinality(Later(S, g)) >= capture_keep
  PROVE  Cardinality(Later(S \ {f}, g)) >= capture_keep
  <1>1. IsFiniteSet(S \ {f}) /\ S \ {f} \in SUBSET FileName
    BY FS_Subset
  <1>2. CASE Before(g, f)
    <2>1. Later(S, f) \in SUBSET Later(S \ {f}, g)
      BY <1>2, FilesAreOrdered DEF Later
    <2>2. Cardinality(Later(S, f)) <= Cardinality(Later(S \ {f}, g))
      BY <1>1, <2>1, LaterIsFinite, FS_Subset
    <2>3. Cardinality(Later(S, f)) \in Nat /\ Cardinality(Later(S \ {f}, g)) \in Nat
      BY <1>1, LaterIsFinite
    <2> QED
      BY <2>2, <2>3, CapturesAssumption
  <1>3. CASE ~Before(g, f)
    <2>1. Later(S \ {f}, g) = Later(S, g)
      BY <1>3 DEF Later
    <2> QED
      BY <2>1
  <1> QED
    BY <1>2, <1>3

LEMMA CapturesInvInit == CapturesInit => CapturesInv
  <1> SUFFICES ASSUME CapturesInit PROVE CapturesInv
    OBVIOUS
  <1>1. \A h \in Handlers : job[h] = [step |-> "idle", doomed |-> {}]
    BY DEF CapturesInit, Idle
  <1>2. Doomed = {}
    BY <1>1 DEF Doomed
  <1>3. job \in [Handlers -> [step : {"idle", "list", "unlink"}, doomed : SUBSET FileName]]
    BY DEF CapturesInit, Idle
  <1> QED
    BY <1>1, <1>2, <1>3 DEF CapturesInit, CapturesInv

LEMMA CapturesInvNext == CapturesInv /\ [CapturesNext]_captureVars => CapturesInv'
  <1> SUFFICES ASSUME CapturesInv, [CapturesNext]_captureVars PROVE CapturesInv'
    OBVIOUS
  <1> USE DEF CapturesInv
  <1>1. ASSUME NEW h \in Handlers, Capture(h) PROVE CapturesInv'
    <2>1. PICK stem \in Stems, second \in Seconds :
             /\ captures' = captures \cup {<<stem, second, h>>}
             /\ gone' = gone \ {<<stem, second, h>>}
      BY <1>1 DEF Capture
    <2> DEFINE f == <<stem, second, h>>
    <2>2. f \in FileName
      BY DEF FileName
    <2>3. captures' \in SUBSET FileName /\ IsFiniteSet(captures') /\ gone' \in SUBSET FileName
      BY <2>1, <2>2, FS_AddElement
    <2>4. job' = [job EXCEPT ![h].step = "list"] /\ job[h].step = "idle"
      BY <1>1 DEF Capture
    <2>5. /\ job' \in [Handlers -> [step : {"idle", "list", "unlink"}, doomed : SUBSET FileName]]
          /\ \A i \in Handlers : job'[i].doomed = job[i].doomed
          /\ \A i \in Handlers : job'[i].step # "unlink" => job[i].step # "unlink"
          /\ job'[h].step = "list"
      BY <2>4
    <2>6. Doomed' = Doomed
      BY <2>5 DEF Doomed
    <2>7. ASSUME NEW g \in gone' \cup Doomed'
          PROVE  Cardinality(Later(captures', g)) >= capture_keep
      <3>1. g \in gone \cup Doomed
        BY <2>1, <2>6
      <3> QED
        BY <2>1, <2>3, <3>1, LaterGrows
    <2>8. \A i \in Handlers : job'[i].step # "unlink" => job'[i].doomed = {}
      BY <2>5
    <2> QED
      BY <2>3, <2>5, <2>7, <2>8 DEF Later
  <1>2. ASSUME NEW h \in Handlers, List(h) PROVE CapturesInv'
    <2>1. /\ job' = [job EXCEPT ![h] = [step |-> "unlink", doomed |-> Surplus(captures)]]
          /\ captures' = captures /\ gone' = gone
      BY <1>2 DEF List
    <2>2. Surplus(captures) \in SUBSET FileName
      BY DEF Surplus
    <2>3. /\ job' \in [Handlers -> [step : {"idle", "list", "unlink"}, doomed : SUBSET FileName]]
          /\ job'[h] = [step |-> "unlink", doomed |-> Surplus(captures)]
          /\ \A i \in Handlers \ {h} : job'[i] = job[i]
      BY <2>1, <2>2
    <2>4. \A i \in Handlers : job'[i].step # "unlink" => job'[i].doomed = {}
      BY <2>3
    <2>5. Surplus(captures) \subseteq Doomed'
      BY <2>3 DEF Doomed
    <2>6. ASSUME NEW g \in Doomed' PROVE g \in Surplus(captures) \/ g \in Doomed
      <3>1. PICK i \in Handlers : g \in job'[i].doomed
        BY DEF Doomed
      <3> QED
        BY <2>3, <3>1 DEF Doomed
    <2>7. ASSUME NEW g \in gone \cup Doomed'
          PROVE  Cardinality(Later(captures, g)) >= capture_keep
      <3>1. CASE g \in Surplus(captures)
        BY <3>1 DEF Surplus, Later
      <3> QED
        BY <2>6, <3>1
    <2>8. Cardinality(captures \ Doomed') <= capture_keep
      <3>1. captures \ Doomed' \in SUBSET (captures \ Surplus(captures))
        BY <2>5
      <3>2. IsFiniteSet(captures \ Surplus(captures))
        BY FS_Subset
      <3>3. Cardinality(captures \ Doomed') <= Cardinality(captures \ Surplus(captures))
        BY <3>1, <3>2, FS_Subset
      <3>4. /\ Cardinality(captures \ Surplus(captures)) <= capture_keep
            /\ Cardinality(captures \ Surplus(captures)) \in Nat
            /\ Cardinality(captures \ Doomed') \in Nat
        BY <3>1, <3>2, KeptAreFew, FS_Subset, FS_CardinalityType
      <3> QED
        BY <3>3, <3>4, CapturesAssumption
    <2> QED
      BY <2>1, <2>3, <2>4, <2>7, <2>8 DEF Later
  <1>3. ASSUME NEW h \in Handlers, Unlink(h) PROVE CapturesInv'
    <2>1. PICK f \in job[h].doomed :
             /\ captures' = captures \ {f} /\ gone' = gone \cup {f}
             /\ job' = [job EXCEPT ![h].doomed = @ \ {f}]
      BY <1>3 DEF Unlink
    <2>2. f \in Doomed /\ f \in FileName /\ job[h].step = "unlink"
      BY <1>3 DEF Doomed, Unlink
    <2>3. captures' \in SUBSET FileName /\ IsFiniteSet(captures') /\ gone' \in SUBSET FileName
      BY <2>1, <2>2, FS_Subset
    <2>4. /\ job' \in [Handlers -> [step : {"idle", "list", "unlink"}, doomed : SUBSET FileName]]
          /\ \A i \in Handlers : job'[i].step = job[i].step
          /\ job'[h].doomed = job[h].doomed \ {f}
          /\ \A i \in Handlers \ {h} : job'[i].doomed = job[i].doomed
      BY <2>1
    <2>5. \A i \in Handlers : job'[i].step # "unlink" => job'[i].doomed = {}
      BY <2>2, <2>4
    <2>6. ASSUME NEW g \in Doomed' PROVE g \in Doomed
      <3>1. PICK i \in Handlers : g \in job'[i].doomed
        BY DEF Doomed
      <3>2. g \in job[i].doomed
        BY <2>4, <3>1
      <3> QED
        BY <3>2 DEF Doomed
    <2>7. ASSUME NEW g \in Doomed, g # f PROVE g \in Doomed'
      <3>1. PICK i \in Handlers : g \in job[i].doomed
        BY DEF Doomed
      <3>2. g \in job'[i].doomed
        BY <2>4, <2>7, <3>1
      <3> QED
        BY <3>2 DEF Doomed
    <2>8. Doomed \in SUBSET FileName
      BY DEF Doomed
    <2>9. ASSUME NEW g \in gone' \cup Doomed'
          PROVE  Cardinality(Later(captures', g)) >= capture_keep
      <3>1. g \in gone \cup Doomed /\ g \in FileName
        BY <2>1, <2>2, <2>6, <2>8
      <3>2. Cardinality(Later(captures \ {f}, g)) >= capture_keep
        BY <2>2, <3>1, LaterStays
      <3> QED
        BY <2>1, <3>2
    <2>10. ASSUME pruned', \A i \in Handlers : job'[i].step # "list"
           PROVE  Cardinality(captures' \ Doomed') <= capture_keep
      <3>1. captures' \ Doomed' \in SUBSET (captures \ Doomed)
        BY <2>1, <2>7
      <3>2. IsFiniteSet(captures \ Doomed)
        BY FS_Subset
      <3>3. Cardinality(captures' \ Doomed') <= Cardinality(captures \ Doomed)
        BY <3>1, <3>2, FS_Subset
      <3>4. Cardinality(captures \ Doomed) \in Nat /\ Cardinality(captures' \ Doomed') \in Nat
        BY <3>1, <3>2, FS_Subset, FS_CardinalityType
      <3>5. pruned /\ \A i \in Handlers : job[i].step # "list"
        BY <1>3, <2>4, <2>10 DEF Unlink
      <3> QED
        BY <3>3, <3>4, <3>5, CapturesAssumption
    <2> QED
      BY <2>3, <2>4, <2>5, <2>9, <2>10 DEF Later
  <1>4. ASSUME NEW h \in Handlers, Finish(h) PROVE CapturesInv'
    <2>1. /\ job' = [job EXCEPT ![h] = Idle] /\ job[h].step = "unlink" /\ job[h].doomed = {}
          /\ captures' = captures /\ gone' = gone /\ pruned' = pruned
      BY <1>4 DEF Finish
    <2>2. /\ job' \in [Handlers -> [step : {"idle", "list", "unlink"}, doomed : SUBSET FileName]]
          /\ \A i \in Handlers : job'[i].doomed = job[i].doomed
          /\ \A i \in Handlers : job'[i].step = job[i].step \/ job[i].doomed = {}
          /\ \A i \in Handlers : job'[i].step # "list" => job[i].step # "list"
      BY <2>1 DEF Idle
    <2>3. Doomed' = Doomed
      BY <2>2 DEF Doomed
    <2>4. \A i \in Handlers : job'[i].step # "unlink" => job'[i].doomed = {}
      BY <2>2
    <2> QED
      BY <2>1, <2>2, <2>3, <2>4 DEF Later
  <1>5. CASE RestartServer
    <2>1. /\ job' = [h \in Handlers |-> [step |-> "idle", doomed |-> {}]]
          /\ captures' = captures /\ gone' = {} /\ pruned' = FALSE
      BY <1>5 DEF RestartServer, Idle
    <2>2. /\ job' \in [Handlers -> [step : {"idle", "list", "unlink"}, doomed : SUBSET FileName]]
          /\ \A h \in Handlers : job'[h].doomed = {}
      BY <2>1
    <2>3. Doomed' = {}
      BY <2>2 DEF Doomed
    <2> QED
      BY <2>1, <2>2, <2>3
  <1>6. CASE UNCHANGED captureVars
    BY <1>6 DEF captureVars, Doomed, Later
  <1> QED
    BY <1>1, <1>2, <1>3, <1>4, <1>5, <1>6 DEF CapturesNext

\* The newest captures are kept, for any number of connections and files, whatever the
\* order in which their threads list and remove.
THEOREM CapturesArePruned == CapturesSpec => []CapturesPruned
  <1>1. CapturesInv => CapturesPruned
    <2> SUFFICES ASSUME CapturesInv, pruned, \A h \in Handlers : job[h] = Idle
                 PROVE  /\ Cardinality(captures) <= capture_keep
                        /\ \A f \in captures, g \in gone : Before(g, f)
      BY DEF CapturesPruned
    <2>1. \A h \in Handlers : job[h].step # "list" /\ job[h].doomed = {}
      BY DEF Idle
    <2>2. Doomed = {} /\ captures \ Doomed = captures
      BY <2>1 DEF Doomed
    <2>3. Cardinality(captures) <= capture_keep
      BY <2>1, <2>2 DEF CapturesInv
    <2>4. ASSUME NEW f \in captures, NEW g \in gone PROVE Before(g, f)
      <3>1. Cardinality(Later(captures, g)) >= capture_keep
        BY DEF CapturesInv
      <3>2. /\ Later(captures, g) \in SUBSET captures /\ IsFiniteSet(captures)
            /\ captures \in SUBSET FileName
        BY DEF CapturesInv, Later
      <3>3. /\ Cardinality(Later(captures, g)) <= Cardinality(captures)
            /\ Cardinality(captures) = Cardinality(Later(captures, g))
               => captures = Later(captures, g)
        BY <3>2, FS_Subset
      <3>4. Cardinality(captures) \in Nat /\ Cardinality(Later(captures, g)) \in Nat
        BY <3>2, FS_CardinalityType, LaterIsFinite
      <3>5. captures = Later(captures, g)
        BY <2>3, <3>1, <3>3, <3>4, CapturesAssumption
      <3> QED
        BY <3>5 DEF Later
    <2> QED
      BY <2>3, <2>4
  <1> QED
    BY <1>1, CapturesInvInit, CapturesInvNext, PTL DEF CapturesSpec

----------------------------------------------------------------------------
(* Counts                                                                     *)

ScoresInv ==
    /\ scores = [m \in DOMAIN scores |-> scores[m]] /\ DOMAIN scores \subseteq Words
    /\ \A t \in DOMAIN missed : missed[t] \in Words
    /\ tally = [m \in Words |-> tally[m]]
    /\ DetectionsCounted
    /\ \A m \in Words : m \notin DOMAIN scores => m \notin overwritten

\* No detection goes uncounted, for any number of wake words and threads.
THEOREM AllDetectionsCounted == ScoresSpec => []DetectionsCounted
  <1>1. ScoresInit => ScoresInv
    BY DEF ScoresInit, ScoresInv, DetectionsCounted, Count
  <1>2. ScoresInv /\ [ScoresNext]_scoreVars => ScoresInv'
    <2> SUFFICES ASSUME ScoresInv, [ScoresNext]_scoreVars PROVE ScoresInv'
      OBVIOUS
    <2> USE DEF ScoresInv
    <2>1. CASE RefreshScores
      <3>1. PICK ids \in SUBSET Words :
               /\ scores' = [m \in DOMAIN scores \cap ids |-> scores[m]]
               /\ tally' = [m \in Words |-> IF m \in ids THEN tally[m] ELSE 0]
               /\ overwritten' = overwritten \cap ids
               /\ missed' = missed
        BY <2>1 DEF RefreshScores, Kept
      <3>2. \A m \in Words \ overwritten' : Count(m)' = tally'[m]
        BY <3>1 DEF DetectionsCounted, Count
      <3> QED
        BY <3>1, <3>2 DEF DetectionsCounted
    <2>2. ASSUME NEW t \in Threads, Miss(t) PROVE ScoresInv'
      BY <2>2 DEF Miss, DetectionsCounted, Count
    <2>3. ASSUME NEW t \in Threads, Insert(t) PROVE ScoresInv'
      <3>1. missed[t] \in Words /\ tally' = tally
            /\ scores' = [i \in DOMAIN scores \cup {missed[t]} |->
                              IF i = missed[t] THEN 0 ELSE scores[i]]
            /\ overwritten' = overwritten \cup ({missed[t]} \cap DOMAIN scores)
        BY <2>3 DEF Insert, With
      <3>2. \A m \in Words \ overwritten' : Count(m)' = tally'[m]
        BY <3>1 DEF DetectionsCounted, Count
      <3>3. \A u \in DOMAIN missed' : missed'[u] \in Words
        BY <2>3 DEF Insert
      <3> QED
        BY <3>1, <3>2, <3>3 DEF DetectionsCounted
    <2>4. ASSUME NEW t \in Threads, RefreshRaises(t) PROVE ScoresInv'
      <3>1. missed[t] \in Words \ DOMAIN scores /\ tally' = tally
            /\ scores' = [i \in DOMAIN scores \cup {missed[t]} |->
                              IF i = missed[t] THEN 0 ELSE scores[i]]
            /\ overwritten' = overwritten
        BY <2>4 DEF RefreshRaises, With
      <3>2. \A m \in Words \ overwritten' : Count(m)' = tally'[m]
        BY <3>1 DEF DetectionsCounted, Count
      <3>3. \A u \in DOMAIN missed' : missed'[u] \in Words
        BY <2>4 DEF RefreshRaises
      <3> QED
        BY <3>1, <3>2, <3>3 DEF DetectionsCounted
    <2>5. ASSUME NEW m \in Words, Detect(m) PROVE ScoresInv'
      <3>1. /\ scores' = [i \in DOMAIN scores \cup {m} |->
                              IF i = m THEN Count(m) + 1 ELSE scores[i]]
            /\ tally' = [tally EXCEPT ![m] = @ + 1]
            /\ overwritten' = overwritten /\ missed' = missed
        BY <2>5 DEF Detect, With
      <3>2. \A n \in Words \ overwritten' : Count(n)' = tally'[n]
        BY <3>1 DEF DetectionsCounted, Count
      <3> QED
        BY <3>1, <3>2 DEF DetectionsCounted
    <2>6. CASE UNCHANGED scoreVars
      BY <2>6 DEF scoreVars, DetectionsCounted, Count
    <2> QED
      BY <2>1, <2>2, <2>3, <2>4, <2>5, <2>6 DEF ScoresNext
  <1>3. ScoresInv => DetectionsCounted
    BY DEF ScoresInv
  <1> QED
    BY <1>1, <1>2, <1>3, PTL DEF ScoresSpec

----------------------------------------------------------------------------
(* Entities                                                                   *)

\* A model whose sensor was left over is not one the platform knows.
HomeInv ==
    /\ entry = "loaded" => /\ known = shown.models /\ known \cap orphans = {}
                           /\ registry = known \cup orphans
    /\ behind \in BOOLEAN /\ reload \in BOOLEAN
    /\ assist # served => reload \/ behind

\* The entities follow the server, for any models, settings, tokens and failures.
THEOREM EntitiesFollowServer == HomeSpec => []EntitiesFollow
  <1>1. HomeInit => HomeInv
    BY DEF HomeInit, HomeInv
  <1>2. HomeInv /\ [HomeNext]_homeVars => HomeInv'
    <2> SUFFICES ASSUME HomeInv, [HomeNext]_homeVars PROVE HomeInv'
      OBVIOUS
    <2> USE DEF HomeInv
    <2>1. CASE Setup
      BY <2>1 DEF Setup, serverVars, sensorVars, assistVars
    <2>2. CASE Poll
      BY <2>2 DEF Poll, serverVars, sensorVars, assistVars
    <2>3. CASE Answer
      BY <2>3 DEF Answer, serverVars, sensorVars, assistVars
    <2>4. CASE Update
      <3>1. shown'.models = draft /\ known' = draft /\ draft' = draft
            /\ served' = served /\ assist' = assist /\ reload' = reload /\ behind' = behind
        BY <2>4 DEF Update, Synced, serverVars, assistVars
      <3>2. CASE entry = "loaded"
        <4>1. registry' = (registry \cup (draft \ known)) \ (known \ draft)
              /\ orphans' = orphans \ draft
          BY <2>4, <3>2 DEF Update
        <4>2. registry' = draft \cup (orphans \ draft)
          BY <3>2, <4>1
        <4> QED
          BY <3>1, <4>1, <4>2
      <3>3. CASE entry # "loaded"
        <4>1. registry' = (registry \cup (draft \ {})) \ ({} \ draft)
              /\ orphans' = registry \ draft
          BY <2>4, <3>3 DEF Update
        <4> QED
          BY <3>1, <4>1
      <3> QED
        BY <3>2, <3>3
    <2>5. CASE Fail
      BY <2>5 DEF Fail, serverVars, sensorVars, assistVars
    <2>6. CASE Refuse
      BY <2>6 DEF Refuse, serverVars, sensorVars, assistVars
    <2>7. CASE AddEntry
      BY <2>7 DEF AddEntry, Begin, serverVars, sensorVars, assistVars
    <2>8. CASE Reauthenticate
      BY <2>8 DEF Reauthenticate, Begin, serverVars, sensorVars, assistVars
    <2>9. CASE RestartHome
      BY <2>9 DEF RestartHome, Begin, serverVars, sensorVars
    <2>10. ASSUME NEW models, Changed(models) PROVE HomeInv'
      BY <2>10 DEF Changed, sensorVars
    <2>11. CASE ApplySettings
      BY <2>11 DEF ApplySettings, sensorVars, assistVars
    <2>12. CASE ReloadWyoming
      BY <2>12 DEF ReloadWyoming, serverVars, pollVars, sensorVars
    <2>13. CASE ChangeElsewhere
      BY <2>13 DEF ChangeElsewhere, pollVars, sensorVars
    <2>14. CASE Outage
      BY <2>14 DEF Outage, pollVars, sensorVars, assistVars
    <2>15. CASE Return
      BY <2>15 DEF Return, pollVars, sensorVars
    <2>16. CASE UNCHANGED homeVars
      BY <2>16 DEF homeVars, serverVars, pollVars, sensorVars, assistVars
    <2> QED
      BY <2>1, <2>2, <2>3, <2>4, <2>5, <2>6, <2>7, <2>8, <2>9, <2>10, <2>11, <2>12,
         <2>13, <2>14, <2>15, <2>16
      DEF HomeNext, UploadModel, DeleteModel, Restore, Reload
  <1>3. HomeInv => EntitiesFollow
    BY DEF HomeInv, EntitiesFollow
  <1> QED
    BY <1>1, <1>2, <1>3, PTL DEF HomeSpec

----------------------------------------------------------------------------
(* Events.  All sequences are of Nat, since the lemmas are then within reach of SMT.  *)

Increasing(q) == \A i, j \in DOMAIN q : i < j => q[i] < q[j]

\* All events that s has received or has coming.
Flow(s) == received[s] \o wire[s] \o queue[s]

Arriving(s) ==
    /\ client[s] # "listening" => wire[s] = << >> /\ queue[s] = << >>
    /\ client[s] = "listening" => Flow(s) = expected[s]
    /\ Increasing(Flow(s))
    /\ \A i \in DOMAIN Flow(s) : Flow(s)[i] <= published

EventsTypeOK ==
    /\ published \in Nat
    /\ client \in [Subscribers -> {"waiting", "listening", "deaf"}]
    /\ queue \in [Subscribers -> Seq(Nat)] /\ wire \in [Subscribers -> Seq(Nat)]
    /\ received \in [Subscribers -> Seq(Nat)] /\ expected \in [Subscribers -> Seq(Nat)]

EventsInv == EventsTypeOK /\ \A s \in Subscribers : Arriving(s)

----------------------------------------------------------------------------
(* Sequences                                                                  *)

LEMMA Associative ==
    ASSUME NEW a \in Seq(Nat), NEW b \in Seq(Nat), NEW c \in Seq(Nat)
    PROVE  (a \o b) \o c = a \o (b \o c)
  OBVIOUS

LEMMA AppendedLast ==
    ASSUME NEW a \in Seq(Nat), NEW b \in Seq(Nat), NEW c \in Seq(Nat), NEW e \in Nat
    PROVE  a \o b \o Append(c, e) = Append(a \o b \o c, e)
  BY SMTT(30)

LEMMA HeadAndTail ==
    ASSUME NEW c \in Seq(Nat), c # << >>
    PROVE  Head(c) \in Nat /\ Tail(c) \in Seq(Nat)
  OBVIOUS

\* The first element of a sequence may as well be the last of the one before.
LEMMA MovedToEnd ==
    ASSUME NEW b \in Seq(Nat), NEW c \in Seq(Nat), c # << >>
    PROVE  Append(b, Head(c)) \o Tail(c) = b \o c
  <1>1. /\ Head(c) \in Nat /\ Tail(c) \in Seq(Nat) /\ Len(Tail(c)) = Len(c) - 1
        /\ \A i \in 1 .. Len(c) - 1 : Tail(c)[i] = c[i + 1]
        /\ Head(c) = c[1] /\ Len(c) \in Nat \ {0} /\ Len(b) \in Nat
    BY HeadTailProperties
  <1>2. /\ Append(b, Head(c)) \in Seq(Nat) /\ Len(Append(b, Head(c))) = Len(b) + 1
        /\ \A i \in 1 .. Len(b) : Append(b, Head(c))[i] = b[i]
        /\ Append(b, Head(c))[Len(b) + 1] = c[1]
    BY <1>1
  <1>3. /\ b \o c \in Seq(Nat) /\ Len(b \o c) = Len(b) + Len(c)
        /\ \A i \in 1 .. Len(b) + Len(c) : (b \o c)[i] =
                     IF i <= Len(b) THEN b[i] ELSE c[i - Len(b)]
    BY ConcatProperties
  <1> DEFINE d == Append(b, Head(c))
             t == Tail(c)
  <1>4. d \in Seq(Nat) /\ t \in Seq(Nat)
    BY <1>1, <1>2
  <1> HIDE DEF d, t
  <1>5. /\ d \o t \in Seq(Nat) /\ Len(d \o t) = Len(d) + Len(t)
        /\ \A i \in 1 .. Len(d) + Len(t) : (d \o t)[i] =
                     IF i <= Len(d) THEN d[i] ELSE t[i - Len(d)]
    BY <1>4, ConcatProperties
  <1>6. \A i \in 1 .. Len(b) + Len(c) : (d \o t)[i] = (b \o c)[i]
    <2> TAKE i \in 1 .. Len(b) + Len(c)
    <2>1. CASE i <= Len(b)
      BY <1>1, <1>2, <1>3, <1>5, <2>1 DEF d, t
    <2>2. CASE i = Len(b) + 1
      BY <1>1, <1>2, <1>3, <1>5, <2>2 DEF d, t
    <2>3. CASE i > Len(b) + 1
      <3>1. i - Len(d) \in 1 .. Len(c) - 1 /\ (i - Len(d)) + 1 = i - Len(b)
        BY <1>1, <1>2, <2>3 DEF d
      <3>2. (d \o t)[i] = t[i - Len(d)]
        BY <1>1, <1>2, <1>5, <2>3 DEF d, t
      <3>3. t[i - Len(d)] = c[i - Len(b)]
        BY <1>1, <3>1 DEF t
      <3>4. (b \o c)[i] = c[i - Len(b)]
        BY <1>1, <1>3, <2>3
      <3> QED
        BY <3>2, <3>3, <3>4
    <2>4. i <= Len(b) \/ i = Len(b) + 1 \/ i > Len(b) + 1
      BY <1>1
    <2> QED
      BY <2>1, <2>2, <2>3, <2>4, Zenon
  <1>7. Len(d \o t) = Len(b \o c)
    BY <1>1, <1>2, <1>3, <1>5 DEF d, t
  <1>8. d \o t = b \o c
    BY <1>3, <1>5, <1>6, <1>7, SeqEqual
  <1> QED
    BY <1>8 DEF d, t

LEMMA MovedInTheMiddle ==
    ASSUME NEW a \in Seq(Nat), NEW b \in Seq(Nat), NEW c \in Seq(Nat), c # << >>
    PROVE  (a \o Append(b, Head(c))) \o Tail(c) = (a \o b) \o c
  <1>1. Tail(c) \in Seq(Nat) /\ Append(b, Head(c)) \in Seq(Nat)
    BY HeadAndTail
  <1>2. (a \o Append(b, Head(c))) \o Tail(c) = a \o (Append(b, Head(c)) \o Tail(c))
    BY <1>1, Associative
  <1>3. Append(b, Head(c)) \o Tail(c) = b \o c
    BY MovedToEnd
  <1>4. (a \o b) \o c = a \o (b \o c)
    BY Associative
  <1> QED
    BY <1>2, <1>3, <1>4

LEMMA StartOfMore ==
    ASSUME NEW a \in Seq(Nat), NEW b \in Seq(Nat)
    PROVE  /\ a \o << >> \o << >> = a
           /\ DOMAIN a \subseteq DOMAIN (a \o b)
           /\ \A i \in DOMAIN a : (a \o b)[i] = a[i]
           /\ a \o b \in Seq(Nat)
  OBVIOUS

\* A new event is the last one.
LEMMA NewestLast ==
    ASSUME NEW q \in Seq(Nat), Increasing(q), NEW n \in Nat, \A i \in DOMAIN q : q[i] <= n
    PROVE  /\ Increasing(Append(q, n + 1))
           /\ \A i \in DOMAIN Append(q, n + 1) : Append(q, n + 1)[i] <= n + 1
  <1>1. /\ DOMAIN Append(q, n + 1) = 1 .. Len(q) + 1 /\ DOMAIN q = 1 .. Len(q)
        /\ \A i \in 1 .. Len(q) : Append(q, n + 1)[i] = q[i] /\ q[i] \in Nat
        /\ Append(q, n + 1)[Len(q) + 1] = n + 1 /\ Len(q) \in Nat
    OBVIOUS
  <1> QED
    BY <1>1 DEF Increasing

----------------------------------------------------------------------------
(* Events                                                                     *)

LEMMA FlowOf ==
    ASSUME EventsInv, NEW s \in Subscribers
    PROVE  /\ received[s] \in Seq(Nat) /\ wire[s] \in Seq(Nat) /\ queue[s] \in Seq(Nat)
           /\ Flow(s) \in Seq(Nat) /\ published \in Nat
           /\ Arriving(s)
  BY StartOfMore DEF EventsInv, EventsTypeOK, Flow

\* What has been received is in order like all that is coming.
LEMMA ReceivedFirst ==
    ASSUME EventsInv, NEW s \in Subscribers
    PROVE  /\ Increasing(received[s])
           /\ \A i \in DOMAIN received[s] : received[s][i] <= published
  <1> DEFINE a == received[s]
             b == wire[s] \o queue[s]
  <1>1. a \in Seq(Nat) /\ wire[s] \in Seq(Nat) /\ queue[s] \in Seq(Nat) /\ Arriving(s)
    BY FlowOf
  <1>2. b \in Seq(Nat)
    BY <1>1, StartOfMore
  <1>3. Flow(s) = a \o b
    BY <1>1, Associative DEF Flow
  <1> HIDE DEF a, b
  <1>4. /\ DOMAIN a \subseteq DOMAIN (a \o b)
        /\ \A i \in DOMAIN a : (a \o b)[i] = a[i]
    BY <1>1, <1>2, StartOfMore
  <1>5. Increasing(a) /\ \A i \in DOMAIN a : a[i] <= published
    BY <1>1, <1>3, <1>4 DEF Increasing, Arriving
  <1> QED
    BY <1>5 DEF a

LEMMA PublishKeeps ==
    ASSUME EventsInv, Publish
    PROVE  EventsInv'
  <1>1. /\ published' = published + 1 /\ client' = client /\ wire' = wire
        /\ received' = received
        /\ queue' = [s \in Subscribers |->
               IF client[s] = "listening" THEN Offered(queue[s], published') ELSE queue[s]]
        /\ expected' = [s \in Subscribers |->
               IF client[s] = "listening" /\ Room(queue[s])
               THEN Append(expected[s], published') ELSE expected[s]]
    BY DEF Publish
  <1>2. published \in Nat /\ published' \in Nat
    BY <1>1 DEF EventsInv, EventsTypeOK
  <1>3. /\ \A s \in Subscribers : queue[s] \in Seq(Nat) /\ expected[s] \in Seq(Nat)
        /\ \A q \in Seq(Nat) : Append(q, published') \in Seq(Nat)
    BY <1>2 DEF EventsInv, EventsTypeOK
  <1>4. EventsTypeOK'
    BY <1>1, <1>2, <1>3 DEF Offered, EventsInv, EventsTypeOK
  <1>5. ASSUME NEW s \in Subscribers PROVE Arriving(s)'
    <2>0. Arriving(s) /\ Flow(s) \in Seq(Nat)
      BY FlowOf
    <2>1. CASE client[s] = "listening" /\ Room(queue[s])
      <3>1. queue'[s] = Append(queue[s], published') /\ expected'[s] = Append(expected[s], published')
        BY <1>1, <2>1 DEF Offered
      <3>2. received[s] \o wire[s] \o Append(queue[s], published') = Append(Flow(s), published')
        BY <1>2, FlowOf, AppendedLast, ZenonT(30) DEF Flow
      <3>3. Flow(s)' = Append(Flow(s), published')
        BY <1>1, <3>1, <3>2 DEF Flow
      <3>4. /\ Increasing(Append(Flow(s), published + 1))
            /\ \A i \in DOMAIN Append(Flow(s), published + 1) :
                  Append(Flow(s), published + 1)[i] <= published + 1
        BY <1>2, <2>0, NewestLast DEF Arriving
      <3> QED
        BY <1>1, <2>0, <2>1, <3>1, <3>3, <3>4 DEF Arriving, Increasing
    <2>2. CASE ~(client[s] = "listening" /\ Room(queue[s]))
      <3>1. queue'[s] = queue[s] /\ expected'[s] = expected[s]
        BY <1>1, <2>2 DEF Offered
      <3>2. Flow(s)' = Flow(s)
        BY <1>1, <3>1 DEF Flow
      <3>3. \A i \in DOMAIN Flow(s) : Flow(s)[i] \in Nat /\ Flow(s)[i] <= published
        BY <2>0 DEF Arriving
      <3>4. \A i \in DOMAIN Flow(s) : Flow(s)[i] <= published + 1
        BY <1>2, <3>3
      <3> QED
        BY <1>1, <2>0, <3>1, <3>2, <3>4 DEF Arriving, Increasing
    <2> QED
      BY <2>1, <2>2
  <1> QED
    BY <1>4, <1>5 DEF EventsInv

\* A step that leaves what is coming to s.
LEMMA SameFlow ==
    ASSUME EventsInv, NEW s \in Subscribers,
           Flow(s)' = Flow(s), published' = published, client'[s] = client[s],
           expected'[s] = expected[s],
           client[s] # "listening" => wire'[s] = << >> /\ queue'[s] = << >>
    PROVE  Arriving(s)'
  BY FlowOf DEF Arriving, Increasing

\* A step after which nothing is coming to s.
LEMMA NoMoreFlow ==
    ASSUME EventsInv, NEW s \in Subscribers,
           wire'[s] = << >>, queue'[s] = << >>, received'[s] = received[s],
           published' = published,
           client'[s] = "listening" => expected'[s] = received[s]
    PROVE  Arriving(s)'
  <1>1. Flow(s)' = received[s]
    BY FlowOf, StartOfMore DEF Flow
  <1> QED
    BY <1>1, ReceivedFirst DEF Arriving, Increasing

LEMMA ServeKeeps ==
    ASSUME EventsInv, NEW r \in Subscribers, Serve(r)
    PROVE  EventsInv'
  <1>1. /\ client[r] = "listening" /\ queue[r] # << >>
        /\ queue' = [queue EXCEPT ![r] = Tail(@)]
        /\ wire' = [wire EXCEPT ![r] = Append(@, Head(queue[r]))]
        /\ published' = published /\ client' = client /\ received' = received
        /\ expected' = expected
    BY DEF Serve
  <1>2. Head(queue[r]) \in Nat /\ Tail(queue[r]) \in Seq(Nat)
    BY <1>1, FlowOf, HeadAndTail
  <1>3. EventsTypeOK'
    BY <1>1, <1>2 DEF EventsInv, EventsTypeOK
  <1>4. ASSUME NEW s \in Subscribers PROVE Arriving(s)'
    <2>1. CASE s = r
      <3>1. received[r] \o Append(wire[r], Head(queue[r])) \o Tail(queue[r]) = Flow(r)
        BY <1>1, FlowOf, MovedInTheMiddle, ZenonT(30) DEF Flow
      <3>2. queue'[r] = Tail(queue[r]) /\ wire'[r] = Append(wire[r], Head(queue[r]))
        BY <1>1 DEF EventsInv, EventsTypeOK
      <3>3. Flow(s)' = Flow(s)
        BY <1>1, <2>1, <3>1, <3>2 DEF Flow
      <3> QED
        BY <1>1, <2>1, <3>3, SameFlow
    <2>2. CASE s # r
      <3>1. queue'[s] = queue[s] /\ wire'[s] = wire[s]
        BY <1>1, <2>2 DEF EventsInv, EventsTypeOK
      <3>2. Flow(s)' = Flow(s)
        BY <1>1, <3>1 DEF Flow
      <3> QED
        BY <1>1, <3>1, <3>2, FlowOf, SameFlow DEF Arriving
    <2> QED
      BY <2>1, <2>2
  <1> QED
    BY <1>3, <1>4 DEF EventsInv

LEMMA ReceiveKeeps ==
    ASSUME EventsInv, NEW r \in Subscribers, Receive(r)
    PROVE  EventsInv'
  <1>1. /\ client[r] = "listening" /\ wire[r] # << >>
        /\ wire' = [wire EXCEPT ![r] = Tail(@)]
        /\ received' = [received EXCEPT ![r] = Append(@, Head(wire[r]))]
        /\ published' = published /\ client' = client /\ queue' = queue
        /\ expected' = expected
    BY DEF Receive
  <1>2. Head(wire[r]) \in Nat /\ Tail(wire[r]) \in Seq(Nat)
    BY <1>1, FlowOf, HeadAndTail
  <1>3. EventsTypeOK'
    BY <1>1, <1>2 DEF EventsInv, EventsTypeOK
  <1>4. ASSUME NEW s \in Subscribers PROVE Arriving(s)'
    <2>1. CASE s = r
      <3>1. Append(received[r], Head(wire[r])) \o Tail(wire[r]) = received[r] \o wire[r]
        BY <1>1, FlowOf, MovedToEnd
      <3>2. /\ wire'[r] = Tail(wire[r]) /\ received'[r] = Append(received[r], Head(wire[r]))
            /\ queue'[r] = queue[r]
        BY <1>1 DEF EventsInv, EventsTypeOK
      <3>3. Flow(s)' = Flow(s)
        BY <2>1, <3>1, <3>2 DEF Flow
      <3> QED
        BY <1>1, <2>1, <3>3, SameFlow
    <2>2. CASE s # r
      <3>1. received'[s] = received[s] /\ wire'[s] = wire[s]
        BY <1>1, <2>2 DEF EventsInv, EventsTypeOK
      <3>2. Flow(s)' = Flow(s)
        BY <1>1, <3>1 DEF Flow
      <3> QED
        BY <1>1, <3>1, <3>2, FlowOf, SameFlow DEF Arriving
    <2> QED
      BY <2>1, <2>2
  <1> QED
    BY <1>3, <1>4 DEF EventsInv

LEMMA ConnectKeeps ==
    ASSUME EventsInv, NEW r \in Subscribers, Connect(r)
    PROVE  EventsInv'
  <1>1. /\ client[r] = "waiting" /\ client' = [client EXCEPT ![r] = "listening"]
        /\ expected' = [expected EXCEPT ![r] = received[r]]
        /\ published' = published /\ queue' = queue /\ wire' = wire /\ received' = received
    BY DEF Connect
  <1>2. EventsTypeOK'
    BY <1>1 DEF EventsInv, EventsTypeOK
  <1>3. ASSUME NEW s \in Subscribers PROVE Arriving(s)'
    <2>1. CASE s = r
      <3>1. wire[r] = << >> /\ queue[r] = << >> /\ expected'[r] = received[r]
        BY <1>1, FlowOf DEF Arriving, EventsInv, EventsTypeOK
      <3> QED
        BY <1>1, <2>1, <3>1, NoMoreFlow
    <2>2. CASE s # r
      <3>1. client'[s] = client[s] /\ expected'[s] = expected[s]
        BY <1>1, <2>2 DEF EventsInv, EventsTypeOK
      <3>2. Flow(s)' = Flow(s)
        BY <1>1 DEF Flow
      <3> QED
        BY <1>1, <3>1, <3>2, FlowOf, SameFlow DEF Arriving
    <2> QED
      BY <2>1, <2>2
  <1> QED
    BY <1>2, <1>3 DEF EventsInv

LEMMA CutKeeps ==
    ASSUME EventsInv, NEW r \in Subscribers, NEW becomes \in {"waiting", "deaf"},
           Cut(r, becomes)
    PROVE  EventsInv'
  <1>1. /\ client' = [client EXCEPT ![r] = becomes]
        /\ queue' = [queue EXCEPT ![r] = << >>] /\ wire' = [wire EXCEPT ![r] = << >>]
        /\ published' = published /\ received' = received /\ expected' = expected
    BY DEF Cut, Forget
  <1>2. EventsTypeOK'
    BY <1>1 DEF EventsInv, EventsTypeOK
  <1>3. ASSUME NEW s \in Subscribers PROVE Arriving(s)'
    <2>1. CASE s = r
      <3>1. wire'[r] = << >> /\ queue'[r] = << >> /\ client'[r] = becomes
        BY <1>1 DEF EventsInv, EventsTypeOK
      <3> QED
        BY <1>1, <2>1, <3>1, NoMoreFlow
    <2>2. CASE s # r
      <3>1. client'[s] = client[s] /\ queue'[s] = queue[s] /\ wire'[s] = wire[s]
        BY <1>1, <2>2 DEF EventsInv, EventsTypeOK
      <3>2. Flow(s)' = Flow(s)
        BY <1>1, <3>1 DEF Flow
      <3> QED
        BY <1>1, <3>1, <3>2, FlowOf, SameFlow DEF Arriving
    <2> QED
      BY <2>1, <2>2
  <1> QED
    BY <1>2, <1>3 DEF EventsInv

LEMMA StopKeeps ==
    ASSUME EventsInv, StopServer
    PROVE  EventsInv'
  <1>1. /\ client' = [s \in Subscribers |-> IF client[s] = "deaf" THEN "deaf" ELSE "waiting"]
        /\ queue' = [s \in Subscribers |-> << >>] /\ wire' = [s \in Subscribers |-> << >>]
        /\ published' = published /\ received' = received /\ expected' = expected
    BY DEF StopServer
  <1>2. EventsTypeOK'
    BY <1>1 DEF EventsInv, EventsTypeOK
  <1>3. ASSUME NEW s \in Subscribers PROVE Arriving(s)'
    BY <1>1, NoMoreFlow
  <1> QED
    BY <1>2, <1>3 DEF EventsInv

LEMMA OthersKeep ==
    ASSUME EventsInv,
           UNCHANGED <<published, client, queue, wire, received, expected>>
    PROVE  EventsInv'
  <1>1. EventsTypeOK'
    BY DEF EventsInv, EventsTypeOK
  <1>2. ASSUME NEW s \in Subscribers PROVE Arriving(s)'
    <2>1. Flow(s)' = Flow(s)
      BY DEF Flow
    <2> QED
      BY <2>1, FlowOf, SameFlow DEF Arriving
  <1> QED
    BY <1>1, <1>2 DEF EventsInv

\* What a listener reads is what was published to it, in order and each event once, for
\* any number of listeners and any capacity (EventStream; State.publish, events and
\* listen_events).
THEOREM EventsAlwaysArrive == EventsSpec => []EventsArrive
  <1>1. EventsInit => EventsInv
    <2> SUFFICES ASSUME EventsInit PROVE EventsInv
      OBVIOUS
    <2>1. EventsTypeOK
      BY DEF EventsInit, EventsTypeOK
    <2>2. ASSUME NEW s \in Subscribers PROVE Arriving(s)
      <3>1. received[s] = << >> /\ wire[s] = << >> /\ queue[s] = << >> /\ client[s] = "waiting"
        BY DEF EventsInit
      <3>2. << >> \in Seq(Nat)
        OBVIOUS
      <3>3. Flow(s) = << >>
        BY <3>1, <3>2, StartOfMore DEF Flow
      <3> QED
        BY <3>1, <3>3 DEF Arriving, Increasing
    <2> QED
      BY <2>1, <2>2 DEF EventsInv
  <1>2. EventsInv /\ [EventsNext]_eventVars => EventsInv'
    <2> SUFFICES ASSUME EventsInv, [EventsNext]_eventVars PROVE EventsInv'
      OBVIOUS
    <2>1. CASE Publish
      BY <2>1, PublishKeeps
    <2>2. CASE Unsubscribe
      BY <2>2, OthersKeep DEF Unsubscribe
    <2>3. CASE StopServer
      BY <2>3, StopKeeps
    <2>4. CASE StartServer
      BY <2>4, OthersKeep DEF StartServer
    <2>5. ASSUME NEW s \in Subscribers, Connect(s) PROVE EventsInv'
      BY <2>5, ConnectKeeps
    <2>6. ASSUME NEW s \in Subscribers, ConnectFails(s) PROVE EventsInv'
      BY <2>6, OthersKeep DEF ConnectFails
    <2>7. ASSUME NEW s \in Subscribers, Serve(s) PROVE EventsInv'
      BY <2>7, ServeKeeps
    <2>8. ASSUME NEW s \in Subscribers, Receive(s) PROVE EventsInv'
      BY <2>8, ReceiveKeeps
    <2>9. ASSUME NEW s \in Subscribers, Break(s) \/ BreakSilently(s) PROVE EventsInv'
      BY <2>9, CutKeeps DEF Break, BreakSilently
    <2>10. CASE UNCHANGED eventVars
      BY <2>10, OthersKeep DEF eventVars
    <2> QED
      BY <2>1, <2>2, <2>3, <2>4, <2>5, <2>6, <2>7, <2>8, <2>9, <2>10 DEF EventsNext
  <1>3. EventsInv => EventsArrive
    <2> SUFFICES ASSUME EventsInv PROVE EventsArrive
      OBVIOUS
    <2>1. ASSUME NEW s \in Subscribers
          PROVE  /\ client[s] = "listening" => received[s] \o wire[s] \o queue[s] = expected[s]
                 /\ \A i, j \in DOMAIN received[s] : i < j => received[s][i] < received[s][j]
      BY ReceivedFirst, FlowOf DEF Arriving, Flow, Increasing
    <2> QED
      BY <2>1 DEF EventsArrive
  <1> QED
    BY <1>1, <1>2, <1>3, PTL DEF EventsSpec
=============================================================================
