--------------------------- MODULE WakeStreamProofs ---------------------------
(* Theorems about WakeStream, for every value of its constants.              *)
EXTENDS WakeStream, TLAPS

----------------------------------------------------------------------------
(* Type correctness                                                          *)

\* The level a detector gets is one of the levels.
LEMMA EffectiveTyped ==
    ASSUME TypeOK, NEW o \in Levels \cup {NoOverride} PROVE Effective(o) \in Levels
  BY DEF TypeOK, Effective

LEMMA AgesTyped ==
    0 \in Ages /\ MaxAge \in Ages /\ \A age \in Ages : Older(age) \in Ages
  BY StreamAssumption DEF Ages, Older

\* What the operators on a detector do to its fields.
LEMMA DetectorSteps ==
    ASSUME NEW d \in Detector
    PROVE  /\ Restart(d) \in Detector /\ Activated(d) \in Detector /\ Missed(d) \in Detector
           /\ Reset(d) \in Detector /\ Fire(d) \in Detector /\ Accept(d) \in Detector
           /\ Aged(d) \in Detector
           /\ d.left > 1 => Counted(d) \in Detector
  <1>1. d.level \in Levels /\ d.level \in Nat /\ d.left \in Nat /\ d.run \in Nat
    BY StreamAssumption DEF Detector
  <1>2. d.since \in Ages /\ 0 \in Ages /\ MaxAge \in Ages
    BY AgesTyped DEF Detector
  <1>3. Older(d.since) \in Ages
    BY <1>2, AgesTyped
  <1>4. Reset(d) \in Detector /\ Missed(d) \in Detector
    BY <1>1 DEF Reset, Missed, Detector
  <1>5. Activated(d) \in Detector
    BY <1>1 DEF Activated, Detector
  <1>6. Restart(d) \in Detector /\ Accept(d) \in Detector
    BY <1>1, <1>2 DEF Restart, Accept, Detector
  <1>7. Fire(d) \in Detector
    BY <1>2, <1>4 DEF Fire, Detector
  <1>8. Aged(d) \in Detector
    BY <1>3 DEF Aged, Detector
  <1>9. d.left > 1 => Counted(d) \in Detector
    <2> SUFFICES ASSUME d.left > 1 PROVE Counted(d) \in Detector
      OBVIOUS
    <2> DEFINE a == Activated(d)
    <2>1. a.left = d.left
      BY DEF Activated, Detector
    <2>2. a.left - 1 \in Nat
      BY <1>1, <2>1
    <2>3. \A b \in Detector : b.left - 1 \in Nat => [b EXCEPT !.left = @ - 1] \in Detector
      BY DEF Detector
    <2> QED
      BY <1>5, <2>2, <2>3 DEF Counted
  <1> QED
    BY <1>4, <1>5, <1>6, <1>7, <1>8, <1>9

\* The fields those operators set, and the ones they keep.
LEMMA DetectorFields ==
    ASSUME NEW d \in Detector
    PROVE  /\ \A e \in {Restart(d), Activated(d), Missed(d), Reset(d), Fire(d), Accept(d),
                        Aged(d), Counted(d)} :
                  e.level = d.level /\ e.generation = d.generation
           /\ \A e \in {Activated(d), Missed(d), Reset(d), Fire(d), Aged(d), Counted(d)} :
                  e.detected = d.detected
           /\ Restart(d).left = d.level /\ Restart(d).since = MaxAge /\ Restart(d).run = 0
           /\ Restart(d).detected = FALSE
           /\ Accept(d).detected = TRUE
           /\ Accept(d).left = d.left /\ Accept(d).since = d.since /\ Accept(d).run = d.run
           /\ Activated(d).left = d.left /\ Activated(d).since = d.since
           /\ Activated(d).run = (IF d.run < d.level THEN d.run + 1 ELSE d.run)
           /\ Missed(d).left = d.left /\ Missed(d).since = d.since
           /\ Missed(d).run = 0
           /\ Reset(d).left = d.level /\ Reset(d).since = d.since
           /\ Reset(d).run = d.run
           /\ Fire(d).left = d.level /\ Fire(d).since = 0
           /\ Fire(d).run = d.run
           /\ Counted(d).left = d.left - 1 /\ Counted(d).since = d.since
           /\ Counted(d).run = Activated(d).run
           /\ Aged(d).since = Older(d.since)
           /\ Aged(d).left = d.left /\ Aged(d).run = d.run
  <1>1. /\ Restart(d).level = d.level /\ Restart(d).generation = d.generation
        /\ Restart(d).left = d.level /\ Restart(d).since = MaxAge /\ Restart(d).run = 0
        /\ Restart(d).detected = FALSE
    BY DEF Restart, Detector
  <1>2. /\ Activated(d).level = d.level /\ Activated(d).generation = d.generation
        /\ Activated(d).detected = d.detected /\ Activated(d).left = d.left
        /\ Activated(d).since = d.since
        /\ Activated(d).run = (IF d.run < d.level THEN d.run + 1 ELSE d.run)
    BY DEF Activated, Detector
  <1>3. /\ Missed(d).level = d.level /\ Missed(d).generation = d.generation
        /\ Missed(d).detected = d.detected /\ Missed(d).left = d.left
        /\ Missed(d).since = d.since /\ Missed(d).run = 0
    BY DEF Missed, Detector
  <1>4. \A b \in Detector :
        /\ Reset(b).level = b.level /\ Reset(b).generation = b.generation
        /\ Reset(b).detected = b.detected /\ Reset(b).left = b.level
        /\ Reset(b).since = b.since /\ Reset(b).run = b.run
    BY DEF Reset, Detector
  <1>5. /\ Fire(d).level = d.level /\ Fire(d).generation = d.generation
        /\ Fire(d).detected = d.detected /\ Fire(d).left = d.level
        /\ Fire(d).since = 0 /\ Fire(d).run = d.run
    <2> DEFINE r == Reset(d)
    <2>1. r \in Detector
      BY DetectorSteps
    <2>2. \A b \in Detector :
             LET f == [b EXCEPT !.since = 0] IN
             /\ f.level = b.level /\ f.generation = b.generation /\ f.detected = b.detected
             /\ f.left = b.left /\ f.since = 0 /\ f.run = b.run
      BY DEF Detector
    <2>3. Fire(d) = [r EXCEPT !.since = 0]
      BY DEF Fire
    <2> HIDE DEF r
    <2>4. r.level = d.level /\ r.generation = d.generation /\ r.detected = d.detected
          /\ r.left = d.level /\ r.run = d.run
      BY <1>4 DEF r
    <2> QED
      BY <2>1, <2>2, <2>3, <2>4
  <1>6. /\ Accept(d).level = d.level /\ Accept(d).generation = d.generation
        /\ Accept(d).detected = TRUE
        /\ Accept(d).left = d.left /\ Accept(d).since = d.since /\ Accept(d).run = d.run
    BY DEF Accept, Detector
  <1>7. /\ Aged(d).level = d.level /\ Aged(d).generation = d.generation
        /\ Aged(d).detected = d.detected /\ Aged(d).left = d.left /\ Aged(d).run = d.run
        /\ Aged(d).since = Older(d.since)
    BY DEF Aged, Detector
  <1>8. /\ Counted(d).level = d.level /\ Counted(d).generation = d.generation
        /\ Counted(d).detected = d.detected /\ Counted(d).left = d.left - 1
        /\ Counted(d).since = d.since
        /\ Counted(d).run = Activated(d).run
    <2> DEFINE a == Activated(d)
    <2>1. a \in Detector
      BY DetectorSteps
    <2>2. \A b \in Detector :
             LET f == [b EXCEPT !.left = @ - 1] IN
             /\ f.level = b.level /\ f.generation = b.generation /\ f.detected = b.detected
             /\ f.left = b.left - 1 /\ f.since = b.since /\ f.run = b.run
      BY DEF Detector
    <2>3. Counted(d) = [a EXCEPT !.left = @ - 1]
      BY DEF Counted
    <2> HIDE DEF a
    <2>4. a.level = d.level /\ a.generation = d.generation /\ a.detected = d.detected
          /\ a.left = d.left /\ a.since = d.since
      BY <1>2 DEF a
    <2>5. /\ Counted(d).level = a.level /\ Counted(d).generation = a.generation
          /\ Counted(d).detected = a.detected /\ Counted(d).left = a.left - 1
          /\ Counted(d).since = a.since
          /\ Counted(d).run = a.run
      BY <2>1, <2>2, <2>3
    <2> QED
      BY <2>4, <2>5 DEF a
  <1> QED
    BY <1>1, <1>2, <1>3, <1>4, <1>5, <1>6, <1>7, <1>8

\* A bump announces every change made so far.
LEMMA BumpTyped ==
    ASSUME TypeOK, Bump PROVE generation' \in 0..MaxChanges /\ unannounced' \in BOOLEAN
  <1>1. generation' \in 0..MaxChanges
    BY StreamAssumption DEF TypeOK, Bump
  <1>2. unannounced' \in BOOLEAN
    BY DEF Bump
  <1> QED
    BY <1>1, <1>2

\* The handler's state has its type whatever the client sends and whenever the
\* settings change: the detectors that wait for the chunk and the one being
\* verified are loaded, and none is while Detect or AudioStart is handled.
THEOREM TypeCorrect == Spec => []TypeOK
  <1> USE StreamAssumption
  <1>1. Init => TypeOK
    <2> SUFFICES ASSUME Init PROVE TypeOK
      OBVIOUS
    <2>1. Loaded = {} /\ detectors \in [Loaded -> Detector]
      BY DEF Init, Loaded
    <2>2. 0 \in 0..MaxChanges
      OBVIOUS
    <2>3. entry \in [override : Levels \cup {NoOverride}, generation : Nat]
      BY DEF Init, NoEntry
    <2>4. todo \subseteq Loaded /\ verifying \subseteq Loaded /\ mode = "ready"
      BY <2>1 DEF Init
    <2>5. woken \subseteq WakeWords /\ quiet \in [WakeWords -> Ages]
      BY AgesTyped DEF Init
    <2> QED
      BY <2>1, <2>2, <2>3, <2>4, <2>5 DEF Init, TypeOK
  <1>2. TypeOK /\ [Next]_vars => TypeOK'
    <2> SUFFICES ASSUME TypeOK, [Next]_vars PROVE TypeOK'
      OBVIOUS
    <2> USE DEF TypeOK
    <2>1. CASE HandleDetect
      BY <2>1 DEF HandleDetect, Idle, Loaded, chunkVars, clientVars, serverVars
    <2>2. CASE HandleAudioStart
      BY <2>2 DEF HandleAudioStart, Only, Loaded, Idle, chunkVars, clientVars, serverVars
    <2>3. CASE BeginLoad
      BY <2>3 DEF BeginLoad, Loaded, chunkVars, clientVars, serverVars
    <2>4. CASE EndLoad
      <3>1. NewDetector \in Detector
        BY EffectiveTyped, AgesTyped DEF NewDetector, Detector
      <3> QED
        BY <2>4, <3>1 DEF EndLoad, NoEntry, Loaded, chunkVars, clientVars, serverVars
    <2>5. CASE EndDetect
      BY <2>5 DEF EndDetect, Only, Loaded, chunkVars, clientVars, serverVars
    <2>6. CASE EndAudioStart
      BY <2>6, DetectorSteps DEF EndAudioStart, Loaded, chunkVars, serverVars
    <2>7. CASE HandleAudioChunk
      BY <2>7 DEF HandleAudioChunk, Idle, Loaded, loadVars, clientVars, serverVars
    <2>8. ASSUME NEW w \in WakeWords, Predict(w) PROVE TypeOK'
      <3>1. mode = "ready" /\ w \in Loaded /\ detectors[w] \in Detector
        BY <2>8 DEF Predict
      <3>2. PICK o \in Detector : detectors' = [detectors EXCEPT ![w] = o]
        <4> DEFINE d == detectors[w]
        <4>1. /\ Activated(d) \in Detector /\ Missed(d) \in Detector
              /\ Reset(Missed(d)) \in Detector /\ Fire(Activated(d)) \in Detector
              /\ d.left > 1 => Counted(d) \in Detector
          BY <3>1, DetectorSteps
        <4> QED
          BY <2>8, <4>1 DEF Predict
      <3>4. Loaded' = Loaded /\ detectors' \in [Loaded -> Detector]
        BY <3>1, <3>2 DEF Loaded
      <3>5. todo' \subseteq Loaded /\ verifying' \subseteq Loaded
        BY <2>8, <3>1 DEF Predict
      <3> QED
        BY <2>8, <3>1, <3>4, <3>5 DEF Predict, loadVars, clientVars, serverVars
    <2>9. CASE AcceptCandidate
      BY <2>9, DetectorSteps, AgesTyped DEF AcceptCandidate, Loaded, loadVars, serverVars
    <2>10. CASE RejectCandidate
      BY <2>10 DEF RejectCandidate, Loaded, loadVars, clientVars, serverVars
    <2>11. CASE HandleAudioStop
      BY <2>11 DEF HandleAudioStop, Loaded, loadVars, chunkVars, serverVars
    <2>12. CASE Disconnect
      BY <2>12 DEF Disconnect, NoEntry, Only, Loaded, serverVars
    <2>13. CASE ChangeLevels
      <3>1. generation' \in 0..MaxChanges /\ unannounced' \in BOOLEAN
        BY <2>13, BumpTyped DEF ChangeLevels
      <3> QED
        BY <2>13, <3>1 DEF ChangeLevels, Loaded, loadVars, chunkVars, clientVars
    <2>14. CASE ChangeRefractory
      <3>1. generation' \in 0..MaxChanges /\ unannounced' \in BOOLEAN
        BY <2>14, BumpTyped DEF ChangeRefractory
      <3> QED
        BY <2>14, <3>1 DEF ChangeRefractory, Loaded, loadVars, chunkVars, clientVars
    <2>17. CASE RefusePatch
      BY <2>17 DEF RefusePatch, Loaded, loadVars, chunkVars, clientVars
    <2>15. CASE Tick
      <3>1. Loaded' = Loaded /\ detectors' \in [Loaded -> Detector]
        BY <2>15, DetectorSteps DEF Tick, Loaded
      <3>2. quiet' \in [WakeWords -> Ages]
        BY <2>15, AgesTyped DEF Tick
      <3> QED
        BY <2>15, <3>1, <3>2 DEF Tick, loadVars, chunkVars, serverVars
    <2>16. CASE UNCHANGED vars
      BY <2>16 DEF vars, Loaded, loadVars, chunkVars, clientVars, serverVars
    <2> QED
      BY <2>1, <2>2, <2>3, <2>4, <2>5, <2>6, <2>7, <2>8, <2>9, <2>10, <2>11, <2>12,
         <2>13, <2>14, <2>15, <2>16, <2>17
      DEF Next, Load
  <1> QED
    BY <1>1, <1>2, PTL DEF Spec

----------------------------------------------------------------------------
(* Triggers                                                                  *)

\* What a prediction does to its detector, and that it leaves the others alone.
LEMMA PredictCases ==
    ASSUME TypeOK, NEW w \in WakeWords, Predict(w)
    PROVE  /\ w \in Loaded /\ Loaded' = Loaded /\ detectors[w] \in Detector
           /\ verifying = {}
           /\ \A v \in Loaded \ {w} : detectors'[v] = detectors[v]
           /\ \/ /\ Cooling(w) /\ verifying' = {}
                 /\ detectors'[w] \in {Activated(detectors[w]), Missed(detectors[w])}
              \/ /\ ~Cooling(w) /\ verifying' = {}
                 /\ detectors'[w] = Reset(Missed(detectors[w]))
              \/ /\ ~Cooling(w) /\ detectors[w].left > 1 /\ verifying' = {}
                 /\ detectors'[w] = Counted(detectors[w])
              \/ /\ ~Cooling(w) /\ detectors[w].left <= 1 /\ verifying' = {w}
                 /\ detectors'[w] = Fire(Activated(detectors[w]))
  <1>1. w \in Loaded /\ detectors[w] \in Detector /\ verifying = {}
    BY DEF TypeOK, Predict
  <1>2. DOMAIN detectors = Loaded
    BY DEF Loaded
  <1>3. \A o : detectors' = [detectors EXCEPT ![w] = o] =>
           /\ Loaded' = Loaded /\ detectors'[w] = o
           /\ \A v \in Loaded \ {w} : detectors'[v] = detectors[v]
    BY <1>1, <1>2 DEF Loaded, TypeOK
  <1>4. CASE /\ Cooling(w) /\ verifying' = {}
             /\ \E o \in {Activated(detectors[w]), Missed(detectors[w])} :
                   detectors' = [detectors EXCEPT ![w] = o]
    BY <1>1, <1>3, <1>4
  <1>5. CASE /\ ~Cooling(w) /\ verifying' = {}
             /\ detectors' = [detectors EXCEPT ![w] = Reset(Missed(detectors[w]))]
    BY <1>1, <1>3, <1>5
  <1>6. CASE /\ ~Cooling(w) /\ detectors[w].left > 1 /\ verifying' = {}
             /\ detectors' = [detectors EXCEPT ![w] = Counted(detectors[w])]
    BY <1>1, <1>3, <1>6
  <1>7. CASE /\ ~Cooling(w) /\ detectors[w].left <= 1 /\ verifying' = {w}
             /\ detectors' = [detectors EXCEPT ![w] = Fire(Activated(detectors[w]))]
    BY <1>1, <1>3, <1>7
  <1> QED
    BY <1>1, <1>4, <1>5, <1>6, <1>7 DEF Predict

\* What the other steps do to a detector: it is new, restarted, older, accepted
\* or as it was.
LEMMA DetectorCases ==
    ASSUME TypeOK, [Next]_vars, ~(\E w \in WakeWords : Predict(w)), NEW w \in Loaded'
    PROVE  \/ EndLoad /\ w \in loading /\ detectors'[w] = NewDetector
           \/ w \in Loaded /\ EndAudioStart /\ detectors'[w] = Restart(detectors[w])
           \/ w \in Loaded /\ Tick /\ detectors'[w] = Aged(detectors[w])
           \/ w \in Loaded /\ AcceptCandidate /\ w \in verifying
                 /\ detectors'[w] = Accept(detectors[w])
           \/ w \in Loaded /\ detectors'[w] = detectors[w]
  <1>1. CASE HandleDetect \/ BeginLoad \/ HandleAudioChunk \/ RejectCandidate
             \/ HandleAudioStop \/ ChangeLevels \/ ChangeRefractory \/ RefusePatch
             \/ UNCHANGED vars
    BY <1>1 DEF HandleDetect, BeginLoad, HandleAudioChunk, RejectCandidate,
                HandleAudioStop, ChangeLevels, ChangeRefractory, RefusePatch, vars, Loaded
  <1>2. CASE HandleAudioStart \/ EndDetect \/ Disconnect
    BY <1>2 DEF HandleAudioStart, EndDetect, Disconnect, Only, Loaded
  <1>3. CASE EndLoad
    BY <1>3 DEF EndLoad, Loaded
  <1>4. CASE EndAudioStart
    BY <1>4 DEF EndAudioStart, Loaded
  <1>5. CASE AcceptCandidate
    BY <1>5 DEF AcceptCandidate, Loaded
  <1>6. CASE Tick
    BY <1>6 DEF Tick, Loaded
  <1> QED
    BY <1>1, <1>2, <1>3, <1>4, <1>5, <1>6 DEF Next, Load

\* A candidate stays what it is until it is decided, and time passes meanwhile
\* only if verification is slow; a chunk begins while none is being decided.
LEMMA CandidateCases ==
    ASSUME TypeOK, [Next]_vars, ~(\E w \in WakeWords : Predict(w))
    PROVE  /\ verifying' \subseteq verifying
           /\ limit' = limit \/ verifying' = {}
           /\ verifying' # {} => detectors' = detectors \/ Slow
  <1> USE DEF chunkVars
  <1>1. CASE HandleDetect \/ HandleAudioStart \/ HandleAudioChunk \/ HandleAudioStop
    BY <1>1 DEF HandleDetect, HandleAudioStart, HandleAudioChunk, HandleAudioStop, Idle
  <1>2. CASE BeginLoad \/ EndLoad \/ EndDetect \/ EndAudioStart
    BY <1>2 DEF BeginLoad, EndLoad, EndDetect, EndAudioStart, TypeOK
  <1>3. CASE AcceptCandidate \/ RejectCandidate \/ Disconnect
    BY <1>3 DEF AcceptCandidate, RejectCandidate, Disconnect
  <1>4. CASE ChangeLevels \/ ChangeRefractory \/ RefusePatch \/ UNCHANGED vars
    BY <1>4 DEF ChangeLevels, ChangeRefractory, RefusePatch, vars
  <1>5. CASE Tick
    BY <1>5 DEF Tick
  <1> QED
    BY <1>1, <1>2, <1>3, <1>4, <1>5 DEF Next, Load

\* The streak: the activations that are missing from the trigger level have been
\* seen in a row, and a cooling detector has to begin afresh.
Streak(d, seconds) ==
    /\ d.left >= 1 /\ d.left <= d.level /\ d.run + d.left >= d.level
    /\ d.since < seconds => d.left = d.level

\* What the operators on a detector do to its streak.
LEMMA StreakSteps ==
    ASSUME NEW d \in Detector, NEW seconds \in Refractories, Streak(d, seconds)
    PROVE  /\ Streak(Restart(d), seconds) /\ Streak(Accept(d), seconds)
           /\ Streak(Aged(d), seconds) /\ Streak(Reset(Missed(d)), seconds)
           /\ d.since < seconds =>
                 Streak(Activated(d), seconds) /\ Streak(Missed(d), seconds)
           /\ ~(d.since < seconds) /\ d.left > 1 => Streak(Counted(d), seconds)
           /\ d.left <= 1 =>
                 LET e == Fire(Activated(d)) IN Streak(e, seconds) /\ e.run >= e.level
  <1>1. /\ d.level \in Nat /\ d.level >= 1 /\ d.left \in Nat /\ d.since \in Ages
        /\ d.run \in Nat /\ seconds \in Nat /\ d.since \in Nat
    <2>1. /\ d.level \in Levels /\ d.left \in Nat /\ d.since \in Ages /\ d.run \in Nat
      BY DEF Detector
    <2>2. \A n \in Levels : n \in Nat /\ n >= 1
      BY StreamAssumption
    <2>3. \A n \in 0..MaxAge : n \in Nat
      BY StreamAssumption
    <2> QED
      BY <2>1, <2>2, <2>3, StreamAssumption DEF Ages
  <1>2. Activated(d) \in Detector /\ Missed(d) \in Detector
    BY DetectorSteps
  <1>3. Older(d.since) >= d.since /\ Older(d.since) \in Nat
    BY <1>1, StreamAssumption DEF Older
  <1>4. Streak(Restart(d), seconds)
    <2>1. Restart(d).level = d.level /\ Restart(d).left = d.level /\ Restart(d).run = 0
      BY DetectorFields
    <2> QED
      BY <1>1, <2>1 DEF Streak
  <1>5. Streak(Reset(Missed(d)), seconds)
    <2>1. Missed(d).level = d.level /\ Missed(d).run = 0
      BY DetectorFields
    <2>2. /\ Reset(Missed(d)).level = Missed(d).level /\ Reset(Missed(d)).run = Missed(d).run
          /\ Reset(Missed(d)).left = Missed(d).level
      BY <1>2, DetectorFields
    <2> QED
      BY <1>1, <2>1, <2>2 DEF Streak
  <1>6. Streak(Accept(d), seconds)
    <2>1. /\ Accept(d).level = d.level /\ Accept(d).left = d.left /\ Accept(d).run = d.run
          /\ Accept(d).since = d.since
      BY DetectorFields
    <2> QED
      BY <2>1 DEF Streak
  <1>7. Streak(Aged(d), seconds)
    <2>1. /\ Aged(d).level = d.level /\ Aged(d).left = d.left /\ Aged(d).run = d.run
          /\ Aged(d).since = Older(d.since)
      BY DetectorFields
    <2> QED
      BY <1>1, <1>3, <2>1 DEF Streak
  <1>8. /\ Activated(d).level = d.level /\ Activated(d).left = d.left
        /\ Activated(d).since = d.since
        /\ Activated(d).run = (IF d.run < d.level THEN d.run + 1 ELSE d.run)
    BY DetectorFields
  <1>9. d.since < seconds => Streak(Activated(d), seconds) /\ Streak(Missed(d), seconds)
    <2>1. /\ Missed(d).level = d.level /\ Missed(d).left = d.left /\ Missed(d).run = 0
          /\ Missed(d).since = d.since
      BY DetectorFields
    <2> QED
      BY <1>1, <1>8, <2>1 DEF Streak
  <1>10. ~(d.since < seconds) /\ d.left > 1 => Streak(Counted(d), seconds)
    <2>1. /\ Counted(d).level = d.level /\ Counted(d).left = d.left - 1
          /\ Counted(d).since = d.since /\ Counted(d).run = Activated(d).run
      BY DetectorFields
    <2> QED
      BY <1>1, <1>8, <2>1 DEF Streak
  <1>11. d.left <= 1 =>
            LET e == Fire(Activated(d)) IN Streak(e, seconds) /\ e.run >= e.level
    <2> DEFINE e == Fire(Activated(d))
    <2>1. e.left = d.level /\ e.level = d.level /\ e.run = Activated(d).run
      BY <1>2, <1>8, DetectorFields
    <2> HIDE DEF e
    <2>2. d.left <= 1 => Streak(e, seconds) /\ e.run >= e.level
      BY <1>1, <1>8, <2>1 DEF Streak
    <2> QED
      BY <2>2 DEF e
  <1> QED
    BY <1>4, <1>5, <1>6, <1>7, <1>9, <1>10, <1>11

StreakInv ==
    /\ TypeOK /\ Consecutive
    /\ \A w \in Loaded : Streak(detectors[w], limit)

\* While refractory_seconds keeps its value, every candidate was preceded by
\* trigger_level activations in a row (handler.py, "require trigger_level
\* consecutive activations"), whatever changes besides.
THEOREM TriggersAreConsecutive ==
    ASSUME \A r, s \in Refractories : r = s
    PROVE  Spec => []Consecutive
  <1>1. Init => Consecutive /\ \A w \in Loaded : Streak(detectors[w], limit)
    BY DEF Init, Loaded, Consecutive
  <1>2. TypeOK' /\ StreakInv /\ [Next]_vars =>
           Consecutive' /\ (\A w \in Loaded : Streak(detectors[w], limit))'
    <2> SUFFICES ASSUME StreakInv, TypeOK', [Next]_vars
                 PROVE  Consecutive' /\ \A w \in Loaded' : Streak(detectors'[w], limit')
      OBVIOUS
    <2>1. limit' = limit /\ limit \in Refractories
      BY DEF StreakInv, TypeOK
    <2>2. TypeOK /\ \A w \in Loaded : detectors[w] \in Detector /\ Streak(detectors[w], limit)
      BY DEF StreakInv, TypeOK
    <2>3. ASSUME NEW w \in WakeWords, Predict(w)
          PROVE  Consecutive' /\ \A v \in Loaded' : Streak(detectors'[v], limit')
      <3>1. w \in Loaded /\ Loaded' = Loaded /\ verifying = {}
            /\ \A v \in Loaded \ {w} : detectors'[v] = detectors[v]
        BY <2>2, <2>3, PredictCases
      <3>2. /\ verifying' \subseteq {w}
            /\ Streak(detectors'[w], limit)
            /\ w \in verifying' => detectors'[w].run >= detectors'[w].level
        BY <2>1, <2>2, <2>3, <3>1, PredictCases, StreakSteps DEF Cooling
      <3>3. \A v \in Loaded' : Streak(detectors'[v], limit')
        BY <2>1, <2>2, <3>1, <3>2
      <3> QED
        BY <3>2, <3>3 DEF Consecutive
    <2>4. CASE ~(\E w \in WakeWords : Predict(w))
      <3>1. ASSUME NEW w \in Loaded'
            PROVE  /\ Streak(detectors'[w], limit)
                   /\ w \in verifying => \/ EndLoad \/ EndAudioStart
                                         \/ /\ detectors'[w].run = detectors[w].run
                                            /\ detectors'[w].level = detectors[w].level
        <4>1. CASE EndLoad /\ w \in loading /\ detectors'[w] = NewDetector
          <5>1. NewDetector \in Detector
            BY <4>1 DEF TypeOK
          <5>2. /\ NewDetector.left = NewDetector.level /\ NewDetector.run = 0
                /\ NewDetector.level \in Nat /\ NewDetector.level >= 1
            BY <5>1, StreamAssumption DEF NewDetector, Detector
          <5> QED
            BY <4>1, <5>2 DEF Streak
        <4>2. CASE w \in Loaded /\ EndAudioStart /\ detectors'[w] = Restart(detectors[w])
          BY <2>1, <2>2, <4>2, StreakSteps
        <4>3. CASE w \in Loaded /\ Tick /\ detectors'[w] = Aged(detectors[w])
          <5>1. /\ Aged(detectors[w]).run = detectors[w].run
                /\ Aged(detectors[w]).level = detectors[w].level
            BY <2>2, <4>3, DetectorFields
          <5>2. Streak(Aged(detectors[w]), limit)
            BY <2>1, <2>2, <4>3, StreakSteps
          <5> QED
            BY <4>3, <5>1, <5>2
        <4>4. CASE w \in Loaded /\ detectors'[w] = Accept(detectors[w])
          <5>1. /\ Accept(detectors[w]).run = detectors[w].run
                /\ Accept(detectors[w]).level = detectors[w].level
            BY <2>2, <4>4, DetectorFields
          <5>2. Streak(Accept(detectors[w]), limit)
            BY <2>1, <2>2, <4>4, StreakSteps
          <5> QED
            BY <4>4, <5>1, <5>2
        <4>5. CASE w \in Loaded /\ detectors'[w] = detectors[w]
          BY <2>2, <4>5
        <4> QED
          BY <2>2, <2>4, <4>1, <4>2, <4>3, <4>4, <4>5, DetectorCases
      <3>2. verifying' \subseteq verifying /\ verifying' \subseteq Loaded'
        BY <2>4, CandidateCases DEF StreakInv, TypeOK
      <3>3. EndLoad \/ EndAudioStart => verifying = {}
        BY DEF EndLoad, EndAudioStart, StreakInv, TypeOK
      <3>4. \A w \in verifying : detectors[w].run >= detectors[w].level
        BY DEF StreakInv, Consecutive
      <3> QED
        BY <2>1, <3>1, <3>2, <3>3, <3>4 DEF Consecutive
    <2> QED
      BY <2>3, <2>4
  <1>3. TypeOK /\ Consecutive /\ (\A w \in Loaded : Streak(detectors[w], limit)) <=> StreakInv
    BY DEF StreakInv
  <1> QED
    BY <1>1, <1>2, <1>3, TypeCorrect, PTL DEF Spec

\* In a stream, last_triggered is set no later than the Detection is sent, and
\* only the next AudioStart forgets it.
Remembered ==
    streaming /\ mode # "start" =>
        \A w \in Loaded \cap woken : detectors[w].since <= quiet[w]

\* A candidate has just been triggered, and its cooldown is over.
CandidatesCooled ==
    \A w \in verifying :
        /\ detectors[w].since = 0
        /\ w \in woken => quiet[w] >= limit

CooldownInv ==
    /\ TypeOK /\ Remembered /\ CandidatesCooled
    /\ mode = "detect" => ~streaming
    /\ todo # {} => streaming

\* Predicting makes no detector look older, but for the one that it triggers.
LEMMA PredictKeepsAges ==
    ASSUME TypeOK, NEW w \in WakeWords, Predict(w)
    PROVE  /\ \A v \in Loaded \ verifying' : detectors'[v].since = detectors[v].since
           /\ \A v \in verifying' : v = w /\ ~Cooling(w) /\ detectors'[w].since = 0
  <1>1. \A d \in Detector :
           /\ Activated(d) \in Detector /\ Missed(d) \in Detector
           /\ Activated(d).since = d.since /\ Missed(d).since = d.since
           /\ Reset(d).since = d.since /\ Counted(d).since = d.since /\ Fire(d).since = 0
    BY DetectorSteps, DetectorFields
  <1>2. \A d \in Detector : Reset(Missed(d)).since = d.since /\ Fire(Activated(d)).since = 0
    BY <1>1
  <1>3. /\ w \in Loaded /\ detectors[w] \in Detector /\ verifying = {}
        /\ \A v \in Loaded \ {w} : detectors'[v] = detectors[v]
    BY PredictCases
  <1>4. \/ verifying' = {} /\ detectors'[w].since = detectors[w].since
        \/ verifying' = {w} /\ ~Cooling(w) /\ detectors'[w].since = 0
    BY <1>1, <1>2, <1>3, PredictCases
  <1> QED
    BY <1>3, <1>4

\* DOCS.md, refractory_seconds ("cooldown after a detection"): where verification
\* takes no time and the client sends Detect between streams only, a wake word
\* detected in a stream is a candidate again only refractory_seconds after its last
\* Detection, whatever the settings become.
THEOREM CoolsDown ==
    ASSUME ~Slow, Orderly
    PROVE  Spec => []CooldownAfterDetection
  <1> USE StreamAssumption
  <1>1. Init /\ TypeOK => CooldownInv
    BY DEF Init, CooldownInv, Remembered, CandidatesCooled
  <1>2. TypeOK' /\ CooldownInv /\ [Next]_vars => CooldownInv'
    <2> SUFFICES ASSUME CooldownInv, TypeOK', [Next]_vars PROVE CooldownInv'
      OBVIOUS
    <2>0. /\ TypeOK /\ Remembered /\ CandidatesCooled
          /\ mode = "detect" => ~streaming
          /\ todo # {} => streaming
      BY DEF CooldownInv
    <2>1. /\ \A w \in Loaded : detectors[w] \in Detector /\ detectors[w].since \in Nat
          /\ \A w \in WakeWords : quiet[w] \in Nat /\ quiet[w] <= MaxAge
          /\ \A w \in Loaded : detectors[w].since <= MaxAge
          /\ limit \in Nat /\ Loaded \subseteq WakeWords /\ verifying \subseteq Loaded
          /\ mode # "ready" => todo = {} /\ verifying = {}
      BY <2>0 DEF TypeOK, Detector, Ages
    <2>2. CASE HandleDetect
      BY <2>0, <2>2 DEF HandleDetect, Idle, chunkVars, clientVars, Loaded,
                        CooldownInv, Remembered, CandidatesCooled
    <2>3. CASE HandleAudioStart
      BY <2>0, <2>3 DEF HandleAudioStart, Idle, chunkVars, clientVars,
                        CooldownInv, Remembered, CandidatesCooled
    <2>4. CASE BeginLoad
      BY <2>0, <2>4 DEF BeginLoad, chunkVars, clientVars, Loaded,
                        CooldownInv, Remembered, CandidatesCooled
    <2>5. CASE EndLoad
      <3>1. mode \in {"detect", "start"} /\ verifying = {}
        BY <2>0, <2>1, <2>5 DEF EndLoad, TypeOK
      <3> QED
        BY <2>0, <2>5, <3>1 DEF EndLoad, chunkVars, clientVars,
                                CooldownInv, Remembered, CandidatesCooled
    <2>6. CASE EndDetect
      BY <2>0, <2>1, <2>6 DEF EndDetect, chunkVars, clientVars,
                              CooldownInv, Remembered, CandidatesCooled
    <2>7. CASE EndAudioStart
      BY <2>0, <2>1, <2>7 DEF EndAudioStart, chunkVars,
                              CooldownInv, Remembered, CandidatesCooled
    <2>8. CASE HandleAudioChunk
      BY <2>0, <2>8 DEF HandleAudioChunk, Idle, loadVars, clientVars, Loaded,
                        CooldownInv, Remembered, CandidatesCooled
    <2>9. ASSUME NEW w \in WakeWords, Predict(w) PROVE CooldownInv'
      <3>1. /\ w \in Loaded /\ Loaded' = Loaded /\ verifying = {} /\ verifying' \subseteq {w}
            /\ UNCHANGED <<mode, limit, streaming, woken, quiet>>
            /\ todo # {} /\ mode = "ready"
        BY <2>0, <2>1, <2>9, PredictCases DEF Predict, loadVars, clientVars
      <3>2. /\ \A v \in Loaded \ verifying' : detectors'[v].since = detectors[v].since
            /\ \A v \in verifying' : v = w /\ ~Cooling(w) /\ detectors'[w].since = 0
        BY <2>0, <2>9, PredictKeepsAges
      <3>3. Remembered'
        BY <2>0, <2>1, <3>1, <3>2 DEF Remembered
      <3>4. CandidatesCooled'
        <4>1. w \in woken /\ ~Cooling(w) => quiet[w] >= limit
          BY <2>0, <2>1, <3>1 DEF Remembered, Cooling
        <4> QED
          BY <3>1, <3>2, <4>1 DEF CandidatesCooled
      <3> QED
        BY <2>0, <3>1, <3>3, <3>4 DEF CooldownInv
    <2>10. CASE AcceptCandidate
      <3>1. \A d \in Detector : Accept(d).since = d.since
        BY DetectorFields
      <3>2. /\ Loaded' = Loaded /\ verifying' = {} /\ woken' = woken \cup verifying
            /\ UNCHANGED <<mode, todo, streaming>>
            /\ \A w \in Loaded : detectors'[w].since = detectors[w].since
            /\ \A w \in WakeWords : quiet'[w] = IF w \in verifying THEN 0 ELSE quiet[w]
        BY <2>1, <2>10, <3>1 DEF AcceptCandidate, Loaded, loadVars
      <3>3. Remembered'
        BY <2>0, <2>1, <3>2 DEF Remembered, CandidatesCooled
      <3> QED
        BY <2>0, <3>2, <3>3 DEF CooldownInv, CandidatesCooled
    <2>11. CASE RejectCandidate
      BY <2>0, <2>11 DEF RejectCandidate, loadVars, clientVars, Loaded,
                         CooldownInv, Remembered, CandidatesCooled
    <2>12. CASE HandleAudioStop
      BY <2>0, <2>12 DEF HandleAudioStop, Idle, loadVars, chunkVars,
                         CooldownInv, Remembered, CandidatesCooled
    <2>13. CASE Disconnect
      BY <2>13 DEF Disconnect, CooldownInv, Remembered, CandidatesCooled
    <2>14. CASE ChangeLevels \/ ChangeRefractory \/ RefusePatch \/ UNCHANGED vars
      BY <2>0, <2>14 DEF ChangeLevels, ChangeRefractory, RefusePatch, vars, loadVars,
                         chunkVars, clientVars, Loaded,
                         CooldownInv, Remembered, CandidatesCooled
    <2>15. CASE Tick
      <3>1. /\ Loaded' = Loaded /\ UNCHANGED <<mode, todo, verifying, limit, streaming, woken>>
            /\ \A w \in Loaded : detectors'[w] = Aged(detectors[w])
            /\ \A w \in WakeWords : quiet'[w] = Older(quiet[w])
        BY <2>15 DEF Tick, Loaded, loadVars, chunkVars
      <3>2. verifying = {}
        BY <2>15 DEF Tick
      <3>3. \A w \in Loaded : detectors'[w].since = Older(detectors[w].since)
        <4>1. \A d \in Detector : Aged(d).since = Older(d.since)
          BY DetectorFields
        <4> QED
          BY <2>1, <3>1, <4>1
      <3>4. \A m, n \in 0..MaxAge : m <= n => Older(m) <= Older(n)
        BY DEF Older
      <3>5. Remembered'
        BY <2>0, <2>1, <3>1, <3>3, <3>4 DEF Remembered
      <3> QED
        BY <2>0, <3>1, <3>2, <3>5 DEF CooldownInv, CandidatesCooled
    <2> QED
      BY <2>2, <2>3, <2>4, <2>5, <2>6, <2>7, <2>8, <2>9, <2>10, <2>11, <2>12, <2>13,
         <2>14, <2>15
      DEF Next, Load
  <1>3. CooldownInv => CooldownAfterDetection
    BY DEF CooldownInv, CandidatesCooled, CooldownAfterDetection
  <1> QED
    BY <1>1, <1>2, <1>3, TypeCorrect, PTL DEF Spec

----------------------------------------------------------------------------
(* The end of a stream                                                       *)

\* A detector's flag is set only by its own accepted candidate.
LEMMA DetectedCases ==
    ASSUME TypeOK, [Next]_vars, ~EndLoad, ~EndAudioStart, ~AcceptCandidate,
           ~EndDetect, ~Disconnect, ~HandleAudioStart
    PROVE  /\ Loaded' = Loaded
           /\ \A w \in Loaded : detectors'[w].detected = detectors[w].detected
  <1>1. CASE HandleDetect \/ BeginLoad \/ HandleAudioChunk \/ RejectCandidate
             \/ HandleAudioStop \/ ChangeLevels \/ ChangeRefractory \/ RefusePatch
             \/ UNCHANGED vars
    BY <1>1 DEF HandleDetect, BeginLoad, HandleAudioChunk, RejectCandidate,
                HandleAudioStop, ChangeLevels, ChangeRefractory, RefusePatch, vars, Loaded
  <1>2. CASE Tick
    <2>1. Loaded' = Loaded /\ \A w \in Loaded : detectors'[w] = Aged(detectors[w])
      BY <1>2 DEF Tick, Loaded
    <2>2. \A w \in Loaded : Aged(detectors[w]).detected = detectors[w].detected
      BY DetectorFields DEF TypeOK
    <2> QED
      BY <2>1, <2>2
  <1>3. ASSUME NEW w \in WakeWords, Predict(w)
        PROVE  /\ Loaded' = Loaded
               /\ \A v \in Loaded : detectors'[v].detected = detectors[v].detected
    <2>1. \A d \in Detector :
             /\ Activated(d).detected = d.detected /\ Missed(d).detected = d.detected
             /\ Reset(Missed(d)).detected = d.detected /\ Counted(d).detected = d.detected
             /\ Fire(Activated(d)).detected = d.detected
      <3>1. \A d \in Detector : Activated(d) \in Detector /\ Missed(d) \in Detector
        BY DetectorSteps
      <3>2. \A d \in Detector :
               /\ Activated(d).detected = d.detected /\ Missed(d).detected = d.detected
               /\ Reset(d).detected = d.detected /\ Counted(d).detected = d.detected
               /\ Fire(d).detected = d.detected
        BY DetectorFields
      <3> QED
        BY <3>1, <3>2
    <2> QED
      BY <1>3, <2>1, PredictCases
  <1> QED
    BY <1>1, <1>2, <1>3 DEF Next, Load

StopInv ==
    /\ TypeOK /\ StopTellsTheTruth
    /\ mode = "detect" => ~streaming
    /\ streaming /\ mode = "ready" => (woken # {} <=> \E w \in Loaded : detectors[w].detected)

\* handler.py, AudioStop: a client that sends Detect between streams only is told
\* NotDetected if and only if it was sent no Detection in the stream, however
\* many wake words it asked for and whatever is changed or retried meanwhile.
THEOREM StopIsTruthful ==
    ASSUME Orderly
    PROVE  Spec => []StopTellsTheTruth
  <1>1. Init => StopTellsTheTruth /\ mode = "ready" /\ ~streaming
    BY DEF Init, StopTellsTheTruth
  <1>2. StopInv /\ [Next]_vars =>
           /\ StopTellsTheTruth'
           /\ (mode = "detect" => ~streaming)'
           /\ (streaming /\ mode = "ready" => (woken # {} <=> \E w \in Loaded : detectors[w].detected))'
    <2> SUFFICES ASSUME StopInv, [Next]_vars
                 PROVE  /\ StopTellsTheTruth'
                        /\ mode' = "detect" => ~streaming'
                        /\ streaming' /\ mode' = "ready" =>
                              (woken' # {} <=> \E w \in Loaded' : detectors'[w].detected)
      OBVIOUS
    <2> USE DEF StopTellsTheTruth, StopInv
    <2>1. CASE HandleDetect
      BY <2>1 DEF HandleDetect, Idle, clientVars, Loaded
    <2>2. CASE HandleAudioStart
      BY <2>2 DEF HandleAudioStart, Idle, clientVars
    <2>3. CASE EndLoad
      BY <2>3 DEF EndLoad, clientVars, TypeOK
    <2>4. CASE EndDetect
      BY <2>4 DEF EndDetect, clientVars
    <2>5. CASE EndAudioStart
      <3>1. \A w \in Loaded : Restart(detectors[w]).detected = FALSE
        BY DetectorFields DEF TypeOK
      <3> QED
        BY <2>5, <3>1 DEF EndAudioStart, Loaded
    <2>6. CASE AcceptCandidate
      <3>1. \A w \in Loaded : Accept(detectors[w]).detected = TRUE
        BY DetectorFields DEF TypeOK
      <3>2. PICK w \in verifying : w \in Loaded
        BY <2>6 DEF AcceptCandidate, TypeOK
      <3>3. w \in Loaded' /\ detectors'[w].detected
        BY <2>6, <3>1, <3>2 DEF AcceptCandidate, Loaded
      <3> QED
        BY <2>6, <3>3 DEF AcceptCandidate, loadVars
    <2>7. CASE HandleAudioStop
      BY <2>7 DEF HandleAudioStop, Idle, loadVars, Loaded
    <2>8. CASE Disconnect
      BY <2>8 DEF Disconnect
    <2>9. CASE /\ ~HandleDetect /\ ~HandleAudioStart /\ ~EndLoad /\ ~EndDetect /\ ~EndAudioStart
               /\ ~AcceptCandidate /\ ~HandleAudioStop /\ ~Disconnect
      <3>1. Loaded' = Loaded /\ \A w \in Loaded : detectors'[w].detected = detectors[w].detected
        BY <2>9, DetectedCases
      <3>2. UNCHANGED <<mode, streaming, sent, woken>>
        BY <2>9 DEF Next, Load, BeginLoad, HandleAudioChunk, RejectCandidate, ChangeLevels,
                    ChangeRefractory, RefusePatch, Tick, Predict, vars, loadVars, clientVars
      <3> QED
        BY <3>1, <3>2
    <2> QED
      BY <2>1, <2>2, <2>3, <2>4, <2>5, <2>6, <2>7, <2>8, <2>9
  <1>3. Init /\ TypeOK => StopInv
    BY <1>1 DEF StopInv
  <1>4. StopInv /\ [Next]_vars /\ TypeOK' => StopInv'
    BY <1>2 DEF StopInv
  <1>5. StopInv => StopTellsTheTruth
    BY DEF StopInv
  <1> QED
    BY <1>3, <1>4, <1>5, TypeCorrect, PTL DEF Spec

----------------------------------------------------------------------------
(* Settings and the next stream                                              *)

\* Nothing is from the future, and what was read in this generation is in force.
InForce ==
    /\ startedAt <= generation /\ entry.generation <= generation
    /\ \A w \in Loaded :
          /\ detectors[w].generation <= generation
          /\ detectors[w].generation = generation /\ ~unannounced =>
                detectors[w].level = Effective(override[w])
    /\ \A w \in loading :
          entry.generation = generation => entry.override = override[w]

\* A stream that started in this generation has no older detector.
Current ==
    (mode = "start" \/ streaming) /\ startedAt = generation =>
        /\ \A w \in Loaded : detectors[w].generation = generation
        /\ loading # {} => entry.generation = generation

GenerationInv == TypeOK /\ InForce /\ Current

\* Only AudioStart and the end of a load change what a detector was loaded with.
LEMMA LoadedWith ==
    ASSUME TypeOK, [Next]_vars, ~EndLoad, NEW w \in Loaded'
    PROVE  /\ w \in Loaded
           /\ detectors'[w].level = detectors[w].level
           /\ detectors'[w].generation = detectors[w].generation
  <1>1. \A d \in Detector :
           \A e \in {Restart(d), Activated(d), Missed(d), Reset(d), Fire(d), Accept(d),
                     Aged(d), Counted(d)} :
               e.level = d.level /\ e.generation = d.generation
    BY DetectorFields
  <1>2. \A d \in Detector : Activated(d) \in Detector /\ Missed(d) \in Detector
    BY DetectorSteps
  <1>3. \A v \in Loaded : detectors[v] \in Detector
    BY DEF TypeOK
  <1>4. ASSUME NEW v \in WakeWords, Predict(v)
        PROVE  /\ w \in Loaded
               /\ detectors'[w].level = detectors[w].level
               /\ detectors'[w].generation = detectors[w].generation
    <2>1. CASE w = v
      BY <1>1, <1>2, <1>4, <2>1, PredictCases
    <2>2. CASE w # v
      BY <1>4, <2>2, PredictCases
    <2> QED
      BY <2>1, <2>2
  <1>5. CASE ~(\E v \in WakeWords : Predict(v))
    BY <1>1, <1>3, <1>5, DetectorCases
  <1> QED
    BY <1>4, <1>5

\* What changes the settings, and what does not.
LEMMA SettingsCases ==
    ASSUME TypeOK, [Next]_vars
    PROVE  \/ /\ generation' = generation + 1
              /\ UNCHANGED <<detectors, mode, loading, entry, streaming, startedAt>>
           \/ /\ unannounced'
              /\ UNCHANGED <<override, generation, detectors, mode, loading, entry, streaming,
                             startedAt>>
           \/ UNCHANGED <<level, override, generation, unannounced>>
  <1>1. CASE ChangeLevels \/ ChangeRefractory \/ RefusePatch
    BY <1>1 DEF ChangeLevels, ChangeRefractory, RefusePatch, Bump, loadVars, clientVars
  <1>2. CASE UNCHANGED serverVars
    BY <1>2 DEF serverVars
  <1>3. [Next]_vars => ChangeLevels \/ ChangeRefractory \/ RefusePatch \/ UNCHANGED serverVars
    BY DEF Next, Load, HandleDetect, HandleAudioStart, HandleAudioChunk, HandleAudioStop,
           BeginLoad, EndLoad, EndDetect, EndAudioStart, Predict, AcceptCandidate,
           RejectCandidate, Disconnect, Tick, vars
  <1> QED
    BY <1>1, <1>2, <1>3

\* http_api.py ("live detectors re-resolve their thresholds on the next pipeline
\* run"): in a stream that started after the last change every detector needs
\* the trigger level in force, however the changes fall between the loads, until a
\* PATCH is refused half-way.
THEOREM StreamsReresolve == Spec => []NextStreamReresolves
  <1>1. Init => InForce /\ Current
    BY DEF Init, NoEntry, InForce, Current, Loaded
  <1>2. GenerationInv /\ [Next]_vars => InForce' /\ Current'
    <2> SUFFICES ASSUME GenerationInv, [Next]_vars PROVE InForce' /\ Current'
      OBVIOUS
    <2>1. TypeOK /\ InForce /\ Current
      BY DEF GenerationInv
    <2>2. /\ generation \in Nat /\ startedAt \in Nat /\ entry.generation \in Nat
          /\ \A w \in Loaded : detectors[w].generation \in Nat
      BY <2>1, StreamAssumption DEF TypeOK, Detector
    <2>3. CASE /\ generation' = generation + 1
               /\ UNCHANGED <<detectors, mode, loading, entry, streaming, startedAt>>
      <3>1. startedAt # generation' /\ entry.generation # generation'
            /\ \A w \in Loaded : detectors[w].generation # generation'
        BY <2>1, <2>2, <2>3 DEF InForce
      <3>2. startedAt <= generation' /\ entry.generation <= generation'
            /\ \A w \in Loaded : detectors[w].generation <= generation'
        BY <2>1, <2>2, <2>3 DEF InForce
      <3>3. Loaded' = Loaded
        BY <2>3 DEF Loaded
      <3> QED
        BY <2>3, <3>1, <3>2, <3>3 DEF InForce, Current
    <2>5. CASE /\ unannounced'
               /\ UNCHANGED <<override, generation, detectors, mode, loading, entry, streaming,
                              startedAt>>
      BY <2>1, <2>5 DEF InForce, Current, Loaded
    <2>4. CASE UNCHANGED <<level, override, generation, unannounced>>
      <3>1. \A o : Effective(o)' = Effective(o)
        BY <2>4 DEF Effective
      <3>2. CASE EndLoad
        <4>1. /\ NewDetector.generation = entry.generation
              /\ NewDetector.level = Effective(entry.override)
          BY DEF NewDetector
        <4>2. /\ Loaded' = Loaded \cup loading
              /\ \A w \in loading : detectors'[w] = NewDetector
              /\ \A w \in Loaded \ loading : detectors'[w] = detectors[w]
          BY <3>2 DEF EndLoad, Loaded
        <4>3. /\ loading' = {} /\ mode' = mode /\ entry'.generation = 0 /\ streaming' = streaming
              /\ startedAt' = startedAt /\ loading # {}
          BY <3>2 DEF EndLoad, NoEntry, clientVars
        <4>4. \A w \in Loaded' :
                 /\ detectors'[w].generation <= generation
                 /\ detectors'[w].generation = generation /\ ~unannounced =>
                       detectors'[w].level = Effective(override[w])
          BY <2>1, <4>1, <4>2 DEF InForce
        <4>5. InForce'
          BY <2>1, <2>2, <2>4, <3>1, <4>3, <4>4 DEF InForce, Effective
        <4>6. Current'
          BY <2>1, <2>4, <4>1, <4>2, <4>3 DEF Current
        <4> QED
          BY <4>5, <4>6
      <3>3. CASE ~EndLoad
        <4>1. \A w \in Loaded' :
                 /\ detectors'[w].generation <= generation
                 /\ detectors'[w].generation = generation /\ ~unannounced =>
                       detectors'[w].level = Effective(override[w])
          BY <2>1, <3>3, LoadedWith DEF InForce
        <4>2. CASE BeginLoad
          <5>1. PICK w \in want \ Loaded :
                   /\ loading' = {w}
                   /\ entry' = [override |-> override[w], generation |-> generation]
            BY <4>2 DEF BeginLoad
          <5>2. mode' = mode /\ streaming' = streaming /\ startedAt' = startedAt
                /\ detectors' = detectors
            BY <4>2 DEF BeginLoad, clientVars
          <5>3. entry'.generation = generation /\ entry'.override = override[w]
            BY <5>1
          <5>4. InForce'
            BY <2>1, <2>2, <2>4, <4>1, <5>1, <5>2, <5>3 DEF InForce, Effective
          <5>5. Current'
            BY <2>1, <2>4, <5>2, <5>3 DEF Current, Loaded
          <5> QED
            BY <5>4, <5>5
        <4>3. CASE HandleAudioStart
          <5>1. startedAt' = generation /\ entry' = entry /\ loading' = loading /\ loading = {}
            BY <2>1, <4>3 DEF HandleAudioStart, Idle, TypeOK
          <5>2. \A w \in Loaded' : detectors'[w].generation = generation
            BY <4>3 DEF HandleAudioStart, Stale, Only, Loaded
          <5>3. InForce'
            BY <2>1, <2>2, <2>4, <4>1, <5>1 DEF InForce, Effective
          <5> QED
            BY <2>4, <5>1, <5>2, <5>3 DEF Current
        <4>4. CASE Disconnect
          <5>1. Loaded' = {} /\ loading' = {} /\ entry'.generation = 0 /\ startedAt' = startedAt
            BY <4>4 DEF Disconnect, NoEntry, Only, Loaded
          <5> QED
            BY <2>1, <2>2, <2>4, <5>1 DEF InForce, Current
        <4>5. CASE ~BeginLoad /\ ~HandleAudioStart /\ ~Disconnect
          <5>1. /\ loading' = loading /\ entry' = entry /\ startedAt' = startedAt
                /\ (mode' = "start" \/ streaming') => (mode = "start" \/ streaming)
            BY <3>3, <4>5 DEF Next, Load, HandleDetect, HandleAudioChunk, HandleAudioStop,
               EndDetect, EndAudioStart, Predict, AcceptCandidate, RejectCandidate,
               ChangeLevels, ChangeRefractory, RefusePatch, Tick, vars, loadVars, clientVars
          <5>2. InForce'
            BY <2>1, <2>4, <4>1, <5>1 DEF InForce, Effective
          <5>3. Current'
            BY <2>1, <2>4, <3>3, <5>1, LoadedWith DEF Current
          <5> QED
            BY <5>2, <5>3
        <4> QED
          BY <4>2, <4>3, <4>4, <4>5
      <3> QED
        BY <3>2, <3>3
    <2> QED
      BY <2>1, <2>3, <2>4, <2>5, SettingsCases
  <1>3. GenerationInv => NextStreamReresolves
    BY DEF GenerationInv, InForce, Current, NextStreamReresolves
  <1>4. TypeOK /\ InForce /\ Current <=> GenerationInv
    BY DEF GenerationInv
  <1> QED
    BY <1>1, <1>2, <1>3, <1>4, TypeCorrect, PTL DEF Spec
=============================================================================
