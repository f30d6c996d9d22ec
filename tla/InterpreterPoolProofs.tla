----------------------- MODULE InterpreterPoolProofs -----------------------
(* Theorems about InterpreterPool, for every value of its constants.         *)
EXTENDS InterpreterPool, TLAPS

----------------------------------------------------------------------------
(* Places                                                                    *)

\* The places an interpreter can be referred to from are different places.
LEMMA PlacesDiffer ==
    /\ \A t : Job(t) # Pool
    /\ \A c, w : Detector(c, w) # Pool
    /\ \A t, c, w : Job(t) # Detector(c, w)
    /\ \A t, u : Job(t) = Job(u) => t = u
    /\ \A c, d, w, v : Detector(c, w) = Detector(d, v) => c = d /\ w = v
  BY DEF Job, Pool, Detector

\* The places are the pool, the threads' dictionaries and the detectors.
LEMMA PlacesTyped ==
    /\ Pool \in Places
    /\ \A t \in Threads : Job(t) \in Places
    /\ \A c \in Clients, w \in WakeWords : Detector(c, w) \in Places
    /\ \A c \in Clients : c \in Threads
    /\ \A r \in Recorders : r \in Threads
  BY DEF Places, Threads

----------------------------------------------------------------------------
(* Type correctness                                                          *)

\* The record of an idle thread is a job record.
LEMMA NoJobTyped == NoJob \in JobRecord /\ NoJob.phase = "none"
  <1>1. Models # {} /\ DefaultWord \in WakeWords
    BY PoolAssumption
  <1>2. (CHOOSE m \in Models : TRUE) \in Models
    BY <1>1
  <1> QED
    BY <1>1, <1>2 DEF NoJob, JobRecord, Phases

\* The default wake word, if there is one, is served.
LEMMA DefaultTyped == DefaultIds \subseteq served
  BY DEF DefaultIds

\* The initial state is typed.
LEMMA InitTyped == Init => TypeOK
  <1> SUFFICES ASSUME Init PROVE TypeOK
    OBVIOUS
  <1>1. directoryValid \in BOOLEAN /\ unannounced \in BOOLEAN
    BY DEF Init
  <1> QED
    BY <1>1, NoJobTyped, PlacesTyped, PoolAssumption
       DEF Init, TypeOK, LoopOwners, Modes, TestPhases

\* Sets of interpreters that the actions build are sets of interpreters.
LEMMA ResetTyped == \A i \in Interpreter : Reset(i) \in Interpreter
  BY DEF Reset, Interpreter

LEMMA PredictTyped == \A i \in Interpreter : Predict(i) \in Interpreter
  BY DEF Predict, Interpreter

\* A newly loaded interpreter is one.
LEMMA LoadedTyped ==
    \A n \in Ids, m \in Models, f \in Nat, o \in Nat :
        [id |-> n, model |-> m, files |-> f, options |-> o, used |-> FALSE]
            \in Interpreter
  BY DEF Interpreter

\* What is in the pool after _sync_generation are interpreters.
LEMMA SyncedPoolTyped == TypeOK => SyncedPool \subseteq Interpreter
  BY PlacesTyped DEF TypeOK, SyncedPool

\* The release of detectors keeps the pool, the places and the tags typed.
LEMMA ReleaseTyped ==
    ASSUME TypeOK, NEW c \in Clients, NEW W \in SUBSET WakeWords,
           ReleaseDetectors(c, W)
    PROVE  /\ holds' \in [Places -> SUBSET Interpreter]
           /\ poolGeneration' \in Nat
           /\ tag' \in [Clients -> [WakeWords -> Nat]]
  <1>1. Returned(c, W) \subseteq Interpreter
    BY PlacesTyped DEF TypeOK, Returned, Current
  <1>2. holds' \in [Places -> SUBSET Interpreter]
    BY <1>1, SyncedPoolTyped DEF TypeOK, ReleaseDetectors
  <1>3. poolGeneration' \in Nat
    BY DEF TypeOK, ReleaseDetectors
  <1>4. tag' \in [Clients -> [WakeWords -> Nat]]
    BY DEF TypeOK, ReleaseDetectors
  <1> QED
    BY <1>2, <1>3, <1>4

\* Replacing a job, and moving one to another phase, keep the jobs typed.
LEMMA JobReplaced ==
    ASSUME TypeOK, NEW t \in Threads, NEW rec \in JobRecord,
           t \in Clients => rec.phase \notin TestPhases,
           t \in Recorders => rec.phase # "failed",
           job' = [job EXCEPT ![t] = rec]
    PROVE  /\ job' \in [Threads -> JobRecord]
           /\ \A c \in Clients : job'[c].phase \notin TestPhases
           /\ \A r \in Recorders : job'[r].phase # "failed"
  BY PlacesTyped DEF TypeOK

LEMMA JobMoved ==
    ASSUME TypeOK, NEW t \in Threads, NEW ph \in Phases,
           t \in Clients => ph \notin TestPhases,
           t \in Recorders => ph # "failed",
           job' = [job EXCEPT ![t].phase = ph]
    PROVE  /\ job' \in [Threads -> JobRecord]
           /\ \A c \in Clients : job'[c].phase \notin TestPhases
           /\ \A r \in Recorders : job'[r].phase # "failed"
  <1>1. job' = [job EXCEPT ![t] = [job[t] EXCEPT !.phase = ph]]
    BY DEF TypeOK
  <1>2. [job[t] EXCEPT !.phase = ph] \in JobRecord
    BY DEF TypeOK, JobRecord
  <1>3. [job[t] EXCEPT !.phase = ph].phase = ph
    BY DEF TypeOK, JobRecord
  <1> QED
    BY <1>1, <1>2, <1>3, JobReplaced

\* An idle job can replace any job.
LEMMA JobEnded ==
    ASSUME TypeOK, NEW t \in Threads, job' = [job EXCEPT ![t] = NoJob]
    PROVE  /\ job' \in [Threads -> JobRecord]
           /\ \A c \in Clients : job'[c].phase \notin TestPhases
           /\ \A r \in Recorders : job'[r].phase # "failed"
  BY NoJobTyped, JobReplaced DEF TestPhases

\* The steps of the worker threads preserve the types.
LEMMA ThreadStepTyped ==
    ASSUME TypeOK, NEW t \in Threads, ThreadStep(t)
    PROVE  TypeOK'
  <1>1. CASE PopIdle(t)
    BY <1>1, PlacesTyped, SyncedPoolTyped, ResetTyped
       DEF TypeOK, PopIdle, serverVars
  <1>2. CASE FindNoneIdle(t)
    <2>1. Missing(t) \subseteq Models
      BY PoolAssumption DEF TypeOK, JobRecord, Missing
    <2>2. job' \in [Threads -> JobRecord]
      <3>1. PICK m \in Models :
              job' = [job EXCEPT ![t].phase = "load", ![t].model = m]
        BY <1>2, <2>1 DEF FindNoneIdle
      <3>2. [job[t] EXCEPT !.phase = "load", !.model = m] \in JobRecord
        BY DEF TypeOK, JobRecord, Phases
      <3>3. job' = [job EXCEPT ![t] = [job[t] EXCEPT !.phase = "load", !.model = m]]
        BY <3>1 DEF TypeOK
      <3> QED
        BY <3>2, <3>3 DEF TypeOK
    <2>3. /\ \A c \in Clients : job'[c].phase \notin TestPhases
          /\ \A r \in Recorders : job'[r].phase # "failed"
      BY <1>2, PlacesTyped DEF TypeOK, FindNoneIdle, TestPhases, JobRecord
    <2> QED
      BY <1>2, <2>2, <2>3, PlacesTyped, SyncedPoolTyped
         DEF TypeOK, FindNoneIdle, serverVars
  <1>3. CASE ReadOptions(t)
    BY <1>3, PlacesTyped, ZenonT(30) DEF TypeOK, ReadOptions, JobRecord, Phases, TestPhases, serverVars
  <1>4. CASE BuildInterpreter(t)
    <2>1. job' \in [Threads -> JobRecord]
      BY <1>4 DEF TypeOK, BuildInterpreter, JobRecord, Phases
    <2>2. holds' \in [Places -> SUBSET Interpreter]
      BY <1>4, PlacesTyped, LoadedTyped DEF TypeOK, BuildInterpreter, JobRecord
    <2> QED
      BY <1>4, <2>1, <2>2, PlacesTyped
         DEF TypeOK, BuildInterpreter, JobRecord, TestPhases, serverVars
  <1>5. CASE LoadFails(t)
    <2>1. CASE t \in Clients
      <3>1. t \notin Recorders /\ job' = [job EXCEPT ![t].phase = "failed"]
        BY <1>5, <2>1, PoolAssumption DEF LoadFails
      <3> QED
        BY <1>5, <3>1, JobMoved, PlacesTyped
           DEF TypeOK, LoadFails, Phases, TestPhases, serverVars
    <2>2. CASE t \notin Clients
      BY <1>5, <2>2, JobEnded, PlacesTyped DEF TypeOK, LoadFails, serverVars
    <2> QED
      BY <2>1, <2>2
  <1> QED
    BY <1>1, <1>2, <1>3, <1>4, <1>5 DEF ThreadStep

\* The steps a handler takes between its awaits preserve the types.
LEMMA ServeTyped ==
    ASSUME TypeOK, NEW c \in Clients, Serve(c)
    PROVE  TypeOK'
  <1>1. CASE AcquireNext(c)
    <2>1. PICK w \in want[c] \ Detectors(c) :
            /\ w \in served
            /\ job' = [job EXCEPT ![c] = [NoJob EXCEPT !.phase = "acquire",
                                            !.word = w, !.generation = generation]]
      BY <1>1 DEF AcquireNext
    <2> DEFINE rec == [NoJob EXCEPT !.phase = "acquire", !.word = w,
                                    !.generation = generation]
    <2>2. rec \in JobRecord /\ rec.phase = "acquire"
      BY <2>1, NoJobTyped DEF TypeOK, JobRecord, Phases
    <2>3. c \in Threads /\ c \notin Recorders
      BY PlacesTyped, PoolAssumption
    <2> HIDE DEF rec
    <2>4. job' = [job EXCEPT ![c] = rec]
      BY <2>1 DEF rec
    <2>5. /\ job' \in [Threads -> JobRecord]
          /\ \A d \in Clients : job'[d].phase \notin TestPhases
          /\ \A r \in Recorders : job'[r].phase # "failed"
      BY <2>2, <2>3, <2>4, JobReplaced DEF TestPhases
    <2> QED
      BY <1>1, <2>5 DEF TypeOK, AcquireNext, LoopOwners, serverVars
  <1>2. CASE WordVanished(c)
    BY <1>2, ReleaseTyped
       DEF TypeOK, WordVanished, Disconnect, Modes, LoopOwners, serverVars
  <1>3. CASE AcquireRaised(c)
    <2>1. /\ job' \in [Threads -> JobRecord]
          /\ \A d \in Clients : job'[d].phase \notin TestPhases
          /\ \A r \in Recorders : job'[r].phase # "failed"
      BY <1>3, NoJobTyped, PlacesTyped DEF TypeOK, AcquireRaised, TestPhases
    <2> QED
      BY <1>3, <2>1, ReleaseTyped
         DEF TypeOK, AcquireRaised, Disconnect, Modes, serverVars
  <1>4. CASE InstallDetector(c)
    <2>1. /\ job' \in [Threads -> JobRecord]
          /\ \A d \in Clients : job'[d].phase \notin TestPhases
          /\ \A r \in Recorders : job'[r].phase # "failed"
      BY <1>4, NoJobTyped, PlacesTyped DEF TypeOK, InstallDetector, TestPhases
    <2>2. job[c].word \in WakeWords /\ job[c].generation \in Nat
      BY PlacesTyped DEF TypeOK, JobRecord
    <2> QED
      BY <1>4, <2>1, <2>2, PlacesTyped DEF TypeOK, InstallDetector, serverVars
  <1>5. CASE EndDetect(c)
    BY <1>5, ReleaseTyped DEF TypeOK, EndDetect, Modes, LoopOwners, serverVars
  <1>6. CASE EndReload(c)
    <2>1. holds' \in [Places -> SUBSET Interpreter]
      BY <1>6, ResetTyped DEF TypeOK, EndReload, ResetDetectors
    <2> QED
      BY <1>6, <2>1, DefaultTyped
         DEF TypeOK, EndReload, BeginFallback, Modes, LoopOwners, serverVars
  <1> QED
    BY <1>1, <1>2, <1>3, <1>4, <1>5, <1>6 DEF Serve

\* The names a Detect resolves to are served wake words.
LEMMA ResolveTyped == \A names : Resolve(names) \subseteq served
  BY DefaultTyped DEF Resolve

\* What a client sends preserves the types.
LEMMA ReceiveTyped ==
    ASSUME TypeOK, NEW c \in Clients, Receive(c)
    PROVE  TypeOK'
  <1>1. CASE Connect(c)
    BY <1>1 DEF TypeOK, Connect, Modes, serverVars
  <1>2. CASE HandleDetect(c)
    BY <1>2, ResolveTyped DEF TypeOK, HandleDetect, Modes, serverVars
  <1>3. CASE HandleAudioStart(c)
    <2>1. CASE /\ want' = [want EXCEPT ![c] = Resolve(Detectors(c))]
               /\ ReleaseDetectors(c, WakeWords)
               /\ mode' = [mode EXCEPT ![c] = "reload"]
               /\ loop' = c
      <3>1. Resolve(Detectors(c)) \subseteq WakeWords
        BY ResolveTyped DEF TypeOK
      <3>2. UNCHANGED <<serverVars, job>>
        BY <1>3 DEF HandleAudioStart
      <3> QED
        BY <2>1, <3>1, <3>2, ReleaseTyped DEF TypeOK, Modes, serverVars
    <2>2. CASE BeginFallback(c) /\ UNCHANGED <<poolGeneration, holds, tag>>
      BY <1>3, <2>2, DefaultTyped
         DEF TypeOK, HandleAudioStart, BeginFallback, Modes, serverVars
    <2>3. CASE ResetDetectors(c) /\ UNCHANGED <<loop, poolGeneration, tag, mode, want>>
      <3>1. holds' \in [Places -> SUBSET Interpreter]
        BY <2>3, ResetTyped DEF TypeOK, ResetDetectors
      <3> QED
        BY <1>3, <2>3, <3>1 DEF TypeOK, HandleAudioStart, serverVars
    <2> QED
      BY <1>3, <2>1, <2>2, <2>3 DEF HandleAudioStart
  <1>4. CASE HandleAudioChunk(c)
    <2>1. holds' \in [Places -> SUBSET Interpreter]
      BY <1>4, PredictTyped, ResetTyped DEF TypeOK, HandleAudioChunk
    <2> QED
      BY <1>4, <2>1 DEF TypeOK, HandleAudioChunk, serverVars
  <1>5. CASE ClientLeaves(c)
    BY <1>5, ReleaseTyped
       DEF TypeOK, ClientLeaves, Disconnect, Modes, serverVars
  <1> QED
    BY <1>1, <1>2, <1>3, <1>4, <1>5 DEF Receive

\* The steps of a recording test preserve the types.
LEMMA TestTyped ==
    ASSUME TypeOK, NEW r \in Recorders, RequestTest(r) \/ TestStep(r)
    PROVE  TypeOK'
  <1> r \in Threads /\ r \notin Clients
    BY PlacesTyped, PoolAssumption
  <1>1. CASE RequestTest(r)
    <2>1. PICK w \in served :
            job' = [job EXCEPT ![r] = [NoJob EXCEPT !.phase = "queued", !.word = w]]
      BY <1>1 DEF RequestTest
    <2>2. [NoJob EXCEPT !.phase = "queued", !.word = w] \in JobRecord
      BY <2>1, NoJobTyped DEF TypeOK, JobRecord, Phases, TestPhases
    <2>3. [NoJob EXCEPT !.phase = "queued", !.word = w].phase = "queued"
      BY NoJobTyped DEF JobRecord
    <2> QED
      BY <1>1, <2>1, <2>2, <2>3, PlacesTyped DEF TypeOK, RequestTest, serverVars
  <1>2. CASE StartTest(r)
    BY <1>2, PlacesTyped, ZenonT(30) DEF TypeOK, StartTest, JobRecord, Phases, serverVars
  <1>3. CASE ScoreRecording(r)
    <2>1. holds' \in [Places -> SUBSET Interpreter]
      BY <1>3, PredictTyped, PlacesTyped DEF TypeOK, ScoreRecording
    <2>2. job' \in [Threads -> JobRecord]
      BY <1>3 DEF TypeOK, ScoreRecording, JobRecord, Phases, TestPhases
    <2> QED
      BY <1>3, <2>1, <2>2, PlacesTyped DEF TypeOK, ScoreRecording, JobRecord, serverVars
  <1>4. CASE CheckGeneration(r)
    <2>1. /\ job' \in [Threads -> JobRecord]
          /\ \A c \in Clients : job'[c].phase \notin TestPhases
          /\ \A q \in Recorders : job'[q].phase # "failed"
      <3>1. CASE job' = [job EXCEPT ![r] = NoJob]
        BY <3>1, JobEnded
      <3>2. CASE job' = [job EXCEPT ![r].phase = "pooling"]
        <4>1. "pooling" \in Phases /\ "pooling" # "failed"
          BY DEF Phases, TestPhases
        <4> QED
          BY <3>2, <4>1, JobMoved
      <3> QED
        BY <1>4, <3>1, <3>2 DEF CheckGeneration
    <2> QED
      BY <1>4, <2>1, PlacesTyped DEF TypeOK, CheckGeneration, serverVars
  <1>5. CASE ReturnToPool(r)
    <2>1. /\ job' \in [Threads -> JobRecord]
          /\ \A c \in Clients : job'[c].phase \notin TestPhases
          /\ \A q \in Recorders : job'[q].phase # "failed"
      BY <1>5, PlacesTyped, NoJobTyped DEF TypeOK, ReturnToPool
    <2>2. holds' \in [Places -> SUBSET Interpreter]
      BY <1>5, PlacesTyped, SyncedPoolTyped DEF TypeOK, ReturnToPool
    <2> QED
      BY <1>5, <2>1, <2>2 DEF TypeOK, ReturnToPool, serverVars
  <1> QED
    BY <1>1, <1>2, <1>3, <1>4, <1>5 DEF TestStep

\* Changes through the API preserve the types.
LEMMA ApiTyped ==
    ASSUME TypeOK, ApiStep \/ ApiRequest
    PROVE  TypeOK'
  <1>b. directoryValid' \in BOOLEAN /\ unannounced' \in BOOLEAN
    BY Zenon DEF TypeOK, ApiStep, ApiRequest, CommitFiles, RollBackFiles, EscapeFiles, Bump,
                 SettingsApplied, WriteFiles, Rescan, ApplySettings, RefuseSettings, EditByHand
  <1> USE <1>b, PoolAssumption DEF TypeOK, otherVars, LoopOwners, Bump
  <1>1. CASE CommitFiles
    BY <1>1 DEF CommitFiles
  <1>2. CASE RollBackFiles
    BY <1>2 DEF RollBackFiles
  <1>3. CASE SettingsApplied
    BY <1>3 DEF SettingsApplied
  <1>4. CASE WriteFiles
    BY <1>4 DEF WriteFiles
  <1>5. CASE Rescan
    BY <1>5 DEF Rescan
  <1>6. CASE ApplySettings
    BY <1>6 DEF ApplySettings
  <1>7. CASE RefuseSettings
    BY <1>7 DEF RefuseSettings
  <1>8. CASE EditByHand
    BY <1>8 DEF EditByHand
  <1>9. CASE EscapeFiles
    BY <1>9 DEF EscapeFiles
  <1> QED
    BY <1>1, <1>2, <1>3, <1>4, <1>5, <1>6, <1>7, <1>8, <1>9 DEF ApiStep, ApiRequest

\* The warm-up preserves the types.
LEMMA WarmUpTyped ==
    ASSUME TypeOK, WarmUp \/ StartServers
    PROVE  TypeOK'
  <1>1. CASE WarmUp
    <2>1. WarmUpModels \subseteq Models
      BY DefaultTyped, PoolAssumption DEF WarmUpModels, TypeOK
    <2>2. holds' \in [Places -> SUBSET Interpreter]
      BY <1>1, <2>1, PlacesTyped, LoadedTyped DEF TypeOK, WarmUp
    <2> QED
      BY <1>1, <2>2 DEF TypeOK, WarmUp, serverVars
  <1>2. CASE StartServers
    BY <1>2 DEF TypeOK, StartServers, LoopOwners, serverVars
  <1> QED
    BY <1>1, <1>2

\* Every step preserves the types.
LEMMA NextTyped == TypeOK /\ [Next]_vars => TypeOK'
  <1> SUFFICES ASSUME TypeOK, [Next]_vars PROVE TypeOK'
    OBVIOUS
  <1>1. CASE Next
    BY <1>1, WarmUpTyped, ThreadStepTyped, ServeTyped, ReceiveTyped, TestTyped, ApiTyped
       DEF Next
  <1>2. CASE UNCHANGED vars
    BY <1>2 DEF TypeOK, vars, serverVars
  <1> QED
    BY <1>1, <1>2

\* The types of the state, and which phases a client's call and a recording
\* test can be in, in every reachable state.
THEOREM TypeCorrect == Spec => []TypeOK
  <1>1. Init => TypeOK
    BY InitTyped
  <1>2. TypeOK /\ [Next]_vars => TypeOK'
    BY NextTyped
  <1> QED
    BY <1>1, <1>2, PTL DEF Spec

----------------------------------------------------------------------------
(* Exclusive: an interpreter is referred to from one place only              *)

\* Dropping references, anywhere, keeps the rest exclusive.
LEMMA ShrunkExclusive ==
    ASSUME Exclusive, \A p \in Places : holds'[p] \subseteq holds[p]
    PROVE  Exclusive'
  BY DEF Exclusive

\* So does adding a new interpreter to one place.
LEMMA AddedExclusive ==
    ASSUME TypeOK, Exclusive, NEW p0 \in Places, NEW new,
           new.id \notin UsedIds,
           holds' = [holds EXCEPT ![p0] = @ \cup {new}]
    PROVE  Exclusive'
  <1>1. \A p \in Places : \A i \in holds[p] : i.id # new.id
    BY DEF UsedIds
  <1>2. \A p \in Places : \A i \in holds'[p] : i \in holds[p] \/ (i = new /\ p = p0)
    BY DEF TypeOK
  <1> QED
    BY <1>1, <1>2 DEF Exclusive

\* Using or resetting all the interpreters of a place changes no identity.
LEMMA UsedExclusive ==
    ASSUME TypeOK, Exclusive,
           \A p \in Places : \/ holds'[p] = holds[p]
                             \/ holds'[p] = {Reset(i) : i \in holds[p]}
                             \/ holds'[p] = {Predict(i) : i \in holds[p]}
    PROVE  Exclusive'
  <1>1. \A i \in Interpreter : Reset(i).id = i.id /\ Predict(i).id = i.id
    BY DEF Interpreter, Reset, Predict
  <1> SUFFICES ASSUME NEW p \in Places, NEW q \in Places,
                      NEW i \in holds'[p], NEW j \in holds'[q], i.id = j.id
               PROVE  p = q /\ i = j
    BY DEF Exclusive
  <1>2. PICK i0 \in holds[p] : i0.id = i.id /\ i \in {i0, Reset(i0), Predict(i0)}
    BY <1>1 DEF TypeOK
  <1>3. PICK j0 \in holds[q] : j0.id = j.id /\ j \in {j0, Reset(j0), Predict(j0)}
    BY <1>1 DEF TypeOK
  <1>4. p = q /\ i0 = j0
    BY <1>2, <1>3 DEF Exclusive
  <1>5. CASE holds'[p] = holds[p]
    BY <1>4, <1>5 DEF Exclusive
  <1>6. CASE holds'[p] = {Reset(x) : x \in holds[p]}
    <2>1. PICK x \in holds[p], y \in holds[p] : i = Reset(x) /\ j = Reset(y)
      BY <1>4, <1>6
    <2>2. x.id = i.id /\ y.id = j.id
      BY <1>1, <2>1 DEF TypeOK
    <2> QED
      BY <1>4, <2>1, <2>2 DEF Exclusive
  <1>7. CASE holds'[p] = {Predict(x) : x \in holds[p]}
    <2>1. PICK x \in holds[p], y \in holds[p] : i = Predict(x) /\ j = Predict(y)
      BY <1>4, <1>7
    <2>2. x.id = i.id /\ y.id = j.id
      BY <1>1, <2>1 DEF TypeOK
    <2> QED
      BY <1>4, <2>1, <2>2 DEF Exclusive
  <1> QED
    BY <1>5, <1>6, <1>7

\* Moving what some places hold to another place keeps it exclusive, when
\* the sources are emptied.
LEMMA MovedExclusive ==
    ASSUME Exclusive, NEW target \in Places, NEW S \in SUBSET Places,
           target \notin S,
           \A p \in S : holds'[p] = {},
           \A p \in Places \ {target} : holds'[p] \subseteq holds[p],
           holds'[target] \subseteq holds[target] \cup UNION {holds[p] : p \in S}
    PROVE  Exclusive'
  <1> SUFFICES ASSUME NEW p \in Places, NEW q \in Places,
                      NEW i \in holds'[p], NEW j \in holds'[q], i.id = j.id
               PROVE  p = q /\ i = j
    BY DEF Exclusive
  <1>1. PICK p0 \in Places : i \in holds[p0] /\ (p0 = p \/ (p = target /\ p0 \in S))
    OBVIOUS
  <1>2. PICK q0 \in Places : j \in holds[q0] /\ (q0 = q \/ (q = target /\ q0 \in S))
    OBVIOUS
  <1>3. p0 = q0 /\ i = j
    BY <1>1, <1>2 DEF Exclusive
  <1> QED
    BY <1>1, <1>2, <1>3

\* Releasing detectors keeps their interpreters exclusive.
LEMMA ReleaseExclusive ==
    ASSUME TypeOK, Exclusive, NEW c \in Clients, NEW W \in SUBSET WakeWords,
           ReleaseDetectors(c, W)
    PROVE  Exclusive'
  <1> DEFINE S == DetectorPlaces(c, W)
  <1>1. S \subseteq Places /\ Pool \notin S /\ Pool \in Places
    BY PlacesTyped, PlacesDiffer DEF DetectorPlaces
  <1>2. \A p \in S : holds'[p] = {}
    BY <1>1 DEF ReleaseDetectors
  <1>3. \A p \in Places \ {Pool} : holds'[p] \subseteq holds[p]
    BY DEF ReleaseDetectors
  <1>4. Returned(c, W) \subseteq UNION {holds[p] : p \in S}
    BY DEF Returned, Current, DetectorPlaces
  <1>5. holds'[Pool] \subseteq holds[Pool] \cup UNION {holds[p] : p \in S}
    BY <1>1, <1>4 DEF ReleaseDetectors, SyncedPool
  <1> HIDE DEF S
  <1> QED
    BY <1>1, <1>2, <1>3, <1>5, MovedExclusive

\* Resetting a client's detectors does too.
LEMMA ResetExclusive ==
    ASSUME TypeOK, Exclusive, NEW c \in Clients, ResetDetectors(c)
    PROVE  Exclusive'
  <1>1. \A p \in Places : \/ holds'[p] = holds[p]
                          \/ holds'[p] = {Reset(i) : i \in holds[p]}
    BY DEF ResetDetectors
  <1> QED
    BY <1>1, UsedExclusive

\* Every step keeps the interpreters exclusive.
LEMMA NextExclusive == TypeOK /\ Exclusive /\ [Next]_vars => Exclusive'
  <1> SUFFICES ASSUME TypeOK, Exclusive, [Next]_vars PROVE Exclusive'
    OBVIOUS
  <1>1. CASE holds' = holds
    BY <1>1 DEF Exclusive
  <1>2. CASE WarmUp
    <2>0. WarmUpModels \subseteq Models
      BY DefaultTyped, PoolAssumption DEF WarmUpModels, TypeOK
    <2>1. PICK m \in Models, n \in Ids \ UsedIds :
            holds' = [holds EXCEPT ![Pool] = @ \cup
                        {[id |-> n, model |-> m, files |-> files,
                          options |-> options, used |-> FALSE]}]
      BY <1>2, <2>0 DEF WarmUp
    <2> DEFINE new == [id |-> n, model |-> m, files |-> files,
                       options |-> options, used |-> FALSE]
    <2>2. new.id \notin UsedIds /\ holds' = [holds EXCEPT ![Pool] = @ \cup {new}]
      BY <2>1
    <2> HIDE DEF new
    <2> QED
      BY <2>2, AddedExclusive, PlacesTyped
  <1>3. ASSUME NEW t \in Threads, ThreadStep(t) PROVE Exclusive'
    <2>1. CASE PopIdle(t)
      <3>1. PICK i \in SyncedPool :
              holds' = [holds EXCEPT ![Pool] = SyncedPool \ {i},
                                     ![Job(t)] = @ \cup {Reset(i)}]
        BY <2>1 DEF PopIdle
      <3>2. i \in holds[Pool] /\ SyncedPool \subseteq holds[Pool] /\ Reset(i).id = i.id
        BY <3>1, PlacesTyped DEF SyncedPool, TypeOK, Reset, Interpreter
      <3>3. /\ holds'[Pool] = SyncedPool \ {i}
            /\ holds'[Job(t)] = holds[Job(t)] \cup {Reset(i)}
            /\ \A p \in Places \ {Pool, Job(t)} : holds'[p] = holds[p]
        BY <3>1, PlacesTyped, PlacesDiffer DEF TypeOK
      <3>4. \A q \in Places \ {Pool} : \A j \in holds[q] : j.id # i.id
        BY <3>2, PlacesTyped DEF Exclusive
      <3>5. \A j \in holds[Pool] : j.id = i.id => j = i
        BY <3>2, PlacesTyped DEF Exclusive
      <3> HIDE DEF SyncedPool
      <3>6. ASSUME NEW p \in Places, NEW x \in holds'[p], x.id = i.id
            PROVE  p = Job(t) /\ x = Reset(i)
        BY <3>2, <3>3, <3>4, <3>5, <3>6, PlacesTyped, PlacesDiffer
      <3>7. ASSUME NEW p \in Places, NEW x \in holds'[p], x.id # i.id
            PROVE  x \in holds[p]
        BY <3>2, <3>3, <3>7
      <3> QED
        BY <3>6, <3>7 DEF Exclusive
    <2>2. CASE FindNoneIdle(t)
      BY <2>2, ShrunkExclusive, PlacesTyped DEF FindNoneIdle, SyncedPool, TypeOK
    <2>3. CASE ReadOptions(t)
      BY <1>1, <2>3 DEF ReadOptions
    <2>4. CASE BuildInterpreter(t)
      <3>1. PICK n \in Ids \ UsedIds :
              holds' = [holds EXCEPT ![Job(t)] = @ \cup
                          {[id |-> n, model |-> job[t].model, files |-> files,
                            options |-> job[t].options, used |-> FALSE]}]
        BY <2>4 DEF BuildInterpreter
      <3> DEFINE new == [id |-> n, model |-> job[t].model, files |-> files,
                         options |-> job[t].options, used |-> FALSE]
      <3>2. new.id \notin UsedIds /\ holds' = [holds EXCEPT ![Job(t)] = @ \cup {new}]
        BY <3>1
      <3> HIDE DEF new
      <3> QED
        BY <3>2, AddedExclusive, PlacesTyped
    <2>5. CASE LoadFails(t)
      BY <2>5, ShrunkExclusive, PlacesTyped DEF LoadFails, TypeOK
    <2> QED
      BY <1>3, <2>1, <2>2, <2>3, <2>4, <2>5 DEF ThreadStep
  <1>4. ASSUME NEW c \in Clients, Serve(c) PROVE Exclusive'
    <2>1. CASE AcquireNext(c)
      BY <1>1, <2>1 DEF AcquireNext
    <2>2. CASE WordVanished(c)
      BY <2>2, ReleaseExclusive DEF WordVanished, Disconnect
    <2>3. CASE AcquireRaised(c)
      BY <2>3, ReleaseExclusive DEF AcquireRaised, Disconnect
    <2>4. CASE InstallDetector(c)
      <3> DEFINE target == Detector(c, job[c].word)
                 S == {Job(c)}
      <3>1. target \in Places /\ S \subseteq Places /\ target \notin S
        BY PlacesTyped, PlacesDiffer DEF TypeOK, JobRecord
      <3>2. /\ \A p \in S : holds'[p] = {}
            /\ \A p \in Places \ {target} : holds'[p] \subseteq holds[p]
            /\ holds'[target] \subseteq holds[target] \cup UNION {holds[p] : p \in S}
        BY <2>4, <3>1 DEF InstallDetector, TypeOK
      <3> HIDE DEF target, S
      <3> QED
        BY <3>1, <3>2, MovedExclusive
    <2>5. CASE EndDetect(c)
      BY <2>5, ReleaseExclusive DEF EndDetect
    <2>6. CASE EndReload(c)
      <3>1. CASE ResetDetectors(c)
        BY <3>1, ResetExclusive
      <3> QED
        BY <1>1, <2>6, <3>1 DEF EndReload
    <2> QED
      BY <1>4, <2>1, <2>2, <2>3, <2>4, <2>5, <2>6 DEF Serve
  <1>5. ASSUME NEW c \in Clients, Receive(c) PROVE Exclusive'
    <2>1. CASE Connect(c) \/ HandleDetect(c)
      BY <1>1, <2>1 DEF Connect, HandleDetect
    <2>2. CASE HandleAudioStart(c)
      <3>1. CASE ResetDetectors(c)
        BY <3>1, ResetExclusive
      <3>2. CASE ReleaseDetectors(c, WakeWords)
        BY <3>2, ReleaseExclusive
      <3> QED
        BY <1>1, <2>2, <3>1, <3>2 DEF HandleAudioStart
    <2>3. CASE HandleAudioChunk(c)
      <3>1. PICK fired \in SUBSET WakeWords :
              holds' = [p \in Places |->
                          IF p \in DetectorPlaces(c, fired)
                          THEN {Reset(i) : i \in holds[p]}
                          ELSE IF p \in DetectorPlaces(c, WakeWords)
                          THEN {Predict(i) : i \in holds[p]}
                          ELSE holds[p]]
        BY <2>3 DEF HandleAudioChunk, Detectors
      <3>2. \A p \in Places : \/ holds'[p] = holds[p]
                              \/ holds'[p] = {Reset(i) : i \in holds[p]}
                              \/ holds'[p] = {Predict(i) : i \in holds[p]}
        BY <3>1
      <3> QED
        BY <3>2, UsedExclusive
    <2>4. CASE ClientLeaves(c)
      BY <2>4, ReleaseExclusive DEF ClientLeaves, Disconnect
    <2> QED
      BY <1>5, <2>1, <2>2, <2>3, <2>4 DEF Receive
  <1>6. ASSUME NEW r \in Recorders, RequestTest(r) \/ TestStep(r) PROVE Exclusive'
    <2>1. CASE RequestTest(r) \/ StartTest(r)
      BY <1>1, <2>1 DEF RequestTest, StartTest
    <2>2. CASE ScoreRecording(r)
      <3>1. holds' = [holds EXCEPT ![Job(r)] = {Predict(i) : i \in holds[Job(r)]}]
        BY <2>2 DEF ScoreRecording
      <3> QED
        BY <3>1, UsedExclusive, PlacesTyped DEF TypeOK
    <2>3. CASE CheckGeneration(r)
      BY <1>1, <2>3, ShrunkExclusive, PlacesTyped DEF CheckGeneration, TypeOK
    <2>4. CASE ReturnToPool(r)
      <3> DEFINE S == {Job(r)}
      <3>1. Pool \in Places /\ S \subseteq Places /\ Pool \notin S
        BY PlacesTyped, PlacesDiffer
      <3>2. /\ \A p \in S : holds'[p] = {}
            /\ \A p \in Places \ {Pool} : holds'[p] \subseteq holds[p]
            /\ holds'[Pool] \subseteq holds[Pool] \cup UNION {holds[p] : p \in S}
        BY <2>4, <3>1 DEF ReturnToPool, TypeOK, SyncedPool
      <3> HIDE DEF S
      <3> QED
        BY <3>1, <3>2, MovedExclusive
    <2> QED
      BY <1>6, <2>1, <2>2, <2>3, <2>4 DEF TestStep
  <1>7. CASE StartServers \/ ApiStep \/ ApiRequest
    BY <1>1, <1>7
       DEF StartServers, ApiStep, ApiRequest, CommitFiles, RollBackFiles,
           EscapeFiles, Bump, SettingsApplied, WriteFiles, Rescan, ApplySettings, RefuseSettings,
           EditByHand, otherVars
  <1> QED
    BY <1>1, <1>2, <1>3, <1>4, <1>5, <1>6, <1>7 DEF Next, vars

\* One interpreter serves one client at a time: for any number of clients,
\* recording tests, models and changes, with refused patches and hand edits.
THEOREM InterpretersExclusive == Spec => []Exclusive
  <1>1. Init => Exclusive
    BY DEF Init, Exclusive
  <1>2. TypeOK /\ Exclusive /\ [Next]_vars => Exclusive'
    BY NextExclusive
  <1> QED
    BY <1>1, <1>2, TypeCorrect, PTL DEF Spec

----------------------------------------------------------------------------
(* OneUserAtATime: the pool implements the lease                              *)

\* Whose place it is: the pool's, a thread's or that of a client's detectors.
Owner(p) == IF p = Pool THEN "pool" ELSE p[2]

\* The lessees of interpreter n, and the used interpreters, when h is held.
LesseesIn(h, n) ==
    {u \in Threads : \E p \in PlacesOf(u) \cap Places : \E i \in h[p] : i.id = n}
    \cup {u \in {"pool"} : \E i \in h[Pool] : i.id = n}
SoiledIn(h) == {n \in Ids : \E p \in Places : \E i \in h[p] : i.id = n /\ i.used}

\* No two interpreters in h have one identity.
Alone(h) ==
    \A p, q \in Places : \A i \in h[p], j \in h[q] : i.id = j.id => p = q /\ i = j

\* Interpreter n is held nowhere.
Nowhere(h, n) == \A p \in Places : \A i \in h[p] : i.id # n

\* How interpreter i, held at p, may become j, held at q: it stays with its owner
\* as it is, its owner uses or resets it, or gives it to the pool, or the pool
\* gives it to somebody, clean.
Passes(p, i, q, j) ==
    /\ i.id = j.id
    /\ \/ Owner(p) = Owner(q) /\ i.used = j.used
       \/ p # Pool /\ (q = Pool \/ Owner(p) = Owner(q))
       \/ p = Pool /\ q # Pool /\ ~j.used

\* Interpreters are new and clean, or come from where they were.
Moves(h, g) ==
    \A q \in Places : \A j \in g[q] :
       \/ Nowhere(h, j.id) /\ ~j.used
       \/ \E p \in Places : \E i \in h[p] : Passes(p, i, q, j)

LEMMA OwnersTyped ==
    /\ Owner(Pool) = "pool"
    /\ \A t : Owner(Job(t)) = t
    /\ \A c, w : Owner(Detector(c, w)) = c
    /\ \A p \in Places : p # Pool => Owner(p) \in Threads /\ p \in PlacesOf(Owner(p))
    /\ \A u : \A p \in PlacesOf(u) : p # Pool /\ Owner(p) = u
  <1>1. Owner(Pool) = "pool" /\ (\A t : Owner(Job(t)) = t) /\ \A c, w : Owner(Detector(c, w)) = c
    BY DEF Owner, Pool, Job, Detector
  <1>2. \A p \in Places : p # Pool => Owner(p) \in Threads /\ p \in PlacesOf(Owner(p))
    BY <1>1 DEF Places, PlacesOf, Threads
  <1>3. \A u : \A p \in PlacesOf(u) : p # Pool /\ Owner(p) = u
    BY <1>1, PlacesDiffer DEF PlacesOf
  <1> QED
    BY <1>1, <1>2, <1>3

\* What is held at one place has its owner for its one lessee.
LEMMA OneLessee ==
    ASSUME NEW h, Alone(h), NEW p \in Places, NEW i \in h[p], i.id \in Ids
    PROVE  /\ LesseesIn(h, i.id) = {Owner(p)}
           /\ i.id \in SoiledIn(h) <=> i.used
  <1>1. \A q \in Places : \A j \in h[q] : j.id = i.id => q = p /\ j = i
    BY DEF Alone
  <1>2. i.id \in SoiledIn(h) <=> i.used
    BY <1>1 DEF SoiledIn
  <1>3. CASE p = Pool
    <2>1. ASSUME NEW u \in Threads, NEW q \in PlacesOf(u) \cap Places, NEW j \in h[q]
          PROVE  j.id # i.id
      BY <1>1, <1>3, OwnersTyped
    <2> QED
      BY <1>2, <1>3, <2>1, OwnersTyped DEF LesseesIn
  <1>4. CASE p # Pool
    <2>1. Owner(p) \in Threads /\ p \in PlacesOf(Owner(p))
      BY <1>4, OwnersTyped
    <2>2. ASSUME NEW u \in Threads, NEW q \in PlacesOf(u) \cap Places, NEW j \in h[q], j.id = i.id
          PROVE  u = Owner(p)
      BY <1>1, <2>2, OwnersTyped
    <2>3. \A j \in h[Pool] : j.id # i.id
      BY <1>1, <1>4, PlacesTyped
    <2> QED
      BY <1>2, <2>1, <2>2, <2>3 DEF LesseesIn
  <1> QED
    BY <1>3, <1>4

LEMMA NoLessee ==
    ASSUME NEW h, NEW n, Nowhere(h, n)
    PROVE  LesseesIn(h, n) = {} /\ n \notin SoiledIn(h)
  BY PlacesTyped DEF Nowhere, LesseesIn, SoiledIn

\* Passing interpreters on in this way is what the lease allows.
LEMMA MovesAreLeases ==
    ASSUME Alone(holds), Alone(holds'), Moves(holds, holds'),
           \A p \in Places : \A i \in holds[p] : i.id \in Ids,
           \A p \in Places : \A i \in holds'[p] : i.id \in Ids
    PROVE  Lease!Next
  <1> DEFINE before == [n \in Ids |-> LesseesIn(holds, n)]
             after == [n \in Ids |-> LesseesIn(holds', n)]
             soiled == SoiledIn(holds)
             dirty == SoiledIn(holds')
             Legal(n) ==
                \/ /\ before[n] = {} /\ \E o \in Threads \cup {"pool"} : after[n] = {o}
                   /\ n \notin dirty
                \/ before[n] = {"pool"} /\ (\E u \in Threads : after[n] = {u}) /\ n \notin dirty
                \/ (\E u \in Threads : before[n] = {u}) /\ after[n] = before[n]
                \/ (\E u \in Threads : before[n] = {u}) /\ after[n] = {"pool"}
                \/ after[n] = {} /\ n \notin dirty
                \/ after[n] = before[n] /\ (n \in dirty <=> n \in soiled)
  <1>1. ASSUME NEW n \in Ids PROVE Legal(n)
    <2>0. before[n] = LesseesIn(holds, n) /\ after[n] = LesseesIn(holds', n)
      OBVIOUS
    <2> HIDE DEF before, after, soiled, dirty
    <2>1. CASE Nowhere(holds', n)
      BY <2>0, <2>1, NoLessee DEF dirty
    <2>2. CASE ~Nowhere(holds', n)
      <3>0. PICK q \in Places : \E j \in holds'[q] : j.id = n
        BY <2>2 DEF Nowhere
      <3>1. PICK j \in holds'[q] : j.id = n
        BY <3>0
      <3>2. after[n] = {Owner(q)} /\ (n \in dirty <=> j.used)
        BY <2>0, <3>1, OneLessee DEF dirty
      <3>3. Owner(q) \in Threads \cup {"pool"} /\ (q # Pool => Owner(q) \in Threads)
        BY OwnersTyped
      <3>4. CASE Nowhere(holds, n) /\ ~j.used
        BY <2>0, <3>2, <3>3, <3>4, NoLessee
      <3>5. ASSUME NEW p \in Places, NEW i \in holds[p], Passes(p, i, q, j)
            PROVE  Legal(n)
        <4>1. before[n] = {Owner(p)} /\ (n \in soiled <=> i.used)
          BY <2>0, <3>1, <3>5, OneLessee DEF soiled, Passes
        <4>2. p # Pool => Owner(p) \in Threads
          BY OwnersTyped
        <4> QED
          BY <3>2, <3>3, <3>5, <4>1, <4>2, OwnersTyped DEF Passes
      <3> QED
        BY <3>1, <3>4, <3>5 DEF Moves
    <2> QED
      BY <2>1, <2>2
  <1>2. dirty \subseteq Ids
    BY DEF SoiledIn
  <1> QED
    BY <1>1, <1>2 DEF Lease!Next, Lease!Create, Lease!Lend, Lease!Use, Lease!Return, Lease!Drop,
       Lease!Keep, Lease!Clean, LesseesIn, SoiledIn

\* Where interpreters stay at their places, or are dropped.
LEMMA StayMoves ==
    ASSUME \A p \in Places : holds'[p] \subseteq holds[p]
    PROVE  Moves(holds, holds')
  BY DEF Moves, Passes

\* A new interpreter at one place.
LEMMA AddedMoves ==
    ASSUME TypeOK, NEW p0 \in Places, NEW new, new.id \notin UsedIds, new.used = FALSE,
           holds' = [holds EXCEPT ![p0] = @ \cup {new}]
    PROVE  Moves(holds, holds')
  <1>1. Nowhere(holds, new.id) /\ ~new.used
    BY DEF Nowhere, UsedIds
  <1>2. \A p \in Places : \A j \in holds'[p] : j \in holds[p] \/ j = new
    BY DEF TypeOK
  <1> QED
    BY <1>1, <1>2 DEF Moves, Passes

\* Whoever has interpreters uses or resets them.
LEMMA UsedMoves ==
    ASSUME TypeOK,
           \A p \in Places : \/ holds'[p] = holds[p]
                             \/ p # Pool /\ \/ holds'[p] = {Reset(i) : i \in holds[p]}
                                            \/ holds'[p] = {Predict(i) : i \in holds[p]}
    PROVE  Moves(holds, holds')
  <1>1. \A i \in Interpreter : Reset(i).id = i.id /\ Predict(i).id = i.id
    BY DEF Interpreter, Reset, Predict
  <1> SUFFICES ASSUME NEW p \in Places, NEW j \in holds'[p]
               PROVE  \E i \in holds[p] : Passes(p, i, p, j)
    BY DEF Moves
  <1>2. CASE holds'[p] = holds[p]
    BY <1>2 DEF Passes
  <1>3. CASE p # Pool /\ holds'[p] = {Reset(i) : i \in holds[p]}
    <2>1. PICK i \in holds[p] : j = Reset(i)
      BY <1>3
    <2> QED
      BY <1>1, <1>3, <2>1 DEF TypeOK, Passes
  <1>4. CASE p # Pool /\ holds'[p] = {Predict(i) : i \in holds[p]}
    <2>1. PICK i \in holds[p] : j = Predict(i)
      BY <1>4
    <2> QED
      BY <1>1, <1>4, <2>1 DEF TypeOK, Passes
  <1> QED
    BY <1>2, <1>3, <1>4

LEMMA ResetMoves ==
    ASSUME TypeOK, NEW c \in Clients, ResetDetectors(c)
    PROVE  Moves(holds, holds')
  <1>1. \A p \in Places : holds'[p] = holds[p] \/ (p # Pool /\ holds'[p] = {Reset(i) : i \in holds[p]})
    BY PlacesDiffer DEF ResetDetectors, DetectorPlaces
  <1> QED
    BY <1>1, UsedMoves

\* Detectors give their interpreters to the pool.
LEMMA ReleaseMoves ==
    ASSUME TypeOK, NEW c \in Clients, NEW W \in SUBSET WakeWords, ReleaseDetectors(c, W)
    PROVE  Moves(holds, holds')
  <1>1. \A p \in Places \ {Pool} : holds'[p] \subseteq holds[p]
    BY DEF ReleaseDetectors
  <1>2. Pool \notin DetectorPlaces(c, W) /\ DetectorPlaces(c, W) \subseteq Places
    BY PlacesDiffer, PlacesTyped DEF DetectorPlaces
  <1>3. ASSUME NEW j \in holds'[Pool]
        PROVE  j \in holds[Pool] \/ \E p \in Places : p # Pool /\ j \in holds[p]
    <2>1. j \in holds[Pool] \/ j \in Returned(c, W)
      BY <1>2, <1>3, PlacesTyped DEF ReleaseDetectors, SyncedPool
    <2> QED
      BY <1>2, <2>1 DEF Returned, Current, DetectorPlaces
  <1> QED
    BY <1>1, <1>3, PlacesTyped DEF Moves, Passes

\* Every step passes interpreters on in the way of a lease.
LEMMA StepMoves == TypeOK /\ [Next]_vars => Moves(holds, holds')
  <1> SUFFICES ASSUME TypeOK, [Next]_vars PROVE Moves(holds, holds')
    OBVIOUS
  <1>1. CASE holds' = holds
    BY <1>1, StayMoves
  <1>2. CASE WarmUp
    <2>1. PICK m \in WarmUpModels, n \in Ids \ UsedIds :
            holds' = [holds EXCEPT ![Pool] = @ \cup
                        {[id |-> n, model |-> m, files |-> files,
                          options |-> options, used |-> FALSE]}]
      BY <1>2 DEF WarmUp
    <2> DEFINE new == [id |-> n, model |-> m, files |-> files,
                       options |-> options, used |-> FALSE]
    <2>2. /\ new.id \notin UsedIds /\ new.used = FALSE
          /\ holds' = [holds EXCEPT ![Pool] = @ \cup {new}]
      BY <2>1
    <2> HIDE DEF new
    <2> QED
      BY <2>2, AddedMoves, PlacesTyped
  <1>3. ASSUME NEW t \in Threads, ThreadStep(t) PROVE Moves(holds, holds')
    <2>1. CASE PopIdle(t)
      <3>1. PICK i \in SyncedPool :
              holds' = [holds EXCEPT ![Pool] = SyncedPool \ {i},
                                     ![Job(t)] = @ \cup {Reset(i)}]
        BY <2>1 DEF PopIdle
      <3>2. /\ i \in holds[Pool] /\ SyncedPool \subseteq holds[Pool]
            /\ Reset(i).id = i.id /\ ~Reset(i).used
        BY <3>1, PlacesTyped DEF SyncedPool, TypeOK, Reset, Interpreter
      <3>3. /\ holds'[Pool] = SyncedPool \ {i}
            /\ holds'[Job(t)] = holds[Job(t)] \cup {Reset(i)}
            /\ \A p \in Places \ {Pool, Job(t)} : holds'[p] = holds[p]
        BY <3>1, PlacesTyped, PlacesDiffer DEF TypeOK
      <3> HIDE DEF SyncedPool
      <3>4. Passes(Pool, i, Job(t), Reset(i))
        BY <3>2, PlacesDiffer DEF Passes
      <3>5. ASSUME NEW q \in Places, NEW j \in holds'[q]
            PROVE  j \in holds[q] \/ (q = Job(t) /\ j = Reset(i))
        BY <3>2, <3>3
      <3> QED
        BY <3>2, <3>4, <3>5, PlacesTyped DEF Moves, Passes
    <2>2. CASE FindNoneIdle(t)
      BY <2>2, StayMoves, PlacesTyped DEF FindNoneIdle, SyncedPool, TypeOK
    <2>3. CASE ReadOptions(t)
      BY <1>1, <2>3 DEF ReadOptions
    <2>4. CASE BuildInterpreter(t)
      <3>1. PICK n \in Ids \ UsedIds :
              holds' = [holds EXCEPT ![Job(t)] = @ \cup
                          {[id |-> n, model |-> job[t].model, files |-> files,
                            options |-> job[t].options, used |-> FALSE]}]
        BY <2>4 DEF BuildInterpreter
      <3> DEFINE new == [id |-> n, model |-> job[t].model, files |-> files,
                         options |-> job[t].options, used |-> FALSE]
      <3>2. /\ new.id \notin UsedIds /\ new.used = FALSE
            /\ holds' = [holds EXCEPT ![Job(t)] = @ \cup {new}]
        BY <3>1
      <3> HIDE DEF new
      <3> QED
        BY <3>2, AddedMoves, PlacesTyped
    <2>5. CASE LoadFails(t)
      BY <2>5, StayMoves, PlacesTyped DEF LoadFails, TypeOK
    <2> QED
      BY <1>3, <2>1, <2>2, <2>3, <2>4, <2>5 DEF ThreadStep
  <1>4. ASSUME NEW c \in Clients, Serve(c) PROVE Moves(holds, holds')
    <2>1. CASE AcquireNext(c)
      BY <1>1, <2>1 DEF AcquireNext
    <2>2. CASE WordVanished(c)
      BY <2>2, ReleaseMoves DEF WordVanished, Disconnect
    <2>3. CASE AcquireRaised(c)
      BY <2>3, ReleaseMoves DEF AcquireRaised, Disconnect
    <2>4. CASE InstallDetector(c)
      <3> DEFINE target == Detector(c, job[c].word)
      <3>1. target \in Places /\ Job(c) \in Places /\ Owner(Job(c)) = Owner(target)
        BY PlacesTyped, OwnersTyped DEF TypeOK, JobRecord
      <3>2. \A q \in Places : holds'[q] \subseteq IF q = target THEN holds[Job(c)] ELSE holds[q]
        BY <2>4, <3>1 DEF InstallDetector, TypeOK
      <3> HIDE DEF target
      <3> QED
        BY <3>1, <3>2 DEF Moves, Passes
    <2>5. CASE EndDetect(c)
      BY <2>5, ReleaseMoves DEF EndDetect
    <2>6. CASE EndReload(c)
      <3>1. CASE ResetDetectors(c)
        BY <3>1, ResetMoves
      <3> QED
        BY <1>1, <2>6, <3>1 DEF EndReload
    <2> QED
      BY <1>4, <2>1, <2>2, <2>3, <2>4, <2>5, <2>6 DEF Serve
  <1>5. ASSUME NEW c \in Clients, Receive(c) PROVE Moves(holds, holds')
    <2>1. CASE Connect(c) \/ HandleDetect(c)
      BY <1>1, <2>1 DEF Connect, HandleDetect
    <2>2. CASE HandleAudioStart(c)
      <3>1. CASE ResetDetectors(c)
        BY <3>1, ResetMoves
      <3>2. CASE ReleaseDetectors(c, WakeWords)
        BY <3>2, ReleaseMoves
      <3> QED
        BY <1>1, <2>2, <3>1, <3>2 DEF HandleAudioStart
    <2>3. CASE HandleAudioChunk(c)
      <3>1. PICK fired \in SUBSET WakeWords :
              holds' = [p \in Places |->
                          IF p \in DetectorPlaces(c, fired)
                          THEN {Reset(i) : i \in holds[p]}
                          ELSE IF p \in DetectorPlaces(c, WakeWords)
                          THEN {Predict(i) : i \in holds[p]}
                          ELSE holds[p]]
        BY <2>3 DEF HandleAudioChunk, Detectors
      <3>2. Pool \notin DetectorPlaces(c, fired) \cup DetectorPlaces(c, WakeWords)
        BY PlacesDiffer DEF DetectorPlaces
      <3>3. \A p \in Places : \/ holds'[p] = holds[p]
                              \/ p # Pool /\ \/ holds'[p] = {Reset(i) : i \in holds[p]}
                                             \/ holds'[p] = {Predict(i) : i \in holds[p]}
        BY <3>1, <3>2
      <3> QED
        BY <3>3, UsedMoves
    <2>4. CASE ClientLeaves(c)
      BY <2>4, ReleaseMoves DEF ClientLeaves, Disconnect
    <2> QED
      BY <1>5, <2>1, <2>2, <2>3, <2>4 DEF Receive
  <1>6. ASSUME NEW r \in Recorders, RequestTest(r) \/ TestStep(r) PROVE Moves(holds, holds')
    <2>1. CASE RequestTest(r) \/ StartTest(r)
      BY <1>1, <2>1 DEF RequestTest, StartTest
    <2>2. CASE ScoreRecording(r)
      <3>1. holds' = [holds EXCEPT ![Job(r)] = {Predict(i) : i \in holds[Job(r)]}]
        BY <2>2 DEF ScoreRecording
      <3> QED
        BY <3>1, UsedMoves, PlacesTyped, PlacesDiffer DEF TypeOK
    <2>3. CASE CheckGeneration(r)
      BY <1>1, <2>3, StayMoves, PlacesTyped DEF CheckGeneration, TypeOK
    <2>4. CASE ReturnToPool(r)
      <3>1. /\ \A p \in Places \ {Pool} : holds'[p] \subseteq holds[p]
            /\ holds'[Pool] \subseteq holds[Pool] \cup holds[Job(r)]
        BY <2>4, PlacesTyped, PlacesDiffer DEF ReturnToPool, TypeOK, SyncedPool
      <3> QED
        BY <3>1, PlacesTyped, PlacesDiffer DEF Moves, Passes
    <2> QED
      BY <1>6, <2>1, <2>2, <2>3, <2>4 DEF TestStep
  <1>7. CASE StartServers \/ ApiStep \/ ApiRequest
    BY <1>1, <1>7
       DEF StartServers, ApiStep, ApiRequest, CommitFiles, RollBackFiles,
           EscapeFiles, Bump, SettingsApplied, WriteFiles, Rescan, ApplySettings, RefuseSettings,
           EditByHand, otherVars
  <1> QED
    BY <1>1, <1>2, <1>3, <1>4, <1>5, <1>6, <1>7 DEF Next, vars

\* The pool lends an interpreter to one user at a time, clean, and it passes from one to
\* another through the pool only: every step of the manager, of the handlers and of
\* recording tests is a step of the lease for each interpreter, for any number of users,
\* interpreters and changes.
THEOREM PoolLeases == Spec => OneUserAtATime
  <1>1. Init => Lease!Init
    <2> SUFFICES ASSUME Init PROVE Lease!Init
      OBVIOUS
    <2>1. \A p \in Places : holds[p] = {}
      BY DEF Init
    <2>2. \A u : \A p \in PlacesOf(u) \cap Places : holds[p] = {}
      BY <2>1
    <2> QED
      BY <2>1, <2>2, PlacesTyped DEF Lease!Init
  <1>2. TypeOK /\ Exclusive /\ TypeOK' /\ Exclusive' /\ [Next]_vars => Lease!Next
    <2> SUFFICES ASSUME TypeOK, Exclusive, TypeOK', Exclusive', [Next]_vars PROVE Lease!Next
      OBVIOUS
    <2>1. Alone(holds) /\ Alone(holds')
      BY DEF Alone, Exclusive
    <2>2. /\ \A p \in Places : \A i \in holds[p] : i.id \in Ids
          /\ \A p \in Places : \A i \in holds'[p] : i.id \in Ids
      BY DEF TypeOK, Interpreter
    <2> QED
      BY <2>1, <2>2, StepMoves, MovesAreLeases
  <1> QED
    BY <1>1, <1>2, TypeCorrect, InterpretersExclusive, PTL DEF Spec, OneUserAtATime, Lease!Spec

----------------------------------------------------------------------------
(* PoolFresh and StreamsStartFresh, while no recording is tested             *)

InForce(i) == i.files = files /\ i.options = options

\* No change is without its generation bump, for now or for good.
Settled == loop \notin {"upload", "patch"} /\ ~unannounced

Busy == {"detect", "reload", "fallback"}

\* Nothing carries a generation from the future.
TagsBounded ==
    /\ 0 < generation
    /\ poolGeneration \leq generation
    /\ \A c \in Clients, w \in WakeWords : tag[c][w] \leq generation
    /\ \A t \in Threads : job[t].generation \leq generation

\* A client's call is in progress only while its handler waits for it, and
\* an ended call holds nothing.
CallsAwaited ==
    \A c \in Clients :
        /\ job[c].phase # "none" => loop # c /\ mode[c] \in Busy
        /\ loop = c => mode[c] \in Busy
        /\ job[c].phase \in {"none", "failed"} => holds[Job(c)] = {}

\* What carries the current generation was built from what is in force.
TaggedInForce ==
    Settled =>
        /\ poolGeneration = generation => \A i \in holds[Pool] : InForce(i)
        /\ \A c \in Clients, w \in WakeWords :
              tag[c][w] = generation => \A i \in holds[Detector(c, w)] : InForce(i)
        /\ \A c \in Clients :
              job[c].generation = generation /\ job[c].phase # "none" =>
                  /\ \A i \in holds[Job(c)] : InForce(i)
                  /\ job[c].phase = "build" => job[c].options = options

FreshInv == TagsBounded /\ CallsAwaited /\ TaggedInForce

\* The hypothesis of this part.
NoRecordings == Recorders = {}

\* A call's record as it is begun.
LEMMA StartedJob ==
    \A w, g : LET rec == [NoJob EXCEPT !.phase = "acquire", !.word = w, !.generation = g]
              IN  rec.phase = "acquire" /\ rec.generation = g
  BY DEF NoJob

LEMMA IdleJob == NoJob.phase = "none" /\ NoJob.generation = 0
  BY DEF NoJob

\* No step creates a tag from the future: they are copies of the generation,
\* or of one another, and the generation only grows.
LEMMA NextBounded == TypeOK /\ TagsBounded /\ [Next]_vars => TagsBounded'
  <1> SUFFICES ASSUME TypeOK, TagsBounded, [Next]_vars PROVE TagsBounded'
    OBVIOUS
  <1>1. CASE /\ generation' \in {generation, generation + 1}
             /\ UNCHANGED <<poolGeneration, tag, job>>
    BY <1>1 DEF TypeOK, TagsBounded, JobRecord
  <1>2. ASSUME NEW t \in Threads, ThreadStep(t) PROVE TagsBounded'
    <2>1. /\ poolGeneration' \in {poolGeneration, generation}
          /\ UNCHANGED <<generation, tag>>
      BY <1>2 DEF ThreadStep, PopIdle, FindNoneIdle, ReadOptions, BuildInterpreter,
                  LoadFails, serverVars
    <2>2. \A u \in Threads : job'[u].generation \in {job[u].generation, 0}
      <3>1. CASE PopIdle(t)
        BY <3>1 DEF PopIdle
      <3>2. CASE FindNoneIdle(t)
        BY <3>2 DEF FindNoneIdle, TypeOK, JobRecord
      <3>3. CASE ReadOptions(t)
        BY <3>3 DEF ReadOptions, TypeOK, JobRecord
      <3>4. CASE BuildInterpreter(t)
        BY <3>4 DEF BuildInterpreter, TypeOK, JobRecord
      <3>5. CASE LoadFails(t)
        BY <3>5, IdleJob DEF LoadFails, TypeOK, JobRecord
      <3> QED
        BY <1>2, <3>1, <3>2, <3>3, <3>4, <3>5 DEF ThreadStep
    <2> QED
      BY <2>1, <2>2 DEF TypeOK, TagsBounded, JobRecord
  <1>3. ASSUME NEW c \in Clients, NEW W \in SUBSET WakeWords, ReleaseDetectors(c, W),
               generation' = generation,
               \A t \in Threads : job'[t].generation \in {job[t].generation, 0}
        PROVE  TagsBounded'
    <2>1. /\ poolGeneration' \in {poolGeneration, generation}
          /\ \A d \in Clients, w \in WakeWords : tag'[d][w] \in {tag[d][w], 0}
      BY <1>3 DEF ReleaseDetectors, TypeOK
    <2>2. \A t \in Threads : job'[t].generation \leq generation
      BY <1>3 DEF TypeOK, TagsBounded
    <2>3. \A d \in Clients, w \in WakeWords : tag'[d][w] \leq generation
      BY <2>1 DEF TypeOK, TagsBounded
    <2> QED
      BY <1>3, <2>1, <2>2, <2>3 DEF TypeOK, TagsBounded
  <1>4. ASSUME NEW c \in Clients, Serve(c) PROVE TagsBounded'
    <2>1. CASE AcquireNext(c)
      <3>1. \A t \in Threads : job'[t].generation \in {job[t].generation, generation}
        BY <2>1, StartedJob DEF AcquireNext, TypeOK
      <3> QED
        <4>1. \A t \in Threads : job'[t].generation \leq generation
          BY <3>1 DEF TypeOK, TagsBounded
        <4>2. UNCHANGED <<generation, poolGeneration, tag>>
          BY <2>1 DEF AcquireNext, serverVars
        <4> QED
          BY <4>1, <4>2 DEF TagsBounded
    <2>2. CASE WordVanished(c)
      BY <1>3, <2>2 DEF WordVanished, Disconnect, serverVars
    <2>3. CASE AcquireRaised(c)
      <3>1. \A t \in Threads : job'[t].generation \in {job[t].generation, 0}
        BY <2>3, IdleJob DEF AcquireRaised, TypeOK
      <3> QED
        BY <1>3, <2>3, <3>1 DEF AcquireRaised, Disconnect, serverVars
    <2>4. CASE InstallDetector(c)
      <3>1. /\ \A t \in Threads : job'[t].generation \in {job[t].generation, 0}
            /\ \A d \in Clients, w \in WakeWords :
                  tag'[d][w] \in {tag[d][w], job[c].generation}
            /\ UNCHANGED <<generation, poolGeneration>>
        BY <2>4, IdleJob DEF InstallDetector, TypeOK, serverVars
      <3> QED
        <4>1. job[c].generation \leq generation
          BY PlacesTyped DEF TagsBounded
        <4>2. \A t \in Threads : job'[t].generation \leq generation
          BY <3>1 DEF TypeOK, TagsBounded
        <4>3. \A d \in Clients, w \in WakeWords : tag'[d][w] \leq generation
          BY <3>1, <4>1 DEF TagsBounded
        <4> QED
          BY <3>1, <4>2, <4>3 DEF TagsBounded
    <2>5. CASE EndDetect(c)
      BY <1>3, <2>5 DEF EndDetect, serverVars
    <2>6. CASE EndReload(c)
      BY <2>6, <1>1 DEF EndReload, serverVars
    <2> QED
      BY <1>4, <2>1, <2>2, <2>3, <2>4, <2>5, <2>6 DEF Serve
  <1>5. ASSUME NEW c \in Clients, Receive(c) PROVE TagsBounded'
    <2>1. CASE Connect(c) \/ HandleDetect(c) \/ HandleAudioChunk(c)
      BY <2>1, <1>1 DEF Connect, HandleDetect, HandleAudioChunk, serverVars
    <2>2. CASE HandleAudioStart(c)
      <3>1. generation' = generation /\ job' = job
        BY <2>2 DEF HandleAudioStart, serverVars
      <3>2. ReleaseDetectors(c, WakeWords) \/ UNCHANGED <<poolGeneration, tag>>
        BY <2>2 DEF HandleAudioStart
      <3> QED
        BY <1>1, <1>3, <3>1, <3>2
    <2>3. CASE ClientLeaves(c)
      BY <1>3, <2>3 DEF ClientLeaves, Disconnect, serverVars
    <2> QED
      BY <1>5, <2>1, <2>2, <2>3 DEF Receive
  <1>6. ASSUME NEW r \in Recorders, RequestTest(r) \/ TestStep(r) PROVE TagsBounded'
    <2>1. /\ poolGeneration' \in {poolGeneration, generation}
          /\ UNCHANGED <<generation, tag>>
      BY <1>6 DEF RequestTest, TestStep, StartTest, ScoreRecording, CheckGeneration,
                  ReturnToPool, serverVars
    <2>2. \A t \in Threads : job'[t].generation \in {job[t].generation, generation, 0}
      <3>1. CASE RequestTest(r)
        <4>1. \A w : [NoJob EXCEPT !.phase = "queued", !.word = w].generation = 0
          BY DEF NoJob
        <4> QED
          BY <3>1, <4>1 DEF RequestTest, TypeOK
      <3>2. CASE StartTest(r)
        BY <3>2 DEF StartTest, TypeOK, JobRecord
      <3>3. CASE ScoreRecording(r)
        BY <3>3 DEF ScoreRecording, TypeOK, JobRecord
      <3>4. CASE CheckGeneration(r)
        BY <3>4, IdleJob DEF CheckGeneration, TypeOK, JobRecord
      <3>5. CASE ReturnToPool(r)
        BY <3>5, IdleJob DEF ReturnToPool, TypeOK, JobRecord
      <3> QED
        BY <1>6, <3>1, <3>2, <3>3, <3>4, <3>5 DEF TestStep
    <2> QED
      BY <2>1, <2>2 DEF TypeOK, TagsBounded, JobRecord
  <1>7. CASE WarmUp \/ StartServers \/ ApiStep \/ ApiRequest
    <2>1. /\ generation' \in {generation, generation + 1}
          /\ UNCHANGED <<poolGeneration, tag, job>>
      BY <1>7
         DEF WarmUp, StartServers, ApiStep, ApiRequest, CommitFiles, RollBackFiles,
             EscapeFiles, Bump, SettingsApplied, WriteFiles, Rescan, ApplySettings, RefuseSettings,
             EditByHand, otherVars, serverVars
    <2> QED
      BY <1>1, <2>1
  <1>8. CASE UNCHANGED vars
    BY <1>1, <1>8 DEF vars, serverVars
  <1> QED
    BY <1>2, <1>4, <1>5, <1>6, <1>7, <1>8 DEF Next

\* A release leaves the calls' places alone.
LEMMA ReleaseLeavesJobs ==
    ASSUME NEW c \in Clients, NEW W \in SUBSET WakeWords, ReleaseDetectors(c, W)
    PROVE  \A t \in Threads : holds'[Job(t)] = holds[Job(t)]
  <1>1. \A t \in Threads : Job(t) \in Places /\ Job(t) # Pool
                             /\ Job(t) \notin DetectorPlaces(c, W)
    BY PlacesTyped, PlacesDiffer DEF DetectorPlaces
  <1> QED
    BY <1>1 DEF ReleaseDetectors

\* A thread works for a client only while its handler awaits the call.
LEMMA NextAwaited == TypeOK /\ CallsAwaited /\ [Next]_vars => CallsAwaited'
  <1> SUFFICES ASSUME TypeOK, CallsAwaited, [Next]_vars PROVE CallsAwaited'
    OBVIOUS
  <1>0. \A d \in Clients : d \in Threads /\ Job(d) \in Places
    BY PlacesTyped
  <1>1. CASE /\ UNCHANGED <<mode, job>>
             /\ loop' = loop \/ loop' \notin Clients
             /\ \A d \in Clients : holds'[Job(d)] = holds[Job(d)]
    BY <1>1 DEF TypeOK, CallsAwaited
  <1>2. ASSUME NEW t \in Threads, ThreadStep(t) PROVE CallsAwaited'
    <2>1. UNCHANGED <<loop, mode>>
      BY <1>2 DEF ThreadStep, PopIdle, FindNoneIdle, ReadOptions, BuildInterpreter,
                  LoadFails
    <2>2. \A d \in Clients : d # t => job'[d] = job[d] /\ holds'[Job(d)] = holds[Job(d)]
      BY <1>2, <1>0, PlacesDiffer, PlacesTyped
         DEF TypeOK, ThreadStep, PopIdle, FindNoneIdle, ReadOptions, BuildInterpreter,
             LoadFails
    <2>3. job[t].phase \notin {"none", "failed"}
      BY <1>2 DEF ThreadStep, PopIdle, FindNoneIdle, ReadOptions, BuildInterpreter,
                  LoadFails
    <2>4. t \in Clients /\ job'[t].phase \in {"none", "failed"} => holds'[Job(t)] = {}
      <3>1. CASE LoadFails(t)
        BY <3>1, <1>0 DEF LoadFails, TypeOK
      <3>2. CASE ~LoadFails(t)
        BY <1>2, <2>3, <3>2
           DEF TypeOK, JobRecord, ThreadStep, PopIdle, FindNoneIdle, ReadOptions,
               BuildInterpreter
      <3> QED
        BY <3>1, <3>2
    <2> QED
      BY <2>1, <2>2, <2>3, <2>4 DEF CallsAwaited
  <1>3. ASSUME NEW c \in Clients, ReleaseDetectors(c, WakeWords),
               job[c].phase \in {"none", "failed"},
               job'[c].phase = "none",
               \A d \in Clients \ {c} : job'[d] = job[d] /\ mode'[d] = mode[d],
               loop' = loop \/ loop' \notin Clients,
               loop' # c
        PROVE  CallsAwaited'
    BY <1>3, <1>0, ReleaseLeavesJobs DEF TypeOK, CallsAwaited
  <1>4. ASSUME NEW c \in Clients, Serve(c) PROVE CallsAwaited'
    <2>1. CASE AcquireNext(c)
      <3>1. /\ UNCHANGED <<mode, holds>>
            /\ job'[c].phase = "acquire" /\ mode[c] \in Busy
            /\ \A d \in Clients \ {c} : job'[d] = job[d] /\ loop # d
            /\ loop' = "idle"
        BY <2>1, <1>0, StartedJob DEF AcquireNext, TypeOK, CallsAwaited
      <3>2. "idle" \notin Clients
        BY PoolAssumption DEF LoopOwners
      <3> QED
        BY <3>1, <3>2 DEF CallsAwaited
    <2>2. CASE WordVanished(c)
      <3>1. "idle" \notin Clients
        BY PoolAssumption DEF LoopOwners
      <3> QED
        BY <1>3, <2>2, <3>1
           DEF WordVanished, Disconnect, CallsAwaited, TypeOK
    <2>3. CASE AcquireRaised(c)
      <3>1. "idle" \notin Clients
        BY PoolAssumption DEF LoopOwners
      <3> QED
        BY <1>3, <2>3, <3>1, <1>0, IdleJob
           DEF AcquireRaised, Disconnect, TypeOK
    <2>4. CASE InstallDetector(c)
      <3>1. /\ \A d \in Clients \ {c} : job'[d] = job[d]
            /\ job'[c].phase = "none"
            /\ mode' = mode /\ loop' = c /\ mode[c] \in Busy /\ loop = "idle"
        BY <2>4, <1>0, IdleJob
           DEF InstallDetector, Acquired, TypeOK, CallsAwaited
      <3>2. /\ holds'[Job(c)] = {}
            /\ \A d \in Clients \ {c} : holds'[Job(d)] = holds[Job(d)]
        BY <2>4, <1>0, PlacesDiffer, PlacesTyped DEF InstallDetector, TypeOK, JobRecord
      <3> QED
        BY <3>1, <3>2 DEF CallsAwaited
    <2>5. CASE EndDetect(c)
      <3>1. "idle" \notin Clients
        BY PoolAssumption DEF LoopOwners
      <3>2. \A d \in Clients : holds'[Job(d)] = holds[Job(d)]
        BY <2>5, <1>0, ReleaseLeavesJobs DEF EndDetect
      <3> QED
        BY <2>5, <3>1, <3>2 DEF EndDetect, TypeOK, CallsAwaited
    <2>6. CASE EndReload(c)
      <3>1. "idle" \notin Clients
        BY PoolAssumption DEF LoopOwners
      <3>2. \A d \in Clients : holds'[Job(d)] = holds[Job(d)]
        BY <2>6, <1>0, PlacesDiffer
           DEF EndReload, ResetDetectors, DetectorPlaces
      <3>3. CASE BeginFallback(c)
        BY <2>6, <3>2, <3>3 DEF BeginFallback, EndReload, TypeOK, CallsAwaited, Busy
      <3>4. CASE mode' = [mode EXCEPT ![c] = "ready"] /\ loop' = "idle"
        BY <2>6, <3>1, <3>2, <3>4 DEF EndReload, TypeOK, CallsAwaited
      <3> QED
        BY <2>6, <3>3, <3>4 DEF EndReload
    <2> QED
      BY <1>4, <2>1, <2>2, <2>3, <2>4, <2>5, <2>6 DEF Serve
  <1>5. ASSUME NEW c \in Clients, Receive(c) PROVE CallsAwaited'
    <2>1. /\ loop = "idle" /\ mode[c] \in {"off", "ready"}
          /\ job' = job
          /\ \A d \in Clients \ {c} : mode'[d] = mode[d]
          /\ loop' = "idle" \/ (loop' = c /\ mode'[c] \in Busy)
      BY <1>5
         DEF Receive, Connect, HandleDetect, HandleAudioStart, HandleAudioChunk,
             ClientLeaves, Disconnect, BeginFallback, TypeOK, Busy
    <2>2. \A d \in Clients : holds'[Job(d)] = holds[Job(d)]
      <3>1. CASE ReleaseDetectors(c, WakeWords)
        BY <3>1, <1>0, ReleaseLeavesJobs
      <3>2. CASE ResetDetectors(c)
        BY <3>2, <1>0, PlacesDiffer DEF ResetDetectors, DetectorPlaces
      <3>3. CASE HandleAudioChunk(c)
        BY <3>3, <1>0, PlacesDiffer DEF HandleAudioChunk, DetectorPlaces
      <3> QED
        BY <1>5, <3>1, <3>2, <3>3
           DEF Receive, Connect, HandleDetect, HandleAudioStart, ClientLeaves, Disconnect
    <2>3. job[c].phase = "none" /\ "idle" \notin Clients
      BY <2>1, PoolAssumption DEF CallsAwaited, Busy, LoopOwners
    <2> QED
      BY <2>1, <2>2, <2>3 DEF CallsAwaited
  <1>6. ASSUME NEW r \in Recorders, RequestTest(r) \/ TestStep(r) PROVE CallsAwaited'
    <2>1. \A d \in Clients : d # r /\ Job(d) # Job(r) /\ Job(d) # Pool
      BY PlacesDiffer, PoolAssumption
    <2>2. /\ UNCHANGED <<loop, mode>>
          /\ \A d \in Clients : job'[d] = job[d] /\ holds'[Job(d)] = holds[Job(d)]
      BY <1>6, <1>0, <2>1, PlacesTyped
         DEF RequestTest, TestStep, StartTest, ScoreRecording, CheckGeneration,
             ReturnToPool, TypeOK
    <2> QED
      BY <2>2 DEF CallsAwaited
  <1>7. CASE WarmUp \/ StartServers \/ ApiStep \/ ApiRequest
    <2>1. \A d \in Clients : holds'[Job(d)] = holds[Job(d)]
      BY <1>7, <1>0, PlacesDiffer
         DEF WarmUp, StartServers, ApiStep, ApiRequest, CommitFiles, RollBackFiles,
             EscapeFiles, Bump, SettingsApplied, WriteFiles, Rescan, ApplySettings, RefuseSettings,
             EditByHand, otherVars, TypeOK
    <2>2. /\ UNCHANGED <<mode, job>>
          /\ loop' = loop \/ loop' \notin Clients
      BY <1>7, PoolAssumption
         DEF WarmUp, StartServers, ApiStep, ApiRequest, CommitFiles, RollBackFiles,
             EscapeFiles, Bump, SettingsApplied, WriteFiles, Rescan, ApplySettings, RefuseSettings,
             EditByHand, otherVars, LoopOwners
    <2> QED
      BY <1>1, <2>1, <2>2
  <1>8. CASE UNCHANGED vars
    BY <1>1, <1>8 DEF vars
  <1> QED
    BY <1>2, <1>4, <1>5, <1>6, <1>7, <1>8 DEF Next

\* The three parts of TaggedInForce.
PoolInForce == poolGeneration = generation => \A i \in holds[Pool] : InForce(i)

DetectorInForce(c, w) ==
    tag[c][w] = generation => \A i \in holds[Detector(c, w)] : InForce(i)

CallInForce(c) ==
    job[c].generation = generation /\ job[c].phase # "none" =>
        /\ \A i \in holds[Job(c)] : InForce(i)
        /\ job[c].phase = "build" => job[c].options = options

\* What the pool hands out after _sync_generation is in force.
LEMMA SyncedInForce ==
    TaggedInForce /\ Settled => \A i \in SyncedPool : InForce(i)
  BY DEF TaggedInForce, SyncedPool

\* Resetting and predicting do not change what an interpreter was built from.
LEMMA SameBuild ==
    \A i \in Interpreter : /\ Reset(i).files = i.files /\ Reset(i).options = i.options
                           /\ Predict(i).files = i.files
                           /\ Predict(i).options = i.options
  BY DEF Interpreter, Reset, Predict

\* A bump of the generation leaves nothing tagged with the current one.
LEMMA BumpedInForce ==
    ASSUME TypeOK, TagsBounded, generation' = generation + 1,
           UNCHANGED <<poolGeneration, tag, job>>
    PROVE  TaggedInForce'
  <1>1. \A g \in Nat : g \leq generation => g # generation'
    BY DEF TypeOK
  <1>2. poolGeneration' # generation'
    BY <1>1 DEF TypeOK, TagsBounded
  <1>3. \A c \in Clients, w \in WakeWords : tag'[c][w] # generation'
    BY <1>1 DEF TypeOK, TagsBounded
  <1>4. \A c \in Clients : job'[c].generation # generation'
    BY <1>1, PlacesTyped DEF TypeOK, TagsBounded, JobRecord
  <1> QED
    BY <1>2, <1>3, <1>4 DEF TaggedInForce

\* A release puts back only what is in force.
LEMMA ReleaseInForce ==
    ASSUME TypeOK, TaggedInForce, Settled,
           NEW c \in Clients, NEW W \in SUBSET WakeWords, ReleaseDetectors(c, W),
           UNCHANGED <<generation, files, options>>, 0 < generation
    PROVE  PoolInForce' /\ \A d \in Clients, w \in WakeWords : DetectorInForce(d, w)'
  <1>1. \A i \in Returned(c, W) : InForce(i)
    BY DEF Returned, Current, TaggedInForce
  <1>2. Pool \in Places /\ Pool \notin DetectorPlaces(c, W)
    BY PlacesTyped, PlacesDiffer DEF DetectorPlaces
  <1>3. PoolInForce'
    BY <1>1, <1>2, SyncedInForce
       DEF PoolInForce, ReleaseDetectors, TaggedInForce, InForce
  <1>4. ASSUME NEW d \in Clients, NEW w \in WakeWords PROVE DetectorInForce(d, w)'
    <2>1. Detector(d, w) \in Places /\ Detector(d, w) # Pool
      BY PlacesTyped, PlacesDiffer
    <2>2. holds'[Detector(d, w)] \subseteq holds[Detector(d, w)]
      BY <2>1 DEF ReleaseDetectors
    <2>3. tag'[d][w] \in {tag[d][w], 0}
      BY DEF ReleaseDetectors, TypeOK
    <2>4. CASE tag'[d][w] = tag[d][w]
      BY <2>2, <2>4 DEF DetectorInForce, TaggedInForce, InForce
    <2>5. CASE tag'[d][w] = 0
      BY <2>5 DEF DetectorInForce
    <2> QED
      BY <2>3, <2>4, <2>5
  <1> QED
    BY <1>3, <1>4

\* Nor does using or resetting detectors put anything out of force.
LEMMA UsedInForce ==
    ASSUME TypeOK, TaggedInForce, Settled,
           UNCHANGED <<generation, files, options, poolGeneration, tag>>,
           \A p \in Places : \A j \in holds'[p] :
              \E i \in holds[p] : j.files = i.files /\ j.options = i.options
    PROVE  PoolInForce' /\ \A d \in Clients, w \in WakeWords : DetectorInForce(d, w)'
  BY PlacesTyped DEF PoolInForce, DetectorInForce, TaggedInForce, InForce

LEMMA ResetInForce ==
    ASSUME TypeOK, NEW c \in Clients,
           ResetDetectors(c) \/ HandleAudioChunk(c)
    PROVE  \A p \in Places : \A j \in holds'[p] :
              \E i \in holds[p] : j.files = i.files /\ j.options = i.options
  <1> SUFFICES ASSUME NEW p \in Places, NEW j \in holds'[p]
               PROVE  \E i \in holds[p] : j.files = i.files /\ j.options = i.options
    OBVIOUS
  <1>1. \E i \in holds[p] : j \in {i, Reset(i), Predict(i)}
    BY DEF ResetDetectors, HandleAudioChunk
  <1> QED
    BY <1>1, SameBuild DEF TypeOK

\* Calls whose job and interpreters a step leaves alone stay in force.
LEMMA CallKept ==
    ASSUME TaggedInForce, Settled, NEW d \in Clients,
           UNCHANGED <<generation, files, options>>,
           job'[d] = job[d], holds'[Job(d)] = holds[Job(d)]
    PROVE  CallInForce(d)'
  BY DEF CallInForce, TaggedInForce, InForce

\* The step of a worker thread keeps everything in force.
LEMMA ThreadInForce ==
    ASSUME TypeOK, TagsBounded, TaggedInForce, Settled,
           NEW t \in Clients, ThreadStep(t)
    PROVE  TaggedInForce'
  <1>0. \A d \in Clients : d \in Threads /\ Job(d) \in Places /\ Job(d) # Pool
    BY PlacesTyped, PlacesDiffer
  <1>1. UNCHANGED <<loop, generation, files, options, tag>>
    BY DEF ThreadStep, PopIdle, FindNoneIdle, ReadOptions, BuildInterpreter, LoadFails,
           serverVars
  <1>2. \A d \in Clients : d # t => CallInForce(d)'
    <2>1. \A d \in Clients : d # t => job'[d] = job[d] /\ holds'[Job(d)] = holds[Job(d)]
      BY <1>0, PlacesDiffer, PlacesTyped
         DEF TypeOK, ThreadStep, PopIdle, FindNoneIdle, ReadOptions, BuildInterpreter,
             LoadFails
    <2> QED
      BY <1>1, <2>1, CallKept
  <1>3. \A d \in Clients, w \in WakeWords : DetectorInForce(d, w)'
    <2>1. \A d \in Clients, w \in WakeWords :
            holds'[Detector(d, w)] = holds[Detector(d, w)]
      BY <1>0, PlacesDiffer, PlacesTyped
         DEF TypeOK, ThreadStep, PopIdle, FindNoneIdle, ReadOptions, BuildInterpreter,
             LoadFails
    <2> QED
      BY <1>1, <2>1 DEF DetectorInForce, TaggedInForce, InForce
  <1>4. PoolInForce'
    <2>1. CASE PopIdle(t) \/ FindNoneIdle(t)
      <3>1. holds'[Pool] \subseteq SyncedPool
        BY <2>1, <1>0, PlacesTyped DEF PopIdle, FindNoneIdle, TypeOK
      <3> QED
        BY <1>1, <3>1, SyncedInForce DEF PoolInForce, InForce
    <2>2. CASE ReadOptions(t) \/ BuildInterpreter(t) \/ LoadFails(t)
      <3>1. holds'[Pool] = holds[Pool] /\ poolGeneration' = poolGeneration
        BY <2>2, <1>0, PlacesTyped DEF ReadOptions, BuildInterpreter, LoadFails, TypeOK
      <3> QED
        BY <1>1, <3>1 DEF PoolInForce, TaggedInForce, InForce
    <2> QED
      BY <2>1, <2>2 DEF ThreadStep
  <1>5. CallInForce(t)'
    <2> USE <1>0
    <2>1. CASE PopIdle(t)
      <3>1. PICK i \in SyncedPool : holds'[Job(t)] = holds[Job(t)] \cup {Reset(i)}
        BY <2>1, PlacesTyped DEF PopIdle, TypeOK
      <3>2. InForce(i) /\ Reset(i).files = i.files /\ Reset(i).options = i.options
        BY <3>1, SyncedInForce, SyncedPoolTyped, SameBuild
      <3>3. job' = job
        BY <2>1 DEF PopIdle
      <3>4. job[t].phase = "acquire"
        BY <2>1 DEF PopIdle
      <3> QED
        BY <1>1, <3>1, <3>2, <3>3, <3>4 DEF CallInForce, TaggedInForce, InForce
    <2>2. CASE FindNoneIdle(t)
      <3>1. holds'[Job(t)] = holds[Job(t)]
        BY <2>2, PlacesTyped DEF FindNoneIdle, TypeOK
      <3>2. /\ job'[t].generation = job[t].generation
            /\ job'[t].phase = "load" /\ job[t].phase = "acquire"
        BY <2>2 DEF FindNoneIdle, TypeOK, JobRecord
      <3> QED
        BY <1>1, <3>1, <3>2 DEF CallInForce, TaggedInForce, InForce
    <2>3. CASE ReadOptions(t)
      <3>1. holds'[Job(t)] = holds[Job(t)]
        BY <2>3 DEF ReadOptions
      <3>2. /\ job'[t].generation = job[t].generation
            /\ job'[t].options = options /\ job[t].phase = "load"
        BY <2>3 DEF ReadOptions, TypeOK, JobRecord
      <3> QED
        BY <1>1, <3>1, <3>2 DEF CallInForce, TaggedInForce, InForce
    <2>4. CASE BuildInterpreter(t)
      <3>0. PICK n \in Ids :
              holds' = [holds EXCEPT ![Job(t)] = @ \cup
                          {[id |-> n, model |-> job[t].model, files |-> files,
                            options |-> job[t].options, used |-> FALSE]}]
        BY <2>4 DEF BuildInterpreter
      <3> DEFINE i == [id |-> n, model |-> job[t].model, files |-> files,
                       options |-> job[t].options, used |-> FALSE]
      <3>1. /\ holds'[Job(t)] = holds[Job(t)] \cup {i}
            /\ i.files = files /\ i.options = job[t].options
        BY <3>0 DEF TypeOK
      <3> HIDE DEF i
      <3>2. /\ job'[t].generation = job[t].generation
            /\ job'[t].phase = "acquire" /\ job[t].phase = "build"
        BY <2>4 DEF BuildInterpreter, TypeOK, JobRecord
      <3> QED
        BY <1>1, <3>1, <3>2 DEF CallInForce, TaggedInForce, InForce
    <2>5. CASE LoadFails(t)
      <3>1. holds'[Job(t)] = {}
        BY <2>5 DEF LoadFails, TypeOK
      <3>2. job'[t].phase = "failed"
        BY <2>5 DEF LoadFails, TypeOK, JobRecord
      <3> QED
        BY <1>1, <3>1, <3>2 DEF CallInForce
    <2> QED
      BY <2>1, <2>2, <2>3, <2>4, <2>5 DEF ThreadStep
  <1> QED
    BY <1>2, <1>3, <1>4, <1>5
       DEF TaggedInForce, PoolInForce, DetectorInForce, CallInForce

\* Ending a call with a release, and a release alone, keep everything in force.
LEMMA ReleaseStepInForce ==
    ASSUME TypeOK, TagsBounded, TaggedInForce, Settled,
           NEW c \in Clients, NEW W \in SUBSET WakeWords, ReleaseDetectors(c, W),
           UNCHANGED <<generation, files, options>>,
           \A d \in Clients : job'[d] = job[d] \/ job'[d].phase = "none"
    PROVE  TaggedInForce'
  <1>1. PoolInForce' /\ \A d \in Clients, w \in WakeWords : DetectorInForce(d, w)'
    BY ReleaseInForce DEF TagsBounded
  <1>2. \A d \in Clients : holds'[Job(d)] = holds[Job(d)]
    BY ReleaseLeavesJobs, PlacesTyped
  <1>3. ASSUME NEW d \in Clients PROVE CallInForce(d)'
    <2>1. CASE job'[d] = job[d]
      BY <1>2, <2>1, CallKept
    <2>2. CASE job'[d].phase = "none"
      BY <2>2 DEF CallInForce
    <2> QED
      BY <2>1, <2>2
  <1> QED
    BY <1>1, <1>3 DEF TaggedInForce, PoolInForce, DetectorInForce, CallInForce

\* So do resetting and predicting.
LEMMA UsedStepInForce ==
    ASSUME TypeOK, TaggedInForce, Settled, NEW c \in Clients,
           ResetDetectors(c) \/ HandleAudioChunk(c),
           UNCHANGED <<generation, files, options, poolGeneration, tag, job>>
    PROVE  TaggedInForce'
  <1>1. PoolInForce' /\ \A d \in Clients, w \in WakeWords : DetectorInForce(d, w)'
    BY ResetInForce, UsedInForce
  <1>2. \A d \in Clients : holds'[Job(d)] = holds[Job(d)]
    BY PlacesTyped, PlacesDiffer DEF ResetDetectors, HandleAudioChunk, DetectorPlaces
  <1>3. \A d \in Clients : CallInForce(d)'
    BY <1>2, CallKept
  <1> QED
    BY <1>1, <1>3 DEF TaggedInForce, PoolInForce, DetectorInForce, CallInForce

\* A change without a bump is recorded until the next bump.
LEMMA StepAnnounces ==
    [Next]_vars => generation' = generation + 1 \/ (unannounced => unannounced')
  <1> SUFFICES ASSUME Next
               PROVE  generation' = generation + 1 \/ (unannounced => unannounced')
    BY DEF vars, serverVars
  <1>1. CASE UNCHANGED serverVars
    BY <1>1 DEF serverVars
  <1>2. CASE ApiStep \/ ApiRequest
    BY <1>2 DEF ApiStep, ApiRequest, CommitFiles, RollBackFiles, EscapeFiles, Bump,
                SettingsApplied, WriteFiles, Rescan, ApplySettings, RefuseSettings, EditByHand
  <1> QED
    BY <1>1, <1>2
       DEF Next, WarmUp, StartServers, ThreadStep, PopIdle, FindNoneIdle, ReadOptions,
           BuildInterpreter, LoadFails, Serve, AcquireNext, WordVanished, AcquireRaised,
           InstallDetector, EndDetect, EndReload, Receive, Connect, HandleDetect,
           HandleAudioStart, HandleAudioChunk, ClientLeaves, RequestTest, TestStep,
           StartTest, ScoreRecording, CheckGeneration, ReturnToPool

\* A bump touches nothing that carries a generation.
LEMMA BumpKeepsTags ==
    TypeOK /\ [Next]_vars /\ generation' = generation + 1 => UNCHANGED <<poolGeneration, tag, job>>
  <1> SUFFICES ASSUME TypeOK, Next, generation' = generation + 1
               PROVE  UNCHANGED <<poolGeneration, tag, job>>
    BY DEF vars, serverVars, TypeOK
  <1>1. CASE UNCHANGED serverVars
    BY <1>1 DEF serverVars, TypeOK
  <1>2. CASE ApiStep \/ ApiRequest
    BY <1>2 DEF ApiStep, ApiRequest, CommitFiles, RollBackFiles, EscapeFiles, Bump,
                SettingsApplied, WriteFiles, Rescan, ApplySettings, RefuseSettings,
                EditByHand, otherVars
  <1> QED
    BY <1>1, <1>2
       DEF Next, WarmUp, StartServers, ThreadStep, PopIdle, FindNoneIdle, ReadOptions,
           BuildInterpreter, LoadFails, Serve, AcquireNext, WordVanished, AcquireRaised,
           InstallDetector, EndDetect, EndReload, Receive, Connect, HandleDetect,
           HandleAudioStart, HandleAudioChunk, ClientLeaves, RequestTest, TestStep,
           StartTest, ScoreRecording, CheckGeneration, ReturnToPool

\* Every step keeps what carries the current generation in force.
LEMMA NextInForce ==
    ASSUME NoRecordings, TypeOK, FreshInv, [Next]_vars
    PROVE  TaggedInForce'
  <1> USE DEF FreshInv
  <1> SUFFICES ASSUME ~unannounced', generation' # generation + 1 PROVE TaggedInForce'
    <2>1. generation' = generation + 1 => TaggedInForce'
      BY BumpKeepsTags, BumpedInForce
    <2> QED
      BY <2>1 DEF TaggedInForce, Settled
  <1>n. ~unannounced
    BY StepAnnounces
  <1>0. /\ Threads = Clients /\ Recorders = {}
        /\ "idle" \notin Clients /\ "upload" \notin Clients /\ "patch" \notin Clients
    BY PoolAssumption DEF NoRecordings, Threads, LoopOwners
  <1>1. \A d \in Clients : loop \in {d, "idle", "warm_up"} => Settled
    BY <1>0, <1>n DEF Settled
  <1>2. CASE WarmUp
    <2>1. /\ UNCHANGED <<generation, files, options, poolGeneration, tag, job>>
          /\ \A d \in Clients : holds'[Job(d)] = holds[Job(d)]
          /\ \A d \in Clients, w \in WakeWords :
               holds'[Detector(d, w)] = holds[Detector(d, w)]
      BY <1>2, PlacesTyped, PlacesDiffer DEF WarmUp, serverVars, TypeOK
    <2>2. PICK m \in Models, n \in Ids :
            holds' = [holds EXCEPT ![Pool] = @ \cup
                        {[id |-> n, model |-> m, files |-> files,
                          options |-> options, used |-> FALSE]}]
      <3>1. WarmUpModels \subseteq Models
        BY DefaultTyped, PoolAssumption DEF WarmUpModels, TypeOK
      <3> QED
        BY <1>2, <3>1 DEF WarmUp
    <2> DEFINE new == [id |-> n, model |-> m, files |-> files,
                       options |-> options, used |-> FALSE]
    <2>3. /\ holds'[Pool] = holds[Pool] \cup {new}
          /\ new.files = files /\ new.options = options
      BY <2>2, PlacesTyped DEF TypeOK
    <2> HIDE DEF new
    <2>4. Settled
      BY <1>2, <1>n DEF WarmUp, Settled
    <2> QED
      BY <2>1, <2>3, <2>4 DEF TaggedInForce, InForce
  <1>3. CASE StartServers
    <2>1. Settled /\ UNCHANGED <<generation, files, options, poolGeneration, tag, job, holds>>
      BY <1>3, <1>n DEF StartServers, Settled, serverVars
    <2> QED
      BY <2>1 DEF TaggedInForce, InForce
  <1>4. ASSUME NEW t \in Threads, ThreadStep(t) PROVE TaggedInForce'
    <2>1. CASE Settled
      BY <1>0, <1>4, <2>1, ThreadInForce
    <2>2. CASE ~Settled
      <3>1. loop' = loop
        BY <1>4 DEF ThreadStep, PopIdle, FindNoneIdle, ReadOptions, BuildInterpreter,
                    LoadFails
      <3> QED
        BY <2>2, <3>1, <1>n DEF TaggedInForce, Settled
    <2> QED
      BY <2>1, <2>2
  <1>5. ASSUME NEW c \in Clients, Serve(c) PROVE TaggedInForce'
    <2>1. CASE AcquireNext(c)
      <3>0. Settled /\ c \in Threads
        BY <1>0, <1>1, <2>1 DEF AcquireNext
      <3>1. UNCHANGED <<generation, files, options, poolGeneration, tag, holds>>
        BY <2>1 DEF AcquireNext, serverVars
      <3>2. holds[Job(c)] = {}
        BY <2>1 DEF AcquireNext, CallsAwaited
      <3>3. \A d \in Clients : d # c => job'[d] = job[d]
        BY <2>1, <1>0 DEF AcquireNext, TypeOK
      <3>4. job'[c].phase = "acquire"
        BY <2>1, <3>0, StartedJob DEF AcquireNext, TypeOK
      <3>5. CallInForce(c)'
        BY <3>1, <3>2, <3>4 DEF CallInForce
      <3>6. \A d \in Clients : d # c => CallInForce(d)'
        BY <3>0, <3>1, <3>3, CallKept
      <3> QED
        BY <3>0, <3>1, <3>5, <3>6 DEF TaggedInForce, CallInForce, InForce
    <2>2. CASE WordVanished(c)
      BY <1>1, <2>2, ReleaseStepInForce DEF WordVanished, Disconnect, serverVars
    <2>3. CASE AcquireRaised(c)
      <3>1. \A d \in Clients : job'[d] = job[d] \/ job'[d].phase = "none"
        BY <1>0, <2>3, IdleJob DEF AcquireRaised, TypeOK
      <3> QED
        BY <1>1, <2>3, <3>1, ReleaseStepInForce DEF AcquireRaised, Disconnect, serverVars
    <2>4. CASE InstallDetector(c)
      <3>0. Settled /\ c \in Threads
        BY <1>0, <1>1, <2>4 DEF InstallDetector
      <3>w. PICK w0 \in WakeWords : w0 = job[c].word
        BY <3>0 DEF TypeOK, JobRecord
      <3>1. /\ UNCHANGED <<generation, files, options, poolGeneration>>
            /\ job[c].phase = "acquire"
            /\ tag'[c][w0] = job[c].generation
            /\ \A d \in Clients, w \in WakeWords :
                 d # c \/ w # w0 => tag'[d][w] = tag[d][w]
        BY <2>4, <3>0, <3>w DEF InstallDetector, Acquired, TypeOK, serverVars
      <3>2. /\ holds'[Detector(c, w0)] = holds[Job(c)]
            /\ holds'[Pool] = holds[Pool]
            /\ \A d \in Clients : d # c => holds'[Job(d)] = holds[Job(d)]
            /\ \A d \in Clients, w \in WakeWords :
                 d # c \/ w # w0 => holds'[Detector(d, w)] = holds[Detector(d, w)]
        BY <2>4, <3>0, <3>w, <1>0, PlacesTyped, PlacesDiffer DEF InstallDetector, TypeOK
      <3>3. /\ job'[c].phase = "none"
            /\ \A d \in Clients : d # c => job'[d] = job[d]
        BY <2>4, <1>0, IdleJob DEF InstallDetector, TypeOK
      <3>4. DetectorInForce(c, w0)'
        <4>1. job[c].generation = generation => \A i \in holds[Job(c)] : InForce(i)
          BY <3>0, <3>1 DEF TaggedInForce
        <4> QED
          BY <3>1, <3>2, <4>1 DEF DetectorInForce, InForce
      <3>5. \A d \in Clients, w \in WakeWords : DetectorInForce(d, w)'
        BY <3>0, <3>1, <3>2, <3>4 DEF DetectorInForce, TaggedInForce, InForce
      <3>6. \A d \in Clients : CallInForce(d)'
        <4>1. CallInForce(c)'
          BY <3>3 DEF CallInForce
        <4>2. \A d \in Clients : d # c => CallInForce(d)'
          BY <3>0, <3>1, <3>2, <3>3, CallKept
        <4> QED
          BY <4>1, <4>2
      <3>7. PoolInForce'
        BY <3>0, <3>1, <3>2 DEF PoolInForce, TaggedInForce, InForce
      <3> QED
        BY <3>5, <3>6, <3>7 DEF TaggedInForce, PoolInForce, DetectorInForce, CallInForce
    <2>5. CASE EndDetect(c)
      BY <1>1, <2>5, ReleaseStepInForce DEF EndDetect, serverVars
    <2>6. CASE EndReload(c)
      <3>0. /\ Settled
            /\ UNCHANGED <<generation, files, options, poolGeneration, tag, job>>
        BY <1>1, <2>6 DEF EndReload, serverVars
      <3>1. CASE ResetDetectors(c)
        BY <3>0, <3>1, UsedStepInForce
      <3>2. CASE UNCHANGED holds
        BY <3>0, <3>2 DEF TaggedInForce, InForce
      <3> QED
        BY <2>6, <3>1, <3>2 DEF EndReload
    <2> QED
      BY <1>5, <2>1, <2>2, <2>3, <2>4, <2>5, <2>6 DEF Serve
  <1>6. ASSUME NEW c \in Clients, Receive(c) PROVE TaggedInForce'
    <2>0. /\ Settled
          /\ UNCHANGED <<generation, files, options, job>>
      BY <1>1, <1>6
         DEF Receive, Connect, HandleDetect, HandleAudioStart, HandleAudioChunk,
             ClientLeaves, serverVars
    <2>1. CASE ReleaseDetectors(c, WakeWords)
      BY <2>0, <2>1, ReleaseStepInForce
    <2>2. CASE /\ ResetDetectors(c) \/ HandleAudioChunk(c)
               /\ UNCHANGED <<poolGeneration, tag>>
      BY <2>0, <2>2, UsedStepInForce
    <2>3. CASE UNCHANGED <<poolGeneration, tag, holds>>
      BY <2>0, <2>3 DEF TaggedInForce, InForce
    <2> QED
      BY <1>6, <2>1, <2>2, <2>3
         DEF Receive, Connect, HandleDetect, HandleAudioStart, HandleAudioChunk,
             ClientLeaves, Disconnect
  <1>7. CASE ApiStep \/ ApiRequest
    <2>1. WriteFiles \/ ApplySettings \/ EditByHand
      BY <1>7 DEF ApiStep, ApiRequest, CommitFiles, RollBackFiles, EscapeFiles, Bump,
                  SettingsApplied, Rescan, RefuseSettings
    <2>2. CASE WriteFiles \/ ApplySettings
      BY <2>2 DEF WriteFiles, ApplySettings, TaggedInForce, Settled
    <2>3. CASE EditByHand
      BY <2>3 DEF EditByHand, otherVars, TaggedInForce, Settled, InForce
    <2> QED
      BY <2>1, <2>2, <2>3
  <1>8. CASE UNCHANGED vars
    BY <1>8 DEF vars, serverVars, TaggedInForce, Settled, InForce
  <1> QED
    BY <1>0, <1>2, <1>3, <1>4, <1>5, <1>6, <1>7, <1>8 DEF Next

\* The inductive invariant holds.
LEMMA FreshInvariant ==
    ASSUME NoRecordings
    PROVE  Spec => [](TypeOK /\ FreshInv)
  <1>1. Init => TypeOK /\ FreshInv
    <2> SUFFICES ASSUME Init PROVE FreshInv
      BY InitTyped
    <2>1. TagsBounded
      BY PlacesTyped, IdleJob DEF Init, TagsBounded
    <2>2. CallsAwaited
      BY PlacesTyped, IdleJob, PoolAssumption DEF Init, CallsAwaited, LoopOwners
    <2>3. TaggedInForce
      BY PlacesTyped, IdleJob DEF Init, TaggedInForce
    <2> QED
      BY <2>1, <2>2, <2>3 DEF FreshInv
  <1>2. TypeOK /\ FreshInv /\ [Next]_vars => (TypeOK /\ FreshInv)'
    <2> SUFFICES ASSUME TypeOK, FreshInv, [Next]_vars PROVE TypeOK' /\ FreshInv'
      OBVIOUS
    <2>1. TypeOK' /\ TagsBounded' /\ CallsAwaited' /\ TaggedInForce'
      BY NextTyped, NextBounded, NextAwaited, NextInForce DEF FreshInv
    <2> QED
      BY <2>1 DEF FreshInv
  <1> QED
    BY <1>1, <1>2, PTL DEF Spec

\* A pooled interpreter that would be handed out was built from the files and
\* options in force, unless a change was made without a bump since the last one,
\* as long as no recording is tested (pool_test_race shows what a recording test
\* does): with any number of clients, changes, refused patches, hand edits and
\* exceptions that leave files in place.
THEOREM PooledInForce == ASSUME NoRecordings PROVE Spec => []PoolFresh
  <1>1. TypeOK /\ FreshInv => PoolFresh
    BY DEF FreshInv, TaggedInForce, Settled, PoolFresh, InForce
  <1> QED
    BY <1>1, FreshInvariant, PTL

\* Under the same hypothesis, a stream that starts without a reload is scored
\* by interpreters built from the files and options in force.
THEOREM StreamsInForce == ASSUME NoRecordings PROVE Spec => StreamsStartFresh
  <1>1. ASSUME TypeOK, FreshInv, NEW c \in Clients,
               ~unannounced, mode[c] = "ready", HandleAudioStart(c), mode'[c] = "ready"
        PROVE  \A w \in Detectors(c) : \A i \in holds[Detector(c, w)] :
                  i.files = files /\ i.options = options
    <2>1. loop = "idle" /\ ~AnyStale(c)
      BY <1>1 DEF HandleAudioStart, BeginFallback, TypeOK
    <2> QED
      <3> SUFFICES ASSUME NEW w \in Detectors(c), NEW i \in holds[Detector(c, w)]
                   PROVE  i.files = files /\ i.options = options
        OBVIOUS
      <3>1. w \in WakeWords /\ tag[c][w] = generation
        BY <2>1 DEF AnyStale, Detectors
      <3>2. InForce(i)
        BY <1>1, <2>1, <3>1 DEF FreshInv, TaggedInForce, Settled
      <3> QED
        BY <3>2 DEF InForce
  <1>2. TypeOK /\ FreshInv /\ [Next]_vars =>
          [\A c \in Clients :
             ~unannounced /\ mode[c] = "ready" /\ HandleAudioStart(c) /\ mode'[c] = "ready"
                => \A w \in Detectors(c) : \A i \in holds[Detector(c, w)] :
                      i.files = files /\ i.options = options]_vars
    BY <1>1
  <1> QED
    BY <1>2, FreshInvariant, PTL DEF Spec, StreamsStartFresh
=============================================================================
