--------------------------- MODULE InterpreterPool ---------------------------
(***************************************************************************)
(* The interpreters of the wake word server and everyone who uses them:     *)
(* the pool of interpreters.py, the Wyoming client handlers of handler.py,  *)
(* the recording test and the model and settings changes of http_api.py.    *)
(*                                                                          *)
(* The server is one asyncio event loop plus worker threads.  `loop' says   *)
(* what runs on the event loop; a handler keeps it between two awaits, so a *)
(* run of code without an await is not interrupted by another handler.      *)
(* Worker threads (the asyncio.to_thread calls) run at any time and only    *)
(* the manager's lock orders them among themselves.                         *)
(*                                                                          *)
(* An interpreter is a record: an identity, the model it was loaded for,    *)
(* the version of the model files and of the load options it was built      *)
(* from, and whether it holds another stream's audio.  The places that can  *)
(* refer to an interpreter are the pool, the dictionary a worker thread is  *)
(* filling and the detectors of a client.                                   *)
(***************************************************************************)
EXTENDS Naturals, FiniteSets

CONSTANTS
    Clients,        \* Wyoming connections (satellites, Home Assistant)
    Recorders,      \* concurrent POST /api/test requests
    WakeWords,      \* ids that can appear in state.models
    Models,         \* ONNX models that can back a wake word
    Members,        \* Members[w]: the model of w, or the members of ensemble w
    DefaultWord,    \* --default-model
    Ids,            \* identities of interpreter objects
    MaxEdits        \* bound on the changes to files and settings in a behaviour

Threads == Clients \cup Recorders

LoopOwners == {"idle", "warm_up", "upload", "patch"}

ASSUME PoolAssumption ==
    /\ Clients \cap Recorders = {}
    /\ LoopOwners \cap Clients = {}
    /\ Members \in [WakeWords -> (SUBSET Models) \ {{}}]
    /\ DefaultWord \in WakeWords
    /\ MaxEdits \in Nat

VARIABLES
    loop,           \* who runs on the event loop: "idle", a client, or the API
    generation,     \* state.generation
    served,         \* keys of state.models
    files,          \* version of the model files on disk
    options,        \* version of settings.cascade, gate_threshold, vad_threshold
    savedFiles,     \* `originals' of _apply_changes
    directoryValid, \* discover_models would accept the files not being changed
    edits,          \* versions used so far
    unannounced,    \* history: files or options changed since the last bump, without one
    poolGeneration, \* InterpreterManager._generation
    holds,          \* interpreters referred to from each place
    tag,            \* Detector.generation of each client's detectors
    job,            \* what each worker thread is doing
    mode,           \* where each client's handler is
    want            \* model_ids of the _handle_detect call in progress

serverVars ==
    <<generation, served, files, options, savedFiles, directoryValid, edits, unannounced>>
vars == <<loop, serverVars, poolGeneration, holds, tag, job, mode, want>>

----------------------------------------------------------------------------
(* Interpreters and the places that refer to them                            *)

Interpreter ==
    [id : Ids, model : Models, files : Nat, options : Nat, used : BOOLEAN]

Pool == <<"pool">>
Job(t) == <<"job", t>>
Detector(c, w) == <<"detector", c, w>>

Places ==
    {Pool} \cup {Job(t) : t \in Threads}
           \cup {Detector(c, w) : c \in Clients, w \in WakeWords}

Detectors(c) == {w \in WakeWords : holds[Detector(c, w)] # {}}
DetectorPlaces(c, W) == {Detector(c, w) : w \in W}

UsedIds == UNION {{i.id : i \in holds[p]} : p \in Places}

Reset_Forgotten(i) == i     \* mutant: reset() not called
Reset(i) == [i EXCEPT !.used = FALSE]
Predict(i) == [i EXCEPT !.used = TRUE]

ModelsOf(S) == {i.model : i \in S}

NoJob == [phase |-> "none", word |-> DefaultWord, generation |-> 0,
          model |-> CHOOSE m \in Models : TRUE, options |-> 0]

TestPhases == {"queued", "scored", "pooling"}
Phases == {"none", "acquire", "load", "build", "failed"} \cup TestPhases

Modes == {"off", "ready", "detect", "reload", "fallback"}

JobRecord == [phase : Phases, word : WakeWords, generation : Nat,
              model : Models, options : Nat]

\* Type invariant, with who can be in which phase: only a client call is left
\* "failed" (for handle_event to end the connection), a failed recording test
\* is gone with its request.
TypeOK ==
    /\ loop \in LoopOwners \cup Clients
    /\ generation \in Nat /\ poolGeneration \in Nat
    /\ served \subseteq WakeWords
    /\ files \in Nat /\ options \in Nat /\ savedFiles \in Nat
    /\ directoryValid \in BOOLEAN /\ unannounced \in BOOLEAN
    /\ edits \in 0..MaxEdits
    /\ holds \in [Places -> SUBSET Interpreter]
    /\ tag \in [Clients -> [WakeWords -> Nat]]
    /\ job \in [Threads -> JobRecord]
    /\ \A c \in Clients : job[c].phase \notin TestPhases
    /\ \A r \in Recorders : job[r].phase # "failed"
    /\ mode \in [Clients -> Modes]
    /\ want \in [Clients -> SUBSET WakeWords]

----------------------------------------------------------------------------
(* The manager: acquire, load, release                                       *)

\* Only the recording test releases from a thread that can be interrupted
\* between its check and its append; it holds the manager's lock meanwhile.
LockFree == \A r \in Recorders : job[r].phase # "pooling"

\* The pool as _sync_generation leaves it.
SyncedPool_Kept == holds[Pool]      \* mutant: _idle.clear() missing
SyncedPool == IF poolGeneration = generation THEN holds[Pool] ELSE {}

Missing(t) == Members[job[t].word] \ ModelsOf(holds[Job(t)])
Acquired(t) == job[t].phase = "acquire" /\ Missing(t) = {}

\* acquire_for_entry, next model: an idle interpreter is popped and reset.
PopIdle_Peek(t) ==          \* mutant: idle[-1] instead of idle.pop()
    /\ job[t].phase = "acquire" /\ LockFree
    /\ \E i \in SyncedPool :
          /\ i.model \in Missing(t)
          /\ holds' = [holds EXCEPT ![Pool] = SyncedPool,
                                    ![Job(t)] = @ \cup {Reset(i)}]
    /\ poolGeneration' = generation
    /\ UNCHANGED <<loop, serverVars, tag, job, mode, want>>

PopIdle(t) ==
    /\ job[t].phase = "acquire" /\ LockFree
    /\ \E i \in SyncedPool :
          /\ i.model \in Missing(t)
          /\ holds' = [holds EXCEPT ![Pool] = SyncedPool \ {i},
                                    ![Job(t)] = @ \cup {Reset(i)}]
    /\ poolGeneration' = generation
    /\ UNCHANGED <<loop, serverVars, tag, job, mode, want>>

\* acquire_for_entry, next model: none is idle, it has to be loaded.
FindNoneIdle(t) ==
    /\ job[t].phase = "acquire" /\ LockFree
    /\ \E m \in Missing(t) \ ModelsOf(SyncedPool) :
          job' = [job EXCEPT ![t].phase = "load", ![t].model = m]
    /\ holds' = [holds EXCEPT ![Pool] = SyncedPool]
    /\ poolGeneration' = generation
    /\ UNCHANGED <<loop, serverVars, tag, mode, want>>

\* _load reads the settings first ...
ReadOptions(t) ==
    /\ job[t].phase = "load"
    /\ job' = [job EXCEPT ![t].phase = "build", ![t].options = options]
    /\ UNCHANGED <<loop, serverVars, poolGeneration, holds, tag, mode, want>>

\* ... and the factory reads the files later, without the lock.
BuildInterpreter(t) ==
    /\ job[t].phase = "build"
    /\ \E n \in Ids \ UsedIds :
          LET i == [id |-> n, model |-> job[t].model, files |-> files,
                    options |-> job[t].options, used |-> FALSE]
          IN  holds' = [holds EXCEPT ![Job(t)] = @ \cup {i}]
    /\ job' = [job EXCEPT ![t].phase = "acquire"]
    /\ UNCHANGED <<loop, serverVars, poolGeneration, tag, mode, want>>

\* The model is gone or its file does not load: what the call had acquired
\* is dropped with it.
LoadFails_Ignored(t) ==     \* mutant: the failure reaches nobody
    /\ job[t].phase \in {"load", "build"}
    /\ job' = [job EXCEPT ![t] = NoJob]
    /\ holds' = [holds EXCEPT ![Job(t)] = {}]
    /\ UNCHANGED <<loop, serverVars, poolGeneration, tag, mode, want>>

LoadFails_Lingers(t) ==     \* mutant: a failed recording test is kept
    /\ job[t].phase \in {"load", "build"}
    /\ job' = [job EXCEPT ![t].phase = "failed"]
    /\ holds' = [holds EXCEPT ![Job(t)] = {}]
    /\ UNCHANGED <<loop, serverVars, poolGeneration, tag, mode, want>>

LoadFails(t) ==
    /\ job[t].phase \in {"load", "build"}
    /\ job' = IF t \in Clients THEN [job EXCEPT ![t].phase = "failed"]
                               ELSE [job EXCEPT ![t] = NoJob]
    /\ holds' = [holds EXCEPT ![Job(t)] = {}]
    /\ UNCHANGED <<loop, serverVars, poolGeneration, tag, mode, want>>

\* `release' for each detector of W: what a release keeps, and the pool then.
Current(c, W) == {w \in W : holds[Detector(c, w)] # {} /\ tag[c][w] = generation}
Returned(c, W) == UNION {holds[Detector(c, w)] : w \in Current(c, W)}

\* _release_detectors runs on the event loop: nothing changes the generation
\* between the check and the append.
ReleaseDetectors(c, W) ==
    /\ LockFree
    /\ IF Current(c, W) = {}
       THEN /\ holds' = [p \in Places |->
                            IF p \in DetectorPlaces(c, W) THEN {} ELSE holds[p]]
            /\ UNCHANGED poolGeneration
       ELSE /\ holds' = [p \in Places |->
                            IF p \in DetectorPlaces(c, W) THEN {}
                            ELSE IF p = Pool THEN SyncedPool \cup Returned(c, W)
                            ELSE holds[p]]
            /\ poolGeneration' = generation
    /\ tag' = [tag EXCEPT ![c] = [w \in WakeWords |->
                                    IF w \in W THEN 0 ELSE @[w]]]

\* main(): warm_up of the default wake word, before any server listens.
DefaultIds ==
    IF served = {} THEN {}
    ELSE IF DefaultWord \in served THEN {DefaultWord}
    ELSE {CHOOSE w \in served : TRUE}

WarmUpModels == UNION {Members[w] : w \in DefaultIds}

WarmUp ==
    /\ loop = "warm_up"
    /\ \E m \in WarmUpModels \ ModelsOf(holds[Pool]), n \in Ids \ UsedIds :
          holds' = [holds EXCEPT ![Pool] = @ \cup
                      {[id |-> n, model |-> m, files |-> files,
                        options |-> options, used |-> FALSE]}]
    /\ UNCHANGED <<loop, serverVars, poolGeneration, tag, job, mode, want>>

StartServers ==
    /\ loop = "warm_up"
    /\ WarmUpModels \subseteq ModelsOf(holds[Pool])
    /\ loop' = "idle"
    /\ UNCHANGED <<serverVars, poolGeneration, holds, tag, job, mode, want>>

----------------------------------------------------------------------------
(* The client handlers                                                       *)

Resolve(names) == IF names \cap served # {} THEN names \cap served ELSE DefaultIds

Connect(c) ==
    /\ loop = "idle" /\ mode[c] = "off"
    /\ mode' = [mode EXCEPT ![c] = "ready"]
    /\ UNCHANGED <<loop, serverVars, poolGeneration, holds, tag, job, want>>

\* The Detect event.
HandleDetect(c) ==
    /\ loop = "idle" /\ mode[c] = "ready"
    /\ \E names \in SUBSET WakeWords :
          want' = [want EXCEPT ![c] = Resolve(names)]
    /\ mode' = [mode EXCEPT ![c] = "detect"]
    /\ loop' = c
    /\ UNCHANGED <<serverVars, poolGeneration, holds, tag, job>>

\* The handler loses its detectors and the connection: a client that goes
\* away between events, or an exception that escapes handle_event.
Disconnect(c) ==
    /\ ReleaseDetectors(c, WakeWords)
    /\ mode' = [mode EXCEPT ![c] = "off"]
    /\ want' = [want EXCEPT ![c] = {}]

ClientLeaves(c) ==
    /\ loop = "idle" /\ mode[c] = "ready"
    /\ Disconnect(c)
    /\ UNCHANGED <<loop, serverVars, job>>

\* _handle_detect: the next wake word without a detector goes to a thread.
AcquireNext(c) ==
    /\ loop = c
    /\ \E w \in want[c] \ Detectors(c) :
          /\ w \in served
          /\ job' = [job EXCEPT ![c] = [NoJob EXCEPT !.phase = "acquire",
                                          !.word = w, !.generation = generation]]
    /\ loop' = "idle"
    /\ UNCHANGED <<serverVars, poolGeneration, holds, tag, mode, want>>

\* _handle_detect: state.models[model_id] when the wake word has been
\* unserved since the names were resolved raises a KeyError.
WordVanished(c) ==
    /\ loop = c
    /\ want[c] \ (Detectors(c) \cup served) # {}
    /\ Disconnect(c)
    /\ loop' = "idle"
    /\ UNCHANGED <<serverVars, job>>

AcquireRaised(c) ==
    /\ loop = "idle" /\ job[c].phase = "failed"
    /\ Disconnect(c)
    /\ job' = [job EXCEPT ![c] = NoJob]
    /\ UNCHANGED <<loop, serverVars>>

\* The await returns: the interpreters become a detector.
InstallDetector(c) ==
    /\ loop = "idle" /\ Acquired(c)
    /\ holds' = [holds EXCEPT ![Job(c)] = {},
                              ![Detector(c, job[c].word)] = holds[Job(c)]]
    /\ tag' = [tag EXCEPT ![c][job[c].word] = job[c].generation]
    /\ job' = [job EXCEPT ![c] = NoJob]
    /\ loop' = c
    /\ UNCHANGED <<serverVars, poolGeneration, mode, want>>

\* _handle_detect ends: detectors that were not asked for are released.
\* Under AudioStart it may be called again, for the default, and at the end
\* every interpreter is reset.
EndDetect(c) ==
    /\ loop = c /\ mode[c] = "detect"
    /\ want[c] \subseteq Detectors(c)
    /\ ReleaseDetectors(c, WakeWords \ want[c])
    /\ mode' = [mode EXCEPT ![c] = "ready"]
    /\ want' = [want EXCEPT ![c] = {}]
    /\ loop' = "idle"
    /\ UNCHANGED <<serverVars, job>>

ResetDetectors(c) ==
    holds' = [p \in Places |->
                IF p \in DetectorPlaces(c, WakeWords)
                THEN {Reset(i) : i \in holds[p]} ELSE holds[p]]

BeginFallback(c) ==
    /\ want' = [want EXCEPT ![c] = DefaultIds]
    /\ mode' = [mode EXCEPT ![c] = "fallback"]
    /\ loop' = c

EndReload(c) ==
    /\ loop = c /\ mode[c] \in {"reload", "fallback"}
    /\ want[c] = Detectors(c)
    /\ IF want[c] = {} /\ mode[c] = "reload"
       THEN BeginFallback(c) /\ UNCHANGED holds
       ELSE /\ ResetDetectors(c)
            /\ mode' = [mode EXCEPT ![c] = "ready"]
            /\ want' = [want EXCEPT ![c] = {}]
            /\ loop' = "idle"
    /\ UNCHANGED <<serverVars, poolGeneration, tag, job>>

AnyStale_All(c) ==          \* mutant: all() instead of any()
    Detectors(c) # {} /\ \A w \in Detectors(c) : tag[c][w] # generation
AnyStale(c) == \E w \in Detectors(c) : tag[c][w] # generation

\* The AudioStart event.
HandleAudioStart(c) ==
    /\ loop = "idle" /\ mode[c] = "ready"
    /\ \/ /\ AnyStale(c)
          /\ want' = [want EXCEPT ![c] = Resolve(Detectors(c))]
          /\ ReleaseDetectors(c, WakeWords)
          /\ mode' = [mode EXCEPT ![c] = "reload"]
          /\ loop' = c
       \/ /\ Detectors(c) = {}
          /\ BeginFallback(c)
          /\ UNCHANGED <<poolGeneration, holds, tag>>
       \/ /\ Detectors(c) # {} /\ ~AnyStale(c)
          /\ ResetDetectors(c)
          /\ UNCHANGED <<loop, poolGeneration, tag, mode, want>>
    /\ UNCHANGED <<serverVars, job>>

\* The AudioChunk event: every detector predicts; the ones whose candidate
\* was decided (fired) are reset.
HandleAudioChunk(c) ==
    /\ loop = "idle" /\ mode[c] = "ready"
    /\ \E fired \in SUBSET Detectors(c) :
          holds' = [p \in Places |->
                      IF p \in DetectorPlaces(c, fired)
                      THEN {Reset(i) : i \in holds[p]}
                      ELSE IF p \in DetectorPlaces(c, WakeWords)
                      THEN {Predict(i) : i \in holds[p]}
                      ELSE holds[p]]
    /\ UNCHANGED <<loop, serverVars, poolGeneration, tag, job, mode, want>>

----------------------------------------------------------------------------
(* POST /api/test: the whole recording is scored by one worker thread        *)

RequestTest(r) ==
    /\ loop = "idle" /\ job[r].phase = "none"
    /\ \E w \in served :
          job' = [job EXCEPT ![r] = [NoJob EXCEPT !.phase = "queued", !.word = w]]
    /\ UNCHANGED <<loop, serverVars, poolGeneration, holds, tag, mode, want>>

StartTest(r) ==
    /\ job[r].phase = "queued"
    /\ job' = [job EXCEPT ![r].phase = "acquire", ![r].generation = generation]
    /\ UNCHANGED <<loop, serverVars, poolGeneration, holds, tag, mode, want>>

ScoreRecording(r) ==
    /\ Acquired(r)
    /\ holds' = [holds EXCEPT ![Job(r)] = {Predict(i) : i \in holds[Job(r)]}]
    /\ job' = [job EXCEPT ![r].phase = "scored"]
    /\ UNCHANGED <<loop, serverVars, poolGeneration, tag, mode, want>>

\* `release' in the worker thread: the check, and later the append.
CheckGeneration(r) ==
    /\ job[r].phase = "scored" /\ LockFree
    /\ IF job[r].generation # generation
       THEN /\ job' = [job EXCEPT ![r] = NoJob]
            /\ holds' = [holds EXCEPT ![Job(r)] = {}]
       ELSE /\ job' = [job EXCEPT ![r].phase = "pooling"]
            /\ UNCHANGED holds
    /\ UNCHANGED <<loop, serverVars, poolGeneration, tag, mode, want>>

ReturnToPool_Stuck(r) ==    \* mutant: a second check leaves without unlocking
    /\ job[r].phase = "pooling" /\ job[r].generation = generation
    /\ holds' = [holds EXCEPT ![Pool] = SyncedPool \cup holds[Job(r)],
                              ![Job(r)] = {}]
    /\ poolGeneration' = generation
    /\ job' = [job EXCEPT ![r] = NoJob]
    /\ UNCHANGED <<loop, serverVars, tag, mode, want>>

ReturnToPool(r) ==
    /\ job[r].phase = "pooling"
    /\ holds' = [holds EXCEPT ![Pool] = SyncedPool \cup holds[Job(r)],
                              ![Job(r)] = {}]
    /\ poolGeneration' = generation
    /\ job' = [job EXCEPT ![r] = NoJob]
    /\ UNCHANGED <<loop, serverVars, tag, mode, want>>

----------------------------------------------------------------------------
(* Changes made through the HTTP API                                         *)

otherVars == <<poolGeneration, holds, tag, job, mode, want>>

\* Live detectors and pooled interpreters learn of a change by the generation.
Bump ==
    /\ generation' = generation + 1
    /\ unannounced' = FALSE

\* Upload, delete, restore: _apply_changes writes the directory ...
WriteFiles ==
    /\ loop = "idle" /\ edits < MaxEdits
    /\ edits' = edits + 1
    /\ savedFiles' = files /\ files' = edits'
    /\ loop' = "upload"
    /\ UNCHANGED <<generation, served, options, directoryValid, unannounced, otherVars>>

\* ... re-reads it ...
CommitFiles ==
    /\ loop = "upload"
    /\ served' \in SUBSET WakeWords
    /\ directoryValid' = TRUE
    /\ Bump
    /\ loop' = "idle"
    /\ UNCHANGED <<files, options, savedFiles, edits, otherVars>>

\* ... or puts the originals back, re-reading the directory if it can ...
RollBackFiles ==
    /\ loop = "upload"
    /\ files' = savedFiles
    /\ IF directoryValid THEN Bump ELSE unannounced' = TRUE /\ UNCHANGED generation
    /\ loop' = "idle"
    /\ UNCHANGED <<served, options, savedFiles, directoryValid, edits, otherVars>>

\* ... or ends with an exception that it does not catch (a TypeError out of an
\* odd models.yaml): the files stay, and nothing is re-read.
EscapeFiles ==
    /\ loop = "upload"
    /\ directoryValid' = FALSE
    /\ unannounced' = TRUE
    /\ loop' = "idle"
    /\ UNCHANGED <<generation, served, files, options, savedFiles, edits, otherVars>>

\* POST /api/refresh; a refused one changes nothing.
Rescan ==
    /\ loop = "idle" /\ edits < MaxEdits
    /\ directoryValid
    /\ edits' = edits + 1
    /\ Bump
    /\ UNCHANGED <<loop, served, files, options, savedFiles, directoryValid, otherVars>>

\* PATCH /api/settings: the settings change, are saved, and the generation
\* is bumped.
ApplySettings ==
    /\ loop = "idle" /\ edits < MaxEdits
    /\ edits' = edits + 1
    /\ options' = edits'
    /\ loop' = "patch"
    /\ UNCHANGED <<generation, served, files, savedFiles, directoryValid, unannounced,
                   otherVars>>

SettingsApplied ==
    /\ loop = "patch"
    /\ Bump
    /\ loop' = "idle"
    /\ UNCHANGED <<served, files, options, savedFiles, directoryValid, edits, otherVars>>

\* A PATCH refused at its second key: the first one has been set.
RefuseSettings ==
    /\ loop = "idle" /\ edits < MaxEdits
    /\ edits' = edits + 1
    /\ options' = edits'
    /\ unannounced' = TRUE
    /\ UNCHANGED <<loop, generation, served, files, savedFiles, directoryValid, otherVars>>

\* Somebody breaks or mends models.yaml in the directory itself.
EditByHand ==
    /\ directoryValid' = ~directoryValid
    /\ UNCHANGED <<loop, generation, served, files, options, savedFiles, edits, unannounced,
                   otherVars>>

----------------------------------------------------------------------------
Init ==
    /\ loop = "warm_up"
    /\ generation = 1 /\ poolGeneration = 1
    /\ served \in SUBSET WakeWords
    /\ files = 0 /\ options = 0 /\ savedFiles = 0 /\ edits = 0
    /\ directoryValid = TRUE /\ unannounced = FALSE
    /\ holds = [p \in Places |-> {}]
    /\ tag = [c \in Clients |-> [w \in WakeWords |-> 0]]
    /\ job = [t \in Threads |-> NoJob]
    /\ mode = [c \in Clients |-> "off"]
    /\ want = [c \in Clients |-> {}]

ThreadStep(t) ==
    PopIdle(t) \/ FindNoneIdle(t) \/ ReadOptions(t) \/ BuildInterpreter(t)
        \/ LoadFails(t)

Serve(c) ==
    AcquireNext(c) \/ WordVanished(c) \/ AcquireRaised(c) \/ InstallDetector(c)
        \/ EndDetect(c) \/ EndReload(c)

Receive(c) ==
    Connect(c) \/ HandleDetect(c) \/ HandleAudioStart(c) \/ HandleAudioChunk(c)
        \/ ClientLeaves(c)

TestStep(r) ==
    StartTest(r) \/ ScoreRecording(r) \/ CheckGeneration(r) \/ ReturnToPool(r)

ApiStep ==
    CommitFiles \/ RollBackFiles \/ EscapeFiles \/ SettingsApplied

ApiRequest ==
    WriteFiles \/ Rescan \/ ApplySettings \/ RefuseSettings \/ EditByHand

Next ==
    \/ WarmUp \/ StartServers
    \/ \E t \in Threads : ThreadStep(t)
    \/ \E c \in Clients : Serve(c) \/ Receive(c)
    \/ \E r \in Recorders : RequestTest(r) \/ TestStep(r)
    \/ ApiStep \/ ApiRequest

Spec == Init /\ [][Next]_vars

----------------------------------------------------------------------------
\* One interpreter serves one client at a time (interpreters.py): whatever the
\* order of acquires, releases, failures and reloads, an interpreter is
\* referred to from one place only.
Exclusive ==
    \A p, q \in Places : \A i \in holds[p], j \in holds[q] :
        i.id = j.id => p = q /\ i = j

\* A pooled interpreter that acquire would hand out now was built from the
\* files and options in force (interpreters.py: one backed by files that no
\* longer exist is dropped instead of pooled), unless a change since the last
\* bump made none: a PATCH refused half-way (settings.py:67), an exception that
\* leaves an upload's files in place (http_api.py:513), or a rollback into a
\* directory that cannot be read (http_api.py:529).  The next bump ends that.
PoolFresh ==
    loop = "idle" /\ poolGeneration = generation /\ ~unannounced =>
        \A i \in holds[Pool] : i.files = files /\ i.options = options

\* handler.py, AudioStart: a stream that starts without a reload is scored by
\* interpreters built from the files and options in force, with the exceptions
\* of PoolFresh.
StreamsStartFresh ==
    [][\A c \in Clients :
         ~unannounced /\ mode[c] = "ready" /\ HandleAudioStart(c) /\ mode'[c] = "ready"
            => \A w \in Detectors(c) : \A i \in holds[Detector(c, w)] :
                  i.files = files /\ i.options = options]_vars

\* The pool implements the lease: a client, with its detectors and the call a
\* thread makes for it, is one user; so is a recording test.
PlacesOf(u) == {Job(u)} \cup {Detector(u, w) : w \in WakeWords}

Lease == INSTANCE InterpreterLease WITH
    Users <- Threads,
    Pooled <- "pool",
    lessees <- [n \in Ids |->
                  {u \in Threads : \E p \in PlacesOf(u) \cap Places :
                                       \E i \in holds[p] : i.id = n}
                  \cup {u \in {"pool"} : \E i \in holds[Pool] : i.id = n}],
    soiled <- {n \in Ids : \E p \in Places : \E i \in holds[p] : i.id = n /\ i.used}

OneUserAtATime == Lease!Spec

\* Liveness.  Fairness: the threads run, asyncio runs every ready callback
\* (strongly fair: its queue is first-in first-out, and a contended lock is
\* got in the end).
Fairness ==
    /\ WF_vars(WarmUp) /\ WF_vars(StartServers) /\ WF_vars(ApiStep)
    /\ \A t \in Threads : SF_vars(ThreadStep(t))
    /\ \A c \in Clients : SF_vars(Serve(c))
    /\ \A r \in Recorders : SF_vars(TestStep(r))

FairSpec == Spec /\ Fairness

\* Every Detect and AudioStart comes to an end, although the event loop may
\* have to wait for the manager's lock and a worker thread for the pool.
EventsHandled ==
    \A c \in Clients : mode[c] \in {"detect", "reload", "fallback"}
                           ~> mode[c] \in {"ready", "off"}

\* The event loop is never blocked for good.
LoopFreed == loop # "idle" ~> loop = "idle"
=============================================================================
