------------------------------ MODULE WakeStream ------------------------------
(***************************************************************************)
(* The detection logic of one Wyoming client handler (handler.py): its      *)
(* detectors, the streak of activations each needs, the refractory time,    *)
(* and the Detection and NotDetected events the client gets.                *)
(*                                                                          *)
(* The handler works off one event after another and is suspended only      *)
(* where it awaits: while an interpreter is loaded, while a detector        *)
(* predicts and while a candidate is verified.  Settings and models change  *)
(* at those points, and time passes: audio that arrives meanwhile waits in  *)
(* the connection and is worked off afterwards at once.                     *)
(*                                                                          *)
(* Loading interpreters is InterpreterPool's subject and verification       *)
(* CandidateVerification's: here a load ends and a candidate is accepted,   *)
(* rejected or takes the connection down.  Every wake word stays served.    *)
(***************************************************************************)
EXTENDS Naturals, FiniteSets

CONSTANTS
    WakeWords,
    DefaultWord,
    Levels,         \* trigger levels a setting or models.yaml can have
    Refractories,   \* values of refractory_seconds, in ticks
    MaxAge,         \* ages are told apart up to this one
    NoOverride,     \* no trigger_level in models.yaml
    Slow,           \* time passes while a candidate is verified
    Orderly,        \* the client sends Detect between streams only
    MaxChanges      \* bound on the changes to settings and models

ASSUME StreamAssumption ==
    /\ DefaultWord \in WakeWords
    /\ Levels \subseteq Nat \ {0} /\ NoOverride \notin Levels
    /\ Refractories \subseteq 0..MaxAge /\ MaxAge \in Nat
    /\ Slow \in BOOLEAN /\ Orderly \in BOOLEAN
    /\ MaxChanges \in Nat

VARIABLES
    level,          \* settings.trigger_level
    override,       \* metadata.trigger_level of each wake word
    refractory,     \* settings.refractory_seconds
    generation,     \* state.generation
    detectors,      \* self.detectors, with the history of each
    mode,           \* the event being handled: "ready", "detect" or "start"
    want,           \* model_ids of _handle_detect
    loading,        \* the wake word whose interpreters a thread acquires
    entry,          \* locals of that acquire: override and generation read before
    todo,           \* detectors that have not seen the current chunk
    limit,          \* refractory_seconds, read once per chunk
    verifying,      \* the detector whose candidate is being verified
    streaming,      \* the client is between AudioStart and AudioStop
    sent,           \* last event sent to the client
    woken,          \* history: wake words a Detection was sent for in this stream
    quiet,          \* history: age of each wake word's last Detection
    startedAt,      \* history: generation when the last AudioStart came
    unannounced     \* history: a setting changed since the last bump, without one

serverVars == <<level, override, refractory, generation, unannounced>>
loadVars == <<mode, want, loading, entry>>
chunkVars == <<todo, limit, verifying>>
clientVars == <<streaming, sent, woken, quiet>>
vars == <<serverVars, detectors, loadVars, chunkVars, clientVars, startedAt>>

Ages == 0..MaxAge

\* left is triggers_left, since the age of last_triggered: MaxAge also stands
\* for None, for neither makes the detector skip.  run is history: the detector's
\* activations in a row.
Detector == [level : Levels, left : Nat, since : Ages, detected : BOOLEAN,
             generation : Nat, run : Nat]

Loaded == DOMAIN detectors

NoEntry == [override |-> NoOverride, generation |-> 0]

TypeOK ==
    /\ level \in Levels /\ refractory \in Refractories
    /\ override \in [WakeWords -> Levels \cup {NoOverride}]
    /\ generation \in 0..MaxChanges
    /\ Loaded \subseteq WakeWords /\ detectors \in [Loaded -> Detector]
    /\ mode \in {"ready", "detect", "start"}
    /\ want \subseteq WakeWords
    /\ loading \subseteq WakeWords /\ (loading # {} => mode # "ready")
    /\ entry \in [override : Levels \cup {NoOverride}, generation : Nat]
    /\ todo \subseteq Loaded /\ verifying \subseteq Loaded
    /\ mode # "ready" => todo = {} /\ verifying = {}
    /\ limit \in Refractories
    /\ streaming \in BOOLEAN /\ unannounced \in BOOLEAN
    /\ woken \subseteq WakeWords /\ quiet \in [WakeWords -> Ages]
    /\ sent \in {"none", "detection", "not_detected", "quiet"}
    /\ startedAt \in Nat

\* The connection's events are handled one after the other.
Idle_Concurrent == mode = "ready"       \* mutant: a task for each event
Idle == mode = "ready" /\ todo = {} /\ verifying = {}

\* The points where the handler awaits, or waits for an event.
Awaiting == mode = "ready" \/ loading # {}

Effective(o) == IF o = NoOverride THEN level ELSE o

----------------------------------------------------------------------------
(* Detect and AudioStart                                                     *)

Only(W) == [w \in Loaded \cap W |-> detectors[w]]

HandleDetect ==
    /\ Idle /\ (Orderly => ~streaming)
    /\ \E names \in SUBSET WakeWords :
          want' = IF names = {} THEN {DefaultWord} ELSE names
    /\ mode' = "detect"
    /\ UNCHANGED <<serverVars, detectors, loading, entry, chunkVars, clientVars, startedAt>>

Stale_Never == FALSE        \* mutant: generations not compared
Stale == \E w \in Loaded : detectors[w].generation # generation

HandleAudioStart ==
    /\ Idle
    /\ want' = IF Loaded = {} THEN {DefaultWord} ELSE Loaded
    /\ detectors' = IF Stale THEN Only({}) ELSE detectors
    /\ mode' = "start"
    /\ startedAt' = generation
    /\ UNCHANGED <<serverVars, loading, entry, chunkVars, clientVars>>

\* The next wake word without a detector: its entry and the generation are
\* read before the await ...
BeginLoad ==
    /\ mode # "ready" /\ loading = {}
    /\ \E w \in want \ Loaded :
          /\ loading' = {w}
          /\ entry' = [override |-> override[w], generation |-> generation]
    /\ UNCHANGED <<serverVars, detectors, mode, want, chunkVars, clientVars, startedAt>>

\* ... and the settings after it.
NewDetector ==
    [level |-> Effective(entry.override), left |-> Effective(entry.override),
     since |-> MaxAge, detected |-> FALSE, generation |-> entry.generation,
     run |-> 0]

EndLoad ==
    /\ loading # {} /\ loading' = {} /\ entry' = NoEntry
    /\ detectors' = [w \in Loaded \cup loading |->
                        IF w \in loading THEN NewDetector ELSE detectors[w]]
    /\ UNCHANGED <<serverVars, mode, want, chunkVars, clientVars, startedAt>>

\* Detectors that were not asked for are released.
EndDetect ==
    /\ mode = "detect" /\ loading = {} /\ want \subseteq Loaded
    /\ detectors' = Only(want)
    /\ mode' = "ready" /\ want' = {}
    /\ UNCHANGED <<serverVars, loading, entry, chunkVars, clientVars, startedAt>>

Restart_Kept(d) ==          \* mutant: is_detected survives AudioStart
    [d EXCEPT !.left = d.level, !.since = MaxAge, !.run = 0]
Restart(d) ==
    [d EXCEPT !.left = d.level, !.since = MaxAge, !.detected = FALSE, !.run = 0]

EndAudioStart ==
    /\ mode = "start" /\ loading = {} /\ want \subseteq Loaded
    /\ detectors' = [w \in Loaded |-> Restart(detectors[w])]
    /\ mode' = "ready" /\ want' = {}
    /\ streaming' = TRUE /\ woken' = {} /\ sent' = "none"
    /\ UNCHANGED <<serverVars, loading, entry, chunkVars, quiet, startedAt>>

----------------------------------------------------------------------------
(* AudioChunk and AudioStop                                                  *)

HandleAudioChunk ==
    /\ Idle /\ streaming
    /\ todo' = Loaded
    /\ limit' = refractory
    /\ UNCHANGED <<serverVars, detectors, loadVars, verifying, clientVars, startedAt>>

Cooling(w) == detectors[w].since < limit

\* The history; longer runs than the trigger level are not told apart.
Activated(d) == [d EXCEPT !.run = IF @ < d.level THEN @ + 1 ELSE @]
Missed(d) == [d EXCEPT !.run = 0]

Counted(d) == [Activated(d) EXCEPT !.left = @ - 1]

Reset_Not(d) == d           \* mutant: a miss leaves the streak alone
Reset(d) == [d EXCEPT !.left = d.level]

Fire_Hot(d) == Reset(d)     \* mutant: last_triggered not set
Fire(d) == [Reset(d) EXCEPT !.since = 0]

\* The next detector predicts.
Predict(w) ==
    LET d == detectors[w] IN
    /\ verifying = {} /\ w \in todo
    /\ todo' = todo \ {w}
    /\ \/ /\ Cooling(w)
          /\ \E o \in {Activated(d), Missed(d)} : detectors' = [detectors EXCEPT ![w] = o]
          /\ UNCHANGED verifying
       \/ /\ ~Cooling(w)
          /\ detectors' = [detectors EXCEPT ![w] = Reset(Missed(d))]
          /\ UNCHANGED verifying
       \/ /\ ~Cooling(w) /\ d.left > 1
          /\ detectors' = [detectors EXCEPT ![w] = Counted(d)]
          /\ UNCHANGED verifying
       \/ /\ ~Cooling(w) /\ d.left <= 1
          /\ detectors' = [detectors EXCEPT ![w] = Fire(Activated(d))]
          /\ verifying' = {w}
    /\ UNCHANGED <<serverVars, loadVars, limit, clientVars, startedAt>>

\* The candidate is accepted: the client is told.
Accept(d) == [d EXCEPT !.detected = TRUE]

AcceptCandidate ==
    /\ verifying # {} /\ verifying' = {}
    /\ detectors' = [w \in Loaded |-> IF w \in verifying THEN Accept(detectors[w])
                                      ELSE detectors[w]]
    /\ woken' = woken \cup verifying /\ sent' = "detection"
    /\ quiet' = [w \in WakeWords |-> IF w \in verifying THEN 0 ELSE quiet[w]]
    /\ UNCHANGED <<serverVars, loadVars, todo, limit, streaming, startedAt>>

RejectCandidate ==
    /\ verifying # {} /\ verifying' = {}
    /\ UNCHANGED <<serverVars, detectors, loadVars, todo, limit, clientVars, startedAt>>

HandleAudioStop ==
    /\ Idle /\ streaming
    /\ streaming' = FALSE
    /\ sent' = IF \E w \in Loaded : detectors[w].detected THEN "quiet" ELSE "not_detected"
    /\ UNCHANGED <<serverVars, detectors, loadVars, chunkVars, woken, quiet, startedAt>>

----------------------------------------------------------------------------
(* The rest of the system                                                    *)

\* The connection ends (a load, a verification or the client itself fails) and
\* the client comes back to a new handler.
Disconnect ==
    /\ Awaiting
    /\ detectors' = Only({}) /\ mode' = "ready" /\ want' = {}
    /\ loading' = {} /\ entry' = NoEntry
    /\ todo' = {} /\ verifying' = {}
    /\ streaming' = FALSE /\ woken' = {} /\ sent' = "none"
    /\ UNCHANGED <<serverVars, limit, quiet, startedAt>>

Bump ==
    /\ generation < MaxChanges
    /\ generation' = generation + 1
    /\ unannounced' = FALSE

\* A PATCH of the trigger level, or an upload that changes models.yaml.
ChangeLevels ==
    /\ Awaiting /\ Bump
    /\ \/ level' \in Levels /\ UNCHANGED override
       \/ /\ \E w \in WakeWords, o \in Levels \cup {NoOverride} :
                override' = [override EXCEPT ![w] = o]
          /\ UNCHANGED level
    /\ UNCHANGED <<refractory, detectors, loadVars, chunkVars, clientVars, startedAt>>

\* A PATCH of refractory_seconds; one of any other setting, or a refresh, also
\* ends here, with refractory' = refractory.
ChangeRefractory ==
    /\ Awaiting /\ Bump
    /\ refractory' \in Refractories
    /\ UNCHANGED <<level, override, detectors, loadVars, chunkVars, clientVars, startedAt>>

\* A PATCH refused at a later key: the keys before it have been set.
RefusePatch ==
    /\ Awaiting
    /\ level' \in Levels /\ refractory' \in Refractories
    /\ unannounced' = TRUE
    /\ UNCHANGED <<override, generation, detectors, loadVars, chunkVars, clientVars, startedAt>>

Older(age) == IF age < MaxAge THEN age + 1 ELSE age

Aged(d) == [d EXCEPT !.since = Older(@)]

Tick ==
    /\ IF verifying = {} THEN todo = {} ELSE Slow
    /\ detectors' = [w \in Loaded |-> Aged(detectors[w])]
    /\ quiet' = [w \in WakeWords |-> Older(quiet[w])]
    /\ UNCHANGED <<serverVars, loadVars, chunkVars, streaming, sent, woken, startedAt>>

----------------------------------------------------------------------------
Init ==
    /\ level \in Levels /\ refractory \in Refractories
    /\ override \in [WakeWords -> Levels \cup {NoOverride}]
    /\ generation = 0
    /\ detectors = [w \in {} |-> w]
    /\ mode = "ready" /\ want = {} /\ loading = {} /\ entry = NoEntry
    /\ todo = {} /\ verifying = {} /\ limit = refractory
    /\ streaming = FALSE /\ sent = "none"
    /\ woken = {} /\ quiet = [w \in WakeWords |-> MaxAge]
    /\ startedAt = 0 /\ unannounced = FALSE

Load == BeginLoad \/ EndLoad \/ EndDetect \/ EndAudioStart

Next ==
    \/ HandleDetect \/ HandleAudioStart \/ HandleAudioChunk \/ HandleAudioStop
    \/ Load
    \/ \E w \in WakeWords : Predict(w)
    \/ AcceptCandidate \/ RejectCandidate
    \/ Disconnect \/ ChangeLevels \/ ChangeRefractory \/ RefusePatch \/ Tick

Spec == Init /\ [][Next]_vars

----------------------------------------------------------------------------
\* handler.py ("require trigger_level consecutive activations"): a candidate
\* was preceded by trigger_level activations in a row, in this stream.
Consecutive == \A w \in verifying : detectors[w].run >= detectors[w].level

\* DOCS.md, refractory_seconds ("cooldown after a detection"), within one stream:
\* a wake word detected in the stream is a candidate again only when its last
\* Detection is refractory_seconds ago.  From one stream to the next the code keeps
\* no cooldown: AudioStart forgets last_triggered (handler.py:228).
CooldownAfterDetection == \A w \in verifying \cap woken : quiet[w] >= limit

\* handler.py, AudioStop: the client is told NotDetected if and only if it was
\* sent no Detection in the stream.
StopTellsTheTruth ==
    (sent = "not_detected" => woken = {}) /\ (sent = "quiet" => woken # {})

\* http_api.py ("live detectors re-resolve their thresholds on the next
\* pipeline run"): in a stream that started after the last change, every
\* detector needs the trigger level in force, unless a PATCH refused half-way
\* (settings.py:67) has changed it since without a bump.  The next bump ends that.
NextStreamReresolves ==
    streaming /\ mode = "ready" /\ startedAt = generation /\ ~unannounced =>
        \A w \in Loaded : detectors[w].level = Effective(override[w])
=============================================================================
