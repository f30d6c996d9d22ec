------------------------------- MODULE ModelStore -------------------------------
(***************************************************************************)
(* How the HTTP API changes the model directory, one file operation at a     *)
(* time (ModelApi._apply_changes and _rollback), with operations that fail,  *)
(* the process killed between any two of them, files edited by hand, and the *)
(* start that finds what is left (__main__.py).                              *)
(*                                                                         *)
(* An .onnx file has one of a few contents, some of which ONNX can load;     *)
(* models.yaml says which ensembles there are (Discovery).  A change does    *)
(* not await anything, so that the API handles one at a time.                *)
(***************************************************************************)
EXTENDS Discovery, FiniteSets

CONSTANTS
    HandMade,       \* those that _validate_upload_name refuses
    Yaml,           \* the name models.yaml
    ModelContents, Loadable, Torn, Absent,
    YamlContents,   \* what may be uploaded as models.yaml
    Others,         \* the further model directories
    default_model,
    Archives,       \* zip files that the user has besides the server's backups
    Found,          \* contents of the directory before the first start
    MaxRequests, MaxCrashes, MaxEdits

FileNames == ToSet(Names) \cup {Yaml}
Uploadable == FileNames \ HandMade

ContentsOf(n) == IF n = Yaml THEN YamlContents ELSE ModelContents

EditsOf(n) == ContentsOf(n) \cup {Absent} \cup (IF n = Yaml THEN {Odd} ELSE {})

\* What a file that is being written may be left as.  A truncated models.yaml is
\* empty or does not parse.
TornOf(n) == IF n = Yaml THEN {<< >>, Invalid} ELSE {Torn}

Contents == ModelContents \cup YamlContents \cup {<< >>, Invalid, Odd, Torn, Absent}

ASSUME StoreAssumption ==
    /\ Yaml \notin ToSet(Names) /\ Others \in Seq(ToSet(Others))
    /\ Absent \notin ModelContents \cup YamlContents \cup {<< >>, Invalid, Odd, Torn}
    /\ Loadable \subseteq ModelContents /\ Torn \notin Loadable
    /\ \A a \in Archives : /\ DOMAIN a \subseteq FileNames
                          /\ a = [n \in DOMAIN a |-> a[n]]
                          /\ \A n \in DOMAIN a : a[n] \in Contents \ {Absent}
    /\ Found \subseteq [FileNames -> Contents]

VARIABLES
    disk,           \* the first model directory
    registry,       \* state.models and state.backing_models
    phase,          \* idle, apply, rollback; down, failed (the start)
    request,        \* arguments of _apply_changes
    originals,      \* contents read before the first write
    todo,           \* files left to write and delete, or to put back
    spoilt,         \* files that an operation of this request failed on
    answer,         \* to the last request: ok, refused or error; none if it got none
    archive,        \* the zip file that the user would restore
    cause,          \* history: why the directory may differ from what was last read:
                    \* none, outside (hand, crash, disk), escape (see Escape)
    requests, crashes, edits

fileVars == <<request, originals, todo, spoilt>>
counters == <<requests, crashes, edits>>
storeVars == <<disk, registry, phase, fileVars, answer, archive, cause, counters>>

NoFiles == [n \in {} |-> Absent]
NoRequest == [writes |-> NoFiles, deletes |-> {}]

Existing(d) == {n \in FileNames : d[n] # Absent}

Directories(d) ==
    <<[files |-> {n \in ToSet(Names) : d[n] # Absent},
       yaml |-> IF d[Yaml] = Absent THEN << >> ELSE d[Yaml]]>> \o Others

Touched == DOMAIN request.writes \cup request.deletes

Target_Kept ==          \* mutant: nothing is deleted
    [n \in FileNames |-> IF n \in DOMAIN request.writes THEN request.writes[n] ELSE disk[n]]
Target ==
    [n \in FileNames |-> IF n \in request.deletes THEN Absent
                         ELSE IF n \in DOMAIN request.writes THEN request.writes[n]
                         ELSE disk[n]]

----------------------------------------------------------------------------
(* Requests                                                                  *)

OriginalsOf_Writes(writes, deletes) ==      \* mutant: of the files written only
    [n \in DOMAIN writes |-> disk[n]]
OriginalsOf(writes, deletes) == [n \in DOMAIN writes \cup deletes |-> disk[n]]

Begin(writes, deletes) ==
    /\ phase = "idle" /\ requests < MaxRequests
    /\ phase' = "apply"
    /\ request' = [writes |-> writes, deletes |-> deletes]
    /\ todo' = DOMAIN writes \cup deletes
    /\ originals' = OriginalsOf(writes, deletes)
    /\ requests' = requests + 1
    /\ UNCHANGED <<disk, registry, spoilt, answer, archive, cause, crashes, edits>>

UploadModel ==
    \E n \in Uploadable : \E content \in ContentsOf(n) : Begin([m \in {n} |-> content], {})

\* Files with names that cannot be uploaded can be deleted.
DeleteModel == \E n \in Existing(disk) : Begin(NoFiles, {n})

\* All other files go.
Leftovers_None(writes) == {}            \* mutant: nothing is deleted
Leftovers(writes) == Existing(disk) \ DOMAIN writes

Restore ==
    /\ archive # NoFiles /\ DOMAIN archive \subseteq Uploadable
    /\ Begin(archive, Leftovers(archive))

Backup ==
    /\ phase = "idle"
    /\ archive' = [n \in Existing(disk) |-> disk[n]]
    /\ UNCHANGED <<disk, registry, phase, fileVars, answer, cause, counters>>

----------------------------------------------------------------------------
(* _apply_changes                                                            *)

Writing == todo \cap DOMAIN request.writes

\* The files are deleted when all are written.
Pending == IF Writing # {} THEN Writing ELSE todo

ApplyOne ==
    /\ phase = "apply"
    /\ \E n \in Pending :
          /\ disk' = [disk EXCEPT ![n] = Target[n]]
          /\ todo' = todo \ {n}
    /\ UNCHANGED <<registry, phase, request, originals, spoilt, answer, archive, cause, counters>>

StartRollback == phase' = "rollback" /\ todo' = Touched

\* A write may fail when the file has been truncated already.
ApplyFails ==
    /\ phase = "apply"
    /\ \E n \in Pending :
          /\ \/ UNCHANGED disk
             \/ n \in Writing /\ \E c \in TornOf(n) : disk' = [disk EXCEPT ![n] = c]
          /\ spoilt' = {n}
    /\ StartRollback
    /\ UNCHANGED <<registry, request, originals, answer, archive, cause, counters>>

EndRequest(result) ==
    /\ phase' = "idle" /\ answer' = result
    /\ request' = NoRequest /\ originals' = NoFiles /\ todo' = {} /\ spoilt' = {}

Refresh ==
    /\ registry' = Registry(Directories(disk))
    /\ cause' = "none"

\* A score that a thread inserts meanwhile ends refresh when the registry has been
\* replaced (RefreshRaises in Scores): the client is sent an error.
Commit ==
    /\ phase = "apply" /\ todo = {}
    /\ Verdict(Directories(disk)) = "ok"
    /\ Refresh
    /\ EndRequest("ok") \/ EndRequest("error")
    /\ UNCHANGED <<disk, archive, counters>>

Refuse ==
    /\ phase = "apply" /\ todo = {}
    /\ Verdict(Directories(disk)) = Invalid
    /\ StartRollback
    /\ UNCHANGED <<disk, registry, request, originals, spoilt, answer, archive, cause, counters>>

\* An exception that is neither ValueError nor YAMLError nor OSError: the client is
\* sent an error, and the files stay.
Escape ==
    /\ phase = "apply" /\ todo = {}
    /\ Verdict(Directories(disk)) = Odd
    /\ EndRequest("error")
    /\ cause' = IF cause = "none" THEN "escape" ELSE cause
    /\ UNCHANGED <<disk, registry, archive, counters>>

----------------------------------------------------------------------------
(* _rollback                                                                 *)

PutBack_Kept(n) == IF originals[n] = Absent THEN disk[n] ELSE originals[n]  \* mutant: new files stay
PutBack(n) == originals[n]

RollBackOne ==
    /\ phase = "rollback"
    /\ \E n \in todo :
          /\ disk' = [disk EXCEPT ![n] = PutBack(n)]
          /\ todo' = todo \ {n}
    /\ UNCHANGED <<registry, phase, request, originals, spoilt, answer, archive, cause, counters>>

RollBackFails ==
    /\ phase = "rollback"
    /\ \E n \in todo :
          /\ \/ UNCHANGED disk
             \/ originals[n] # Absent /\ \E c \in TornOf(n) : disk' = [disk EXCEPT ![n] = c]
          /\ spoilt' = spoilt \cup {n}
          /\ todo' = todo \ {n}
    /\ UNCHANGED <<registry, phase, request, originals, answer, archive, cause, counters>>

\* The request is answered with the error that started the rollback, or with a
\* TypeError.  If the directory cannot be read the registry stays as it is.
EndRollback ==
    /\ phase = "rollback" /\ todo = {}
    /\ IF Verdict(Directories(disk)) = "ok" THEN Refresh
       ELSE /\ cause' = IF spoilt # {} THEN "outside" ELSE cause
            /\ UNCHANGED registry
    /\ EndRequest("refused")
    /\ UNCHANGED <<disk, archive, counters>>

----------------------------------------------------------------------------
(* Everything else                                                           *)

\* POST /api/refresh; without effect on a directory that is refused.
RefreshRequest ==
    /\ phase = "idle" /\ Verdict(Directories(disk)) = "ok"
    /\ Refresh
    /\ UNCHANGED <<disk, phase, fileVars, answer, archive, counters>>

HandEdit ==
    /\ phase \in {"idle", "down", "failed"} /\ edits < MaxEdits
    /\ \E n \in FileNames : \E c \in EditsOf(n) : disk' = [disk EXCEPT ![n] = c]
    /\ phase' = IF phase = "failed" THEN "down" ELSE phase
    /\ cause' = "outside" /\ edits' = edits + 1
    /\ UNCHANGED <<registry, fileVars, answer, archive, requests, crashes>>

\* The file that would be written next may be half written.
BeingWritten ==
    CASE phase = "apply" -> Writing
      [] phase = "rollback" -> {n \in todo : originals[n] # Absent}
      [] OTHER -> {}

Crash ==
    /\ phase \in {"idle", "apply", "rollback"} /\ crashes < MaxCrashes
    /\ \/ UNCHANGED disk
       \/ \E n \in BeingWritten : \E c \in TornOf(n) : disk' = [disk EXCEPT ![n] = c]
    /\ phase' = "down" /\ registry' = NoRegistry
    /\ answer' = IF phase = "idle" THEN answer ELSE "none"
    /\ request' = NoRequest /\ originals' = NoFiles /\ todo' = {} /\ spoilt' = {}
    /\ cause' = IF phase = "idle" THEN cause ELSE "outside"
    /\ crashes' = crashes + 1
    /\ UNCHANGED <<archive, requests, edits>>

\* state.refresh() as main calls it: a directory that is refused leaves no models.
Discovered(d) ==
    IF Verdict(Directories(d)) = "ok" THEN Registry(Directories(d)) ELSE NoRegistry

\* The interpreters that are built before the server listens.
Preloaded(r, id) ==
    IF r.models[id].members = << >> THEN {id} ELSE ToSet(r.models[id].members)

Loads(r, id) ==
    /\ id \in DOMAIN r.backing
    /\ \/ r.backing[id].path.dir # 1
       \/ disk[r.backing[id].path.name] \in Loadable

\* warm_up raises nothing.
WarmsUp(r, id) == \A m \in Preloaded(r, id) : Loads(r, m)

DefaultsOf(d) == DefaultIds(Directories(d), Discovered(d).models, default_model)

Started ==
    /\ phase \in {"down", "failed"}
    /\ \/ DefaultsOf(disk) = {}
       \/ \E id \in DefaultsOf(disk) : WarmsUp(Discovered(disk), id)
    /\ phase' = "idle" /\ registry' = Discovered(disk)
    /\ cause' = IF Verdict(Directories(disk)) = "ok" THEN "none" ELSE cause
    /\ UNCHANGED <<disk, fileVars, answer, archive, counters>>

\* The supervisor tries again.
StartFails_Unread ==        \* mutant: an exception of refresh ends the process
    /\ phase \in {"down", "failed"}
    /\ \/ Verdict(Directories(disk)) # "ok"
       \/ \E id \in DefaultsOf(disk) : ~WarmsUp(Discovered(disk), id)
    /\ phase' = "failed"
    /\ UNCHANGED <<disk, registry, fileVars, answer, archive, cause, counters>>
StartFails ==
    /\ phase \in {"down", "failed"}
    /\ \E id \in DefaultsOf(disk) : ~WarmsUp(Discovered(disk), id)
    /\ phase' = "failed"
    /\ UNCHANGED <<disk, registry, fileVars, answer, archive, cause, counters>>

StoreInit ==
    /\ disk \in Found /\ archive \in Archives
    /\ phase = "down" /\ registry = NoRegistry
    /\ request = NoRequest /\ originals = NoFiles /\ todo = {} /\ spoilt = {}
    /\ answer = "none" /\ cause = "outside"
    /\ requests = 0 /\ crashes = 0 /\ edits = 0

StoreNext ==
    \/ UploadModel \/ DeleteModel \/ Restore \/ Backup
    \/ ApplyOne \/ ApplyFails \/ Commit \/ Refuse \/ Escape
    \/ RollBackOne \/ RollBackFails \/ EndRollback
    \/ RefreshRequest \/ HandEdit \/ Crash \/ Started \/ StartFails

StoreSpec == StoreInit /\ [][StoreNext]_storeVars

----------------------------------------------------------------------------
StoreTypeOK ==
    /\ disk \in [FileNames -> Contents]
    /\ phase \in {"idle", "apply", "rollback", "down", "failed"}
    /\ DOMAIN originals = Touched /\ Touched \subseteq FileNames
    /\ todo \subseteq Touched /\ spoilt \subseteq Touched
    /\ Touched = {} <=> phase \in {"idle", "down", "failed"}
    /\ answer \in {"none", "ok", "refused", "error"}
    /\ cause \in {"none", "outside", "escape"}

\* The contents that a request found.
Before == [n \in FileNames |-> IF n \in DOMAIN originals THEN originals[n] ELSE disk[n]]

\* A request changes all of its files or none, and a restore makes the directory
\* what the archive holds; what a failing disk and a crash leave is bounded
\* (_apply_changes, _rollback).
Promise == INSTANCE AtomicStore WITH contents <- Before
KeepsPromise == Promise!Spec

\* Between requests the directory is one that discovery accepts and what is served
\* is what it holds, unless it was changed by hand, by a crash or by a disk that
\* failed twice: a change that is refused leaves no trace (http_api.py:495).
\* Left out is what Escape leaves behind.
ServedAsStored ==
    phase = "idle" /\ cause = "none" =>
       /\ Verdict(Directories(disk)) = "ok"
       /\ registry = Registry(Directories(disk))

\* "Uploads and restores are validated and rolled back on errors" (README.md:130):
\* only from outside can the directory become one that discovery refuses.
RolledBackOnErrors ==
    phase = "idle" /\ cause # "outside" => Verdict(Directories(disk)) = "ok"

\* A request is rolled back only if what it asks for is not a valid directory, or
\* an operation failed.  A restore is one: the leftovers that it would have to be
\* compatible with are gone by then (restore, http_api.py:320).
RefusedForAReason ==
    phase = "rollback" /\ spoilt = {} =>
       Verdict(Directories(Promise!Result(request, Before))) # "ok"

\* "Keep the server ... running so a broken models.yaml can be fixed remotely"
\* (__main__.py:189): whatever requests, edits, failures and crashes leave behind,
\* the server starts, unless there is a model file that ONNX does not load.
StartsAnyway ==
    phase = "failed" => \E n \in ToSet(Names) : disk[n] \notin Loadable \cup {Absent}
=============================================================================
