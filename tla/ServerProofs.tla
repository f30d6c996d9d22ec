------------------------------ MODULE ServerProofs ------------------------------
(* Theorems about ModelStore and SettingsFile, for every value of their       *)
(* constants.  All but StartsWhateverIsLeft leave undefined what discovery     *)
(* makes of a directory (Verdict, Registry): they hold for any rules.         *)
EXTENDS ModelStore, SettingsFile, DiscoveryProofs, TLAPS

----------------------------------------------------------------------------
(* The inductive invariant of the store                                      *)

\* A set of files and what is in them.
IsFiles(f) ==
    /\ DOMAIN f \subseteq FileNames
    /\ \A n \in DOMAIN f : f[n] \in Contents \ {Absent}

Typed ==
    /\ StoreTypeOK
    /\ IsFiles(archive) /\ IsFiles(request.writes)
    /\ archive = [n \in DOMAIN archive |-> archive[n]]
    /\ request = [writes |-> request.writes, deletes |-> request.deletes]
    /\ request.writes = [n \in DOMAIN request.writes |-> request.writes[n]]
    /\ DOMAIN request.writes \cap request.deletes = {}
    /\ originals = [n \in DOMAIN originals |-> originals[n]]
    /\ \A n \in DOMAIN originals : originals[n] \in Contents
    /\ Touched = {} => request = NoRequest /\ originals = NoFiles /\ todo = {} /\ spoilt = {}

\* What the files of a request hold.
Progress ==
    /\ phase = "apply" =>
          /\ spoilt = {}
          /\ \A n \in todo : disk[n] = originals[n]
          /\ \A n \in Touched \ todo : disk[n] = Target[n]
    /\ phase = "rollback" =>
          /\ \A n \in todo \ spoilt : disk[n] \in {originals[n], Target[n]}
          /\ \A n \in Touched \ (todo \cup spoilt) : disk[n] = originals[n]

\* The registry is that of the directory as the request found it.
Synced ==
    cause = "none" =>
       /\ Verdict(Directories(Before)) = "ok"
       /\ phase \in {"idle", "apply", "rollback"} => registry = Registry(Directories(Before))

StoreInv == Typed /\ Progress /\ Synced /\ RefusedForAReason

\* Contents that files may be given.
LEMMA ContentsAreContents ==
    /\ \A n \in FileNames : ContentsOf(n) \subseteq Contents \ {Absent}
    /\ \A n \in FileNames : TornOf(n) \subseteq Contents \ {Absent}
    /\ \A n \in FileNames : EditsOf(n) \subseteq Contents
    /\ Absent \in Contents
  BY StoreAssumption DEF ContentsOf, TornOf, EditsOf, Contents

\* Between requests nothing is pending.
LEMMA NothingPending ==
    ASSUME Typed, phase \in {"idle", "down", "failed"}
    PROVE  /\ request = NoRequest /\ originals = NoFiles /\ todo = {} /\ spoilt = {}
           /\ Touched = {} /\ Before = disk
  <1>1. Touched = {}
    BY DEF Typed, StoreTypeOK
  <1>2. request = NoRequest /\ originals = NoFiles /\ todo = {} /\ spoilt = {}
    BY <1>1 DEF Typed
  <1>3. Before = disk
    BY <1>2 DEF Typed, StoreTypeOK, Before, NoFiles
  <1> QED
    BY <1>1, <1>2, <1>3

\* A file has its original contents or those that are asked for.
LEMMA BeforeAndTarget ==
    ASSUME Typed
    PROVE  /\ Before \in [FileNames -> Contents]
           /\ \A n \in Touched : Before[n] = originals[n]
           /\ \A n \in FileNames \ Touched : Before[n] = disk[n] /\ Target[n] = disk[n]
           /\ Target \in [FileNames -> Contents]
           /\ Promise!Result(request, Before) = [n \in FileNames |-> IF n \in Touched THEN Target[n] ELSE Before[n]]
  <1>1. Before \in [FileNames -> Contents]
    BY DEF Typed, StoreTypeOK, Before
  <1>2. /\ \A n \in Touched : Before[n] = originals[n]
        /\ \A n \in FileNames \ Touched : Before[n] = disk[n]
    BY DEF Typed, StoreTypeOK, Before
  <1>3. Target \in [FileNames -> Contents]
    BY ContentsAreContents DEF Typed, StoreTypeOK, Target, IsFiles
  <1>4. \A n \in FileNames \ Touched : Target[n] = disk[n]
    BY DEF Target, Touched
  <1>5. Promise!Result(request, Before) = [n \in FileNames |-> IF n \in Touched THEN Target[n] ELSE Before[n]]
    BY DEF Promise!Result, Target, Touched
  <1> QED
    BY <1>1, <1>2, <1>3, <1>4, <1>5

----------------------------------------------------------------------------
(* Requests begin and end                                                    *)

LEMMA BeginInv ==
    ASSUME StoreInv, NEW writes, NEW deletes, Begin(writes, deletes),
           IsFiles(writes), writes = [n \in DOMAIN writes |-> writes[n]],
           deletes \subseteq FileNames, DOMAIN writes \cap deletes = {},
           DOMAIN writes \cup deletes # {}
    PROVE  StoreInv' /\ Before' = Before
  <1> USE DEF StoreInv
  <1>1. /\ request = NoRequest /\ Before = disk /\ spoilt = {}
        /\ disk' = disk /\ phase' = "apply" /\ spoilt' = {} /\ cause' = cause
        /\ request' = [writes |-> writes, deletes |-> deletes]
        /\ todo' = DOMAIN writes \cup deletes
        /\ originals' = [n \in DOMAIN writes \cup deletes |-> disk[n]]
        /\ registry' = registry /\ archive' = archive /\ answer' = answer
        /\ phase = "idle"
    BY NothingPending DEF Begin, OriginalsOf
  <1>2. Touched' = DOMAIN writes \cup deletes
    BY <1>1 DEF Touched
  <1>3. Typed'
    BY <1>1, <1>2 DEF Typed, StoreTypeOK, IsFiles
  <1>4. Before' = Before
    BY <1>1 DEF Before, Typed, StoreTypeOK, IsFiles
  <1>5. Progress'
    BY <1>1, <1>2 DEF Progress
  <1>6. Synced'
    BY <1>1, <1>4 DEF Synced
  <1>7. RefusedForAReason'
    BY <1>1 DEF RefusedForAReason
  <1> QED
    BY <1>3, <1>4, <1>5, <1>6, <1>7

\* Whatever ends a request or happens between two: nothing is pending, and if the
\* directory is thought to be in order it is.
LEMMA EndInv ==
    ASSUME StoreInv,
           phase' \in {"idle", "down", "failed"},
           request' = NoRequest, originals' = NoFiles, todo' = {}, spoilt' = {},
           disk' \in [FileNames -> Contents],
           IsFiles(archive'), archive' = [n \in DOMAIN archive' |-> archive'[n]],
           answer' \in {"none", "ok", "refused", "error"},
           cause' \in {"none", "outside", "escape"},
           cause' = "none" => /\ Verdict(Directories(disk')) = "ok"
                              /\ phase' = "idle" => registry' = Registry(Directories(disk'))
    PROVE  StoreInv' /\ Before' = disk'
  <1>1. Touched' = {}
    BY DEF Touched, NoRequest, NoFiles
  <1>2. Typed'
    BY <1>1 DEF Typed, StoreTypeOK, NoRequest, NoFiles, IsFiles
  <1>3. Before' = disk'
    BY DEF Before, NoFiles
  <1>4. Progress' /\ RefusedForAReason'
    BY DEF Progress, RefusedForAReason
  <1>5. Synced'
    BY <1>3 DEF Synced
  <1> QED
    BY <1>2, <1>3, <1>4, <1>5 DEF StoreInv

----------------------------------------------------------------------------
(* File operations                                                           *)

\* A file that belongs to the request gets other contents; the request is as before.
LEMMA FileOperation ==
    ASSUME Typed, NEW n \in Touched, NEW c \in Contents,
           disk' = [disk EXCEPT ![n] = c],
           request' = request, originals' = originals
    PROVE  /\ disk' \in [FileNames -> Contents]
           /\ Before' = Before /\ Touched' = Touched
           /\ \A m \in FileNames : m # n => disk'[m] = disk[m]
           /\ disk'[n] = c
           /\ \A m \in Touched : Target'[m] = Target[m]
  <1>1. disk' \in [FileNames -> Contents] /\ n \in FileNames
    BY DEF Typed, StoreTypeOK
  <1>2. (\A m \in FileNames : m # n => disk'[m] = disk[m]) /\ disk'[n] = c
    BY <1>1 DEF Typed, StoreTypeOK
  <1>3. Touched' = Touched
    BY DEF Touched
  <1>4. Before' = Before
    BY <1>1, <1>2 DEF Before, Typed, StoreTypeOK
  <1>5. \A m \in Touched : Target'[m] = Target[m]
    BY DEF Target, Touched, Typed, StoreTypeOK
  <1> QED
    BY <1>1, <1>2, <1>3, <1>4, <1>5

LEMMA ApplyOneInv ==
    ASSUME StoreInv, ApplyOne
    PROVE  StoreInv' /\ Before' = Before
  <1> USE DEF StoreInv
  <1>1. PICK n \in Pending : disk' = [disk EXCEPT ![n] = Target[n]] /\ todo' = todo \ {n}
    BY DEF ApplyOne
  <1>2. n \in todo /\ n \in Touched /\ n \in FileNames
    BY <1>1 DEF Pending, Writing, Typed, StoreTypeOK
  <1>3. Target[n] \in Contents
    BY <1>2, BeforeAndTarget
  <1>4. /\ request' = request /\ originals' = originals /\ phase = "apply" /\ phase' = "apply"
        /\ spoilt' = spoilt /\ archive' = archive /\ answer' = answer /\ cause' = cause
        /\ registry' = registry
    BY DEF ApplyOne
  <1>5. /\ disk' \in [FileNames -> Contents]
        /\ Before' = Before /\ Touched' = Touched
        /\ \A m \in FileNames : m # n => disk'[m] = disk[m]
        /\ disk'[n] = Target[n]
        /\ \A m \in Touched : Target'[m] = Target[m]
    BY <1>1, <1>2, <1>3, <1>4, FileOperation
  <1>6. Typed'
    BY <1>1, <1>4, <1>5 DEF Typed, StoreTypeOK, IsFiles
  <1>7. Progress'
    <2> Touched \subseteq FileNames
      BY DEF Typed, StoreTypeOK
    <2> QED
      BY <1>1, <1>2, <1>4, <1>5 DEF Progress
  <1>8. Synced'
    BY <1>4, <1>5 DEF Synced
  <1>9. RefusedForAReason'
    BY <1>4 DEF RefusedForAReason
  <1> QED
    BY <1>5, <1>6, <1>7, <1>8, <1>9

\* An operation that fails leaves the file alone or torn.
LEMMA FailedOperation ==
    ASSUME Typed, NEW n \in Touched,
           disk' = disk \/ \E c \in TornOf(n) : disk' = [disk EXCEPT ![n] = c],
           request' = request, originals' = originals
    PROVE  /\ disk' \in [FileNames -> Contents]
           /\ Before' = Before /\ Touched' = Touched
           /\ \A m \in FileNames : m # n => disk'[m] = disk[m]
           /\ \A m \in Touched : Target'[m] = Target[m]
  <1>1. CASE disk' = disk
    BY <1>1 DEF Typed, StoreTypeOK, Before, Touched, Target
  <1>2. CASE \E c \in TornOf(n) : disk' = [disk EXCEPT ![n] = c]
    <2>1. PICK c \in TornOf(n) : disk' = [disk EXCEPT ![n] = c]
      BY <1>2
    <2>2. c \in Contents
      BY ContentsAreContents DEF Typed, StoreTypeOK
    <2> QED
      BY <2>1, <2>2, FileOperation
  <1> QED
    BY <1>1, <1>2

LEMMA ApplyFailsInv ==
    ASSUME StoreInv, ApplyFails
    PROVE  /\ StoreInv' /\ Before' = Before
           /\ spoilt = {} /\ \E n \in Touched : spoilt' = {n}
  <1> USE DEF StoreInv
  <1>1. PICK n \in Pending :
           /\ disk' = disk \/ \E c \in TornOf(n) : disk' = [disk EXCEPT ![n] = c]
           /\ spoilt' = {n}
    BY DEF ApplyFails
  <1>2. n \in todo /\ n \in Touched
    BY <1>1 DEF Pending, Writing, Typed, StoreTypeOK
  <1>3. /\ request' = request /\ originals' = originals /\ phase = "apply" /\ phase' = "rollback"
        /\ todo' = Touched /\ archive' = archive /\ answer' = answer /\ cause' = cause
        /\ registry' = registry
    BY DEF ApplyFails, StartRollback
  <1>4. /\ disk' \in [FileNames -> Contents]
        /\ Before' = Before /\ Touched' = Touched
        /\ \A m \in FileNames : m # n => disk'[m] = disk[m]
        /\ \A m \in Touched : Target'[m] = Target[m]
    BY <1>1, <1>2, <1>3, FailedOperation
  <1>5. Typed'
    BY <1>1, <1>2, <1>3, <1>4 DEF Typed, StoreTypeOK, IsFiles
  <1>6. Progress'
    <2> Touched \subseteq FileNames
      BY DEF Typed, StoreTypeOK
    <2> QED
      BY <1>1, <1>2, <1>3, <1>4 DEF Progress
  <1>7. Synced'
    BY <1>3, <1>4 DEF Synced
  <1>8. RefusedForAReason'
    BY <1>1 DEF RefusedForAReason
  <1> QED
    BY <1>1, <1>2, <1>3, <1>4, <1>5, <1>6, <1>7, <1>8 DEF Progress

LEMMA RollBackOneInv ==
    ASSUME StoreInv, RollBackOne
    PROVE  StoreInv' /\ Before' = Before
  <1> USE DEF StoreInv
  <1>1. PICK n \in todo : disk' = [disk EXCEPT ![n] = originals[n]] /\ todo' = todo \ {n}
    BY DEF RollBackOne, PutBack
  <1>2. n \in Touched /\ originals[n] \in Contents
    BY DEF Typed, StoreTypeOK
  <1>3. /\ request' = request /\ originals' = originals /\ phase = "rollback" /\ phase' = "rollback"
        /\ spoilt' = spoilt /\ archive' = archive /\ answer' = answer /\ cause' = cause
        /\ registry' = registry
    BY DEF RollBackOne
  <1>4. /\ disk' \in [FileNames -> Contents]
        /\ Before' = Before /\ Touched' = Touched
        /\ \A m \in FileNames : m # n => disk'[m] = disk[m]
        /\ disk'[n] = originals[n]
        /\ \A m \in Touched : Target'[m] = Target[m]
    BY <1>1, <1>2, <1>3, FileOperation
  <1>5. Typed'
    BY <1>1, <1>3, <1>4 DEF Typed, StoreTypeOK, IsFiles
  <1>6. Progress'
    <2> Touched \subseteq FileNames /\ todo \subseteq Touched
      BY DEF Typed, StoreTypeOK
    <2> QED
      BY <1>1, <1>2, <1>3, <1>4 DEF Progress
  <1>7. Synced'
    BY <1>3, <1>4 DEF Synced
  <1>8. RefusedForAReason'
    BY <1>3, <1>4 DEF RefusedForAReason
  <1> QED
    BY <1>4, <1>5, <1>6, <1>7, <1>8

LEMMA RollBackFailsInv ==
    ASSUME StoreInv, RollBackFails
    PROVE  /\ StoreInv' /\ Before' = Before
           /\ \E n \in Touched : spoilt' = spoilt \cup {n}
  <1> USE DEF StoreInv
  <1>1. PICK n \in todo :
           /\ disk' = disk \/ \E c \in TornOf(n) : disk' = [disk EXCEPT ![n] = c]
           /\ spoilt' = spoilt \cup {n} /\ todo' = todo \ {n}
    BY DEF RollBackFails
  <1>2. n \in Touched
    BY DEF Typed, StoreTypeOK
  <1>3. /\ request' = request /\ originals' = originals /\ phase = "rollback" /\ phase' = "rollback"
        /\ archive' = archive /\ answer' = answer /\ cause' = cause
        /\ registry' = registry
    BY DEF RollBackFails
  <1>4. /\ disk' \in [FileNames -> Contents]
        /\ Before' = Before /\ Touched' = Touched
        /\ \A m \in FileNames : m # n => disk'[m] = disk[m]
        /\ \A m \in Touched : Target'[m] = Target[m]
    BY <1>1, <1>2, <1>3, FailedOperation
  <1>5. Typed'
    BY <1>1, <1>2, <1>3, <1>4 DEF Typed, StoreTypeOK, IsFiles
  <1>6. Progress'
    <2> Touched \subseteq FileNames /\ todo \subseteq Touched
      BY DEF Typed, StoreTypeOK
    <2> QED
      BY <1>1, <1>2, <1>3, <1>4 DEF Progress
  <1>7. Synced'
    BY <1>3, <1>4 DEF Synced
  <1>8. RefusedForAReason'
    BY <1>1 DEF RefusedForAReason
  <1> QED
    BY <1>1, <1>2, <1>4, <1>5, <1>6, <1>7, <1>8

----------------------------------------------------------------------------
(* Refreshes and the ends of requests                                        *)

\* All files have been written and deleted.
LEMMA AllApplied ==
    ASSUME StoreInv, phase = "apply", todo = {}
    PROVE  disk = Promise!Result(request, Before) /\ spoilt = {}
  <1> USE DEF StoreInv
  <1>1. \A n \in Touched : disk[n] = Target[n]
    BY DEF Progress
  <1> QED
    BY <1>1, BeforeAndTarget DEF Progress, Typed, StoreTypeOK

LEMMA RefuseInv ==
    ASSUME StoreInv, Refuse
    PROVE  StoreInv' /\ Before' = Before
  <1> USE DEF StoreInv
  <1>1. /\ phase = "apply" /\ todo = {} /\ Verdict(Directories(disk)) = Invalid
        /\ disk' = disk /\ registry' = registry /\ request' = request
        /\ originals' = originals /\ spoilt' = spoilt /\ answer' = answer /\ archive' = archive
        /\ cause' = cause /\ phase' = "rollback" /\ todo' = Touched
    BY DEF Refuse, StartRollback
  <1>2. Before' = Before /\ Touched' = Touched /\ \A n \in Touched : Target'[n] = Target[n]
    BY <1>1 DEF Before, Touched, Target
  <1>3. Typed'
    BY <1>1, <1>2 DEF Typed, StoreTypeOK, IsFiles
  <1>4. Progress'
    BY <1>1, <1>2 DEF Progress
  <1>5. Synced'
    BY <1>1, <1>2 DEF Synced
  <1>6. RefusedForAReason'
    BY <1>1, <1>2, AllApplied, DiscoveryAssumption DEF RefusedForAReason
  <1> QED
    BY <1>2, <1>3, <1>4, <1>5, <1>6

LEMMA CommitInv ==
    ASSUME StoreInv, Commit
    PROVE  StoreInv' /\ Before' = disk' /\ disk' = disk
  <1>1. StoreInv' /\ Before' = disk'
    BY EndInv DEF Commit, Refresh, EndRequest, StoreInv, Typed, StoreTypeOK, IsFiles
  <1> QED
    BY <1>1 DEF Commit

LEMMA EscapeInv ==
    ASSUME StoreInv, Escape
    PROVE  StoreInv' /\ Before' = disk' /\ disk' = disk
  <1>1. cause' # "none" /\ cause' \in {"none", "outside", "escape"}
    BY DEF Escape, StoreInv, Typed, StoreTypeOK
  <1>2. StoreInv' /\ Before' = disk'
    BY <1>1, EndInv DEF Escape, EndRequest, StoreInv, Typed, StoreTypeOK, IsFiles
  <1> QED
    BY <1>2 DEF Escape

\* Everything has been put back, but for what the disk has refused.
LEMMA AllPutBack ==
    ASSUME StoreInv, phase = "rollback", todo = {}
    PROVE  \A n \in FileNames \ spoilt : disk[n] = Before[n]
  BY BeforeAndTarget DEF StoreInv, Progress

LEMMA EndRollbackInv ==
    ASSUME StoreInv, EndRollback
    PROVE  StoreInv' /\ Before' = disk' /\ disk' = disk
  <1>1. phase = "rollback" /\ todo = {} /\ disk' = disk /\ archive' = archive
    BY DEF EndRollback
  <1>2. cause' = "none" => /\ Verdict(Directories(disk')) = "ok"
                           /\ phase' = "idle" => registry' = Registry(Directories(disk'))
    <2>1. CASE Verdict(Directories(disk)) = "ok"
      BY <2>1, <1>1 DEF EndRollback, Refresh
    <2>2. CASE Verdict(Directories(disk)) # "ok"
      <3>1. cause' = IF spoilt # {} THEN "outside" ELSE cause
        BY <2>2 DEF EndRollback
      <3>2. cause = "none" /\ spoilt = {} => disk = Before
        BY <1>1, AllPutBack, BeforeAndTarget DEF StoreInv, Typed, StoreTypeOK
      <3> QED
        BY <2>2, <3>1, <3>2 DEF StoreInv, Synced
    <2> QED
      BY <2>1, <2>2
  <1>3. cause' \in {"none", "outside", "escape"}
    BY DEF EndRollback, Refresh, StoreInv, Typed, StoreTypeOK
  <1>4. StoreInv' /\ Before' = disk'
    BY <1>1, <1>2, <1>3, EndInv DEF EndRollback, EndRequest, StoreInv, Typed, StoreTypeOK, IsFiles
  <1> QED
    BY <1>1, <1>4

----------------------------------------------------------------------------
(* Between requests                                                          *)

LEMMA BackupInv ==
    ASSUME StoreInv, Backup
    PROVE  StoreInv' /\ Before' = Before
  <1>1. /\ request = NoRequest /\ originals = NoFiles /\ todo = {} /\ spoilt = {} /\ Before = disk
    BY NothingPending DEF Backup, StoreInv
  <1>2. IsFiles(archive')
    BY DEF Backup, IsFiles, Existing, StoreInv, Typed, StoreTypeOK
  <1>3. StoreInv' /\ Before' = disk'
    BY <1>1, <1>2, EndInv DEF Backup, fileVars, StoreInv, Typed, StoreTypeOK, Synced
  <1> QED
    BY <1>1, <1>3 DEF Backup

LEMMA RefreshRequestInv ==
    ASSUME StoreInv, RefreshRequest
    PROVE  StoreInv' /\ Before' = Before
  <1>1. /\ request = NoRequest /\ originals = NoFiles /\ todo = {} /\ spoilt = {} /\ Before = disk
    BY NothingPending DEF RefreshRequest, StoreInv
  <1>2. StoreInv' /\ Before' = disk'
    BY <1>1, EndInv DEF RefreshRequest, Refresh, fileVars, StoreInv, Typed, StoreTypeOK, IsFiles
  <1> QED
    BY <1>1, <1>2 DEF RefreshRequest

LEMMA HandEditInv ==
    ASSUME StoreInv, HandEdit
    PROVE  /\ StoreInv' /\ Before = disk /\ Before' = disk' /\ request' = request /\ spoilt' = spoilt
           /\ request = NoRequest
           /\ \E n \in FileNames, c \in Contents : disk' = [disk EXCEPT ![n] = c]
  <1>1. /\ request = NoRequest /\ originals = NoFiles /\ todo = {} /\ spoilt = {} /\ Before = disk
    BY NothingPending DEF HandEdit, StoreInv
  <1>2. \E n \in FileNames, c \in Contents : disk' = [disk EXCEPT ![n] = c]
    BY ContentsAreContents DEF HandEdit
  <1>3. disk' \in [FileNames -> Contents]
    BY <1>2 DEF StoreInv, Typed, StoreTypeOK
  <1>4. phase' \in {"idle", "down", "failed"}
    BY DEF HandEdit
  <1>5. StoreInv' /\ Before' = disk'
    BY <1>1, <1>3, <1>4, EndInv DEF HandEdit, fileVars, StoreInv, Typed, StoreTypeOK, IsFiles
  <1> QED
    BY <1>1, <1>2, <1>5 DEF HandEdit, fileVars

\* The process is killed between two requests, or during one.
LEMMA CrashInv ==
    ASSUME StoreInv, Crash
    PROVE  /\ StoreInv' /\ Before' = disk'
           /\ disk' \in [FileNames -> Contents]
           /\ phase = "idle" => disk' = disk /\ answer' = answer
           /\ phase # "idle" =>
                 /\ answer' = "none"
                 /\ \E torn \in Touched : \A n \in FileNames \ (spoilt \cup {torn}) :
                       disk'[n] \in {Before[n], Promise!Result(request, Before)[n]}
  <1> USE DEF StoreInv
  <1>1. phase \in {"idle", "apply", "rollback"}
    BY DEF Crash
  <1>2. BeingWritten \subseteq Touched
    BY <1>1 DEF BeingWritten, Writing, Typed, StoreTypeOK
  <1>3. disk' = disk \/ \E n \in BeingWritten : \E c \in TornOf(n) : disk' = [disk EXCEPT ![n] = c]
    BY DEF Crash
  <1>4. PICK torn : /\ phase # "idle" => torn \in Touched
                    /\ disk' = disk \/ (torn \in BeingWritten /\ \E c \in TornOf(torn) : disk' = [disk EXCEPT ![torn] = c])
    <2>1. CASE disk' = disk
      BY <1>1, <2>1 DEF Typed, StoreTypeOK
    <2>2. CASE \E n \in BeingWritten : \E c \in TornOf(n) : disk' = [disk EXCEPT ![n] = c]
      BY <1>2, <2>2
    <2> QED
      BY <1>3, <2>1, <2>2
  <1>5. disk' \in [FileNames -> Contents] /\ \A n \in FileNames \ {torn} : disk'[n] = disk[n]
    BY <1>2, <1>4, ContentsAreContents DEF Typed, StoreTypeOK
  <1>6. CASE phase = "idle"
    <2>1. disk' = disk
      BY <1>4, <1>6 DEF BeingWritten
    <2>2. Before = disk
      BY <1>6, NothingPending
    <2>3. StoreInv' /\ Before' = disk'
      BY <1>5, <1>6, <2>1, <2>2, EndInv DEF Crash, Typed, StoreTypeOK, IsFiles, Synced
    <2> QED
      BY <1>5, <1>6, <2>1, <2>3 DEF Crash
  <1>7. CASE phase # "idle"
    <2>1. \A n \in FileNames \ spoilt : disk[n] \in {Before[n], Promise!Result(request, Before)[n]}
      BY <1>1, <1>7, BeforeAndTarget DEF Progress
    <2>2. \A n \in FileNames \ (spoilt \cup {torn}) : disk'[n] \in {Before[n], Promise!Result(request, Before)[n]}
      BY <1>5, <2>1
    <2>3. StoreInv' /\ Before' = disk'
      BY <1>5, <1>7, EndInv DEF Crash, Typed, StoreTypeOK, IsFiles
    <2> QED
      BY <1>4, <1>5, <1>7, <2>2, <2>3 DEF Crash
  <1> QED
    BY <1>6, <1>7

LEMMA StartInv ==
    ASSUME StoreInv, Started \/ StartFails
    PROVE  StoreInv' /\ Before' = Before
  <1>1. /\ request = NoRequest /\ originals = NoFiles /\ todo = {} /\ spoilt = {} /\ Before = disk
    BY NothingPending DEF Started, StartFails, StoreInv
  <1>2. cause = "none" => Verdict(Directories(disk)) = "ok"
    BY <1>1 DEF StoreInv, Synced
  <1>3. CASE Started
    <2>1. cause' = "none" => /\ Verdict(Directories(disk)) = "ok"
                             /\ registry' = Registry(Directories(disk))
      BY <1>2, <1>3 DEF Started, Discovered
    <2>2. cause' \in {"none", "outside", "escape"}
      BY <1>3 DEF Started, StoreInv, Typed, StoreTypeOK
    <2>3. StoreInv' /\ Before' = disk'
      BY <1>1, <1>3, <2>1, <2>2, EndInv DEF Started, fileVars, StoreInv, Typed, StoreTypeOK, IsFiles
    <2> QED
      BY <1>1, <1>3, <2>3 DEF Started
  <1>4. CASE StartFails
    <2>1. StoreInv' /\ Before' = disk'
      BY <1>1, <1>2, <1>4, EndInv DEF StartFails, fileVars, StoreInv, Typed, StoreTypeOK, IsFiles
    <2> QED
      BY <1>1, <1>4, <2>1 DEF StartFails
  <1> QED
    BY <1>3, <1>4

LEMMA RequestInv ==
    ASSUME StoreInv, UploadModel \/ DeleteModel \/ Restore
    PROVE  StoreInv' /\ Before' = Before
  <1>1. CASE UploadModel
    <2>1. PICK n \in Uploadable : \E content \in ContentsOf(n) : Begin([m \in {n} |-> content], {})
      BY <1>1 DEF UploadModel
    <2>2. PICK content \in ContentsOf(n) : Begin([m \in {n} |-> content], {})
      BY <2>1
    <2>3. n \in FileNames /\ content \in Contents \ {Absent}
      BY ContentsAreContents DEF Uploadable
    <2> DEFINE writes == [m \in {n} |-> content]
    <2>4. IsFiles(writes) /\ DOMAIN writes = {n} /\ writes = [m \in DOMAIN writes |-> writes[m]]
      BY <2>3 DEF IsFiles
    <2> HIDE DEF writes
    <2>5. Begin(writes, {})
      BY <2>2 DEF writes
    <2> QED
      BY <2>4, <2>5, BeginInv
  <1>2. CASE DeleteModel
    <2>1. PICK n \in Existing(disk) : Begin(NoFiles, {n})
      BY <1>2 DEF DeleteModel
    <2>2. IsFiles(NoFiles) /\ DOMAIN NoFiles = {} /\ NoFiles = [m \in DOMAIN NoFiles |-> NoFiles[m]]
      BY DEF IsFiles, NoFiles
    <2> QED
      BY <2>1, <2>2, BeginInv DEF Existing
  <1>3. CASE Restore
    <2>1. Begin(archive, Leftovers(archive)) /\ archive # NoFiles
      BY <1>3 DEF Restore
    <2>2. IsFiles(archive) /\ archive = [n \in DOMAIN archive |-> archive[n]]
      BY DEF StoreInv, Typed
    <2>3. DOMAIN archive # {}
      BY <2>1, <2>2 DEF NoFiles
    <2> QED
      BY <2>1, <2>2, <2>3, BeginInv DEF Leftovers, Existing
  <1> QED
    BY <1>1, <1>2, <1>3

----------------------------------------------------------------------------
(* The theorems about the store                                              *)

LEMMA StoreInitInv == StoreInit => StoreInv /\ Before = disk
  <1> SUFFICES ASSUME StoreInit PROVE StoreInv /\ Before = disk
    OBVIOUS
  <1> USE DEF StoreInit
  <1>1. Touched = {}
    BY DEF Touched, NoRequest, NoFiles
  <1>2. IsFiles(archive) /\ archive = [n \in DOMAIN archive |-> archive[n]]
    BY StoreAssumption DEF IsFiles
  <1>3. disk \in [FileNames -> Contents]
    BY StoreAssumption
  <1>4. Typed
    BY <1>1, <1>2, <1>3 DEF Typed, StoreTypeOK, NoRequest, NoFiles, IsFiles
  <1>5. Before = disk
    BY <1>3 DEF Before, NoFiles
  <1> QED
    BY <1>4, <1>5 DEF StoreInv, Progress, Synced, RefusedForAReason

LEMMA StoreStutter ==
    ASSUME StoreInv, UNCHANGED storeVars
    PROVE  StoreInv' /\ Before' = Before
  <1>1. /\ disk' = disk /\ registry' = registry /\ phase' = phase /\ request' = request
        /\ originals' = originals /\ todo' = todo /\ spoilt' = spoilt /\ answer' = answer
        /\ archive' = archive /\ cause' = cause
    BY DEF storeVars, fileVars
  <1>2. Touched' = Touched /\ Target' = Target /\ Before' = Before
    BY <1>1 DEF Touched, Target, Before
  <1>3. Typed'
    BY <1>1, <1>2 DEF StoreInv, Typed, StoreTypeOK, IsFiles
  <1>4. Progress'
    BY <1>1, <1>2 DEF StoreInv, Progress
  <1>5. Synced' /\ RefusedForAReason'
    BY <1>1, <1>2 DEF StoreInv, Synced, RefusedForAReason
  <1> QED
    BY <1>2, <1>3, <1>4, <1>5 DEF StoreInv

LEMMA StoreStep == StoreInv /\ [StoreNext]_storeVars => StoreInv'
  <1> SUFFICES ASSUME StoreInv, [StoreNext]_storeVars PROVE StoreInv'
    OBVIOUS
  <1> QED
    BY StoreStutter, RequestInv, BackupInv, ApplyOneInv, ApplyFailsInv, CommitInv, RefuseInv, EscapeInv,
       RollBackOneInv, RollBackFailsInv, EndRollbackInv, RefreshRequestInv, HandEditInv, CrashInv, StartInv
       DEF StoreNext

THEOREM StoreInvariant == StoreSpec => []StoreInv
  <1>1. StoreInit => StoreInv
    BY StoreInitInv
  <1> QED
    BY <1>1, StoreStep, PTL DEF StoreSpec

\* The types of the store's state: a request's files and their original contents
\* are there from its first operation to its answer, and at no other time.
THEOREM StoreTypeCorrect == StoreSpec => []StoreTypeOK
  <1>1. StoreInv => StoreTypeOK
    BY DEF StoreInv, Typed
  <1> QED
    BY <1>1, StoreInvariant, PTL

\* What is served is what the directory holds, and discovery accepts it, as long as
\* only requests touch the directory, for any rules of discovery and any files.
THEOREM StoredIsServed == StoreSpec => []ServedAsStored
  <1>1. StoreInv => ServedAsStored
    <2> SUFFICES ASSUME StoreInv, phase = "idle", cause = "none"
                 PROVE  Verdict(Directories(disk)) = "ok" /\ registry = Registry(Directories(disk))
      BY DEF ServedAsStored
    <2>1. Before = disk
      BY NothingPending DEF StoreInv
    <2> QED
      BY <2>1 DEF StoreInv, Synced
  <1> QED
    BY <1>1, StoreInvariant, PTL

\* A request is rolled back only if its result is refused by discovery or a file
\* operation failed.
THEOREM RefusalsHaveReasons == StoreSpec => []RefusedForAReason
  <1>1. StoreInv => RefusedForAReason
    BY DEF StoreInv
  <1> QED
    BY <1>1, StoreInvariant, PTL

----------------------------------------------------------------------------
(* The server starts                                                         *)

LEMMA DirectoriesAreDirs ==
  ASSUME NEW d
  PROVE  /\ IsDirs(Directories(d))
         /\ Directories(d)[1].files = {n \in ToSet(Names) : d[n] # Absent}
  <1> DEFINE x == [files |-> {n \in ToSet(Names) : d[n] # Absent},
                   yaml |-> IF d[Yaml] = Absent THEN << >> ELSE d[Yaml]]
             L == Len(Others)
  <1>1. Others \in Seq(ToSet(Others))
    BY StoreAssumption
  <1>2. L \in Nat
    BY <1>1
  <1>3. Directories(d) = <<x>> \o Others
    BY DEF Directories
  <1> HIDE DEF x
  <1>4. DOMAIN (<<x>> \o Others) = 1..(1 + L) /\ (<<x>> \o Others)[1] = x
    BY <1>1, <1>2
  <1>5. 1 + L \in Nat
    BY <1>2
  <1>6. IsDirs(Directories(d)) /\ Directories(d)[1] = x
    BY <1>3, <1>4, <1>5 DEF IsDirs
  <1> QED
    BY <1>6 DEF x

\* What a start preloads has a file; if that is in the first directory, it is there.
LEMMA OnlyAFileFails ==
  ASSUME NEW id \in DefaultsOf(disk), ~WarmsUp(Discovered(disk), id)
  PROVE  \E n \in ToSet(Names) : disk[n] \notin Loadable \cup {Absent}
  <1> DEFINE dirs == Directories(disk)
             r == Registry(dirs)
  <1>1. IsDirs(dirs) /\ dirs[1].files = {n \in ToSet(Names) : disk[n] # Absent}
    BY DirectoriesAreDirs
  <1>2. id \in DOMAIN Discovered(disk).models
    BY DefaultIsOffered DEF DefaultsOf
  <1>3. Verdict(dirs) = "ok" /\ Discovered(disk) = r
    BY <1>2 DEF Discovered, NoRegistry
  <1> HIDE DEF dirs, r
  <1>4. PICK m \in Preloaded(r, id) : ~Loads(r, m)
    BY <1>3 DEF WarmsUp
  <1>5. Preloaded(r, id) \subseteq DOMAIN r.backing
    BY <1>1, <1>2, <1>3, OfferedHasFiles DEF Preloaded, r
  <1> DEFINE p == Served(dirs)[m]
  <1>6. m \in DOMAIN Served(dirs) /\ r.backing[m].path = p
    BY <1>1, <1>4, <1>5, BackingHasFiles DEF r
  <1>7. p \in Paths(dirs)
    BY <1>1, <1>6, ServedIsFile
  <1> HIDE DEF p
  <1>8. p.name \in ToSet(Names) /\ p.name \in dirs[p.dir].files
    BY <1>7 DEF Paths
  <1>9. p.dir = 1 /\ disk[p.name] \notin Loadable
    BY <1>4, <1>5, <1>6 DEF Loads
  <1> QED
    BY <1>1, <1>8, <1>9

LEMMA StartsStep == StartsAnyway /\ [StoreNext]_storeVars => StartsAnyway'
  <1> SUFFICES ASSUME StartsAnyway, [StoreNext]_storeVars, phase' = "failed"
               PROVE  \E n \in ToSet(Names) : disk'[n] \notin Loadable \cup {Absent}
    BY DEF StartsAnyway
  <1>1. CASE StartFails
    <2>1. \E n \in ToSet(Names) : disk[n] \notin Loadable \cup {Absent}
      BY <1>1, OnlyAFileFails DEF StartFails
    <2> QED
      BY <1>1, <2>1 DEF StartFails
  <1>2. CASE UNCHANGED storeVars
    BY <1>2 DEF storeVars, StartsAnyway
  <1>3. CASE UploadModel \/ DeleteModel \/ Restore \/ Backup
    BY <1>3 DEF UploadModel, DeleteModel, Restore, Backup, Begin
  <1>4. CASE ApplyOne \/ ApplyFails \/ Commit \/ Refuse \/ Escape
    BY <1>4 DEF ApplyOne, ApplyFails, StartRollback, Commit, Refuse, Escape, EndRequest
  <1>5. CASE RollBackOne \/ RollBackFails \/ EndRollback
    BY <1>5 DEF RollBackOne, RollBackFails, EndRollback, EndRequest
  <1>6. CASE RefreshRequest \/ HandEdit \/ Crash \/ Started
    BY <1>6 DEF RefreshRequest, HandEdit, Crash, Started
  <1> QED
    BY <1>1, <1>2, <1>3, <1>4, <1>5, <1>6 DEF StoreNext

\* Whatever models.yaml says, and whatever requests, edits, failures and crashes leave
\* behind, the server starts, unless there is a model file that ONNX does not load:
\* a set of models that discovery refuses leaves nothing to preload, and of one that
\* it accepts every default and every member of a default has a file.
THEOREM StartsWhateverIsLeft == StoreSpec => []StartsAnyway
  <1>1. StoreInit => StartsAnyway
    BY DEF StoreInit, StartsAnyway
  <1> QED
    BY <1>1, StartsStep, PTL DEF StoreSpec

----------------------------------------------------------------------------
(* The store keeps its promise                                               *)

LEMMA PromiseInit == StoreInit => Promise!Init
  <1> SUFFICES ASSUME StoreInit PROVE Promise!Init
    OBVIOUS
  <1>1. StoreInv /\ Before = disk
    BY StoreInitInv
  <1>2. Before \in [FileNames -> Contents] /\ IsFiles(archive)
    BY <1>1 DEF StoreInv, Typed, StoreTypeOK
  <1> QED
    BY <1>2 DEF Promise!Init, Promise!NoRequest, Promise!NoFiles, NoRequest, NoFiles, StoreInit, IsFiles

\* The names that both modules define mean the same.
LEMMA SameNames ==
    /\ Promise!NoFiles = NoFiles /\ Promise!NoRequest = NoRequest
    /\ Promise!Touched(request) = Touched
    /\ \A d : Promise!Existing(d) = Existing(d)
  BY DEF Promise!NoFiles, NoFiles, Promise!NoRequest, NoRequest, Promise!Touched, Touched,
         Promise!Existing, Existing

LEMMA RequestBegins ==
    ASSUME StoreInv, UploadModel \/ DeleteModel \/ Restore
    PROVE  Promise!Upload \/ Promise!Delete \/ Promise!Restore
  <1>1. Before' = Before
    BY RequestInv
  <1>2. request = NoRequest /\ Before = disk
    BY NothingPending DEF StoreInv, UploadModel, DeleteModel, Restore, Begin
  <1>3. ASSUME NEW writes, NEW deletes, Begin(writes, deletes)
        PROVE  Promise!Begin([writes |-> writes, deletes |-> deletes])
    BY <1>1, <1>2, <1>3, SameNames DEF Begin, Promise!Begin
  <1>4. CASE UploadModel
    <2>1. PICK n \in Uploadable : \E content \in ContentsOf(n) : Begin([m \in {n} |-> content], {})
      BY <1>4 DEF UploadModel
    <2>2. PICK content \in ContentsOf(n) : Begin([m \in {n} |-> content], {})
      BY <2>1
    <2>3. n \in FileNames /\ content \in Contents \ {Absent}
      BY ContentsAreContents DEF Uploadable
    <2> QED
      BY <1>3, <2>2, <2>3 DEF Promise!Upload
  <1>5. CASE DeleteModel
    <2>1. PICK n \in Existing(disk) : Begin(NoFiles, {n})
      BY <1>5 DEF DeleteModel
    <2>2. Promise!Begin([writes |-> NoFiles, deletes |-> {n}])
      BY <1>3, <2>1
    <2> QED
      BY <1>2, <2>2, SameNames DEF Promise!Delete
  <1>6. CASE Restore
    <2>1. Begin(archive, Existing(disk) \ DOMAIN archive)
      BY <1>6 DEF Restore, Leftovers
    <2> QED
      BY <1>2, <1>3, <2>1, SameNames DEF Promise!Restore
  <1> QED
    BY <1>4, <1>5, <1>6

\* A request is pending from its first operation to its answer.
LEMMA RequestPending ==
    ASSUME StoreInv, phase \in {"apply", "rollback"}
    PROVE  request # NoRequest
  <1>1. Touched # {}
    BY DEF StoreInv, Typed, StoreTypeOK
  <1> QED
    BY <1>1 DEF Touched, NoRequest, NoFiles

LEMMA RequestEnds ==
    ASSUME StoreInv, Commit \/ Escape \/ EndRollback
    PROVE  Promise!Commit \/ Promise!Escape \/ Promise!Refuse
  <1>1. Before' = disk /\ disk' = disk
    BY CommitInv, EscapeInv, EndRollbackInv
  <1>2. request # NoRequest
    BY RequestPending DEF Commit, Escape, EndRollback
  <1>3. disk \in [FileNames -> Contents]
    BY DEF StoreInv, Typed, StoreTypeOK
  <1>4. ASSUME NEW result, EndRequest(result), archive' = archive
        PROVE  Promise!End(result)
    BY <1>1, <1>2, <1>3, <1>4, SameNames DEF EndRequest, Promise!End
  <1>5. CASE Commit
    <2>1. CASE EndRequest("ok")
      BY <1>1, <1>4, <1>5, <2>1, AllApplied DEF Commit, Promise!Commit
    <2>2. CASE EndRequest("error")
      BY <1>1, <1>4, <1>5, <2>2, AllApplied DEF Commit, Promise!Escape
    <2> QED
      BY <1>5, <2>1, <2>2 DEF Commit
  <1>6. CASE Escape
    BY <1>1, <1>4, <1>6, AllApplied DEF Escape, Promise!Escape
  <1>7. CASE EndRollback
    <2>1. \A n \in FileNames \ spoilt : Before'[n] = Before[n]
      BY <1>1, <1>7, AllPutBack DEF EndRollback
    <2> QED
      BY <1>4, <1>7, <2>1 DEF EndRollback, Promise!Refuse
  <1> QED
    BY <1>5, <1>6, <1>7

LEMMA CrashKeepsPromise ==
    ASSUME StoreInv, Crash
    PROVE  Promise!Crash \/ UNCHANGED Promise!vars
  <1>1. /\ Before' = disk' /\ disk' \in [FileNames -> Contents]
        /\ phase = "idle" => disk' = disk /\ answer' = answer
        /\ phase # "idle" =>
              /\ answer' = "none"
              /\ \E torn \in Touched : \A n \in FileNames \ (spoilt \cup {torn}) :
                    disk'[n] \in {Before[n], Promise!Result(request, Before)[n]}
    BY CrashInv
  <1>2. request' = NoRequest /\ spoilt' = {} /\ archive' = archive
    BY DEF Crash
  <1>3. CASE phase = "idle"
    BY <1>1, <1>2, <1>3, NothingPending DEF StoreInv, Promise!vars
  <1>4. CASE phase # "idle"
    <2>1. request # NoRequest
      BY <1>4, RequestPending DEF Crash
    <2>2. Promise!End("none")
      BY <1>1, <1>2, <1>4, <2>1, SameNames DEF Promise!End
    <2> QED
      BY <1>1, <1>4, <2>2, SameNames DEF Promise!Crash
  <1> QED
    BY <1>3, <1>4

LEMMA PromiseStep == StoreInv /\ [StoreNext]_storeVars => [Promise!Next]_Promise!vars
  <1> SUFFICES ASSUME StoreInv, [StoreNext]_storeVars
               PROVE  Promise!Next \/ UNCHANGED Promise!vars
    OBVIOUS
  <1>1. CASE UploadModel \/ DeleteModel \/ Restore
    BY <1>1, RequestBegins DEF Promise!Next
  <1>2. CASE Backup
    <2>1. Before' = Before /\ Before = disk /\ request = NoRequest
      BY <1>2, BackupInv, NothingPending DEF Backup, StoreInv
    <2> QED
      BY <1>2, <2>1, SameNames DEF Backup, fileVars, Promise!Backup, Promise!Next
  <1>3. CASE ApplyOne
    BY <1>3, ApplyOneInv DEF ApplyOne, Promise!vars
  <1>4. CASE ApplyFails
    <2>1. Before' = Before /\ spoilt = {} /\ \E n \in Touched : spoilt' = {n}
      BY <1>4, ApplyFailsInv
    <2>2. request # NoRequest
      BY <1>4, RequestPending DEF ApplyFails
    <2> QED
      BY <1>4, <2>1, <2>2, SameNames DEF ApplyFails, Promise!OperationFails, Promise!Next
  <1>5. CASE Commit \/ Escape \/ EndRollback
    BY <1>5, RequestEnds DEF Promise!Next
  <1>6. CASE Refuse
    BY <1>6, RefuseInv DEF Refuse, Promise!vars
  <1>7. CASE RollBackOne
    BY <1>7, RollBackOneInv DEF RollBackOne, Promise!vars
  <1>8. CASE RollBackFails
    <2>1. Before' = Before /\ \E n \in Touched : spoilt' = spoilt \cup {n}
      BY <1>8, RollBackFailsInv
    <2>2. request # NoRequest
      BY <1>8, RequestPending DEF RollBackFails
    <2> QED
      BY <1>8, <2>1, <2>2, SameNames DEF RollBackFails, Promise!OperationFails, Promise!Next
  <1>9. CASE RefreshRequest
    BY <1>9, RefreshRequestInv DEF RefreshRequest, fileVars, Promise!vars
  <1>10. CASE HandEdit
    <2>1. /\ Before = disk /\ Before' = disk' /\ request = NoRequest
          /\ \E n \in FileNames, c \in Contents : disk' = [disk EXCEPT ![n] = c]
      BY <1>10, HandEditInv
    <2> QED
      BY <1>10, <2>1, SameNames DEF HandEdit, fileVars, Promise!HandEdit, Promise!Next
  <1>11. CASE Crash
    BY <1>11, CrashKeepsPromise DEF Promise!Next
  <1>12. CASE Started \/ StartFails
    BY <1>12, StartInv DEF Started, StartFails, fileVars, Promise!vars
  <1>13. CASE UNCHANGED storeVars
    BY <1>13, StoreStutter DEF storeVars, fileVars, Promise!vars
  <1> QED
    BY <1>1, <1>2, <1>3, <1>4, <1>5, <1>6, <1>7, <1>8, <1>9, <1>10, <1>11, <1>12, <1>13 DEF StoreNext

\* The file-by-file implementation is an atomic store: whatever fails or is killed
\* when, each request changes all of its files or none, within the limits that
\* AtomicStore sets.
THEOREM PromiseKept == StoreSpec => KeepsPromise
  <1>1. Promise!Init /\ [][Promise!Next]_Promise!vars => Promise!Spec
    BY PTL DEF Promise!Spec
  <1> QED
    BY <1>1, PromiseInit, PromiseStep, StoreInvariant, PTL DEF StoreSpec, KeepsPromise

----------------------------------------------------------------------------
(* The theorem about the settings                                            *)

\* The file holds every accepted value that it is to hold.
SettingsInv ==
    /\ settings \in [Keys -> Values] /\ wish \in Partial
    /\ file \in Partial \cup {NotAnObject}
    /\ \A k \in DOMAIN wish \ (stray \cup unsaved) :
          /\ file # NotAnObject
          /\ k \in DOMAIN file /\ file[k] = wish[k]
    /\ PatchesSurvive

LEMMA PartialIs ==
    /\ \A f \in Partial : DOMAIN f \subseteq Keys /\ f \in [DOMAIN f -> Values]
    /\ \A D \in SUBSET Keys : [D -> Values] \subseteq Partial
    /\ \A f \in Partial : f # NotAnObject
    /\ Nothing \in Partial
    /\ [Keys -> Values] \subseteq Partial
  <1>1. Nothing \in [{} -> Values]
    BY DEF Nothing
  <1> QED
    BY <1>1, SettingsAssumption DEF Partial

\* Changes over what there was.
LEMMA OverlayIs ==
    ASSUME NEW f \in Partial, NEW g \in Partial
    PROVE  /\ Overlay(f, g) \in Partial
           /\ DOMAIN Overlay(f, g) = DOMAIN f \cup DOMAIN g
           /\ \A k \in DOMAIN f : Overlay(f, g)[k] = f[k]
           /\ \A k \in DOMAIN g \ DOMAIN f : Overlay(f, g)[k] = g[k]
           /\ g \in [Keys -> Values] => Overlay(f, g) \in [Keys -> Values]
  <1> DEFINE D == DOMAIN f \cup DOMAIN g
  <1>1. /\ D \subseteq Keys
        /\ \A k \in DOMAIN f : f[k] \in Values
        /\ \A k \in DOMAIN g : g[k] \in Values
    BY PartialIs
  <1>2. Overlay(f, g) \in [D -> Values]
    BY <1>1 DEF Overlay
  <1>3. Overlay(f, g) \in Partial
    BY <1>1, <1>2, PartialIs
  <1>4. g \in [Keys -> Values] => D = Keys
    <2> SUFFICES ASSUME g \in [Keys -> Values] PROVE D = Keys
      OBVIOUS
    <2>1. DOMAIN g = Keys
      OBVIOUS
    <2>2. DOMAIN f \subseteq Keys
      BY PartialIs
    <2> QED
      BY <2>1, <2>2
  <1>5. /\ DOMAIN Overlay(f, g) = D
        /\ \A k \in DOMAIN f : Overlay(f, g)[k] = f[k]
        /\ \A k \in DOMAIN g \ DOMAIN f : Overlay(f, g)[k] = g[k]
    BY DEF Overlay
  <1> QED
    BY <1>2, <1>3, <1>4, <1>5

LEMMA AcceptedInv ==
    ASSUME SettingsInv, NEW changes \in Partial, Accepted(changes),
           \/ file' = Saved(changes) /\ unsaved' = {}
           \/ file' = file /\ unsaved' = unsaved \cup DOMAIN changes
           \/ file' = Nothing /\ unsaved' = DOMAIN wish'
    PROVE  SettingsInv'
  <1>1. /\ settings \in [Keys -> Values] /\ settings \in Partial /\ wish \in Partial
        /\ DOMAIN changes \subseteq Keys /\ DOMAIN wish \subseteq Keys
        /\ file \in Partial \cup {NotAnObject}
    BY PartialIs DEF SettingsInv
  <1>2. /\ server = "up" /\ settings' = Overlay(changes, settings)
        /\ wish' = Overlay(changes, wish) /\ stray' = stray \ DOMAIN changes
    BY DEF Accepted, Patching
  <1>3. /\ settings' \in [Keys -> Values]
        /\ \A k \in DOMAIN changes : settings'[k] = changes[k]
        /\ \A k \in Keys \ DOMAIN changes : settings'[k] = settings[k]
    <2> DEFINE new == Overlay(changes, settings)
    <2>1. DOMAIN settings = Keys
      BY <1>1
    <2>2. /\ new \in [Keys -> Values]
          /\ \A k \in DOMAIN changes : new[k] = changes[k]
          /\ \A k \in DOMAIN settings \ DOMAIN changes : new[k] = settings[k]
      BY <1>1, OverlayIs
    <2>3. settings' = new
      BY <1>2
    <2> HIDE DEF new
    <2> QED
      BY <2>1, <2>2, <2>3
  <1>4. /\ wish' \in Partial
        /\ DOMAIN wish' = DOMAIN changes \cup DOMAIN wish
        /\ \A k \in DOMAIN changes : wish'[k] = changes[k]
        /\ \A k \in DOMAIN wish \ DOMAIN changes : wish'[k] = wish[k]
    <2> DEFINE new == Overlay(changes, wish)
    <2>1. /\ new \in Partial /\ DOMAIN new = DOMAIN changes \cup DOMAIN wish
          /\ \A k \in DOMAIN changes : new[k] = changes[k]
          /\ \A k \in DOMAIN wish \ DOMAIN changes : new[k] = wish[k]
      BY <1>1, OverlayIs
    <2>2. wish' = new
      BY <1>2
    <2> HIDE DEF new
    <2> QED
      BY <2>1, <2>2
  <1>5. \A k \in DOMAIN wish \ stray : settings[k] = wish[k]
    BY <1>2 DEF SettingsInv, PatchesSurvive
  <1>6. \A k \in DOMAIN wish' \ stray' : settings'[k] = wish'[k]
    <2> SUFFICES ASSUME NEW k \in DOMAIN wish' \ stray' PROVE settings'[k] = wish'[k]
      OBVIOUS
    <2>1. CASE k \in DOMAIN changes
      BY <2>1, <1>3, <1>4
    <2>2. CASE k \notin DOMAIN changes
      <3>1. k \in DOMAIN wish \ stray /\ k \in Keys \ DOMAIN changes
        BY <2>2, <1>1, <1>2, <1>4
      <3> QED
        BY <2>2, <3>1, <1>3, <1>4, <1>5
    <2> QED
      BY <2>1, <2>2
  <1>7. PatchesSurvive'
    BY <1>6 DEF PatchesSurvive
  <1>8. CASE file' = Saved(changes) /\ unsaved' = {}
    <2>1. file' = settings' /\ settings' \in Partial
      BY <1>2, <1>3, <1>8, PartialIs DEF Saved
    <2>2. \A k \in DOMAIN wish' : k \in DOMAIN settings'
      BY <1>1, <1>3, <1>4
    <2>3. file' # NotAnObject
      BY <2>1, PartialIs
    <2> QED
      BY <1>3, <1>4, <1>6, <1>7, <1>8, <2>1, <2>2, <2>3 DEF SettingsInv
  <1>9. CASE file' = file /\ unsaved' = unsaved \cup DOMAIN changes
    <2> SUFFICES ASSUME NEW k \in DOMAIN wish' \ (stray' \cup unsaved')
                 PROVE  file # NotAnObject /\ k \in DOMAIN file /\ file[k] = wish'[k]
      BY <1>1, <1>3, <1>4, <1>7, <1>9 DEF SettingsInv
    <2>1. k \in DOMAIN wish \ (stray \cup unsaved) /\ k \notin DOMAIN changes
      BY <1>2, <1>4, <1>9
    <2> QED
      BY <2>1, <1>4 DEF SettingsInv
  <1>10. CASE file' = Nothing /\ unsaved' = DOMAIN wish'
    <2>1. Nothing \in Partial
      BY PartialIs
    <2> QED
      BY <1>3, <1>4, <1>7, <1>10, <2>1 DEF SettingsInv
  <1> QED
    BY <1>8, <1>9, <1>10

LEMMA StartSettingsInv ==
    ASSUME SettingsInv, Start
    PROVE  SettingsInv'
  <1>1. PICK cli \in [Keys -> Values] : settings' = Overlay(file, cli)
    BY DEF Start, Applied
  <1>2. /\ file \in Partial /\ file' = file /\ stray' = stray /\ unsaved' = {}
        /\ wish' = [k \in DOMAIN wish \ unsaved |-> wish[k]]
        /\ file # NotAnObject
    BY DEF Start, SettingsInv
  <1>3. /\ settings' \in [Keys -> Values]
        /\ \A k \in DOMAIN file : settings'[k] = file[k]
    <2>1. cli \in Partial
      BY PartialIs
    <2> QED
      BY <1>1, <1>2, <2>1, OverlayIs
  <1>4. /\ wish' \in Partial /\ DOMAIN wish' = DOMAIN wish \ unsaved
        /\ \A k \in DOMAIN wish' : wish'[k] = wish[k]
    <2> DEFINE D == DOMAIN wish \ unsaved
    <2>1. D \subseteq Keys /\ \A k \in D : wish[k] \in Values
      BY PartialIs DEF SettingsInv
    <2>2. wish' \in [D -> Values]
      BY <1>2, <2>1
    <2>3. wish' \in Partial
      BY <2>1, <2>2, PartialIs
    <2> QED
      BY <1>2, <2>3
  <1>5. \A k \in DOMAIN wish' \ stray' : k \in DOMAIN file /\ file[k] = wish'[k]
    BY <1>2, <1>4 DEF SettingsInv
  <1>6. PatchesSurvive'
    BY <1>3, <1>5 DEF PatchesSurvive
  <1> QED
    BY <1>2, <1>3, <1>4, <1>5, <1>6 DEF SettingsInv

\* The last accepted value of every key is in force, before and after restarts, for
\* any keys, values and command lines, however often writing the file fails.
THEOREM PatchesAreKept == SettingsSpec => []PatchesSurvive
  <1>1. SettingsInit => SettingsInv
    BY PartialIs DEF SettingsInit, SettingsInv, PatchesSurvive, Nothing
  <1>2. SettingsInv /\ [SettingsNext]_settingsVars => SettingsInv'
    <2> SUFFICES ASSUME SettingsInv, [SettingsNext]_settingsVars PROVE SettingsInv'
      OBVIOUS
    <2>1. CASE Patch
      BY <2>1, AcceptedInv DEF Patch
    <2>2. CASE PatchUnsaved
      BY <2>2, AcceptedInv DEF PatchUnsaved
    <2>3. CASE PatchRefused
      <3>1. PICK changes \in Partial : Patching(changes) /\ stray' = stray \cup DOMAIN changes
        BY <2>3 DEF PatchRefused
      <3>2. file' = file /\ wish' = wish /\ unsaved' = unsaved /\ server' = server
        BY <2>3 DEF PatchRefused
      <3>3. settings \in [Keys -> Values] /\ settings \in Partial /\ DOMAIN settings = Keys
        BY PartialIs DEF SettingsInv
      <3>4. /\ settings' \in [Keys -> Values]
            /\ \A k \in Keys \ DOMAIN changes : settings'[k] = settings[k]
        BY <3>1, <3>3, OverlayIs DEF Patching
      <3>5. DOMAIN wish \subseteq Keys
        BY PartialIs DEF SettingsInv
      <3>6. PatchesSurvive'
        BY <3>1, <3>2, <3>4, <3>5 DEF SettingsInv, PatchesSurvive
      <3> QED
        BY <3>1, <3>2, <3>4, <3>6 DEF SettingsInv
    <2>4. CASE PatchKilled
      <3>1. PICK changes \in Partial : Patching(changes)
        BY <2>4 DEF PatchKilled
      <3>2. /\ file' = Nothing /\ wish' = wish /\ unsaved' = DOMAIN wish /\ server' = "down"
        BY <2>4 DEF PatchKilled
      <3>3. settings \in [Keys -> Values] /\ settings \in Partial
        BY PartialIs DEF SettingsInv
      <3>4. settings' \in [Keys -> Values]
        BY <3>1, <3>3, OverlayIs DEF Patching
      <3>5. Nothing \in Partial
        BY PartialIs
      <3> QED
        BY <3>2, <3>4, <3>5 DEF SettingsInv, PatchesSurvive
    <2>5. CASE Connect
      <3>1. /\ settings' \in [Keys -> Values]
            /\ \A k \in Keys \ {capture} : settings'[k] = settings[k]
        BY <2>5, SettingsAssumption DEF Connect, SettingsInv
      <3>2. DOMAIN wish \subseteq Keys
        BY PartialIs DEF SettingsInv
      <3>3. PatchesSurvive'
        BY <2>5, <3>1, <3>2 DEF Connect, SettingsInv, PatchesSurvive
      <3> QED
        BY <2>5, <3>1, <3>3 DEF Connect, SettingsInv
    <2>6. CASE Stop
      BY <2>6 DEF Stop, SettingsInv, PatchesSurvive
    <2>7. CASE EditFile
      BY <2>7, PartialIs DEF EditFile, SettingsInv, PatchesSurvive
    <2>8. CASE Start
      BY <2>8, StartSettingsInv
    <2>9. CASE StartRaises
      BY <2>9 DEF StartRaises, SettingsInv, PatchesSurvive
    <2>10. CASE UNCHANGED settingsVars
      BY <2>10 DEF settingsVars, SettingsInv, PatchesSurvive
    <2> QED
      BY <2>1, <2>2, <2>3, <2>4, <2>5, <2>6, <2>7, <2>8, <2>9, <2>10 DEF SettingsNext
  <1>3. SettingsInv => PatchesSurvive
    BY DEF SettingsInv
  <1> QED
    BY <1>1, <1>2, <1>3, PTL DEF SettingsSpec
=============================================================================
