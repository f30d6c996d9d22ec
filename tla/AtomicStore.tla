------------------------------ MODULE AtomicStore ------------------------------
(***************************************************************************)
(* What the model directory promises to users of the HTTP API: a request     *)
(* changes every file that it is about or none ("Uploads and restores are    *)
(* validated and rolled back on errors").  Three things spoil it: a file     *)
(* that cannot be written may be left in any state; a crash in the middle of *)
(* a request leaves every other file as it was or as it was to be, but for   *)
(* the one that was being written; and a request may end in an error of      *)
(* the server with everything changed.                                       *)
(***************************************************************************)
CONSTANTS FileNames, Contents, Absent

VARIABLES
    contents,       \* of each file
    request,        \* the change being made: what is written, what is deleted
    spoilt,         \* files that an operation of this request failed on
    answer,         \* to the last request
    archive         \* the backup that the user would restore

vars == <<contents, request, spoilt, answer, archive>>

NoFiles == [n \in {} |-> Absent]
NoRequest == [writes |-> NoFiles, deletes |-> {}]

Existing(c) == {n \in FileNames : c[n] # Absent}

Touched(r) == DOMAIN r.writes \cup r.deletes

Result(r, c) ==
    [n \in FileNames |-> IF n \in r.deletes THEN Absent
                         ELSE IF n \in DOMAIN r.writes THEN r.writes[n]
                         ELSE c[n]]

Begin(r) ==
    /\ request = NoRequest
    /\ request' = r /\ UNCHANGED <<contents, spoilt, answer, archive>>

Upload == \E n \in FileNames, c \in Contents \ {Absent} :
             Begin([writes |-> [m \in {n} |-> c], deletes |-> {}])
Delete == \E n \in Existing(contents) : Begin([writes |-> NoFiles, deletes |-> {n}])
Restore == Begin([writes |-> archive, deletes |-> Existing(contents) \ DOMAIN archive])

OperationFails ==
    /\ request # NoRequest
    /\ \E n \in Touched(request) : spoilt' = spoilt \cup {n}
    /\ UNCHANGED <<contents, request, answer, archive>>

End(result) ==
    /\ request # NoRequest
    /\ request' = NoRequest /\ answer' = result
    /\ spoilt' = {} /\ UNCHANGED archive
    /\ contents' \in [FileNames -> Contents]

Commit == End("ok") /\ contents' = Result(request, contents)

Refuse == End("refused") /\ \A n \in FileNames \ spoilt : contents'[n] = contents[n]

Escape == End("error") /\ contents' = Result(request, contents)

Crash ==
    /\ End("none")
    /\ \E torn \in Touched(request) : \A n \in FileNames \ (spoilt \cup {torn}) :
          contents'[n] \in {contents[n], Result(request, contents)[n]}

Backup ==
    /\ request = NoRequest
    /\ archive' = [n \in Existing(contents) |-> contents[n]]
    /\ UNCHANGED <<contents, request, spoilt, answer>>

HandEdit ==
    /\ request = NoRequest
    /\ \E n \in FileNames, c \in Contents : contents' = [contents EXCEPT ![n] = c]
    /\ UNCHANGED <<request, spoilt, answer, archive>>

Init ==
    /\ contents \in [FileNames -> Contents]
    /\ request = NoRequest /\ spoilt = {} /\ answer = "none"
    /\ DOMAIN archive \subseteq FileNames
    /\ \A n \in DOMAIN archive : archive[n] \in Contents \ {Absent}

Next ==
    \/ Upload \/ Delete \/ Restore \/ OperationFails
    \/ Commit \/ Refuse \/ Escape \/ Crash \/ Backup \/ HandEdit

Spec == Init /\ [][Next]_vars
=============================================================================
