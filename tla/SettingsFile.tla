------------------------------ MODULE SettingsFile ------------------------------
(***************************************************************************)
(* The settings: the command line, what is patched through the HTTP API, and *)
(* settings.json in between (settings.py), with writes that fail, the        *)
(* process killed, the file edited by hand and other command lines at the    *)
(* next start.                                                               *)
(*                                                                         *)
(* A JSON object is applied key by key up to the first that apply refuses.   *)
(* What matters of one is therefore the part before, a function from keys to *)
(* values, and of a PATCH whether that is all of it.                         *)
(***************************************************************************)
CONSTANTS
    Keys,
    capture,        \* the key that --capture-dir switches on
    Values, On,
    NotAnObject     \* settings.json holds JSON that is not an object

ASSUME SettingsAssumption ==
    /\ capture \in Keys /\ On \in Values
    /\ NotAnObject \notin UNION {[keys -> Values] : keys \in SUBSET Keys}

Partial == UNION {[keys -> Values] : keys \in SUBSET Keys}
Nothing == [k \in {} |-> On]

VARIABLES
    settings,       \* state.settings
    command_line,
    file,           \* what a start would apply of settings.json; nothing if there
                    \* is no such file or it is cut off
    server,         \* up, down, failed (the start)
    wish,           \* history: the value last accepted for a key
    unsaved,        \* history: keys whose wish the file may not hold
    stray           \* history: keys that something else has set since

settingsVars == <<settings, command_line, file, server, wish, unsaved, stray>>

Overlay(f, g) == [k \in DOMAIN f \cup DOMAIN g |-> IF k \in DOMAIN f THEN f[k] ELSE g[k]]

\* All fields are saved, whoever has set them.
Saved_Patch(changes) == changes             \* mutant: the patched keys only
Saved(changes) == Overlay(changes, settings)

Patching(changes) ==
    /\ server = "up"
    /\ settings' = Overlay(changes, settings)
    /\ UNCHANGED command_line

\* PATCH /api/settings is answered 200 whether the file could be written or not.
Accepted(changes) ==
    /\ Patching(changes)
    /\ wish' = Overlay(changes, wish)
    /\ stray' = stray \ DOMAIN changes
    /\ UNCHANGED server

Patch == \E changes \in Partial :
    Accepted(changes) /\ file' = Saved(changes) /\ unsaved' = {}

\* The file as it was, or truncated.
PatchUnsaved == \E changes \in Partial :
    /\ Accepted(changes)
    /\ \/ UNCHANGED file /\ unsaved' = unsaved \cup DOMAIN changes
       \/ file' = Nothing /\ unsaved' = DOMAIN wish'

\* The keys before the bad one keep their new values.
PatchRefused == \E changes \in Partial :
    /\ Patching(changes)
    /\ stray' = stray \cup DOMAIN changes
    /\ UNCHANGED <<file, server, wish, unsaved>>

\* Killed while settings.json is rewritten, before the client has an answer.
PatchKilled == \E changes \in Partial :
    /\ Patching(changes)
    /\ server' = "down"
    /\ file' = Nothing /\ unsaved' = DOMAIN wish
    /\ UNCHANGED <<wish, stray>>

\* NanoWakeWordEventHandler.__init__ with --capture-dir.
Connect ==
    /\ server = "up" /\ command_line[capture] = On
    /\ settings' = [settings EXCEPT ![capture] = On]
    /\ stray' = stray \cup {capture}
    /\ UNCHANGED <<command_line, file, server, wish, unsaved>>

Stop ==
    /\ server = "up" /\ server' = "down"
    /\ UNCHANGED <<settings, command_line, file, wish, unsaved, stray>>

EditFile ==
    /\ file' \in Partial \cup {NotAnObject}
    /\ unsaved' = DOMAIN wish
    /\ server' = IF server = "failed" THEN "down" ELSE server
    /\ UNCHANGED <<settings, command_line, wish, stray>>

\* main: the overlay goes over the command line.
Applied_Default(cli) == Overlay(cli, file)      \* mutant: the command line over the file
Applied(cli) == Overlay(file, cli)

Start ==
    /\ server = "down" /\ file # NotAnObject
    /\ \E cli \in [Keys -> Values] :
          command_line' = cli /\ settings' = Applied(cli)
    /\ server' = "up"
    /\ wish' = [k \in DOMAIN wish \ unsaved |-> wish[k]]
    /\ unsaved' = {}
    /\ UNCHANGED <<file, stray>>

\* apply() expects a dict: AttributeError is not caught, and the process ends.
StartRaises ==
    /\ server \in {"down", "failed"} /\ file = NotAnObject
    /\ server' = "failed"
    /\ UNCHANGED <<settings, command_line, file, wish, unsaved, stray>>

SettingsInit ==
    /\ settings \in [Keys -> Values] /\ command_line = settings
    /\ file \in Partial
    /\ server = "down"
    /\ wish = Nothing /\ unsaved = {} /\ stray = {}

SettingsNext ==
    \/ Patch \/ PatchUnsaved \/ PatchRefused \/ PatchKilled \/ Connect
    \/ Stop \/ EditFile \/ Start \/ StartRaises

SettingsSpec == SettingsInit /\ [][SettingsNext]_settingsVars

----------------------------------------------------------------------------
\* "Anything changed through the HTTP API ... wins on the next start"
\* (settings.py:3): the last accepted value of each key is in force, before and
\* after any number of restarts with any command lines.  Values that never
\* reached the file are lost with the process, and a key may be set otherwise: by
\* a PATCH that was refused at a later key, and capture by a connection.
PatchesSurvive ==
    server = "up" => \A k \in DOMAIN wish \ stray : settings[k] = wish[k]
=============================================================================
