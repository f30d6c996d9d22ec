-------------------------------- MODULE MCServer --------------------------------
(* Model files and settings share the process but no state: one run looks at
   both, by choosing at the start which of them it is about. *)
EXTENDS ModelStore, SettingsFile

CONSTANTS Fine, Junk

LOCAL File(id) == [id |-> id, version |-> << >>, spelling |-> 0, lite |-> FALSE]

\* agat.onnx, agat (1).onnx, basia.onnx
SortedNames == <<File("agat"), File("agat (1)"), File("basia")>>
ByHand == {File("agat (1)")}

LOCAL Duet == "duet" :> [hidden |-> FALSE, members |-> <<"agat", "basia">>]

Yamls == {Duet, Invalid}
OddYamls == {Duet, Odd}

Directory(agat, basia, yaml) ==
    File("agat") :> agat @@ File("agat (1)") :> Absent @@ File("basia") :> basia @@ Yaml :> yaml

Existed == {Directory(Absent, Fine, Absent), Directory(Fine, Fine, Duet)}

Zips == {<< >>, File("agat") :> Fine @@ Yaml :> Duet}
NoLibrary == << >>

VARIABLE about

Init ==
    \/ about = "models" /\ StoreInit /\ SettingsInit
       /\ settings = [k \in Keys |-> On] /\ file = Nothing
    \/ about = "settings" /\ SettingsInit /\ StoreInit
       /\ disk = Directory(Fine, Fine, Duet) /\ archive = << >>

Next ==
    \/ about = "models" /\ StoreNext /\ UNCHANGED <<about, settingsVars>>
    \/ about = "settings" /\ SettingsNext /\ UNCHANGED <<about, storeVars>>

Spec == Init /\ [][Next]_<<about, storeVars, settingsVars>>
=============================================================================
