----------------------------- MODULE ModelRegistry -----------------------------
(***************************************************************************)
(* What a refresh offers after each upload and deletion: State.refresh over  *)
(* the directories, against what is expected of versions, gates and          *)
(* ensembles.  Uploads go to the first directory; a change that discovery    *)
(* refuses is rolled back (ModelStore has the steps of that).                *)
(***************************************************************************)
EXTENDS Discovery, FiniteSets

CONSTANTS
    Mappings,       \* what models.yaml may say
    Libraries       \* further directories, which the API does not write to

ASSUME RegistryAssumption == \A l \in Libraries : l \in Seq(ToSet(l))

VARIABLES
    uploaded,       \* the .onnx files of the first directory
    mapping,        \* its models.yaml
    library,        \* the other directories
    registry        \* state.models and state.backing_models

registryVars == <<uploaded, mapping, library, registry>>

Directories(files, yaml) ==
    <<[files |-> files, yaml |-> yaml]>> \o library

ModelDirs == Directories(uploaded, mapping)

\* An upload or a deletion that is accepted, and the refresh it ends with.
Change(files, yaml) ==
    /\ Verdict(Directories(files, yaml)) = "ok"
    /\ uploaded' = files /\ mapping' = yaml
    /\ registry' = Registry(Directories(files, yaml))
    /\ UNCHANGED library

RegistryInit ==
    /\ uploaded = {} /\ mapping = << >> /\ library \in Libraries
    /\ Verdict(ModelDirs) = "ok"
    /\ registry = Registry(ModelDirs)

RegistryNext ==
    \/ \E n \in ToSet(Names) \ uploaded : Change(uploaded \cup {n}, mapping)
    \/ \E n \in uploaded : Change(uploaded \ {n}, mapping)
    \/ \E yaml \in Mappings \ {mapping} : Change(uploaded, yaml)

RegistrySpec == RegistryInit /\ [][RegistryNext]_registryVars

----------------------------------------------------------------------------
\* All files that could serve wake word id, by directory.
Candidates(id) ==
    {p \in Paths(ModelDirs) : p.name.id = id /\ ~p.name.lite}

\* Version w is older than v: the first part in which they differ decides, a word
\* coming after every number, or else the shorter one is older.
Older(w, v) ==
    LET differ == {i \in DOMAIN v \cap DOMAIN w : v[i] # w[i]}
    IN  IF differ = {} THEN Len(w) < Len(v)
        ELSE LET i == Min(differ)
             IN  CASE v[i][1] # w[i][1] -> v[i][1] = 1
                   [] OTHER -> w[i][2] < v[i][2]

\* Every wake word is served by its newest file, whatever the order of names and
\* directories: v10 is newer than v9, any version newer than none; of files with
\* equal versions, by the one in the earlier directory or with the earlier name
\* (_version_key, discover_models).
ServesNewest ==
    \A id \in DOMAIN registry.backing :
       LET best == registry.backing[id].path
       IN  /\ best \in Candidates(id)
           /\ \A p \in Candidates(id) \ {best} :
                 \/ Older(p.name.version, best.name.version)
                 \/ ~Older(best.name.version, p.name.version) /\ Precedes(best, p)

\* A model has a gate exactly if one was put beside it under its full name, and
\* never the gate of another version (gate_paths).
GatesFit ==
    \A id \in DOMAIN registry.backing :
       LET entry == registry.backing[id]
           fitting == {p \in Paths(ModelDirs) :
                          /\ p.name.lite
                          /\ p.name.id = id
                          /\ p.name.version = entry.path.name.version
                          /\ p.name.spelling = entry.path.name.spelling}
       IN  IF fitting = {} THEN entry.gate = NoPath ELSE entry.gate \in fitting

\* A client that asks for a wake word that is offered finds a file for each of
\* its interpreters, hidden or not, after any sequence of uploads and deletions:
\* InterpreterManager._load does not raise KeyError.
OfferedIsBacked ==
    \A id \in DOMAIN registry.models :
       LET members == registry.models[id].members
           needed == IF members = << >> THEN {id} ELSE ToSet(members)
       IN  needed \subseteq DOMAIN registry.backing
=============================================================================
