------------------------------- MODULE Discovery -------------------------------
(***************************************************************************)
(* Which models a server offers, as a function of its model directories     *)
(* (models.py).  A file name is a record: the wake word, the version in its *)
(* suffix as _version_key takes it apart, what else tells two stems apart   *)
(* (v1 and v01 have one key), and whether it ends in _lite.  A directory has *)
(* a set of .onnx files and what its models.yaml says.                       *)
(***************************************************************************)
EXTENDS Naturals, Sequences, SequencesExt

CONSTANTS
    Names,          \* names of .onnx files, in sorted order
    NoPath,         \* None for a path
    Invalid,        \* a models.yaml, or a set of models, that raises ValueError
    Odd             \* a models.yaml that raises TypeError (int() of a list)

\* The parts of a version are numbers <<0, n>> and words <<1, rank>>.
Version == Seq({0, 1} \X Nat)

Path == [dir : Nat, name : ToSet(Names)]

ASSUME DiscoveryAssumption ==
    /\ Invalid # "ok" /\ Odd # "ok" /\ Invalid # Odd
    /\ NoPath \notin Path
    /\ Names \in Seq(ToSet(Names))
    /\ \A n \in ToSet(Names) : n.version \in Version
    /\ \A i, j \in DOMAIN Names : Names[i] = Names[j] => i = j

\* dict.update, of one item and of all items of a dict.
With(f, x, v) == [y \in DOMAIN f \cup {x} |-> IF y = x THEN v ELSE f[y]]
Updated(f, g) == [x \in DOMAIN f \cup DOMAIN g |-> IF x \in DOMAIN g THEN g[x] ELSE f[x]]

----------------------------------------------------------------------------
(* Versions                                                                  *)

PartLess(a, b) == a[1] < b[1] \/ (a[1] = b[1] /\ a[2] < b[2])

Newer_OrEqual(v, w) == v = w \/ \E i \in DOMAIN v :     \* mutant: >= for >
       /\ i <= Len(w) + 1 /\ \A j \in 1..i - 1 : v[j] = w[j]
       /\ i <= Len(w) => PartLess(w[i], v[i])
\* Tuples are compared part by part; of two that agree the longer is greater,
\* so that an unversioned file, the empty tuple, is the oldest.
Newer(v, w) ==
    \E i \in DOMAIN v :
       /\ i <= Len(w) + 1 /\ \A j \in 1..i - 1 : v[j] = w[j]
       /\ i <= Len(w) => PartLess(w[i], v[i])


----------------------------------------------------------------------------
(* Files                                                                     *)

\* A gate is named for the file it belongs to, version and all.
Stem_Id(name) == name.id        \* mutant: gates keyed by wake word
Stem(name) == [id |-> name.id, version |-> name.version, spelling |-> name.spelling]

\* One file: the first gate found for a stem stays, and a wake word has its newest
\* file, of equally new ones the first.
ScanFile(found, p) ==
    LET id == p.name.id
    IN  CASE p.name.lite /\ Stem(p.name) \notin DOMAIN found.gates ->
               [found EXCEPT !.gates = With(found.gates, Stem(p.name), p)]
          [] ~p.name.lite /\ (id \in DOMAIN found.served =>
                                 Newer(p.name.version, found.served[id].name.version)) ->
               [found EXCEPT !.served = With(found.served, id, p)]
          [] OTHER -> found

ScanDirectory(dirs, found, i) ==
    FoldLeft(LAMBDA f, n : IF n \in dirs[i].files THEN ScanFile(f, [dir |-> i, name |-> n]) ELSE f,
             found, Names)

Scanned(dirs) ==
    FoldLeft(LAMBDA f, i : ScanDirectory(dirs, f, i), [served |-> << >>, gates |-> << >>],
             [i \in DOMAIN dirs |-> i])

Served(dirs) == Scanned(dirs).served
Gates(dirs) == Scanned(dirs).gates

----------------------------------------------------------------------------
(* models.yaml: for each id whether it is hidden, and its ensemble's members  *)
(* (the empty sequence if it has none).                                       *)

Broken(yaml) == yaml \in {Invalid, Odd}

\* Later directories override earlier ones, entry by entry ...
Metadata(dirs) == FoldLeft(LAMBDA m, d : Updated(m, d.yaml), << >>, dirs)

\* ... but only an entry with members overrides an ensemble.
Defined(yaml) == [id \in {i \in DOMAIN yaml : yaml[i].members # << >>} |-> yaml[id].members]
Ensembles(dirs) == FoldLeft(LAMBDA e, d : Updated(e, Defined(d.yaml)), << >>, dirs)

\* What discover_models raises: the first directory with a broken models.yaml
\* counts, then an ensemble with the id of a file or with a missing member.
Verdict_MembersUnseen(dirs) ==      \* mutant: missing members not looked for
    LET broken == {i \in DOMAIN dirs : Broken(dirs[i].yaml)}
    IN  IF broken # {} THEN dirs[Min(broken)].yaml
        ELSE IF DOMAIN Ensembles(dirs) \cap DOMAIN Served(dirs) # {} THEN Invalid
        ELSE "ok"
Verdict(dirs) ==
    LET broken == {i \in DOMAIN dirs : Broken(dirs[i].yaml)}
        served == DOMAIN Served(dirs)
        ensembles == Ensembles(dirs)
    IN  IF broken # {} THEN dirs[Min(broken)].yaml
        ELSE IF \E e \in DOMAIN ensembles :
                   e \in served \/ ~(ToSet(ensembles[e]) \subseteq served)
        THEN Invalid ELSE "ok"

\* discover_models where it raises nothing.
Entries(dirs) ==
    LET served == Served(dirs)
        gates == Gates(dirs)
        ensembles == Ensembles(dirs)
        gate(p) == IF Stem(p.name) \in DOMAIN gates THEN gates[Stem(p.name)] ELSE NoPath
    IN  [id \in DOMAIN served \cup DOMAIN ensembles |->
           IF id \in DOMAIN served
           THEN [path |-> served[id], gate |-> gate(served[id]), members |-> << >>]
           ELSE [path |-> NoPath, gate |-> NoPath, members |-> ensembles[id]]]

----------------------------------------------------------------------------
(* State.refresh                                                             *)

Hidden(dirs) ==
    {id \in DOMAIN Metadata(dirs) : Metadata(dirs)[id].hidden}

\* state.models and state.backing_models: a hidden model is not offered, but
\* an ensemble may still be made of it.
Registry_HiddenUnbacked(dirs) ==        \* mutant: hidden models not backed
    LET entries == Entries(dirs)
        models == DOMAIN entries \ Hidden(dirs)
    IN  [models |-> Restrict(entries, models),
         backing |-> Restrict(entries, {id \in models : entries[id].path # NoPath})]
Registry(dirs) ==
    LET entries == Entries(dirs)
    IN  [models |-> Restrict(entries, DOMAIN entries \ Hidden(dirs)),
         backing |-> Restrict(entries, {id \in DOMAIN entries : entries[id].path # NoPath})]

NoRegistry == [models |-> << >>, backing |-> << >>]

----------------------------------------------------------------------------
(* The order in which files are looked at                                    *)

Paths(dirs) == {p \in [dir : DOMAIN dirs, name : ToSet(Names)] : p.name \in dirs[p.dir].files}

\* Directories in their order, and in each the names in theirs.
Precedes(p, q) ==
    \/ p.dir < q.dir
    \/ p.dir = q.dir /\ \E i, j \in DOMAIN Names : i < j /\ Names[i] = p.name /\ Names[j] = q.name

\* get_default_model_id: the configured wake word if it is offered, or else the
\* first offered: of the files in their order, then any of the ensembles.
DefaultIds(dirs, models, configured) ==
    LET offered == {p \in Paths(dirs) : ~p.name.lite /\ p.name.id \in DOMAIN models}
    IN  IF configured \in DOMAIN models THEN {configured}
        ELSE IF offered # {}
        THEN {p.name.id : p \in {q \in offered : \A r \in offered : ~Precedes(r, q)}}
        ELSE DOMAIN models
=============================================================================
