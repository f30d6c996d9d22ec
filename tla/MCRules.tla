-------------------------------- MODULE MCRules --------------------------------
(* The three sets of rules that a wake word goes through share no state: one *)
(* run looks at each, by choosing at the start which of them it is about.    *)
EXTENDS ModelRegistry, ScoreFusion, AsrMatching

LOCAL File(id, version, spelling, lite) ==
    [id |-> id, version |-> version, spelling |-> spelling, lite |-> lite]
LOCAL V(n) == << <<0, n>> >>

\* agat.onnx, agat_lite.onnx, agat_v02.onnx, agat_v10.onnx, agat_v2.onnx,
\* agat_v2_lite.onnx, agat_v2b.onnx, basia.onnx
SortedNames ==
    <<File("agat", << >>, 0, FALSE), File("agat", << >>, 0, TRUE),
      File("agat", V(2), 1, FALSE), File("agat", V(10), 0, FALSE),
      File("agat", V(2), 0, FALSE), File("agat", V(2), 0, TRUE),
      File("agat", << <<1, 1>> >>, 0, FALSE), File("basia", << >>, 0, FALSE)>>

LOCAL Entry(hidden, members) == [hidden |-> hidden, members |-> members]
LOCAL Duet == "duet" :> Entry(FALSE, <<"agat", "basia">>)

YamlContents ==
    {<< >>, Duet, Duet @@ ("basia" :> Entry(TRUE, << >>)),
     "basia" :> Entry(FALSE, <<"agat">>), Invalid, Odd}

\* No further directory, or one that offers agat as well and hides the duet.
MoreDirectories ==
    {<< >>,
     << [files |-> {File("agat", << >>, 0, TRUE), File("agat", V(2), 0, FALSE)},
         yaml |-> "duet" :> Entry(TRUE, << >>)] >>}

LOCAL Member(model, role, threshold, weight) ==
    [model |-> model, role |-> role, threshold |-> threshold, weight |-> weight]
LOCAL Word(fusion, threshold, members) ==
    [fusion |-> fusion, threshold |-> threshold, members |-> members]

AnyWord == Word("single", NoThreshold, <<Member("a", "primary", NoThreshold, 1)>>)

LOCAL Pairs(fusion, roles, thresholds, weights) ==
    {Word(fusion, NoThreshold, <<Member("a", r, NoThreshold, 2), Member("b", q, t, w)>>) :
        r \in roles, q \in roles, t \in thresholds, w \in weights}

AllWords ==
    Pairs("primary_and_verifier", {"primary", "verifier", "other"}, {3}, {1})
    \cup Pairs("weighted_average", {"verifier"}, {NoThreshold}, {-1, 0, 1})
    \cup {AnyWord,
          Word("single", 4, AnyWord.members),
          Word("all", NoThreshold, <<Member("a", "primary", 3, 1), Member("b", "verifier", NoThreshold, 1)>>),
          Word("all", NoThreshold, <<Member("a", "verifier", 3, 1), Member("a", "verifier", NoThreshold, 1)>>),
          Word("primary_and_verifier", 1, <<Member("b", "verifier", 3, 1), Member("a", "verifier", 4, 1),
                                            Member("a", "primary", NoThreshold, 1)>>)}

\* As the test hears it, silence, quieter, and in other chunks.
LiveAudio ==
    {[peak |-> 9800, samples |-> 1280], [peak |-> 0, samples |-> 1280],
     [peak |-> 3000, samples |-> 1280], [peak |-> 9800, samples |-> 1024]}

LOCAL Agat == <<"a", "g", "a", "t">>
Keywordlists == {{Agat}, {<<"g", "a">>, <<"t", "a", "t", "a">>, <<"a", "-", "t">>}}
Syllables == {<<"a">>, <<"a", "g">>, <<"a", "-", "t">>, <<"t", "a">>, Agat}

VARIABLE about

Init ==
    /\ about \in {"models", "scores", "words"}
    /\ \/ about = "models" /\ RegistryInit
       \/ about # "models" /\ uploaded = {} /\ mapping = << >> /\ library = << >>
                           /\ registry = NoRegistry
    /\ \/ about = "scores" /\ FusionInit
       \/ about # "scores" /\ FusionInit /\ word = AnyWord /\ default = 2 /\ trigger_level = 1
                           /\ recording = [peak |-> 9800, samples |-> 1280]
    /\ \/ about = "words" /\ MatchInit
       \/ about # "words" /\ keywords = {} /\ pieces = << >>

Next ==
    \/ about = "models" /\ RegistryNext /\ UNCHANGED <<about, fusionVars, matchVars>>
    \/ about = "scores" /\ FusionNext /\ UNCHANGED <<about, registryVars, matchVars>>
    \/ about = "words" /\ MatchNext /\ UNCHANGED <<about, registryVars, fusionVars>>

Spec == Init /\ [][Next]_<<about, registryVars, fusionVars, matchVars>>

=============================================================================
