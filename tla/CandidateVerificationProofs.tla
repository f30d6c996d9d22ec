--------------------- MODULE CandidateVerificationProofs ---------------------
(***************************************************************************)
(* Theorems about what becomes of a detection: CandidateVerification, and   *)
(* AsrMatching, when a transcript contains the wake word; for every value   *)
(* of their constants.                                                       *)
(***************************************************************************)
EXTENDS CandidateVerification, AsrMatching, SequenceTheorems, TLAPS

----------------------------------------------------------------------------
(* Sequences of chunks                                                       *)

\* Latest keeps at most n elements, the last ones, counted from the end.
LEMMA LatestOf ==
    ASSUME NEW S, NEW s \in Seq(S), NEW n \in Nat
    PROVE  /\ Latest(s, n) \in Seq(S)
           /\ Len(Latest(s, n)) <= n
           /\ Len(Latest(s, n)) <= Len(s)
           /\ Len(s) <= n => Latest(s, n) = s
           /\ n <= Len(s) => Len(Latest(s, n)) = n
           /\ \A k \in 1..Len(Latest(s, n)) :
                Latest(s, n)[Len(Latest(s, n)) + 1 - k] = s[Len(s) + 1 - k]
  <1>1. CASE Len(s) <= n
    BY <1>1, LenProperties DEF Latest
  <1>2. CASE Len(s) > n
    <2> DEFINE m == Len(s) - n + 1
    <2>1. Len(s) \in Nat /\ m \in Int /\ m >= 1 /\ Latest(s, n) = SubSeq(s, m, Len(s))
      BY <1>2, LenProperties DEF Latest
    <2>2. \A i \in m..Len(s) : s[i] \in S
      BY <2>1, ElementOfSeq
    <2>3. /\ SubSeq(s, m, Len(s)) \in Seq(S)
          /\ Len(SubSeq(s, m, Len(s))) = IF m <= Len(s) THEN Len(s) - m + 1 ELSE 0
          /\ \A i \in 1..(Len(s) - m + 1) : SubSeq(s, m, Len(s))[i] = s[m + i - 1]
      <3> HIDE DEF m
      <3> QED BY <2>1, <2>2, SubSeqProperties
    <2>4. Len(Latest(s, n)) = n /\ Latest(s, n) \in Seq(S)
      BY <2>1, <2>3, <1>2
    <2>5. ASSUME NEW k \in 1..n PROVE Latest(s, n)[n + 1 - k] = s[Len(s) + 1 - k]
      <3>1. n + 1 - k \in 1..(Len(s) - m + 1) /\ m + (n + 1 - k) - 1 = Len(s) + 1 - k
        BY <2>1
      <3> QED
        BY <3>1, <2>1, <2>3
    <2> QED
      BY <1>2, <2>1, <2>4, <2>5
  <1> QED
    BY <1>1, <1>2, LenProperties

LEMMA LatestChunks ==
    \A s \in Seq(Chunk), n \in Nat :
        /\ Latest(s, n) \in Seq(Chunk)
        /\ Len(Latest(s, n)) <= n /\ Len(Latest(s, n)) <= Len(s)
        /\ Len(s) <= n => Latest(s, n) = s
        /\ n <= Len(s) => Len(Latest(s, n)) = n
        /\ \A k \in 1..Len(Latest(s, n)) :
              Latest(s, n)[Len(Latest(s, n)) + 1 - k] = s[Len(s) + 1 - k]
  <1> TAKE s \in Seq(Chunk), n \in Nat
  <1> QED
    BY LatestOf

\* Marking chunks as sent earlier changes neither their number nor their words.
LEMMA EarlierOf ==
    ASSUME NEW s \in Seq(Chunk)
    PROVE  /\ Earlier(s) \in Seq(Chunk) /\ Len(Earlier(s)) = Len(s)
           /\ \A k \in 1..Len(s) : Earlier(s)[k].word = s[k].word
  <1>1. DOMAIN s = 1..Len(s) /\ Len(s) \in Nat
    BY LenProperties
  <1>2. \A k \in 1..Len(s) : s[k] \in Chunk
    BY ElementOfSeq
  <1>3. Earlier(s) \in [1..Len(s) -> Chunk]
    BY <1>1, <1>2 DEF Earlier, Chunk
  <1>4. Earlier(s) \in Seq(Chunk) /\ Len(Earlier(s)) = Len(s)
    BY <1>1, <1>3, IsASeq, LenProperties
  <1> QED
    BY <1>1, <1>2, <1>4 DEF Earlier, Chunk

----------------------------------------------------------------------------
(* Type correctness                                                          *)

\* A decision ends the candidate, whichever it is.
LEMMA DecisionTyped ==
    /\ FailOpen => phase' = "listening" /\ verdict' \in {"accepted", "rejected"}
    /\ \A v : Decide(v) => phase' = "listening" /\ verdict' = v
  BY DEF FailOpen, Decide

LEMMA SpentTyped ==
    ASSUME TypeOK, NEW stage \in Stage, NEW limit \in Nat, Takes(stage, limit)
    PROVE  /\ spent' \in [Stage -> Nat]
           /\ limit # 0 => spent'[stage] <= spent[stage] + limit
           /\ \A s \in Stage \ {stage} : spent'[s] = spent[s]
  BY VerificationAssumption DEF TypeOK, Takes

LEMMA SettingPatched ==
    ASSUME TypeOK, NEW key \in Patchable
    PROVE  [settings EXCEPT ![key] = ~@] \in Settings
  BY VerificationAssumption DEF TypeOK, Settings

LEMMA TypeInvariant == Spec => []TypeOK
  <1> USE VerificationAssumption
  <1>1. Init => TypeOK
    BY EmptySeq DEF Init, TypeOK, Phases, Settings, Stage
  <1>2. TypeOK /\ [Next]_vars => TypeOK'
    <2> SUFFICES ASSUME TypeOK, [Next]_vars PROVE TypeOK'
      OBVIOUS
    <2>1. CASE HandleAudioStart
      BY <2>1, EarlierOf DEF HandleAudioStart, TypeOK, candidate
    <2>2. CASE HandleAudioChunk
      <3> PICK chunk \in Chunk :
            /\ buffer' = IF BufferNeeded THEN Trim(Append(buffer, chunk)) ELSE buffer
            /\ heard' = Latest(Append(heard, chunk), VerifyChunks)
        BY <2>2 DEF HandleAudioChunk, Chunk
      <3>1. /\ Append(buffer, chunk) \in Seq(Chunk)
            /\ Append(heard, chunk) \in Seq(Chunk)
        BY AppendProperties DEF TypeOK
      <3>2. /\ Trim(Append(buffer, chunk)) \in Seq(Chunk)
            /\ Len(Trim(Append(buffer, chunk))) <= CaptureChunks
        BY <3>1, LatestChunks DEF Trim
      <3>3. buffer' \in Seq(Chunk) /\ Len(buffer') <= CaptureChunks
        BY <3>2 DEF TypeOK
      <3>4. heard' \in Seq(Chunk)
        BY <3>1, LatestChunks
      <3> QED
        BY <2>2, <3>3, <3>4 DEF HandleAudioChunk, TypeOK, candidate
    <2>3. CASE BeginCandidate
      BY <2>3, DecisionTyped DEF BeginCandidate, TypeOK, EnabledStages, Phases, Stage, Settings
    <2>4. CASE SendCandidate
      BY <2>4, DecisionTyped DEF SendCandidate, BeginAsr, TypeOK, Phases
    <2>5. CASE ModelConfirms \/ ModelDenies \/ ModelFails
      <3>1. Takes("model", VerifyTimeout) /\ "model" \in Stage
        BY <2>5 DEF ModelConfirms, ModelDenies, ModelFails, Stage
      <3> QED
        BY <2>5, <3>1, SpentTyped, DecisionTyped
        DEF ModelConfirms, ModelDenies, ModelFails, AfterModel, BeginAsr, TypeOK, Phases, Stage
    <2>6. CASE KeywordFound \/ PromptedWordFound \/ AsrDenies \/ AsrFails
      <3>1. Takes("asr", AsrTimeout) /\ "asr" \in Stage
        BY <2>6 DEF KeywordFound, PromptedWordFound, AsrDenies, AsrFails, Stage
      <3> QED
        BY <2>6, <3>1, SpentTyped, DecisionTyped
        DEF KeywordFound, PromptedWordFound, AsrDenies, AsrFails, TypeOK, Phases, Stage
    <2>7. CASE MalformedAnswer \/ ClientReconnects \/ AnotherClientConnects
      <3>1. settings' \in Settings
        BY <2>7 DEF MalformedAnswer, ClientReconnects, AnotherClientConnects, NewHandler,
                    SettingsOnConnect, TypeOK, Settings
      <3>2. <<>> \in Seq(Chunk) /\ Len(<<>>) = 0
        BY EmptySeq
      <3>3. /\ buffer' \in Seq(Chunk) /\ Len(buffer') <= CaptureChunks
            /\ heard' \in Seq(Chunk)
        <4>1. CASE buffer' = <<>> /\ heard' = <<>>
          BY <3>2, <4>1
        <4>2. CASE buffer' = buffer /\ heard' = heard
          BY <4>2 DEF TypeOK
        <4> QED
          BY <2>7, <4>1, <4>2
          DEF MalformedAnswer, ClientReconnects, AnotherClientConnects, NewHandler
      <3>4. spent' \in [Stage -> Nat]
        BY <2>7, SpentTyped
        DEF MalformedAnswer, ClientReconnects, AnotherClientConnects, TypeOK, candidate, Stage
      <3> QED
        BY <2>7, <3>1, <3>3, <3>4
        DEF MalformedAnswer, ClientReconnects, AnotherClientConnects, NewHandler,
            TypeOK, candidate, Phases
    <2>8. CASE PatchSettings
      <3>1. settings' \in Settings
        BY <2>8, SettingPatched DEF PatchSettings
      <3>2. policy' \subseteq BOOLEAN
        BY <2>8, <3>1 DEF PatchSettings, DuringCandidate, TypeOK, Settings
      <3> QED
        BY <2>8, <3>1, <3>2 DEF PatchSettings, TypeOK
    <2>9. CASE UNCHANGED vars
      BY <2>9 DEF vars, candidate, TypeOK
    <2> QED
      BY <2>1, <2>2, <2>3, <2>4, <2>5, <2>6, <2>7, <2>8, <2>9 DEF Next, Stream, Verify
  <1> QED
    BY <1>1, <1>2, PTL DEF Spec

\* The settings, the buffer and the locals of the verification are typed, and
\* the buffer is never longer than --capture-seconds.
THEOREM TypeCorrect == Spec => []TypeOK
  BY TypeInvariant

----------------------------------------------------------------------------
(* Verdicts                                                                  *)

\* While a candidate is being verified nobody has denied it, the value of
\* verify_fail_open in force is on record, and a central verifier that was
\* passed without confirming was passed because the setting was on.
Undecided ==
    phase # "listening" =>
        /\ verdict = "none"
        /\ stages # {} /\ stages \subseteq Stage
        /\ "denied" \notin answers /\ "asr" \notin answers
        /\ settings.fail_open \in policy
        /\ phase \in {"wav", "model"} => answers = {}
        /\ phase = "model" => "model" \in stages
        /\ phase \in {"unbiased", "prompted"} =>
              "asr" \in stages /\ ("model" \in stages \ answers => TRUE \in policy)

VerdictInv == Undecided /\ FailClosedIsStrict /\ FailOpenKeepsDetections

\* What BeginAsr and AfterModel decide or go on with when the central verifier
\* has confirmed the candidate (`got' says so), was not asked, or could not
\* answer with the setting on.
LEMMA PassedModel ==
    ASSUME TypeOK, Undecided, phase \in {"wav", "model"}, NEW got,
           got \subseteq {"model", "failed"}, UNCHANGED <<settings, stages, policy>>,
           "model" \in stages \ got => settings.fail_open,
           \/ AfterModel(got)
           \/ "model" \notin stages /\ BeginAsr(got)
    PROVE  VerdictInv'
  <1>1. /\ settings.fail_open \in BOOLEAN /\ settings.fail_open \in policy
        /\ stages # {} /\ stages \subseteq {"model", "asr"} /\ verdict = "none"
        /\ settings' = settings /\ stages' = stages /\ policy' = policy
    BY DEF TypeOK, Settings, Undecided, Stage
  <1>2. CASE "asr" \notin stages
    <2>1. phase' = "listening" /\ verdict' = "accepted" /\ answers' = got
      BY <1>1, <1>2 DEF AfterModel, Decide
    <2> QED
      BY <1>1, <1>2, <2>1 DEF VerdictInv, Undecided, FailClosedIsStrict, FailOpenKeepsDetections
  <1>3. CASE "asr" \in stages
    <2>1. BeginAsr(got)
      BY <1>3 DEF AfterModel
    <2>2. CASE settings.keyword /\ phase' = "unbiased" /\ answers' = got /\ UNCHANGED verdict
      BY <1>1, <1>3, <2>2
      DEF VerdictInv, Undecided, FailClosedIsStrict, FailOpenKeepsDetections, Stage
    <2>3. CASE FailOpen /\ answers' = got \cup {"failed"}
      BY <1>1, <2>3
      DEF FailOpen, Decide, VerdictInv, Undecided, FailClosedIsStrict, FailOpenKeepsDetections
    <2> QED
      BY <2>1, <2>2, <2>3 DEF BeginAsr
  <1> QED
    BY <1>2, <1>3

LEMMA VerdictsJustified == Spec => []VerdictInv
  <1>1. Init => VerdictInv
    BY DEF Init, VerdictInv, Undecided, FailClosedIsStrict, FailOpenKeepsDetections
  <1>2. TypeOK /\ VerdictInv /\ [Next]_vars => VerdictInv'
    <2> SUFFICES ASSUME TypeOK, VerdictInv, [Next]_vars PROVE VerdictInv'
      OBVIOUS
    <2> USE DEF VerdictInv
    <2>1. CASE HandleAudioStart \/ HandleAudioChunk \/ ClientReconnects
      BY <2>1 DEF HandleAudioStart, HandleAudioChunk, ClientReconnects,
                  NewHandler, Undecided, FailClosedIsStrict, FailOpenKeepsDetections
    <2>13. CASE MalformedAnswer
      BY <2>13 DEF MalformedAnswer, NewHandler, Undecided, FailClosedIsStrict,
                   FailOpenKeepsDetections
    <2>2. CASE BeginCandidate
      <3>1. settings.fail_open \in BOOLEAN /\ stages' \subseteq Stage
        BY <2>2 DEF BeginCandidate, EnabledStages, TypeOK, Settings
      <3> QED
        BY <2>2, <3>1 DEF BeginCandidate, FailOpen, Decide, Undecided,
                          FailClosedIsStrict, FailOpenKeepsDetections
    <2>3. CASE SendCandidate
      <3>1. CASE "model" \in stages
        BY <2>3, <3>1 DEF SendCandidate, Undecided, FailClosedIsStrict, FailOpenKeepsDetections
      <3>2. CASE "model" \notin stages
        BY <2>3, <3>2, PassedModel DEF SendCandidate, Undecided
      <3> QED
        BY <3>1, <3>2
    <2>4. CASE ModelConfirms
      <3>1. AfterModel({"model"}) /\ phase = "model" /\ UNCHANGED <<settings, stages, policy>>
        BY <2>4 DEF ModelConfirms, Undecided
      <3> QED
        BY <3>1, PassedModel
    <2>5. CASE ModelDenies
      BY <2>5 DEF ModelDenies, Decide, Undecided, FailClosedIsStrict, FailOpenKeepsDetections
    <2>6. CASE ModelFails
      <3>1. CASE settings.fail_open
        <4>1. AfterModel({"failed"}) /\ phase = "model" /\ UNCHANGED <<settings, stages, policy>>
          BY <2>6, <3>1 DEF ModelFails, Undecided
        <4> QED
          BY <3>1, <4>1, PassedModel
      <3>2. CASE ~settings.fail_open
        BY <2>6, <3>2 DEF ModelFails, Decide, Undecided, FailClosedIsStrict,
                          FailOpenKeepsDetections, TypeOK, Settings
      <3> QED
        BY <3>1, <3>2
    <2>7. CASE KeywordFound \/ PromptedWordFound
      BY <2>7 DEF KeywordFound, PromptedWordFound, Decide, Undecided, FailClosedIsStrict,
                  FailOpenKeepsDetections, Stage
    <2>8. CASE AsrDenies
      BY <2>8 DEF AsrDenies, Decide, Undecided, FailClosedIsStrict, FailOpenKeepsDetections
    <2>9. CASE AsrFails
      BY <2>9 DEF AsrFails, FailOpen, Decide, Undecided, FailClosedIsStrict,
                  FailOpenKeepsDetections, TypeOK, Settings
    <2>10. CASE AnotherClientConnects
      BY <2>10 DEF AnotherClientConnects, SettingsOnConnect, candidate, TypeOK, Settings,
                   Undecided, FailClosedIsStrict, FailOpenKeepsDetections
    <2>11. CASE PatchSettings
      BY <2>11 DEF PatchSettings, DuringCandidate, Undecided, FailClosedIsStrict,
                   FailOpenKeepsDetections
    <2>12. CASE UNCHANGED vars
      BY <2>12 DEF vars, candidate, Undecided, FailClosedIsStrict, FailOpenKeepsDetections
    <2> QED
      BY <2>1, <2>2, <2>3, <2>4, <2>5, <2>6, <2>7, <2>8, <2>9, <2>10, <2>11, <2>12, <2>13
      DEF Next, Stream, Verify
  <1> QED
    BY <1>1, <1>2, TypeInvariant, PTL DEF Spec

\* With verify_fail_open off all along, an accepted candidate was confirmed by
\* every stage enabled when it came up, for any patches in between.
THEOREM FailClosed == Spec => []FailClosedIsStrict
  BY VerdictsJustified, PTL DEF VerdictInv

\* With verify_fail_open on all along, a candidate is suppressed only on the
\* word of a verifier that has heard it: its denial, or an answer that is none and
\* costs the connection.
THEOREM FailOpenKeeps == Spec => []FailOpenKeepsDetections
  BY VerdictsJustified, PTL DEF VerdictInv

----------------------------------------------------------------------------
(* Latency                                                                   *)

\* What each stage may have spent by the time the handler is in each phase.
Budgeted ==
    /\ LatencyBounded
    /\ phase \in {"wav", "model"} => spent["model"] = 0 /\ spent["asr"] = 0
    /\ phase = "unbiased" => spent["asr"] = 0
    /\ phase = "prompted" /\ AsrTimeout # 0 => spent["asr"] <= AsrTimeout

\* The verification of a candidate takes at most one timeout of the central
\* verifier and two of the ASR server, for each of them whose timeout is set.
THEOREM LatencyIsBounded == Spec => []LatencyBounded
  <1> USE VerificationAssumption
  <1>1. Init => Budgeted
    BY DEF Init, Budgeted, LatencyBounded, Stage
  <1>2. TypeOK /\ Budgeted /\ [Next]_vars => Budgeted'
    <2> SUFFICES ASSUME TypeOK, Budgeted, [Next]_vars PROVE Budgeted'
      OBVIOUS
    <2>0. spent["model"] \in Nat /\ spent["asr"] \in Nat /\ {"model", "asr"} = Stage
      BY DEF TypeOK, Stage
    <2>1. CASE UNCHANGED spent /\ (phase' = "listening" \/ UNCHANGED phase)
      BY <2>1 DEF Budgeted, LatencyBounded
    <2>2. CASE BeginCandidate
      <3>1. spent'["model"] = 0 /\ spent'["asr"] = 0
        BY <2>2 DEF BeginCandidate, Stage
      <3> QED
        BY <2>2, <3>1 DEF BeginCandidate, FailOpen, Decide, Budgeted, LatencyBounded
    <2>3. CASE SendCandidate
      BY <2>3 DEF SendCandidate, BeginAsr, FailOpen, Decide, Budgeted, LatencyBounded
    <2>4. CASE \/ ModelConfirms \/ ModelDenies \/ ModelFails
               \/ MalformedAnswer /\ phase = "model"
      <3>1. /\ VerifyTimeout # 0 => spent'["model"] <= spent["model"] + VerifyTimeout
            /\ spent'["asr"] = spent["asr"] /\ spent' \in [Stage -> Nat]
        BY <2>0, <2>4, SpentTyped DEF ModelConfirms, ModelDenies, ModelFails, MalformedAnswer
      <3>2. phase = "model" /\ phase' \in {"listening", "unbiased"}
        BY <2>4 DEF ModelConfirms, ModelDenies, ModelFails, MalformedAnswer, NewHandler,
                    AfterModel, BeginAsr, FailOpen, Decide
      <3> QED
        BY <2>0, <3>1, <3>2 DEF Budgeted, LatencyBounded
    <2>5. CASE \/ KeywordFound \/ PromptedWordFound \/ AsrDenies \/ AsrFails
               \/ MalformedAnswer /\ phase # "model"
      <3>1. /\ AsrTimeout # 0 => spent'["asr"] <= spent["asr"] + AsrTimeout
            /\ spent'["model"] = spent["model"] /\ spent' \in [Stage -> Nat]
        BY <2>0, <2>5, SpentTyped
        DEF KeywordFound, PromptedWordFound, AsrDenies, AsrFails, MalformedAnswer
      <3>2. \/ phase = "unbiased" /\ phase' \in {"listening", "prompted"}
            \/ phase = "prompted" /\ phase' = "listening"
        BY <2>5 DEF KeywordFound, PromptedWordFound, AsrDenies, AsrFails, MalformedAnswer,
                    NewHandler, FailOpen, Decide
      <3> QED
        BY <2>0, <3>1, <3>2 DEF Budgeted, LatencyBounded, Stage
    <2> QED
      BY <2>1, <2>2, <2>3, <2>4, <2>5
      DEF Next, Stream, Verify, vars, candidate, HandleAudioStart, HandleAudioChunk,
          ClientReconnects, NewHandler, AnotherClientConnects, PatchSettings
  <1>3. Budgeted => LatencyBounded
    BY DEF Budgeted
  <1> QED
    BY <1>1, <1>2, <1>3, TypeInvariant, PTL DEF Spec

----------------------------------------------------------------------------
(* The audio that is verified                                                *)

\* Capturing, or the central verifier, is on when the server starts and is not
\* patched.
AlwaysBuffering ==
    \A s \in InitialSettings :
        \/ s.capture /\ "capture" \notin Patchable
        \/ s.verify /\ "verify" \notin Patchable

Buffered ==
    \/ settings.capture /\ "capture" \notin Patchable
    \/ settings.verify /\ "verify" \notin Patchable

\* New handlers switch capturing on, never off, and patches leave it alone.
LEMMA BufferedStays ==
    /\ AlwaysBuffering /\ Init => Buffered
    /\ TypeOK /\ Buffered /\ [Next]_vars => Buffered'
    /\ Buffered => BufferNeeded
  <1>1. AlwaysBuffering /\ Init => Buffered
    BY DEF AlwaysBuffering, Init, Buffered
  <1>2. ASSUME TypeOK, Buffered, [Next]_vars PROVE Buffered'
    <2>1. CASE UNCHANGED settings
      BY <1>2, <2>1 DEF Buffered
    <2>2. CASE settings' = SettingsOnConnect
      <3>1. settings.capture => settings'.capture
        BY <1>2, <2>2 DEF SettingsOnConnect, TypeOK, Settings
      <3>2. settings'.verify = settings.verify
        BY <1>2, <2>2 DEF SettingsOnConnect, TypeOK, Settings
      <3> QED
        BY <1>2, <3>1, <3>2 DEF Buffered
    <2>3. CASE PatchSettings
      <3>1. PICK key \in Patchable : settings' = [settings EXCEPT ![key] = ~@]
        BY <2>3 DEF PatchSettings
      <3>2. /\ key # "capture" => settings'.capture = settings.capture
            /\ key # "verify" => settings'.verify = settings.verify
        BY <1>2, <3>1 DEF TypeOK, Settings
      <3> QED
        BY <1>2, <3>1, <3>2 DEF Buffered
    <2> QED
      BY <1>2, <2>1, <2>2, <2>3
      DEF Next, Stream, Verify, vars, HandleAudioStart, HandleAudioChunk, BeginCandidate,
          SendCandidate, ModelConfirms, ModelDenies, ModelFails, KeywordFound,
          PromptedWordFound, AsrDenies, AsrFails, MalformedAnswer, ClientReconnects,
          NewHandler, AnotherClientConnects
  <1>3. Buffered => BufferNeeded
    BY DEF Buffered, BufferNeeded
  <1> QED
    BY <1>1, <1>2, <1>3

\* Counted from the end, the part of the buffer that would be sent is what the
\* client has sent last.
Aligned ==
    \A k \in 1..Len(buffer) : k <= VerifyChunks =>
        /\ k <= Len(heard)
        /\ buffer[Len(buffer) + 1 - k].word = heard[Len(heard) + 1 - k].word

RecentInv ==
    /\ Buffered /\ Aligned /\ ConfirmedOnRecentWord
    /\ phase # "listening" /\ answers \cap Stage # {} => WordIn(heard)

LEMMA WordSentWasHeard == ASSUME TypeOK, Aligned, WordIn(Wav) PROVE WordIn(heard)
  <1> USE VerificationAssumption
  <1>1. /\ buffer \in Seq(Chunk) /\ heard \in Seq(Chunk)
        /\ Len(buffer) \in Nat /\ Len(heard) \in Nat /\ DOMAIN heard = 1..Len(heard)
    BY LenProperties DEF TypeOK
  <1>2. /\ Wav \in Seq(Chunk) /\ Len(Wav) <= VerifyChunks /\ Len(Wav) <= Len(buffer)
        /\ \A k \in 1..Len(Wav) : Wav[Len(Wav) + 1 - k] = buffer[Len(buffer) + 1 - k]
    BY <1>1, LatestChunks DEF Wav
  <1>3. DOMAIN Wav = 1..Len(Wav) /\ Len(Wav) \in Nat
    BY <1>2, LenProperties
  <1>4. PICK j \in 1..Len(Wav) : Wav[j].word
    BY <1>3 DEF WordIn
  <1> DEFINE k == Len(Wav) + 1 - j
  <1>5. k \in 1..Len(Wav) /\ Len(Wav) + 1 - k = j
    BY <1>3
  <1>6. k \in 1..Len(buffer) /\ k <= VerifyChunks /\ buffer[Len(buffer) + 1 - k].word
    <2>1. Wav[Len(Wav) + 1 - k] = buffer[Len(buffer) + 1 - k]
      BY <1>2, <1>5
    <2>2. k \in 1..Len(buffer) /\ k <= VerifyChunks
      BY <1>1, <1>2, <1>3
    <2> QED
      BY <1>4, <1>5, <2>1, <2>2
  <1>7. k <= Len(heard) /\ heard[Len(heard) + 1 - k].word
    BY <1>6 DEF Aligned
  <1>8. Len(heard) + 1 - k \in DOMAIN heard
    BY <1>1, <1>3, <1>5, <1>7
  <1> QED
    BY <1>7, <1>8 DEF WordIn

LEMMA ChunkKeepsAligned ==
    ASSUME TypeOK, RecentInv, HandleAudioChunk PROVE Aligned'
  <1> USE VerificationAssumption
  <1>1. PICK chunk \in Chunk :
          /\ buffer' = Trim(Append(buffer, chunk))
          /\ heard' = Latest(Append(heard, chunk), VerifyChunks)
    BY BufferedStays DEF HandleAudioChunk, Chunk, RecentInv
  <1> DEFINE b == Append(buffer, chunk)
             h == Append(heard, chunk)
  <1>2. /\ b \in Seq(Chunk) /\ Len(b) = Len(buffer) + 1 /\ b[Len(buffer) + 1] = chunk
        /\ \A i \in 1..Len(buffer) : b[i] = buffer[i]
        /\ h \in Seq(Chunk) /\ Len(h) = Len(heard) + 1 /\ h[Len(heard) + 1] = chunk
        /\ \A i \in 1..Len(heard) : h[i] = heard[i]
        /\ Len(buffer) \in Nat /\ Len(heard) \in Nat
    BY AppendProperties, LenProperties DEF TypeOK
  <1> HIDE DEF b, h
  <1>3. ASSUME NEW k \in 1..Len(b), k <= VerifyChunks
        PROVE  k <= Len(h) /\ b[Len(b) + 1 - k].word = h[Len(h) + 1 - k].word
    <2>1. CASE k = 1
      BY <1>2, <2>1
    <2>2. CASE k > 1
      <3>1. k - 1 \in 1..Len(buffer) /\ k - 1 <= VerifyChunks
        BY <1>2, <1>3, <2>2
      <3>2. /\ k - 1 <= Len(heard)
            /\ buffer[Len(buffer) + 1 - (k - 1)].word = heard[Len(heard) + 1 - (k - 1)].word
        BY <3>1 DEF RecentInv, Aligned
      <3>3. /\ Len(b) + 1 - k \in 1..Len(buffer) /\ Len(h) + 1 - k \in 1..Len(heard)
            /\ Len(b) + 1 - k = Len(buffer) + 1 - (k - 1)
            /\ Len(h) + 1 - k = Len(heard) + 1 - (k - 1)
        BY <1>2, <1>3, <2>2, <3>1, <3>2
      <3> QED
        BY <1>2, <3>2, <3>3
    <2> QED
      BY <1>2, <1>3, <2>1, <2>2
  <1>4. /\ Len(buffer') <= Len(b) /\ buffer' \in Seq(Chunk)
        /\ \A k \in 1..Len(buffer') : buffer'[Len(buffer') + 1 - k] = b[Len(b) + 1 - k]
    <2> DEFINE l == Latest(b, CaptureChunks)
    <2>1. /\ l \in Seq(Chunk) /\ Len(l) <= Len(b)
          /\ \A k \in 1..Len(l) : l[Len(l) + 1 - k] = b[Len(b) + 1 - k]
      BY <1>2, LatestChunks, ZenonT(30)
    <2>2. buffer' = l
      BY <1>1 DEF Trim, b
    <2> HIDE DEF l
    <2> QED
      BY <2>1, <2>2
  <1>5. /\ Len(heard') <= VerifyChunks /\ heard' \in Seq(Chunk)
        /\ Len(heard') = VerifyChunks \/ Len(heard') = Len(h)
        /\ \A k \in 1..Len(heard') : heard'[Len(heard') + 1 - k] = h[Len(h) + 1 - k]
    <2> DEFINE l == Latest(h, VerifyChunks)
    <2>1. /\ l \in Seq(Chunk) /\ Len(l) <= VerifyChunks
          /\ Len(h) <= VerifyChunks => l = h
          /\ VerifyChunks <= Len(h) => Len(l) = VerifyChunks
          /\ \A k \in 1..Len(l) : l[Len(l) + 1 - k] = h[Len(h) + 1 - k]
      BY <1>2, LatestChunks, ZenonT(30)
    <2>2. heard' = l
      BY <1>1 DEF h
    <2>3. Len(h) \in Nat
      BY <1>2
    <2> HIDE DEF l
    <2> QED
      BY <2>1, <2>2, <2>3
  <1>6. ASSUME NEW k \in 1..Len(buffer'), k <= VerifyChunks
        PROVE  /\ k <= Len(heard')
               /\ buffer'[Len(buffer') + 1 - k].word = heard'[Len(heard') + 1 - k].word
    <2>1. Len(buffer') \in Nat /\ Len(heard') \in Nat
      BY <1>4, <1>5, LenProperties
    <2>2. k \in 1..Len(b)
      BY <1>2, <1>4, <2>1
    <2>3. k <= Len(h) /\ b[Len(b) + 1 - k].word = h[Len(h) + 1 - k].word
      BY <1>3, <1>6, <2>2
    <2>4. k \in 1..Len(heard')
      BY <1>5, <1>6, <2>1, <2>3
    <2> QED
      BY <1>4, <1>5, <2>3, <2>4
  <1> QED
    BY <1>6 DEF Aligned

\* When audio is buffered all along, what a verifier confirmed is a word among
\* the last chunks the client has sent, whatever else is patched.  (A PATCH that
\* switches buffering off and on again would join old audio and new.)
THEOREM ConfirmedIsRecent == ASSUME AlwaysBuffering PROVE Spec => []ConfirmedOnRecentWord
  <1>1. Init => RecentInv
    BY EmptySeq, BufferedStays DEF Init, RecentInv, Aligned, ConfirmedOnRecentWord
  <1>2. TypeOK /\ RecentInv /\ VerdictInv /\ [Next]_vars => RecentInv'
    <2> SUFFICES ASSUME TypeOK, RecentInv, VerdictInv, [Next]_vars PROVE RecentInv'
      OBVIOUS
    <2>0. Buffered'
      BY BufferedStays DEF RecentInv
    <2>1. CASE HandleAudioStart
      <3>1. Aligned'
        <4>1. /\ Len(buffer') = Len(buffer) /\ Len(heard') = Len(heard)
              /\ Len(buffer) \in Nat /\ Len(heard) \in Nat
              /\ \A k \in 1..Len(buffer) : buffer'[k].word = buffer[k].word
              /\ \A k \in 1..Len(heard) : heard'[k].word = heard[k].word
          BY <2>1, EarlierOf, LenProperties DEF HandleAudioStart, TypeOK
        <4>2. ASSUME NEW k \in 1..Len(buffer), k <= VerifyChunks
              PROVE  /\ k <= Len(heard)
                     /\ buffer'[Len(buffer) + 1 - k].word = heard'[Len(heard) + 1 - k].word
          <5>1. k <= Len(heard) /\ buffer[Len(buffer) + 1 - k].word = heard[Len(heard) + 1 - k].word
            BY <4>2 DEF RecentInv, Aligned
          <5>2. Len(buffer) + 1 - k \in 1..Len(buffer) /\ Len(heard) + 1 - k \in 1..Len(heard)
            BY <4>1, <5>1
          <5> QED
            BY <4>1, <5>1, <5>2
        <4> QED
          BY <4>1, <4>2 DEF Aligned
      <3> QED
        BY <2>0, <2>1, <3>1 DEF HandleAudioStart, RecentInv, ConfirmedOnRecentWord
    <2>2. CASE HandleAudioChunk
      BY <2>0, <2>2, ChunkKeepsAligned
      DEF HandleAudioChunk, RecentInv, ConfirmedOnRecentWord
    <2>3. CASE BeginCandidate
      BY <2>0, <2>3 DEF BeginCandidate, RecentInv, Aligned, ConfirmedOnRecentWord
    <2>4. CASE SendCandidate
      <3>1. answers' \subseteq answers \cup {"failed"} /\ UNCHANGED <<settings, buffer, heard>>
        BY <2>4 DEF SendCandidate, BeginAsr
      <3>2. answers' \cap Stage # {} => WordIn(heard)
        BY <2>4, <3>1 DEF RecentInv, Stage, SendCandidate
      <3> QED
        BY <2>0, <3>1, <3>2 DEF RecentInv, Aligned, ConfirmedOnRecentWord, WordIn
    <2>5. CASE ModelConfirms \/ KeywordFound \/ PromptedWordFound
      <3>1. WordIn(heard) /\ UNCHANGED <<settings, buffer, heard>>
        BY <2>5, WordSentWasHeard DEF RecentInv, ModelConfirms, KeywordFound, PromptedWordFound
      <3> QED
        BY <2>0, <3>1 DEF RecentInv, Aligned, ConfirmedOnRecentWord, WordIn
    <2>6. CASE ModelDenies \/ ModelFails \/ AsrDenies \/ AsrFails
      <3>1. /\ answers' \subseteq answers \cup {"failed", "denied"} /\ phase # "listening"
            /\ UNCHANGED <<settings, buffer, heard>>
        BY <2>6 DEF ModelDenies, ModelFails, AfterModel, BeginAsr, AsrDenies, AsrFails
      <3>2. answers' \cap Stage # {} => WordIn(heard)
        BY <3>1 DEF RecentInv, Stage
      <3> QED
        BY <2>0, <3>1, <3>2 DEF RecentInv, Aligned, ConfirmedOnRecentWord, WordIn
    <2>7. CASE MalformedAnswer \/ ClientReconnects
      <3>1. Len(buffer') = 0 /\ phase' = "listening" /\ verdict' # "accepted"
        BY <2>7, EmptySeq DEF MalformedAnswer, ClientReconnects, NewHandler
      <3> QED
        BY <2>0, <3>1 DEF RecentInv, Aligned, ConfirmedOnRecentWord
    <2>8. CASE AnotherClientConnects \/ PatchSettings
      <3>1. UNCHANGED <<buffer, heard, phase, answers, verdict>>
        BY <2>8 DEF AnotherClientConnects, PatchSettings, candidate
      <3> QED
        BY <2>0, <3>1 DEF RecentInv, Aligned, ConfirmedOnRecentWord, WordIn
    <2>9. CASE UNCHANGED vars
      BY <2>0, <2>9 DEF vars, candidate, RecentInv, Aligned, ConfirmedOnRecentWord, WordIn
    <2> QED
      BY <2>0, <2>1, <2>2, <2>3, <2>4, <2>5, <2>6, <2>7, <2>8, <2>9 DEF Next, Stream, Verify
  <1>3. RecentInv => ConfirmedOnRecentWord
    BY DEF RecentInv
  <1> QED
    BY <1>1, <1>2, <1>3, TypeInvariant, VerdictsJustified, PTL DEF Spec

----------------------------------------------------------------------------
(* Every stage                                                               *)

\* There is audio to verify once a chunk has come, and what has not confirmed
\* a candidate that got past it has failed.
StagesInv ==
    /\ Buffered /\ (heard # <<>> => buffer # <<>>) /\ EveryStageConfirms
    /\ phase \in {"unbiased", "prompted"} =>
          ("model" \in stages \ answers => "failed" \in answers)

\* A chunk is still in the buffer when it has been trimmed.
LEMMA ChunkBuffered ==
    ASSUME TypeOK, Buffered, CaptureChunks > 0, HandleAudioChunk PROVE buffer' # <<>>
  <1> USE VerificationAssumption
  <1>1. PICK chunk \in Chunk : buffer' = Trim(Append(buffer, chunk))
    BY BufferedStays DEF HandleAudioChunk, Chunk
  <1> DEFINE b == Append(buffer, chunk)
             l == Latest(b, CaptureChunks)
  <1>2. b \in Seq(Chunk) /\ Len(b) = Len(buffer) + 1 /\ Len(buffer) \in Nat
    BY AppendProperties, LenProperties DEF TypeOK
  <1> HIDE DEF b
  <1>3. l = b \/ Len(l) = CaptureChunks
    BY <1>2, LatestChunks
  <1>4. buffer' = l
    BY <1>1 DEF Trim, b
  <1> HIDE DEF l
  <1> QED
    BY <1>2, <1>3, <1>4, EmptySeq

\* When audio is buffered all along and the buffer is not of zero length, a
\* candidate is accepted unconfirmed only if a stage that was asked has failed
\* (ASR verification alone buffers nothing: the run verify_asr_alone).
THEOREM AllStagesConfirm ==
    ASSUME AlwaysBuffering, CaptureChunks > 0 PROVE Spec => []EveryStageConfirms
  <1>1. Init => StagesInv
    BY BufferedStays DEF Init, StagesInv, EveryStageConfirms
  <1>2. TypeOK /\ VerdictInv /\ StagesInv /\ [Next]_vars => StagesInv'
    <2> SUFFICES ASSUME TypeOK, Undecided, StagesInv, [Next]_vars PROVE StagesInv'
      BY DEF VerdictInv
    <2>0. Buffered' /\ stages \subseteq {"model", "asr"}
      BY BufferedStays DEF StagesInv, TypeOK, Stage
    <2> USE DEF StagesInv, EveryStageConfirms
    <2>1. CASE HandleAudioStart
      <3>1. (buffer' = <<>> <=> buffer = <<>>) /\ (heard' = <<>> <=> heard = <<>>)
        BY <2>1, EarlierOf, EmptySeq, LenProperties DEF HandleAudioStart, TypeOK
      <3> QED
        BY <2>0, <2>1, <3>1 DEF HandleAudioStart
    <2>2. CASE HandleAudioChunk
      BY <2>0, <2>2, ChunkBuffered DEF HandleAudioChunk
    <2>3. CASE BeginCandidate
      BY <2>0, <2>3 DEF BeginCandidate, Decide
    <2>4. CASE SendCandidate
      BY <2>0, <2>4 DEF SendCandidate, BeginAsr, FailOpen, Decide, Undecided
    <2>5. CASE ModelConfirms
      BY <2>0, <2>5 DEF ModelConfirms, AfterModel, BeginAsr, FailOpen, Decide, Undecided
    <2>6. CASE ModelFails
      BY <2>0, <2>6 DEF ModelFails, AfterModel, BeginAsr, FailOpen, Decide, Undecided
    <2>7. CASE KeywordFound \/ PromptedWordFound
      BY <2>0, <2>7 DEF KeywordFound, PromptedWordFound, Decide, Undecided
    <2>8. CASE ModelDenies \/ AsrDenies \/ AsrFails
      BY <2>0, <2>8 DEF ModelDenies, AsrDenies, AsrFails, FailOpen, Decide
    <2>9. CASE MalformedAnswer \/ ClientReconnects
      BY <2>0, <2>9 DEF MalformedAnswer, ClientReconnects, NewHandler
    <2>10. CASE AnotherClientConnects \/ PatchSettings \/ UNCHANGED vars
      BY <2>0, <2>10 DEF AnotherClientConnects, PatchSettings, vars, candidate
    <2> QED
      BY <2>1, <2>2, <2>3, <2>4, <2>5, <2>6, <2>7, <2>8, <2>9, <2>10 DEF Next, Stream, Verify
  <1>3. StagesInv => EveryStageConfirms
    BY DEF StagesInv
  <1> QED
    BY <1>1, <1>2, <1>3, TypeInvariant, VerdictsJustified, PTL DEF Spec

----------------------------------------------------------------------------
(* The edit distance                                                          *)

\* One entry of a row, as NextRow appends it; x has NextRow's arguments.
AddEntry(x, acc, j) ==
    Append(acc, Min({x.row[j + 1] + 1, acc[j] + 1,
                     x.row[j] + (IF x.letter = x.b[j] THEN 0 ELSE 1)}))

\* One row; x has the two words.
AddRow(x, row, i) == NextRow(row, i, x.a[i], x.b)

Columns == INSTANCE FoldTheorems WITH Op <- AddEntry
Rows == INSTANCE FoldTheorems WITH Op <- AddRow

\* What the folds of NextRow and EditDistance go through, and begin with.
Indices(s) == [j \in DOMAIN s |-> j]
RowBefore(row, letter, b) == [row |-> row, letter |-> letter, b |-> b]
Pair(a, b) == [a |-> a, b |-> b]
RowStart(i) == <<i>>
FirstRow(b) == [j \in 1..Len(b) + 1 |-> j - 1]

LEMMA RowIsLoop ==
  ASSUME NEW row, NEW i \in Nat, NEW letter, NEW b, NEW n \in Nat, DOMAIN b = 1..n
  PROVE  \E acc : /\ Columns!IsLoop(acc, RowBefore(row, letter, b), RowStart(i), Indices(b), n)
                  /\ NextRow(row, i, letter, b) = acc[n]
  <1>1. NextRow(row, i, letter, b) = Columns!Fold(RowBefore(row, letter, b), RowStart(i), Indices(b))
    BY DEF NextRow, AddEntry, RowBefore, RowStart, Indices, FoldLeft, MapThenFoldSet, Max,
           Columns!Fold, Columns!FoldLeft, Columns!MapThenFoldSet, Columns!Max
  <1>2. DOMAIN Indices(b) = 1..n
    BY DEF Indices
  <1> QED
    BY <1>1, <1>2, Columns!FoldIsLoop

LEMMA DistanceIsLoop ==
  ASSUME NEW a, NEW b, NEW m \in Nat, DOMAIN a = 1..m
  PROVE  \E acc : /\ Rows!IsLoop(acc, Pair(a, b), FirstRow(b), Indices(a), m)
                  /\ EditDistance(a, b) = acc[m][Len(acc[m])]
  <1>1. EditDistance(a, b) = Last(Rows!Fold(Pair(a, b), FirstRow(b), Indices(a)))
    BY DEF EditDistance, AddRow, Pair, FirstRow, Indices, FoldLeft, MapThenFoldSet, Max,
           Rows!Fold, Rows!FoldLeft, Rows!MapThenFoldSet, Rows!Max
  <1>2. DOMAIN Indices(a) = 1..m
    BY DEF Indices
  <1>3. PICK acc : /\ Rows!IsLoop(acc, Pair(a, b), FirstRow(b), Indices(a), m)
                   /\ Rows!Fold(Pair(a, b), FirstRow(b), Indices(a)) = acc[m]
    BY <1>2, Rows!FoldIsLoop
  <1> QED
    BY <1>1, <1>3 DEF Last

\* A row has one entry more than b has letters.
IsRow(row, n) == row \in Seq(Nat) /\ Len(row) = n + 1

\* The entry at j of new, the row after row, for one letter.
Entry(new, row, same, j) ==
    new[j + 1] = Min({row[j + 1] + 1, new[j] + 1, row[j] + (IF same THEN 0 ELSE 1)})

LEMMA LeastOfNumbers ==
  ASSUME NEW S \in SUBSET Nat, S # {}
  PROVE  Min(S) \in S /\ \A n \in S : Min(S) <= n
  <1>1. \E n \in S : \A m \in S : n <= m
    BY Columns!LeastNumber
  <1> QED
    BY <1>1 DEF Min

LEMMA LeastOfThree ==
  ASSUME NEW x \in Nat, NEW y \in Nat, NEW z \in Nat
  PROVE  /\ Min({x, y, z}) \in {x, y, z}
         /\ Min({x, y, z}) <= x /\ Min({x, y, z}) <= y /\ Min({x, y, z}) <= z
  BY LeastOfNumbers

LEMMA RowFollows ==
  ASSUME NEW n \in Nat, NEW b, DOMAIN b = 1..n, NEW row, IsRow(row, n), NEW i \in Nat, NEW letter
  PROVE  LET new == NextRow(row, i, letter, b)
         IN  /\ IsRow(new, n) /\ new[1] = i
             /\ \A j \in 1..n : Entry(new, row, letter = b[j], j)
  <1>1. PICK acc : /\ Columns!IsLoop(acc, RowBefore(row, letter, b), RowStart(i), Indices(b), n)
                   /\ NextRow(row, i, letter, b) = acc[n]
    BY RowIsLoop
  <1> DEFINE Good(k) == /\ IsRow(acc[k], k) /\ acc[k][1] = i
                        /\ \A j \in 1..k : Entry(acc[k], row, letter = b[j], j)
             K == {k \in 0..n : Good(k)}
  <1>2. 0 \in K
    <2>1. acc[0] = <<i>>
      BY <1>1 DEF Columns!IsLoop, RowStart
    <2>2. IsRow(acc[0], 0) /\ acc[0][1] = i
      BY <2>1 DEF IsRow
    <2>3. \A j \in 1..0 : FALSE
      OBVIOUS
    <2> QED
      BY <2>2, <2>3
  <1>3. ASSUME NEW k \in 0..n - 1, k \in K PROVE k + 1 \in K
    <2> DEFINE j0 == k + 1
               z == row[j0] + (IF letter = b[j0] THEN 0 ELSE 1)
               least == Min({row[j0 + 1] + 1, acc[k][j0] + 1, z})
    <2>0. k \in Nat /\ k \in 0..n - 1
      OBVIOUS
    <2>1. j0 = k + 1 /\ j0 \in 1..n /\ Indices(b)[j0] = j0
      BY DEF Indices
    <2>2. acc[j0] = Append(acc[k], least)
      BY <1>1, <2>1 DEF Columns!IsLoop, AddEntry, RowBefore
    <2> HIDE DEF j0
    <2>3. IsRow(acc[k], k) /\ acc[k][1] = i /\ \A j \in 1..k : Entry(acc[k], row, letter = b[j], j)
      BY <1>3
    <2>4. row[j0 + 1] \in Nat /\ row[j0] \in Nat /\ acc[k][j0] \in Nat
      <3>1. j0 \in 1..n + 1 /\ j0 + 1 \in 1..n + 1
        BY <2>1
      <3>2. row[j0 + 1] \in Nat /\ row[j0] \in Nat
        BY <3>1 DEF IsRow
      <3>3. acc[k] \in Seq(Nat) /\ Len(acc[k]) = k + 1 /\ j0 \in 1..k + 1
        BY <2>0, <2>1, <2>3 DEF IsRow
      <3> QED
        BY <3>2, <3>3
    <2>5. least \in Nat
      <3>1. row[j0 + 1] + 1 \in Nat /\ acc[k][j0] + 1 \in Nat /\ z \in Nat
        BY <2>4
      <3> HIDE DEF z
      <3> QED
        BY <3>1, LeastOfThree
    <2> HIDE DEF least
    <2>6. /\ acc[j0] \in Seq(Nat) /\ Len(acc[j0]) = j0 + 1 /\ acc[j0][j0 + 1] = least
          /\ \A l \in 1..j0 : acc[j0][l] = acc[k][l]
      <3>1. acc[k] \in Seq(Nat) /\ Len(acc[k]) = j0 /\ j0 \in Nat
        BY <2>0, <2>1, <2>3 DEF IsRow
      <3> QED
        BY <2>2, <2>5, <3>1
    <2>7. Entry(acc[j0], row, letter = b[j0], j0)
      <3>1. acc[j0][j0] = acc[k][j0]
        BY <2>1, <2>6, SMTT(30)
      <3> QED
        BY <2>6, <3>1 DEF Entry, least
    <2>8. ASSUME NEW j \in 1..k PROVE Entry(acc[j0], row, letter = b[j], j)
      <3>1. j \in 1..j0 /\ j + 1 \in 1..j0
        BY <2>0, <2>1
      <3>2. acc[j0][j + 1] = acc[k][j + 1] /\ acc[j0][j] = acc[k][j]
        BY <2>6, <3>1
      <3> QED
        BY <2>3, <3>2 DEF Entry
    <2>9. IsRow(acc[j0], j0) /\ acc[j0][1] = i
      <3>1. 1 \in 1..j0
        BY <2>0, <2>1
      <3> QED
        BY <2>3, <2>6, <3>1 DEF IsRow
    <2>10. \A j \in 1..j0 : Entry(acc[j0], row, letter = b[j], j)
      <3>1. \A j \in 1..j0 : j = j0 \/ j \in 1..k
        BY <2>0, <2>1
      <3> QED
        BY <2>7, <2>8, <3>1
    <2> QED
      BY <2>1, <2>9, <2>10
  <1> HIDE DEF K
  <1>4. \A k \in 0..n : k \in K
    BY <1>2, <1>3, Columns!IntervalByInduction
  <1>5. n \in K
    BY <1>4
  <1> QED
    BY <1>1, <1>5 DEF K


\* The rows, for the entry at i and j of the table of distances.
IsTable(D, a, b, m, n) ==
    /\ \A i \in 0..m : IsRow(D[i], n) /\ D[i][1] = i
    /\ \A j \in 1..n + 1 : D[0][j] = j - 1
    /\ \A i \in 1..m, j \in 1..n : Entry(D[i], D[i - 1], a[i] = b[j], j)

LEMMA DistanceIsInTable ==
  ASSUME NEW m \in Nat, NEW n \in Nat, NEW a, DOMAIN a = 1..m, NEW b, DOMAIN b = 1..n, Len(b) = n
  PROVE  \E D : IsTable(D, a, b, m, n) /\ EditDistance(a, b) = D[m][n + 1]
  <1>0. DOMAIN b = 1..n /\ Len(b) = n
    OBVIOUS
  <1>1. PICK D : /\ Rows!IsLoop(D, Pair(a, b), FirstRow(b), Indices(a), m)
                 /\ EditDistance(a, b) = D[m][Len(D[m])]
    BY DistanceIsLoop
  <1> DEFINE Good(k) == /\ IsRow(D[k], n) /\ D[k][1] = k
                        /\ k > 0 => \A j \in 1..n : Entry(D[k], D[k - 1], a[k] = b[j], j)
             K == {k \in 0..m : Good(k)}
  <1>2. D[0] = FirstRow(b)
    BY <1>1 DEF Rows!IsLoop
  <1>3. IsRow(D[0], n) /\ \A j \in 1..n + 1 : D[0][j] = j - 1
    BY <1>2 DEF FirstRow, IsRow
  <1>4. 0 \in K
    BY <1>3
  <1>5. ASSUME NEW k \in 0..m - 1, k \in K PROVE k + 1 \in K
    <2>1. D[k + 1] = NextRow(D[k], k + 1, a[k + 1], b)
      <3>1. Indices(a)[k + 1] = k + 1
        BY DEF Indices
      <3> QED
        BY <1>1, <3>1 DEF Rows!IsLoop, AddRow, Pair
    <2>2. IsRow(D[k], n) /\ k + 1 \in Nat
      BY <1>5
    <2>3. /\ IsRow(D[k + 1], n) /\ D[k + 1][1] = k + 1
          /\ \A j \in 1..n : Entry(D[k + 1], D[k], a[k + 1] = b[j], j)
      BY <1>0, <2>1, <2>2, RowFollows
    <2>4. k + 1 \in 0..m /\ (k + 1) - 1 = k
      OBVIOUS
    <2> QED
      BY <2>3, <2>4
  <1> HIDE DEF K
  <1>6. \A k \in 0..m : k \in K
    BY <1>4, <1>5, Columns!IntervalByInduction
  <1>7. \A k \in 0..m : Good(k)
    BY <1>6 DEF K
  <1>8. IsTable(D, a, b, m, n)
    <2>1. \A i \in 0..m : IsRow(D[i], n) /\ D[i][1] = i
      BY <1>7
    <2>2. \A i \in 1..m : i \in 0..m /\ i > 0
      OBVIOUS
    <2>3. \A i \in 1..m : \A j \in 1..n : Entry(D[i], D[i - 1], a[i] = b[j], j)
      BY <1>7, <2>2
    <2> QED
      BY <1>3, <2>1, <2>3 DEF IsTable
  <1>9. Len(D[m]) = n + 1
    BY <1>7 DEF IsRow
  <1> QED
    BY <1>1, <1>8, <1>9

\* What three neighbours leave of a distance: the code's way.
Cost(same) == IF same THEN 0 ELSE 1
Step(T, same, i, j) ==
    Min({T[i - 1][j] + 1, T[i][j - 1] + 1, T[i - 1][j - 1] + Cost(same)})

\* A table of the distances between the beginnings of a and b.
IsDistances(T, a, b, m, n) ==
    /\ T \in [0..m -> [0..n -> Nat]]
    /\ \A i \in 0..m : T[i][0] = i
    /\ \A j \in 0..n : T[0][j] = j
    /\ \A i \in 1..m, j \in 1..n : T[i][j] = Step(T, a[i] = b[j], i, j)

LEMMA TableHasDistances ==
  ASSUME NEW m \in Nat, NEW n \in Nat, NEW a, NEW b, NEW D, IsTable(D, a, b, m, n)
  PROVE  \E T : IsDistances(T, a, b, m, n) /\ T[m][n] = D[m][n + 1]
  <1> DEFINE T == [i \in 0..m |-> [j \in 0..n |-> D[i][j + 1]]]
  <1>1. \A i \in 0..m, j \in 0..n : T[i][j] = D[i][j + 1]
    OBVIOUS
  <1>2. \A i \in 0..m, j \in 0..n : D[i][j + 1] \in Nat
    BY DEF IsTable, IsRow
  <1>3. T \in [0..m -> [0..n -> Nat]]
    BY <1>2
  <1> HIDE DEF T
  <1>4. \A i \in 0..m : T[i][0] = i
    BY <1>1 DEF IsTable
  <1>5. \A j \in 0..n : T[0][j] = j
    BY <1>1 DEF IsTable
  <1>6. ASSUME NEW i \in 1..m, NEW j \in 1..n PROVE T[i][j] = Step(T, a[i] = b[j], i, j)
    <2>1. Entry(D[i], D[i - 1], a[i] = b[j], j)
      BY DEF IsTable
    <2>2. i \in 0..m /\ i - 1 \in 0..m /\ j \in 0..n /\ j - 1 \in 0..n /\ (j - 1) + 1 = j
      OBVIOUS
    <2>3. /\ T[i][j] = D[i][j + 1] /\ T[i - 1][j] = D[i - 1][j + 1]
          /\ T[i][j - 1] = D[i][j] /\ T[i - 1][j - 1] = D[i - 1][j]
      BY <1>1, <2>2
    <2> QED
      BY <2>1, <2>3 DEF Entry, Step, Cost
  <1>7. T[m][n] = D[m][n + 1]
    BY <1>1
  <1> QED
    BY <1>3, <1>4, <1>5, <1>6, <1>7 DEF IsDistances

\* The upper bounds, and the three ways to come by a distance.
LEMMA StepIsLeast ==
  ASSUME NEW m \in Nat, NEW n \in Nat, NEW a, NEW b, NEW T, IsDistances(T, a, b, m, n),
         NEW i \in 1..m, NEW j \in 1..n
  PROVE  /\ i \in 0..m /\ i - 1 \in 0..m /\ j \in 0..n /\ j - 1 \in 0..n
         /\ T[i][j] \in Nat /\ T[i - 1][j] \in Nat /\ T[i][j - 1] \in Nat /\ T[i - 1][j - 1] \in Nat
         /\ T[i][j] <= T[i - 1][j] + 1
         /\ T[i][j] <= T[i][j - 1] + 1
         /\ T[i][j] <= T[i - 1][j - 1] + Cost(a[i] = b[j])
         /\ \/ T[i][j] = T[i - 1][j] + 1
            \/ T[i][j] = T[i][j - 1] + 1
            \/ T[i][j] = T[i - 1][j - 1] + Cost(a[i] = b[j])
  <1> DEFINE x == T[i - 1][j]
             y == T[i][j - 1]
             z == T[i - 1][j - 1]
             c == Cost(a[i] = b[j])
  <1>1. i \in 0..m /\ i - 1 \in 0..m /\ j \in 0..n /\ j - 1 \in 0..n
    OBVIOUS
  <1>2. T[i][j] \in Nat /\ x \in Nat /\ y \in Nat /\ z \in Nat
    BY <1>1 DEF IsDistances
  <1>3. T[i][j] = Min({x + 1, y + 1, z + c})
    BY DEF IsDistances, Step
  <1>4. x + 1 \in Nat /\ y + 1 \in Nat /\ z + c \in Nat
    BY <1>2 DEF Cost
  <1> HIDE DEF x, y, z, c
  <1>5. /\ T[i][j] \in {x + 1, y + 1, z + c}
        /\ T[i][j] <= x + 1 /\ T[i][j] <= y + 1 /\ T[i][j] <= z + c
    BY <1>3, <1>4, LeastOfThree
  <1> QED
    BY <1>1, <1>2, <1>5 DEF x, y, z, c

\* A letter more of either word changes the distance by one at most.
LEMMA ToTheRight ==
  ASSUME NEW m \in Nat, NEW n \in Nat, NEW a, NEW b, NEW T, IsDistances(T, a, b, m, n)
  PROVE  \A i \in 0..m : \A j \in 1..n : T[i][j - 1] <= T[i][j] + 1
  <1> DEFINE K == {i \in 0..m : \A j \in 1..n : T[i][j - 1] <= T[i][j] + 1}
  <1>1. 0 \in K
    <2>1. \A j \in 1..n : j \in 0..n /\ j - 1 \in 0..n
      OBVIOUS
    <2>2. \A j \in 1..n : T[0][j] = j /\ T[0][j - 1] = j - 1
      BY <2>1 DEF IsDistances
    <2> QED
      BY <2>2
  <1>2. ASSUME NEW k \in 0..m - 1, k \in K PROVE k + 1 \in K
    <2> DEFINE i == k + 1
    <2>1. i \in 1..m /\ i \in 0..m /\ i - 1 = k
      OBVIOUS
    <2> HIDE DEF i
    <2>2. ASSUME NEW j \in 1..n PROVE T[i][j - 1] <= T[i][j] + 1
      <3>1. T[k][j - 1] <= T[k][j] + 1
        BY <1>2
      <3>2. /\ T[i][j] \in Nat /\ T[k][j] \in Nat /\ T[i][j - 1] \in Nat /\ T[k][j - 1] \in Nat
            /\ \/ T[i][j] = T[k][j] + 1
               \/ T[i][j] = T[i][j - 1] + 1
               \/ T[i][j] >= T[k][j - 1]
        BY <2>1, StepIsLeast DEF Cost
      <3>3. T[i][j - 1] <= T[k][j - 1] + 1
        <4>1. CASE j = 1
          <5>1. T[i][0] = i /\ T[k][0] = k
            BY <2>1 DEF IsDistances
          <5> QED
            BY <2>1, <4>1, <5>1 DEF i
        <4>2. CASE j # 1
          <5> DEFINE l == j - 1
          <5>1. l \in 1..n
            BY <4>2
          <5> HIDE DEF l
          <5>2. T[i][l] <= T[i - 1][l] + 1
            BY <2>1, <5>1, StepIsLeast, ZenonT(30)
          <5> QED
            BY <2>1, <5>2 DEF l
        <4> QED
          BY <4>1, <4>2
      <3> QED
        BY <3>1, <3>2, <3>3
    <2>3. i \in K
      BY <2>1, <2>2
    <2> QED
      BY <2>3 DEF i
  <1> HIDE DEF K
  <1>3. \A k \in 0..m : k \in K
    BY <1>1, <1>2, Columns!IntervalByInduction
  <1> QED
    BY <1>3 DEF K

LEMMA Downwards ==
  ASSUME NEW m \in Nat, NEW n \in Nat, NEW a, NEW b, NEW T, IsDistances(T, a, b, m, n)
  PROVE  \A j \in 0..n : \A i \in 1..m : T[i - 1][j] <= T[i][j] + 1
  <1> DEFINE K == {j \in 0..n : \A i \in 1..m : T[i - 1][j] <= T[i][j] + 1}
  <1>1. 0 \in K
    <2>1. \A i \in 1..m : i \in 0..m /\ i - 1 \in 0..m
      OBVIOUS
    <2>2. \A i \in 1..m : T[i][0] = i /\ T[i - 1][0] = i - 1
      BY <2>1 DEF IsDistances
    <2> QED
      BY <2>2
  <1>2. ASSUME NEW k \in 0..n - 1, k \in K PROVE k + 1 \in K
    <2> DEFINE j == k + 1
    <2>1. j \in 1..n /\ j \in 0..n /\ j - 1 = k
      OBVIOUS
    <2> HIDE DEF j
    <2>2. ASSUME NEW i \in 1..m PROVE T[i - 1][j] <= T[i][j] + 1
      <3>1. T[i - 1][k] <= T[i][k] + 1
        BY <1>2
      <3>2. /\ T[i][j] \in Nat /\ T[i][k] \in Nat /\ T[i - 1][j] \in Nat /\ T[i - 1][k] \in Nat
            /\ \/ T[i][j] = T[i][k] + 1
               \/ T[i][j] = T[i - 1][j] + 1
               \/ T[i][j] >= T[i - 1][k]
        BY <2>1, StepIsLeast, SMTT(30) DEF Cost
      <3>3. T[i - 1][j] <= T[i - 1][k] + 1
        <4>1. CASE i = 1
          <5>1. T[0][j] = j /\ T[0][k] = k
            BY <2>1 DEF IsDistances
          <5> QED
            BY <2>1, <4>1, <5>1 DEF j
        <4>2. CASE i # 1
          <5> DEFINE l == i - 1
          <5>1. l \in 1..m
            BY <4>2
          <5> HIDE DEF l
          <5>2. T[l][j] <= T[l][j - 1] + 1
            BY <2>1, <5>1, StepIsLeast
          <5> QED
            BY <2>1, <5>2 DEF l
        <4> QED
          BY <4>1, <4>2
      <3> QED
        BY <3>1, <3>2, <3>3
    <2>3. j \in K
      BY <2>1, <2>2
    <2> QED
      BY <2>3 DEF j
  <1> HIDE DEF K
  <1>3. \A k \in 0..n : k \in K
    BY <1>1, <1>2, Columns!IntervalByInduction
  <1> QED
    BY <1>3 DEF K

\* So the table is also what the definition says: equal letters cost nothing.
ByDefinition(same, x, y, z) == IF same THEN z ELSE 1 + Min({x, y, z})

LEMMA StepIsRecurrence ==
  ASSUME NEW m \in Nat, NEW n \in Nat, NEW a, NEW b, NEW T, IsDistances(T, a, b, m, n),
         NEW i \in 1..m, NEW j \in 1..n
  PROVE  T[i][j] = ByDefinition(a[i] = b[j], T[i - 1][j], T[i][j - 1], T[i - 1][j - 1])
  <1>0. /\ T[i][j] # T[i - 1][j] + 1
        /\ T[i][j] # T[i][j - 1] + 1
        => T[i][j] = T[i - 1][j - 1] + Cost(a[i] = b[j])
    BY StepIsLeast, SMTT(30)
  <1> DEFINE x == T[i - 1][j]
             y == T[i][j - 1]
             z == T[i - 1][j - 1]
  <1>1. /\ T[i][j] \in Nat /\ x \in Nat /\ y \in Nat /\ z \in Nat
        /\ T[i][j] <= x + 1 /\ T[i][j] <= y + 1 /\ T[i][j] <= z + Cost(a[i] = b[j])
        /\ T[i][j] = x + 1 \/ T[i][j] = y + 1 \/ T[i][j] = z + Cost(a[i] = b[j])
    <2>1. /\ T[i][j] \in Nat /\ x \in Nat /\ y \in Nat /\ z \in Nat
          /\ T[i][j] <= x + 1 /\ T[i][j] <= y + 1 /\ T[i][j] <= z + Cost(a[i] = b[j])
      BY StepIsLeast
    <2>2. T[i][j] = x + 1 \/ T[i][j] = y + 1 \/ T[i][j] = z + Cost(a[i] = b[j])
      BY <1>0
    <2> QED
      BY <2>1, <2>2
  <1>2. z <= x + 1 /\ z <= y + 1
    <2>1. i - 1 \in 0..m /\ j - 1 \in 0..n
      BY StepIsLeast
    <2> QED
      BY <2>1, ToTheRight, Downwards
  <1>3. LET least == Min({x, y, z})
        IN  least \in {x, y, z} /\ least <= x /\ least <= y /\ least <= z
    <2> HIDE DEF x, y, z
    <2> QED
      BY <1>1, LeastOfThree
  <1> HIDE DEF x, y, z
  <1>4. T[i][j] = IF a[i] = b[j] THEN z ELSE 1 + Min({x, y, z})
    BY <1>1, <1>2, <1>3 DEF Cost
  <1> QED
    BY <1>4 DEF x, y, z, ByDefinition

\* The function that Levenshtein is defined by.
Distances(d, a, b) ==
    d = [x \in (0..Len(a)) \X (0..Len(b)) |->
            LET i == x[1]
                j == x[2]
            IN  IF i = 0 THEN j
                ELSE IF j = 0 THEN i
                ELSE IF a[i] = b[j] THEN d[<<i - 1, j - 1>>]
                ELSE 1 + Min({d[<<i - 1, j>>], d[<<i, j - 1>>], d[<<i - 1, j - 1>>]})]

LEMMA LevenshteinUnfolds ==
  ASSUME NEW a, NEW b
  PROVE  Levenshtein(a, b) = (CHOOSE d : Distances(d, a, b))[<<Len(a), Len(b)>>]
  BY SMTT(30) DEF Levenshtein, Distances

\* The same with a cell of the table as an opaque value.
Cell(i, j) == <<i, j>>
Recurs(d, a, b, m, n) ==
    \A i \in 0..m, j \in 0..n :
       d[Cell(i, j)] = IF i = 0 THEN j
                       ELSE IF j = 0 THEN i
                       ELSE ByDefinition(a[i] = b[j], d[Cell(i - 1, j)], d[Cell(i, j - 1)],
                                         d[Cell(i - 1, j - 1)])

LEMMA DistancesRecur ==
  ASSUME NEW a, NEW b, NEW m \in Nat, NEW n \in Nat, Len(a) = m, Len(b) = n,
         NEW d, Distances(d, a, b)
  PROVE  Recurs(d, a, b, m, n)
  BY DEF Distances, Recurs, Cell, ByDefinition

LEMMA RecursIsDistances ==
  ASSUME NEW a, NEW b, NEW m \in Nat, NEW n \in Nat, Len(a) = m, Len(b) = n,
         NEW d, d = [x \in (0..m) \X (0..n) |-> d[x]], Recurs(d, a, b, m, n)
  PROVE  Distances(d, a, b)
  <1>1. ASSUME NEW x \in (0..m) \X (0..n)
        PROVE  d[x] = IF x[1] = 0 THEN x[2]
                      ELSE IF x[2] = 0 THEN x[1]
                      ELSE IF a[x[1]] = b[x[2]] THEN d[<<x[1] - 1, x[2] - 1>>]
                      ELSE 1 + Min({d[<<x[1] - 1, x[2]>>], d[<<x[1], x[2] - 1>>],
                                    d[<<x[1] - 1, x[2] - 1>>]})
    <2> DEFINE i == x[1]
               j == x[2]
    <2>1. i \in 0..m /\ j \in 0..n /\ x = Cell(i, j)
      BY DEF Cell
    <2> HIDE DEF i, j
    <2>2. d[x] = IF i = 0 THEN j
                 ELSE IF j = 0 THEN i
                 ELSE ByDefinition(a[i] = b[j], d[Cell(i - 1, j)], d[Cell(i, j - 1)],
                                   d[Cell(i - 1, j - 1)])
      BY <2>1, ZenonT(30) DEF Recurs
    <2> QED
      BY <2>2, Zenon DEF Cell, i, j, ByDefinition
  <1> QED
    BY <1>1 DEF Distances

\* The cells of a table and their value.
LEMMA CellsOfTable ==
  ASSUME NEW m \in Nat, NEW n \in Nat, NEW T,
         NEW f, f = [x \in (0..m) \X (0..n) |-> T[x[1]][x[2]]]
  PROVE  \A i \in 0..m, j \in 0..n : f[Cell(i, j)] = T[i][j]
  BY DEF Cell

\* A table of distances recurs.
LEMMA TableRecurs ==
  ASSUME NEW a, NEW b, NEW m \in Nat, NEW n \in Nat, NEW T, IsDistances(T, a, b, m, n),
         NEW f, \A i \in 0..m, j \in 0..n : f[Cell(i, j)] = T[i][j]
  PROVE  Recurs(f, a, b, m, n)
  <1> SUFFICES ASSUME NEW i \in 0..m, NEW j \in 0..n
      PROVE  f[Cell(i, j)] = IF i = 0 THEN j
                       ELSE IF j = 0 THEN i
                       ELSE ByDefinition(a[i] = b[j], f[Cell(i - 1, j)], f[Cell(i, j - 1)],
                                         f[Cell(i - 1, j - 1)])
    BY DEF Recurs
  <1>1. CASE i = 0
    BY <1>1 DEF IsDistances
  <1>2. CASE j = 0
    BY <1>2 DEF IsDistances
  <1>3. CASE i # 0 /\ j # 0
    <2> DEFINE k == i - 1
               l == j - 1
    <2>1. i \in 1..m /\ j \in 1..n /\ k \in 0..m /\ l \in 0..n
      BY <1>3
    <2>2. T[i][j] = ByDefinition(a[i] = b[j], T[k][j], T[i][l], T[k][l])
      BY <2>1, StepIsRecurrence
    <2> HIDE DEF k, l
    <2>3. f[Cell(i, j)] = ByDefinition(a[i] = b[j], f[Cell(k, j)], f[Cell(i, l)], f[Cell(k, l)])
      BY <2>1, <2>2
    <2> QED
      BY <1>3, <2>3 DEF k, l
  <1> QED
    BY <1>1, <1>2, <1>3

LEMMA RecursAtTop ==
  ASSUME NEW a, NEW b, NEW m \in Nat, NEW n \in Nat, NEW d, Recurs(d, a, b, m, n)
  PROVE  \A j \in 0..n : d[Cell(0, j)] = j
  <1> SUFFICES ASSUME NEW j \in 0..n PROVE d[Cell(0, j)] = j
    OBVIOUS
  <1> DEFINE i == 0
  <1>1. i \in 0..m /\ i = 0
    OBVIOUS
  <1> HIDE DEF i
  <1>2. d[Cell(i, j)] = j
    BY <1>1 DEF Recurs
  <1> QED
    BY <1>1, <1>2

\* What recurs like a table has its values.
LEMMA RecursLikeTable ==
  ASSUME NEW a, NEW b, NEW m \in Nat, NEW n \in Nat, NEW T, IsDistances(T, a, b, m, n),
         NEW d, Recurs(d, a, b, m, n)
  PROVE  d[Cell(m, n)] = T[m][n]
  <1> DEFINE K == {i \in 0..m : \A j \in 0..n : d[Cell(i, j)] = T[i][j]}
  <1>1. 0 \in K
    <2>1. \A j \in 0..n : d[Cell(0, j)] = j /\ T[0][j] = j
      <3>1. \A j \in 0..n : d[Cell(0, j)] = j
        BY RecursAtTop
      <3>2. \A j \in 0..n : T[0][j] = j
        BY DEF IsDistances
      <3> QED
        BY <3>1, <3>2
    <2> QED
      BY <2>1
  <1>2. ASSUME NEW k \in 0..m - 1, k \in K PROVE k + 1 \in K
    <2> DEFINE i == k + 1
               L == {j \in 0..n : d[Cell(i, j)] = T[i][j]}
    <2>1. i \in 1..m /\ i \in 0..m /\ i # 0 /\ i - 1 = k
      OBVIOUS
    <2>2. \A j \in 0..n : d[Cell(k, j)] = T[k][j]
      BY <1>2
    <2> HIDE DEF i, K
    <2>3. 0 \in L
      <3>1. d[Cell(i, 0)] = i /\ T[i][0] = i
        <4>1. d[Cell(i, 0)] = i
          <5> DEFINE z == 0
          <5>1. z \in 0..n /\ z = 0
            OBVIOUS
          <5> HIDE DEF z
          <5>2. d[Cell(i, z)] = i
            BY <2>1, <5>1 DEF Recurs
          <5> QED
            BY <5>1, <5>2
        <4>2. T[i][0] = i
          BY <2>1 DEF IsDistances
        <4> QED
          BY <4>1, <4>2
      <3> QED
        BY <3>1
    <2>4. ASSUME NEW l \in 0..n - 1, l \in L PROVE l + 1 \in L
      <3> DEFINE j == l + 1
      <3>1. j \in 1..n /\ j \in 0..n /\ l \in 0..n /\ j # 0 /\ j - 1 = l
        OBVIOUS
      <3>2. d[Cell(i, l)] = T[i][l]
        BY <2>4
      <3> HIDE DEF j, L
      <3>3. d[Cell(i, j)] = ByDefinition(a[i] = b[j], d[Cell(k, j)], d[Cell(i, l)], d[Cell(k, l)])
        BY <2>1, <3>1 DEF Recurs
      <3>4. T[i][j] = ByDefinition(a[i] = b[j], T[k][j], T[i][l], T[k][l])
        <4>1. T[i][j] = ByDefinition(a[i] = b[j], T[i - 1][j], T[i][j - 1], T[i - 1][j - 1])
          BY <2>1, <3>1, StepIsRecurrence
        <4> QED
          BY <2>1, <3>1, <4>1
      <3>5. d[Cell(i, j)] = T[i][j]
        BY <2>2, <3>1, <3>2, <3>3, <3>4
      <3> QED
        BY <3>1, <3>5 DEF j, L
    <2> HIDE DEF L
    <2>5. \A j \in 0..n : j \in L
      BY <2>3, <2>4, Columns!IntervalByInduction
    <2>6. i \in K
      BY <2>1, <2>5 DEF K, L
    <2> QED
      BY <2>6 DEF i
  <1> HIDE DEF K
  <1>3. \A k \in 0..m : k \in K
    BY <1>1, <1>2, Columns!IntervalByInduction
  <1> QED
    BY <1>3 DEF K

LEMMA TableIsLevenshtein ==
  ASSUME NEW a, NEW b, NEW m \in Nat, NEW n \in Nat, Len(a) = m, Len(b) = n,
         NEW T, IsDistances(T, a, b, m, n)
  PROVE  Levenshtein(a, b) = T[m][n]
  <1> DEFINE f == [x \in (0..m) \X (0..n) |-> T[x[1]][x[2]]]
             d == CHOOSE d : Distances(d, a, b)
  <1>1. /\ f = [x \in (0..m) \X (0..n) |-> f[x]]
        /\ f = [x \in (0..m) \X (0..n) |-> T[x[1]][x[2]]]
    OBVIOUS
  <1> HIDE DEF f
  <1>2. Distances(f, a, b)
    <2>1. \A i \in 0..m, j \in 0..n : f[Cell(i, j)] = T[i][j]
      BY <1>1 DEF Cell
    <2>2. Recurs(f, a, b, m, n)
      BY <2>1, TableRecurs
    <2> QED
      BY <1>1, <2>2, RecursIsDistances
  <1>3. Distances(d, a, b)
    BY <1>2
  <1> HIDE DEF d
  <1>4. d[Cell(m, n)] = T[m][n]
    BY <1>3, DistancesRecur, RecursLikeTable
  <1>5. Levenshtein(a, b) = d[Cell(m, n)]
    BY LevenshteinUnfolds DEF d, Cell
  <1> QED
    BY <1>4, <1>5

\* For any two words.
THEOREM EditDistanceIsLevenshtein ==
  ASSUME NEW a, NEW b, a \in Seq(ToSet(a)), b \in Seq(ToSet(b))
  PROVE  EditDistance(a, b) = Levenshtein(a, b)
  <1> DEFINE m == Len(a)
             n == Len(b)
  <1>1. m \in Nat /\ n \in Nat /\ DOMAIN a = 1..m /\ DOMAIN b = 1..n
    OBVIOUS
  <1> HIDE DEF m, n
  <1>2. Len(a) = m /\ Len(b) = n
    BY DEF m, n
  <1>3. PICK D : IsTable(D, a, b, m, n) /\ EditDistance(a, b) = D[m][n + 1]
    BY <1>1, <1>2, DistanceIsInTable
  <1>4. PICK T : IsDistances(T, a, b, m, n) /\ T[m][n] = D[m][n + 1]
    BY <1>1, <1>3, TableHasDistances
  <1>5. Levenshtein(a, b) = T[m][n]
    BY <1>1, <1>2, <1>4, TableIsLevenshtein
  <1> QED
    BY <1>3, <1>4, <1>5

----------------------------------------------------------------------------
(* Transcripts                                                                *)

KeepLetter(x, kept, c) == IF c \in Letters THEN Append(kept, c) ELSE kept
MergePiece(x, words, p) == AddPiece(words, p)

Kept == INSTANCE FoldTheorems WITH Op <- KeepLetter
Merged == INSTANCE FoldTheorems WITH Op <- MergePiece

IsText(text) == text \in Seq(ToSet(text))
IsTranscript(ps, N) ==
    /\ ps \in Seq(ToSet(ps)) /\ Len(ps) = N
    /\ \A i \in 1..N : IsText(ps[i].text) /\ ps[i].prob \in Int

\* What Merge makes of pieces.
Word == [text : Seq(Letters), total : Int, count : Nat \ {0}]

LEMMA NormalizeIsLoop ==
  ASSUME NEW text, IsText(text)
  PROVE  \E acc : /\ Kept!IsLoop(acc, 0, << >>, text, Len(text))
                  /\ Normalize(text) = acc[Len(text)]
  <1>1. Normalize(text) = Kept!Fold(0, << >>, text)
    BY DEF Normalize, KeepLetter, FoldLeft, MapThenFoldSet, Max,
           Kept!Fold, Kept!FoldLeft, Kept!MapThenFoldSet, Kept!Max
  <1>2. Len(text) \in Nat /\ DOMAIN text = 1..Len(text)
    BY DEF IsText
  <1> HIDE DEF IsText
  <1> QED
    BY <1>1, <1>2, Kept!FoldIsLoop

LEMMA KeptLetters ==
  ASSUME NEW text, NEW n \in Nat, NEW acc, Kept!IsLoop(acc, 0, << >>, text, n)
  PROVE  \A k \in 0..n : acc[k] \in Seq(Letters)
  <1> DEFINE K == {k \in 0..n : acc[k] \in Seq(Letters)}
  <1>1. 0 \in K
    <2>1. acc[0] = << >> /\ 0 \in 0..n
      BY DEF Kept!IsLoop
    <2>2. << >> \in Seq(Letters)
      OBVIOUS
    <2> QED
      BY <2>1, <2>2
  <1>2. ASSUME NEW k \in 0..n - 1, k \in K PROVE k + 1 \in K
    <2>1. acc[k + 1] = KeepLetter(0, acc[k], text[k + 1])
      BY DEF Kept!IsLoop
    <2>2. acc[k] \in Seq(Letters)
      BY <1>2
    <2>3. acc[k + 1] \in Seq(Letters)
      BY <2>1, <2>2 DEF KeepLetter
    <2> QED
      BY <2>3
  <1> HIDE DEF K
  <1>3. \A k \in 0..n : k \in K
    BY <1>1, <1>2, Kept!IntervalByInduction
  <1> QED
    BY <1>3 DEF K

LEMMA NormalizeKeepsLetters ==
  ASSUME NEW text, IsText(text)
  PROVE  Normalize(text) \in Seq(Letters)
  <1>1. PICK acc : /\ Kept!IsLoop(acc, 0, << >>, text, Len(text))
                   /\ Normalize(text) = acc[Len(text)]
    BY NormalizeIsLoop
  <1>2. Len(text) \in Nat /\ Len(text) \in 0..Len(text)
    BY DEF IsText
  <1> QED
    BY <1>1, <1>2, KeptLetters

LEMMA LettersAreText ==
  ASSUME NEW S, NEW text \in Seq(S)
  PROVE  IsText(text)
  BY DEF IsText, ToSet

LEMMA AddedPieceIsWord ==
  ASSUME NEW words \in Seq(Word), NEW p, IsText(p.text), p.prob \in Int
  PROVE  AddPiece(words, p) \in Seq(Word) /\ AddPiece(words, p) # << >>
  <1>1. Normalize(p.text) \in Seq(Letters)
    BY NormalizeKeepsLetters
  <1>2. CASE words = << >> \/ p.begins
    <2>1. Piece(p) \in Word
      BY <1>1 DEF Piece, Word
    <2>2. AddPiece(words, p) = Append(words, Piece(p))
      BY <1>2 DEF AddPiece
    <2> HIDE DEF Word
    <2> QED
      BY <2>1, <2>2
  <1>3. CASE ~(words = << >> \/ p.begins)
    <2> DEFINE n == Len(words)
               old == words[n]
               new == [text |-> old.text \o Normalize(p.text), total |-> old.total + p.prob,
                       count |-> old.count + 1]
    <2>1. n \in Nat /\ n # 0 /\ n \in 1..n /\ DOMAIN words = 1..n
      BY <1>3
    <2>2. old \in Word
      BY <2>1
    <2>3. new \in Word
      <3> HIDE DEF old
      <3>1. old.text \in Seq(Letters) /\ old.total \in Int /\ old.count \in Nat \ {0}
        BY <2>2 DEF Word
      <3>2. old.text \o Normalize(p.text) \in Seq(Letters)
        BY <1>1, <3>1
      <3> QED
        BY <3>1, <3>2 DEF Word
    <2>4. AddPiece(words, p) = [words EXCEPT ![n] = new]
      BY <1>3 DEF AddPiece
    <2> HIDE DEF Word, new, n
    <2>5. [words EXCEPT ![n] = new] \in Seq(Word)
      BY <2>1, <2>3
    <2>6. DOMAIN [words EXCEPT ![n] = new] # {}
      BY <2>1
    <2> QED
      BY <2>4, <2>5, <2>6
  <1> QED
    BY <1>2, <1>3

LEMMA MergeIsLoop ==
  ASSUME NEW N \in Nat, NEW ps, IsTranscript(ps, N)
  PROVE  \E acc : Merged!IsLoop(acc, 0, << >>, ps, N) /\ Merge(ps) = acc[N]
  <1>1. Merge(ps) = Merged!Fold(0, << >>, ps)
    BY DEF Merge, MergePiece, FoldLeft, MapThenFoldSet, Max,
           Merged!Fold, Merged!FoldLeft, Merged!MapThenFoldSet, Merged!Max
  <1>2. DOMAIN ps = 1..N
    BY DEF IsTranscript
  <1> QED
    BY <1>1, <1>2, Merged!FoldIsLoop

LEMMA MergedAreWords ==
  ASSUME NEW N \in Nat, NEW ps, IsTranscript(ps, N),
         NEW acc, Merged!IsLoop(acc, 0, << >>, ps, N)
  PROVE  /\ \A k \in 0..N : acc[k] \in Seq(Word)
         /\ \A k \in 1..N : acc[k] # << >>
  <1> DEFINE K == {k \in 0..N : acc[k] \in Seq(Word) /\ (k # 0 => acc[k] # << >>)}
  <1>1. 0 \in K
    <2>1. acc[0] = << >> /\ 0 \in 0..N
      BY DEF Merged!IsLoop
    <2>2. acc[0] \in Seq(Word)
      BY <2>1
    <2> QED
      BY <2>1, <2>2
  <1>2. ASSUME NEW k \in 0..N - 1, k \in K PROVE k + 1 \in K
    <2>1. acc[k + 1] = AddPiece(acc[k], ps[k + 1])
      BY DEF Merged!IsLoop, MergePiece
    <2>2. acc[k] \in Seq(Word)
      BY <1>2
    <2>3. IsText(ps[k + 1].text) /\ ps[k + 1].prob \in Int
      BY DEF IsTranscript
    <2>4. acc[k + 1] \in Seq(Word) /\ acc[k + 1] # << >>
      <3> HIDE DEF K
      <3> QED
        BY <2>1, <2>2, <2>3, AddedPieceIsWord
    <2> QED
      BY <2>4
  <1> HIDE DEF K
  <1>3. \A k \in 0..N : k \in K
    BY <1>1, <1>2, Merged!IntervalByInduction
  <1> QED
    BY <1>3 DEF K

----------------------------------------------------------------------------
(* The invariant                                                              *)

Heards == [text : Texts, begins : BOOLEAN, prob : Probabilities]

MatchInv == keywords \in Wakewords /\ pieces \in Seq(Heards)

LEMMA MatchInvariant == MatchSpec => []MatchInv
  <1>1. MatchInit => MatchInv
    BY DEF MatchInit, MatchInv
  <1>2. MatchInv /\ [MatchNext]_matchVars => MatchInv'
    <2> SUFFICES ASSUME MatchInv, [MatchNext]_matchVars PROVE MatchInv'
      OBVIOUS
    <2>1. CASE Hear
      <3>1. PICK text \in Texts, begins \in BOOLEAN, prob \in Probabilities :
               pieces' = Append(pieces, [text |-> text, begins |-> begins, prob |-> prob])
        BY <2>1 DEF Hear
      <3>2. [text |-> text, begins |-> begins, prob |-> prob] \in Heards
        BY DEF Heards
      <3> QED
        BY <2>1, <3>1, <3>2 DEF MatchInv, Hear
    <2>2. CASE NextTranscript
      BY <2>2 DEF MatchInv, NextTranscript
    <2>3. CASE UNCHANGED matchVars
      BY <2>3 DEF MatchInv, matchVars
    <2> QED
      BY <2>1, <2>2, <2>3 DEF MatchNext
  <1> QED
    BY <1>1, <1>2, PTL DEF MatchSpec

LEMMA PiecesAreTranscript ==
  ASSUME MatchInv
  PROVE  Len(pieces) \in Nat /\ IsTranscript(pieces, Len(pieces))
  <1>1. \A i \in 1..Len(pieces) : pieces[i].text \in Texts /\ pieces[i].prob \in Probabilities
    <2>1. \A i \in 1..Len(pieces) : pieces[i] \in Heards
      BY DEF MatchInv
    <2> QED
      BY <2>1 DEF Heards
  <1>2. \A i \in 1..Len(pieces) : IsText(pieces[i].text) /\ pieces[i].prob \in Int
    BY <1>1, MatchAssumption DEF IsText
  <1>3. pieces \in Seq(ToSet(pieces)) /\ Len(pieces) \in Nat
    BY LettersAreText DEF IsText, MatchInv
  <1> QED
    BY <1>2, <1>3 DEF IsTranscript

\* The distance that the second pass computes in one row of numbers is the edit distance,
\* for any words and keywords (_edit_distance).
THEOREM DistancesAreLevenshteins == MatchSpec => []DistanceIsLevenshtein
  <1>1. ASSUME MatchInv PROVE DistanceIsLevenshtein
    <2> SUFFICES ASSUME NEW w \in ToSet(Merge(pieces)), NEW k \in keywords
                 PROVE  EditDistance(w.text, k) = Levenshtein(w.text, k)
      BY DEF DistanceIsLevenshtein
    <2>1. Merge(pieces) \in Seq(Word)
      <3> DEFINE N == Len(pieces)
      <3>1. N \in Nat /\ N \in 0..N /\ IsTranscript(pieces, N)
        BY <1>1, PiecesAreTranscript
      <3> HIDE DEF N
      <3>2. PICK acc : Merged!IsLoop(acc, 0, << >>, pieces, N) /\ Merge(pieces) = acc[N]
        BY <3>1, MergeIsLoop
      <3> QED
        BY <3>1, <3>2, MergedAreWords
    <2>2. w.text \in Seq(Letters)
      <3>1. w \in Word
        <4> HIDE DEF Word
        <4> QED
          BY <2>1 DEF ToSet
      <3> QED
        BY <3>1 DEF Word
    <2>3. IsText(w.text) /\ IsText(k)
      BY <1>1, <2>2, LettersAreText, MatchAssumption DEF MatchInv, IsText
    <2> QED
      BY <2>3, EditDistanceIsLevenshtein DEF IsText
  <1> QED
    BY <1>1, MatchInvariant, PTL

----------------------------------------------------------------------------
(* Cuts                                                                       *)

LEMMA KeepInJoin ==
  ASSUME NEW s \in Seq(Letters), NEW t \in Seq(Letters), NEW c
  PROVE  KeepLetter(0, s \o t, c) = s \o KeepLetter(0, t, c)
  <1>1. CASE c \in Letters
    <2>1. Append(s \o t, c) = s \o Append(t, c)
      BY <1>1
    <2> QED
      BY <1>1, <2>1, Zenon DEF KeepLetter
  <1>2. CASE c \notin Letters
    BY <1>2, Zenon DEF KeepLetter
  <1> QED
    BY <1>1, <1>2

LEMMA JoinIsText ==
  ASSUME NEW x, NEW y, IsText(x), IsText(y)
  PROVE  /\ IsText(x \o y) /\ Len(x) \in Nat /\ Len(y) \in Nat /\ Len(x \o y) = Len(x) + Len(y)
         /\ \A k \in 1..Len(x) : (x \o y)[k] = x[k]
         /\ \A k \in 1..Len(y) : (x \o y)[Len(x) + k] = y[k]
  <1> DEFINE S == ToSet(x) \cup ToSet(y)
  <1>1. x \in Seq(S) /\ y \in Seq(S)
    <2>1. x \in Seq(ToSet(x)) /\ y \in Seq(ToSet(y))
      BY DEF IsText
    <2> QED
      BY <2>1
  <1> HIDE DEF S
  <1>2. x \o y \in Seq(S)
    BY <1>1
  <1>3. IsText(x \o y)
    BY <1>2, LettersAreText
  <1> QED
    BY <1>1, <1>3

\* What is kept of a text is kept of its parts.
LEMMA NormalizeOfJoin ==
  ASSUME NEW x, NEW y, IsText(x), IsText(y)
  PROVE  Normalize(x \o y) = Normalize(x) \o Normalize(y)
  <1> DEFINE m == Len(x)
             n == Len(y)
             z == x \o y
             t == m + n
  <1>1. /\ IsText(z) /\ m \in Nat /\ n \in Nat /\ Len(z) = t
        /\ \A k \in 1..m : z[k] = x[k]
        /\ \A k \in 1..n : z[m + k] = y[k]
    BY JoinIsText
  <1>2. PICK A : Kept!IsLoop(A, 0, << >>, x, m) /\ Normalize(x) = A[m]
    BY NormalizeIsLoop
  <1>3. PICK B : Kept!IsLoop(B, 0, << >>, y, n) /\ Normalize(y) = B[n]
    BY NormalizeIsLoop
  <1>4. PICK C : Kept!IsLoop(C, 0, << >>, z, t) /\ Normalize(z) = C[t]
    BY <1>1, NormalizeIsLoop
  <1>0. /\ t = m + n /\ t \in Nat
        /\ \A k \in 0..m - 1 : k + 1 \in 0..m /\ k + 1 \in 1..m /\ k \in 0..t - 1
        /\ \A k \in 0..n - 1 : /\ k \in 0..n /\ k + 1 \in 0..n /\ k + 1 \in 1..n
                                /\ m + k \in 0..t - 1 /\ m + (k + 1) = (m + k) + 1
    BY <1>1
  <1> HIDE DEF m, n, z, t
  <1>5. /\ \A k \in 0..m : A[k] \in Seq(Letters)
        /\ \A k \in 0..n : B[k] \in Seq(Letters)
    BY <1>1, <1>2, <1>3, KeptLetters
  <1>6. \A k \in 0..m : C[k] = A[k]
    <2> DEFINE K == {k \in 0..m : C[k] = A[k]}
    <2>1. 0 \in K
      BY <1>1, <1>2, <1>4 DEF Kept!IsLoop
    <2>2. ASSUME NEW k \in 0..m - 1, k \in K PROVE k + 1 \in K
      <3>1. k + 1 \in 1..m /\ k \in 0..t - 1 /\ k + 1 \in 0..m
        BY <1>0
      <3>2. A[k + 1] = KeepLetter(0, A[k], x[k + 1])
        BY <1>2 DEF Kept!IsLoop
      <3>3. C[k + 1] = KeepLetter(0, C[k], z[k + 1])
        BY <1>4, <3>1 DEF Kept!IsLoop
      <3>4. z[k + 1] = x[k + 1] /\ C[k] = A[k]
        BY <1>1, <2>2, <3>1
      <3> QED
        BY <3>1, <3>2, <3>3, <3>4
    <2> HIDE DEF K
    <2>3. \A k \in 0..m : k \in K
      BY <1>1, <2>1, <2>2, Kept!IntervalByInduction
    <2> QED
      BY <2>3 DEF K
  <1>7. \A k \in 0..n : C[m + k] = A[m] \o B[k]
    <2> DEFINE K == {k \in 0..n : C[m + k] = A[m] \o B[k]}
    <2>0. A[m] \in Seq(Letters)
      BY <1>1, <1>5
    <2>1. 0 \in K
      <3>1. B[0] = << >> /\ C[m] = A[m] /\ m + 0 = m /\ 0 \in 0..n
        BY <1>1, <1>3, <1>6 DEF Kept!IsLoop
      <3>2. A[m] \o << >> = A[m]
        BY <2>0
      <3> QED
        BY <3>1, <3>2
    <2>2. ASSUME NEW k \in 0..n - 1, k \in K PROVE k + 1 \in K
      <3> DEFINE j == m + k
      <3>1. /\ k + 1 \in 1..n /\ k + 1 \in 0..n /\ k \in 0..n
            /\ j \in 0..t - 1 /\ m + (k + 1) = j + 1
        BY <1>0
      <3> HIDE DEF j
      <3>2. B[k + 1] = KeepLetter(0, B[k], y[k + 1])
        BY <1>3 DEF Kept!IsLoop
      <3>3. C[j + 1] = KeepLetter(0, C[j], z[j + 1])
        BY <1>4, <3>1 DEF Kept!IsLoop
      <3>4. z[m + (k + 1)] = y[k + 1]
        BY <1>1, <3>1
      <3>5. C[j] = A[m] \o B[k]
        BY <2>2 DEF j
      <3>6. B[k] \in Seq(Letters)
        BY <1>5, <3>1
      <3> DEFINE c == y[k + 1]
      <3>7. C[j + 1] = KeepLetter(0, A[m] \o B[k], c) /\ B[k + 1] = KeepLetter(0, B[k], c)
        BY <3>1, <3>2, <3>3, <3>4, <3>5
      <3> HIDE DEF c
      <3>8. KeepLetter(0, A[m] \o B[k], c) = A[m] \o KeepLetter(0, B[k], c)
        BY <2>0, <3>6, KeepInJoin
      <3>9. C[m + (k + 1)] = A[m] \o B[k + 1]
        BY <3>1, <3>7, <3>8
      <3> QED
        BY <3>1, <3>9
    <2> HIDE DEF K
    <2>3. \A k \in 0..n : k \in K
      BY <1>1, <2>1, <2>2, Kept!IntervalByInduction
    <2> QED
      BY <2>3 DEF K
  <1>8. C[t] = A[m] \o B[n]
    <2>1. n \in 0..n
      BY <1>1
    <2> QED
      BY <1>0, <1>7, <2>1
  <1>9. Normalize(z) = Normalize(x) \o Normalize(y)
    BY <1>2, <1>3, <1>4, <1>8
  <1> QED
    BY <1>9 DEF z

\* What a piece makes of the words before.
Fresh(words, p) == words = << >> \/ p.begins
Longer(old, p) == [text |-> old.text \o Normalize(p.text), total |-> old.total + p.prob,
                   count |-> old.count + 1]
Places(words, p) == IF Fresh(words, p) THEN Len(words) + 1 ELSE Len(words)
LastWord(words, p) == IF Fresh(words, p) THEN Piece(p) ELSE Longer(words[Len(words)], p)

LEMMA AddedPiece ==
  ASSUME NEW words \in Seq(Word), NEW p, IsText(p.text), p.prob \in Int,
         NEW m, m = Places(words, p)
  PROVE  /\ m \in Nat \ {0} /\ Len(AddPiece(words, p)) = m
         /\ AddPiece(words, p)[m] = LastWord(words, p)
         /\ \A i \in 1..m : i # m => i \in 1..Len(words) /\ AddPiece(words, p)[i] = words[i]
  <1> DEFINE n == Len(words)
  <1>0. n \in Nat /\ DOMAIN words = 1..n
    OBVIOUS
  <1>1. CASE Fresh(words, p)
    <2>1. AddPiece(words, p) = Append(words, Piece(p)) /\ m = n + 1 /\ LastWord(words, p) = Piece(p)
      BY <1>1 DEF AddPiece, Fresh, Places, LastWord
    <2> QED
      BY <1>0, <2>1
  <1>2. CASE ~Fresh(words, p)
    <2>1. AddPiece(words, p) = [words EXCEPT ![n] = Longer(words[n], p)] /\ m = n
          /\ LastWord(words, p) = Longer(words[n], p)
      BY <1>2 DEF AddPiece, Fresh, Longer, Places, LastWord
    <2>2. n # 0
      BY <1>2 DEF Fresh
    <2>3. AddPiece(words, p) \in Seq(Word)
      BY AddedPieceIsWord
    <2> HIDE DEF Word
    <2>4. DOMAIN AddPiece(words, p) = 1..n
      BY <1>0, <2>1
    <2>5. Len(AddPiece(words, p)) = n
      BY <1>0, <2>3, <2>4
    <2> QED
      BY <1>0, <2>1, <2>2, <2>4, <2>5
  <1> QED
    BY <1>1, <1>2

\* Words of pieces that are all of probability q, and words of the same text.
Alike(v, w, q) ==
    /\ v.text = w.text
    /\ v.total = q * v.count
    /\ w.total = q * w.count
Same(V, W, q) ==
    /\ V \in Seq(Word) /\ W \in Seq(Word) /\ Len(V) = Len(W)
    /\ \A i \in 1..Len(V) : Alike(V[i], W[i], q)

LEMMA LongerAlike ==
  ASSUME NEW q \in Int, NEW v \in Word, NEW w \in Word, Alike(v, w, q),
         NEW p, p.prob = q, NEW r, r.prob = q, Normalize(p.text) = Normalize(r.text)
  PROVE  Alike(Longer(v, p), Longer(w, r), q)
  <1>1. v.count \in Nat /\ w.count \in Nat
    BY DEF Word
  <1>2. q * v.count + q = q * (v.count + 1) /\ q * w.count + q = q * (w.count + 1)
    BY <1>1
  <1> QED
    BY <1>2 DEF Alike, Longer

LEMMA LongerTwice ==
  ASSUME NEW q \in Int, NEW v \in Word, NEW w \in Word, Alike(v, w, q),
         NEW p, p.prob = q, NEW r, IsText(r.text), r.prob = q, NEW s, IsText(s.text), s.prob = q,
         Normalize(p.text) = Normalize(r.text) \o Normalize(s.text)
  PROVE  Alike(Longer(v, p), Longer(Longer(w, r), s), q)
  <1> DEFINE x == Normalize(r.text)
             y == Normalize(s.text)
             t == v.text
             a == Longer(v, p)
             b == Longer(w, r)
             c == Longer(b, s)
  <1>1. x \in Seq(Letters) /\ y \in Seq(Letters)
    BY NormalizeKeepsLetters
  <1>2. /\ t \in Seq(Letters) /\ v.count \in Nat /\ w.count \in Nat
        /\ t = w.text /\ v.total = q * v.count /\ w.total = q * w.count
    BY DEF Word, Alike
  <1>3. a.text = t \o Normalize(p.text) /\ b.text = w.text \o x /\ c.text = b.text \o y
    BY Zenon DEF Longer
  <1>4. /\ a.total = q * v.count + q /\ a.count = v.count + 1
        /\ b.total = q * w.count + q /\ b.count = w.count + 1
    BY <1>2 DEF Longer
  <1>5. c.total = b.total + q /\ c.count = b.count + 1
    BY DEF Longer
  <1> HIDE DEF a, b, c, x, y, t
  <1>6. (t \o x) \o y = t \o (x \o y)
    <2>1. t \in Seq(Letters)
      BY <1>2
    <2> QED
      BY <1>1, <2>1
  <1>7. a.text = c.text
    BY <1>2, <1>3, <1>6, Zenon DEF x, y
  <1>8. q * v.count + q = q * (v.count + 1) /\ (q * w.count + q) + q = q * ((w.count + 1) + 1)
    BY <1>2
  <1>9. Alike(a, c, q)
    BY <1>4, <1>5, <1>7, <1>8 DEF Alike
  <1> QED
    BY <1>9 DEF a, b, c

LEMMA SameAfterPiece ==
  ASSUME NEW q \in Int, NEW V, NEW W, Same(V, W, q),
         NEW p, IsText(p.text), p.prob = q,
         NEW r, IsText(r.text), r.prob = q,
         Normalize(p.text) = Normalize(r.text), p.begins = r.begins
  PROVE  Same(AddPiece(V, p), AddPiece(W, r), q)
  <1> DEFINE m == Places(V, p)
             A == AddPiece(V, p)
             B == AddPiece(W, r)
  <1>1. V \in Seq(Word) /\ W \in Seq(Word) /\ Len(V) = Len(W) /\ Len(V) \in Nat
        /\ \A i \in 1..Len(V) : V[i] \in Word /\ W[i] \in Word /\ Alike(V[i], W[i], q)
    <2> HIDE DEF Word
    <2> QED
      BY DEF Same
  <1>2. (V = << >> <=> W = << >>) /\ (V # << >> => Len(V) \in 1..Len(V))
    BY <1>1
  <1>3. (Fresh(V, p) <=> Fresh(W, r)) /\ m = Places(W, r)
    BY <1>1, <1>2 DEF Fresh, Places
  <1>4. A \in Seq(Word) /\ B \in Seq(Word)
    BY <1>1, AddedPieceIsWord
  <1>5. /\ m \in Nat \ {0} /\ Len(A) = m /\ A[m] = LastWord(V, p)
        /\ \A i \in 1..m : i # m => i \in 1..Len(V) /\ A[i] = V[i]
    BY <1>1, AddedPiece
  <1>6. /\ Len(B) = m /\ B[m] = LastWord(W, r)
        /\ \A i \in 1..m : i # m => i \in 1..Len(W) /\ B[i] = W[i]
    BY <1>1, <1>3, AddedPiece
  <1> HIDE DEF m, A, B
  <1>7. Alike(A[m], B[m], q)
    <2>1. CASE Fresh(V, p)
      <3>1. A[m] = Piece(p) /\ B[m] = Piece(r)
        BY <1>3, <1>5, <1>6, <2>1 DEF LastWord
      <3>2. q = q * 1
        OBVIOUS
      <3> QED
        BY <3>1, <3>2 DEF Alike, Piece
    <2>2. CASE ~Fresh(V, p)
      <3>1. A[m] = Longer(V[Len(V)], p) /\ B[m] = Longer(W[Len(V)], r)
        BY <1>1, <1>3, <1>5, <1>6, <2>2 DEF LastWord
      <3>2. V[Len(V)] \in Word /\ W[Len(V)] \in Word /\ Alike(V[Len(V)], W[Len(V)], q)
        BY <1>1, <1>2, <2>2 DEF Fresh
      <3> QED
        BY <3>1, <3>2, LongerAlike
    <2> QED
      BY <2>1, <2>2
  <1>8. \A i \in 1..m : Alike(A[i], B[i], q)
    BY <1>1, <1>5, <1>6, <1>7
  <1>9. Same(A, B, q)
    BY <1>4, <1>5, <1>6, <1>8 DEF Same
  <1> QED
    BY <1>9 DEF A, B

\* A piece that is cut in two.
LEMMA SameAfterCut ==
  ASSUME NEW q \in Int, NEW V, NEW W, Same(V, W, q),
         NEW p, IsText(p.text), p.prob = q,
         NEW r, IsText(r.text), r.prob = q, r.begins = p.begins,
         NEW s, IsText(s.text), s.prob = q, s.begins = FALSE,
         Normalize(p.text) = Normalize(r.text) \o Normalize(s.text)
  PROVE  Same(AddPiece(V, p), AddPiece(AddPiece(W, r), s), q)
  <1> DEFINE m == Places(V, p)
             A == AddPiece(V, p)
             B == AddPiece(W, r)
             C == AddPiece(B, s)
  <1>1. V \in Seq(Word) /\ W \in Seq(Word) /\ Len(V) = Len(W) /\ Len(V) \in Nat
        /\ \A i \in 1..Len(V) : V[i] \in Word /\ W[i] \in Word /\ Alike(V[i], W[i], q)
    <2> HIDE DEF Word
    <2> QED
      BY DEF Same
  <1>2. (V = << >> <=> W = << >>) /\ (V # << >> => Len(V) \in 1..Len(V))
    BY <1>1
  <1>3. (Fresh(V, p) <=> Fresh(W, r)) /\ m = Places(W, r)
    BY <1>1, <1>2 DEF Fresh, Places
  <1>4. A \in Seq(Word) /\ B \in Seq(Word) /\ B # << >>
    BY <1>1, AddedPieceIsWord
  <1>5. /\ m \in Nat \ {0} /\ Len(A) = m /\ A[m] = LastWord(V, p)
        /\ \A i \in 1..m : i # m => i \in 1..Len(V) /\ A[i] = V[i]
    BY <1>1, AddedPiece
  <1>6. /\ Len(B) = m /\ B[m] = LastWord(W, r)
        /\ \A i \in 1..m : i # m => i \in 1..Len(W) /\ B[i] = W[i]
    BY <1>1, <1>3, AddedPiece
  <1>7. C \in Seq(Word)
    BY <1>4, AddedPieceIsWord
  <1> HIDE DEF B
  <1>8. ~Fresh(B, s) /\ m = Places(B, s) /\ LastWord(B, s) = Longer(B[m], s)
    BY <1>4, <1>6 DEF Fresh, Places, LastWord
  <1>9. /\ Len(C) = m /\ C[m] = Longer(B[m], s)
        /\ \A i \in 1..m : i # m => C[i] = B[i]
    BY <1>4, <1>8, AddedPiece
  <1> HIDE DEF m, A, C
  <1>10. Alike(A[m], C[m], q)
    <2>1. CASE Fresh(V, p)
      <3>1. A[m] = Piece(p) /\ B[m] = Piece(r)
        BY <1>3, <1>5, <1>6, <2>1 DEF LastWord
      <3>2. q = q * 1 /\ q + q = q * 2
        OBVIOUS
      <3> QED
        BY <1>9, <3>1, <3>2 DEF Alike, Piece, Longer
    <2>2. CASE ~Fresh(V, p)
      <3> DEFINE v == V[Len(V)]
                 w == W[Len(V)]
      <3>1. A[m] = Longer(v, p) /\ B[m] = Longer(w, r)
        BY <1>1, <1>3, <1>5, <1>6, <2>2 DEF LastWord
      <3>2. v \in Word /\ w \in Word /\ Alike(v, w, q)
        BY <1>1, <1>2, <2>2 DEF Fresh
      <3> HIDE DEF v, w
      <3> QED
        BY <1>9, <3>1, <3>2, LongerTwice
    <2> QED
      BY <2>1, <2>2
  <1>11. \A i \in 1..m : Alike(A[i], C[i], q)
    BY <1>1, <1>5, <1>6, <1>9, <1>10
  <1>12. Same(A, C, q)
    BY <1>4, <1>5, <1>7, <1>9, <1>11 DEF Same
  <1> QED
    BY <1>12 DEF A, B, C

LEMMA ScalesAlike ==
  ASSUME NEW q \in Int, NEW M \in Int, NEW c \in Nat \ {0}
  PROVE  q * c >= M * c <=> q >= M
  <1>1. CASE q >= M
    <2> DEFINE d == q - M
    <2>1. d \in Nat /\ q = M + d
      BY <1>1
    <2> HIDE DEF d
    <2>2. q * c = M * c + d * c /\ d * c >= 0 /\ M * c \in Int /\ d * c \in Int
      BY <2>1
    <2> QED
      BY <1>1, <2>2
  <1>2. CASE M > q
    <2> DEFINE d == (M - q) - 1
               e == c - 1
    <2>1. d \in Nat /\ e \in Nat /\ M = q + d + 1 /\ c = e + 1
      BY <1>2
    <2> HIDE DEF d, e
    <2>2. M * c = q * c + d * c + c /\ d * c >= 0 /\ q * c \in Int /\ d * c \in Int
      BY <2>1
    <2> QED
      BY <1>2, <2>2
  <1> QED
    BY <1>1, <1>2

\* Words that are the same but for their counts decide the same.
LEMMA SameDecides ==
  ASSUME NEW a, NEW b, NEW q \in Int, Same(Merge(a), Merge(b), q), MinProb \in Int
  PROVE  PassesPrompted(a) = PassesPrompted(b)
  <1> DEFINE V == Merge(a)
             W == Merge(b)
             n == Len(V)
             mV == {i \in DOMAIN V : Matches(V[i].text)}
             mW == {i \in DOMAIN W : Matches(W[i].text)}
             f == Min(mV)
             Verdict(words, m) == IF m = {} THEN "absent"
                                  ELSE IF words[Min(m)].total >= MinProb * words[Min(m)].count
                                       THEN "passed" ELSE "unsure"
  <1>1. PassesPrompted(a) = Verdict(V, mV) /\ PassesPrompted(b) = Verdict(W, mW)
    BY DEF PassesPrompted
  <1>2. /\ V \in Seq(Word) /\ W \in Seq(Word) /\ n \in Nat /\ DOMAIN V = 1..n /\ DOMAIN W = 1..n
        /\ \A i \in 1..n : V[i] \in Word /\ W[i] \in Word /\ Alike(V[i], W[i], q)
    <2> HIDE DEF Word
    <2> QED
      BY DEF Same
  <1> HIDE DEF n, V, W
  <1>3. mV = mW
    BY <1>2 DEF Alike
  <1>4. CASE mV = {}
    BY <1>1, <1>3, <1>4
  <1>5. CASE mV # {}
    <2>1. f \in 1..n
      <3>1. mV \in SUBSET Nat
        BY <1>2
      <3>2. f \in mV
        <4> HIDE DEF mV
        <4> QED
          BY <1>5, <3>1, LeastOfNumbers
      <3> QED
        BY <1>2, <3>2
    <2>2. V[f] \in Word /\ W[f] \in Word /\ Alike(V[f], W[f], q)
      BY <1>2, <2>1
    <2> DEFINE v == V[f]
               w == W[f]
               yes(x) == x.total >= MinProb * x.count
    <2>3. Verdict(V, mV) = (IF yes(v) THEN "passed" ELSE "unsure")
      BY <1>5
    <2>4. Verdict(W, mW) = (IF yes(w) THEN "passed" ELSE "unsure")
      BY <1>3, <1>5
    <2> HIDE DEF f, mV, mW, v, w
    <2>5. /\ v.count \in Nat \ {0} /\ w.count \in Nat \ {0}
          /\ v.total = q * v.count /\ w.total = q * w.count
      BY <2>2 DEF v, w, Word, Alike
    <2>6. (yes(v) <=> q >= MinProb) /\ (yes(w) <=> q >= MinProb)
      BY <2>5, ScalesAlike
    <2> QED
      BY <1>1, <2>3, <2>4, <2>6
  <1> QED
    BY <1>4, <1>5

\* cut is ps with r and s in the place of its element i.
IsCut(cut, ps, N, i, r, s) ==
    /\ \A j \in 1..i - 1 : cut[j] = ps[j]
    /\ cut[i] = r /\ cut[i + 1] = s
    /\ \A j \in i + 1..N : cut[j + 1] = ps[j]

IsJoin(z, x, y) == z = x \o y
Joined(z, x, y) ==
    /\ Len(z) = Len(x) + Len(y)
    /\ \A j \in 1..Len(x) : z[j] = x[j]
    /\ \A j \in 1..Len(y) : z[Len(x) + j] = y[j]
CutAt(ps, N, i, r, s) == SubSeq(ps, 1, i - 1) \o <<r, s>> \o SubSeq(ps, i + 1, N)

LEMMA PlacesOfJoin ==
  ASSUME NEW S, NEW x \in Seq(S), NEW y \in Seq(S), NEW z, IsJoin(z, x, y)
  PROVE  z \in Seq(S) /\ Joined(z, x, y)
  BY DEF IsJoin, Joined

LEMMA CutShape ==
  ASSUME NEW N \in Nat, NEW ps, IsTranscript(ps, N), NEW i \in 1..N,
         NEW r, IsText(r.text), r.prob \in Int, NEW s, IsText(s.text), s.prob \in Int,
         NEW cut, cut = CutAt(ps, N, i, r, s)
  PROVE  IsTranscript(cut, N + 1) /\ IsCut(cut, ps, N, i, r, s)
  <1> DEFINE S == ToSet(ps) \cup {r, s}
             x == SubSeq(ps, 1, i - 1)
             y == <<r, s>>
             z == SubSeq(ps, i + 1, N)
  <1>1. ps \in Seq(S) /\ Len(ps) = N
    BY DEF IsTranscript
  <1>2. /\ x \in Seq(S) /\ Len(x) = i - 1 /\ \A j \in 1..i - 1 : x[j] = ps[j]
    BY <1>1
  <1>3. /\ z \in Seq(S) /\ Len(z) = N - i /\ \A j \in 1..N - i : z[j] = ps[i + j]
    BY <1>1
  <1>4. y \in Seq(S) /\ Len(y) = 2 /\ y[1] = r /\ y[2] = s
    OBVIOUS
  <1> DEFINE xy == x \o y
             before == i - 1
             upto == i + 1
             after == N - i
  <1>5. IsJoin(xy, x, y) /\ IsJoin(cut, xy, z)
    BY DEF IsJoin, CutAt
  <1>6. before = i - 1 /\ upto = i + 1 /\ after = N - i
    OBVIOUS
  <1> HIDE DEF S, x, y, z, xy, before, upto, after
  <1>7. /\ xy \in Seq(S) /\ Len(xy) = upto
        /\ \A j \in 1..i - 1 : xy[j] = ps[j]
        /\ xy[i] = r /\ xy[upto] = s
    <2>1. /\ xy \in Seq(S) /\ Len(xy) = before + 2
          /\ \A j \in 1..before : xy[j] = x[j]
          /\ \A j \in 1..2 : xy[before + j] = y[j]
      <3>1. x \in Seq(S) /\ y \in Seq(S)
        BY <1>2, <1>4
      <3>2. xy \in Seq(S) /\ Joined(xy, x, y)
        BY <1>5, <3>1, PlacesOfJoin
      <3> QED
        BY <1>2, <1>4, <1>6, <3>2 DEF Joined
    <2>2. before + 1 = i /\ before + 2 = upto /\ 1 \in 1..2 /\ 2 \in 1..2
      BY <1>6
    <2>3. xy[i] = y[1] /\ xy[upto] = y[2]
      BY <2>1, <2>2
    <2> QED
      BY <1>2, <1>4, <1>6, <2>1, <2>2, <2>3
  <1>8. /\ cut \in Seq(S) /\ Len(cut) = N + 1
        /\ \A j \in 1..i + 1 : cut[j] = xy[j]
        /\ \A j \in 1..N - i : cut[i + 1 + j] = z[j]
    <2>1. /\ cut \in Seq(S) /\ Len(cut) = upto + after
          /\ \A j \in 1..upto : cut[j] = xy[j]
          /\ \A j \in 1..after : cut[upto + j] = z[j]
      <3>1. xy \in Seq(S) /\ z \in Seq(S)
        BY <1>3, <1>7
      <3>2. cut \in Seq(S) /\ Joined(cut, xy, z)
        BY <1>5, <3>1, PlacesOfJoin
      <3> QED
        BY <1>3, <1>6, <1>7, <3>2 DEF Joined
    <2>2. upto + after = N + 1
      BY <1>6
    <2> QED
      BY <1>6, <2>1, <2>2
  <1>9. \A j \in i + 1..N : cut[j + 1] = ps[j]
    <2> TAKE j \in i + 1..N
    <2> DEFINE l == j - i
    <2>1. l \in 1..N - i /\ j = i + l /\ j + 1 = i + 1 + l
      OBVIOUS
    <2> HIDE DEF l
    <2> QED
      BY <1>3, <1>8, <2>1
  <1>10. IsCut(cut, ps, N, i, r, s)
    BY <1>6, <1>7, <1>8, <1>9 DEF IsCut
  <1>11. cut \in Seq(ToSet(cut))
    BY <1>8, LettersAreText DEF IsText
  <1>12. \A j \in 1..N + 1 : IsText(cut[j].text) /\ cut[j].prob \in Int
    <2>1. \A j \in 1..N : IsText(ps[j].text) /\ ps[j].prob \in Int
      BY DEF IsTranscript
    <2>2. \A j \in 1..N + 1 : \/ j \in 1..i - 1 /\ j \in 1..N
                              \/ j = i \/ j = i + 1
                              \/ j - 1 \in i + 1..N /\ j - 1 \in 1..N /\ j = (j - 1) + 1
      OBVIOUS
    <2> SUFFICES ASSUME NEW j \in 1..N + 1 PROVE cut[j] \in {r, s} \cup {ps[k] : k \in 1..N}
      BY <2>1
    <2>3. CASE j \in 1..i - 1
      BY <1>10, <2>2, <2>3 DEF IsCut
    <2>4. CASE j = i \/ j = i + 1
      BY <1>10, <2>4 DEF IsCut
    <2>5. CASE j - 1 \in i + 1..N
      <3> DEFINE k == j - 1
      <3>1. k \in i + 1..N /\ k \in 1..N /\ j = k + 1
        BY <2>5
      <3> HIDE DEF k
      <3> QED
        BY <1>9, <3>1
    <2> QED
      BY <2>2, <2>3, <2>4, <2>5
  <1> QED
    BY <1>8, <1>10, <1>11, <1>12 DEF IsTranscript

LEMMA CutIsSame ==
  ASSUME NEW q \in Int, NEW N \in Nat, NEW ps, IsTranscript(ps, N),
         \A j \in 1..N : ps[j].prob = q,
         NEW i \in 1..N, NEW r, NEW s, NEW cut, IsTranscript(cut, N + 1),
         IsCut(cut, ps, N, i, r, s),
         r.prob = q, r.begins = ps[i].begins, s.prob = q, s.begins = FALSE,
         Normalize(ps[i].text) = Normalize(r.text) \o Normalize(s.text)
  PROVE  Same(Merge(ps), Merge(cut), q)
  <1> DEFINE M == N + 1
  <1>0. M \in Nat /\ M = N + 1
    OBVIOUS
  <1> HIDE DEF M
  <1>1. PICK A : Merged!IsLoop(A, 0, << >>, ps, N) /\ Merge(ps) = A[N]
    BY MergeIsLoop
  <1>2. PICK B : Merged!IsLoop(B, 0, << >>, cut, M) /\ Merge(cut) = B[M]
    BY <1>0, MergeIsLoop
  <1>3. /\ \A k \in 1..N : IsText(ps[k].text)
        /\ \A k \in 1..M : IsText(cut[k].text)
    BY <1>0 DEF IsTranscript
  <1>4. \A k \in 0..i - 1 : Same(A[k], B[k], q)
    <2> DEFINE I == i - 1
               K == {k \in 0..I : Same(A[k], B[k], q)}
    <2>0. I \in Nat /\ I = i - 1 /\ \A k \in 0..I - 1 :
             /\ k \in 0..N - 1 /\ k \in 0..M - 1 /\ k + 1 \in 1..I /\ k + 1 \in 0..I
             /\ k + 1 \in 1..N /\ k + 1 \in 1..M
      BY <1>0
    <2> HIDE DEF I
    <2>1. 0 \in K
      <3>1. A[0] = << >> /\ B[0] = << >> /\ 0 \in 0..I
        BY <1>1, <1>2, <2>0 DEF Merged!IsLoop
      <3>2. Same(A[0], B[0], q)
        BY <3>1 DEF Same
      <3> QED
        BY <3>1, <3>2
    <2>2. ASSUME NEW k \in 0..I - 1, k \in K PROVE k + 1 \in K
      <3> DEFINE l == k + 1
      <3>1. l \in 1..I /\ l \in 0..I /\ l \in 1..N /\ l \in 1..M
        BY <2>0
      <3>2. A[l] = AddPiece(A[k], ps[l]) /\ B[l] = AddPiece(B[k], cut[l])
        BY <1>1, <1>2, <2>0 DEF Merged!IsLoop, MergePiece
      <3>3. Same(A[k], B[k], q)
        BY <2>2
      <3> HIDE DEF l, K
      <3>4. cut[l] = ps[l] /\ ps[l].prob = q /\ IsText(ps[l].text)
        BY <1>3, <2>0, <3>1 DEF IsCut
      <3>5. Same(A[l], B[l], q)
        BY <3>2, <3>3, <3>4, SameAfterPiece
      <3> QED
        BY <3>1, <3>5 DEF K, l
    <2> HIDE DEF K
    <2>3. \A k \in 0..I : k \in K
      BY <2>0, <2>1, <2>2, Merged!IntervalByInduction
    <2> QED
      BY <2>0, <2>3 DEF K
  <1>5. Same(A[i], B[i + 1], q)
    <2> DEFINE h == i - 1
    <2>1. h \in 0..i - 1 /\ h \in 0..N - 1 /\ h \in 0..M - 1 /\ h + 1 = i
          /\ i \in 0..M - 1 /\ i \in 1..M /\ i + 1 \in 1..M
      BY <1>0
    <2> HIDE DEF h
    <2>2. A[i] = AddPiece(A[h], ps[i]) /\ B[i] = AddPiece(B[h], cut[i])
      BY <1>1, <1>2, <2>1 DEF Merged!IsLoop, MergePiece
    <2>3. B[i + 1] = AddPiece(B[i], cut[i + 1])
      BY <1>2, <2>1 DEF Merged!IsLoop, MergePiece
    <2>4. cut[i] = r /\ cut[i + 1] = s
      BY DEF IsCut
    <2>5. IsText(ps[i].text) /\ IsText(r.text) /\ IsText(s.text) /\ ps[i].prob = q
      BY <1>3, <2>1, <2>4
    <2>6. Same(A[h], B[h], q)
      BY <1>4, <2>1
    <2>7. Same(AddPiece(A[h], ps[i]), AddPiece(AddPiece(B[h], r), s), q)
      BY <2>5, <2>6, SameAfterCut
    <2> QED
      BY <2>2, <2>3, <2>4, <2>7
  <1>6. \A k \in 0..N : k >= i => Same(A[k], B[k + 1], q)
    <2> DEFINE K == {k \in 0..N : k >= i => Same(A[k], B[k + 1], q)}
    <2>1. 0 \in K
      OBVIOUS
    <2>2. ASSUME NEW k \in 0..N - 1, k \in K PROVE k + 1 \in K
      <3> DEFINE l == k + 1
      <3>1. l \in 0..N /\ l \in 1..N /\ l \in 0..M - 1 /\ l \in 1..M /\ l + 1 \in 1..M
        BY <1>0
      <3>2. CASE l < i
        BY <3>1, <3>2
      <3>3. CASE l = i
        BY <1>5, <3>1, <3>3
      <3>4. CASE k >= i
        <4>1. Same(A[k], B[l], q) /\ l \in i + 1..N
          BY <2>2, <3>4
        <4>2. A[l] = AddPiece(A[k], ps[l])
          BY <1>1 DEF Merged!IsLoop, MergePiece
        <4> HIDE DEF l, K
        <4>3. B[l + 1] = AddPiece(B[l], cut[l + 1])
          BY <1>2, <3>1 DEF Merged!IsLoop, MergePiece
        <4>4. cut[l + 1] = ps[l] /\ ps[l].prob = q /\ IsText(ps[l].text)
          BY <1>3, <3>1, <4>1 DEF IsCut
        <4>5. Same(A[l], B[l + 1], q)
          BY <4>1, <4>2, <4>3, <4>4, SameAfterPiece
        <4> QED
          BY <3>1, <4>5 DEF K, l
      <3> QED
        BY <3>1, <3>2, <3>3, <3>4
    <2> HIDE DEF K
    <2>3. \A k \in 0..N : k \in K
      BY <2>1, <2>2, Merged!IntervalByInduction
    <2> QED
      BY <2>3 DEF K
  <1>7. Same(A[N], B[M], q)
    <2>1. N \in 0..N /\ N >= i
      OBVIOUS
    <2> QED
      BY <1>0, <1>6, <2>1
  <1> QED
    BY <1>1, <1>2, <1>7

LEMMA CutOfText ==
  ASSUME NEW t, IsText(t), NEW n \in 1..Len(t) - 1
  PROVE  LET x == SubSeq(t, 1, n)
             y == SubSeq(t, n + 1, Len(t))
         IN  IsText(x) /\ IsText(y) /\ Normalize(t) = Normalize(x) \o Normalize(y)
  <1> DEFINE x == SubSeq(t, 1, n)
             y == SubSeq(t, n + 1, Len(t))
             S == ToSet(t)
  <1>1. t \in Seq(S) /\ Len(t) \in Nat
    BY DEF IsText
  <1> HIDE DEF S
  <1>2. x \in Seq(S) /\ y \in Seq(S)
    BY <1>1
  <1>3. x \o y = t
    BY <1>1
  <1> HIDE DEF x, y
  <1>4. IsText(x) /\ IsText(y)
    BY <1>2, LettersAreText
  <1>5. Normalize(t) = Normalize(x) \o Normalize(y)
    BY <1>3, <1>4, NormalizeOfJoin
  <1> QED
    BY <1>4, <1>5 DEF x, y

\* However a word is cut into pieces of one probability, the second pass decides the same.
THEOREM CutsAreNothing == MatchSpec => []CutsDoNotMatter
  <1>1. ASSUME MatchInv PROVE CutsDoNotMatter
    <2> DEFINE N == Len(pieces)
    <2>1. N \in Nat /\ IsTranscript(pieces, N) /\ DOMAIN pieces = 1..N
      BY <1>1, PiecesAreTranscript DEF MatchInv
    <2> SUFFICES ASSUME NEW i \in DOMAIN pieces, NEW n \in 1..Len(pieces[i].text) - 1,
                        \A j \in DOMAIN pieces : pieces[j].prob = pieces[i].prob
                 PROVE  LET p == pieces[i]
                            cut == SubSeq(pieces, 1, i - 1)
                                   \o <<[p EXCEPT !.text = SubSeq(@, 1, n)],
                                        [p EXCEPT !.text = SubSeq(@, n + 1, Len(@)), !.begins = FALSE]>>
                                   \o SubSeq(pieces, i + 1, Len(pieces))
                        IN  PassesPrompted(cut) = PassesPrompted(pieces)
      BY DEF CutsDoNotMatter
    <2> DEFINE p == pieces[i]
               q == p.prob
               t == p.text
               r == [p EXCEPT !.text = SubSeq(@, 1, n)]
               s == [p EXCEPT !.text = SubSeq(@, n + 1, Len(@)), !.begins = FALSE]
               cut == CutAt(pieces, N, i, r, s)
    <2>2. p \in Heards /\ i \in 1..N
      BY <1>1, <2>1 DEF MatchInv
    <2>3. /\ r.text = SubSeq(t, 1, n) /\ r.begins = p.begins /\ r.prob = q
          /\ s.text = SubSeq(t, n + 1, Len(t)) /\ s.begins = FALSE /\ s.prob = q
      BY <2>2 DEF Heards
    <2>4. q \in Int /\ IsText(t) /\ \A j \in 1..N : pieces[j].prob = q
      BY <2>1, <2>2 DEF IsTranscript
    <2> HIDE DEF N, r, s
    <2>5. IsText(r.text) /\ IsText(s.text) /\ Normalize(t) = Normalize(r.text) \o Normalize(s.text)
      BY <2>3, <2>4, CutOfText
    <2>6. IsTranscript(cut, N + 1) /\ IsCut(cut, pieces, N, i, r, s)
      BY <2>1, <2>2, <2>3, <2>4, <2>5, CutShape
    <2> HIDE DEF cut
    <2>7. Same(Merge(pieces), Merge(cut), q)
      BY <2>1, <2>2, <2>3, <2>4, <2>5, <2>6, CutIsSame
    <2>8. PassesPrompted(cut) = PassesPrompted(pieces)
      BY <2>4, <2>7, SameDecides, MatchAssumption
    <2> QED
      BY <2>8 DEF cut, CutAt, r, s, N
  <1> QED
    BY <1>1, MatchInvariant, PTL

----------------------------------------------------------------------------
(* Keywords                                                                   *)

\* n letters of t after its place s, the same in u after its place o.
Run(t, s, n) == s \in Nat /\ n \in Nat \ {0} /\ s + n <= Len(t) /\ \A x \in 1..n : t[s + x] \in Letters
Holds(u, o, t, s, n) == o \in Nat /\ o + n <= Len(u) /\ \A x \in 1..n : u[o + x] = t[s + x]

\* A run of t's first k characters is in u, and is where u begins, or ends, if it is where
\* they begin, or end.
RunsKept(u, t, k) ==
    \A s, n : Run(t, s, n) /\ s + n <= k =>
        \E o : /\ Holds(u, o, t, s, n)
               /\ s = 0 => o = 0
               /\ s + n = k => o + n = Len(u)

LEMMA HoldsInLonger ==
  ASSUME NEW n \in Nat, NEW u, NEW v, Len(u) \in Nat, Len(v) \in Nat, Len(u) <= Len(v),
         \A x \in 1..Len(u) : v[x] = u[x],
         NEW o, NEW t, NEW s, Holds(u, o, t, s, n)
  PROVE  Holds(v, o, t, s, n)
  <1>1. o \in Nat /\ o + n <= Len(u) /\ \A x \in 1..n : u[o + x] = t[s + x]
    BY DEF Holds
  <1>2. ASSUME NEW x \in 1..n PROVE v[o + x] = t[s + x]
    <2> DEFINE y == o + x
    <2>1. y \in 1..Len(u)
      BY <1>1
    <2>2. u[y] = t[s + x]
      BY <1>1
    <2> HIDE DEF y
    <2>3. v[y] = t[s + x]
      BY <2>1, <2>2
    <2> QED
      BY <2>3 DEF y
  <1> QED
    BY <1>1, <1>2 DEF Holds

LEMMA RunsKeptByLetter ==
  ASSUME NEW t, NEW k \in Nat, NEW c, c = t[k + 1], NEW u \in Seq(Letters), RunsKept(u, t, k),
         k = 0 => u = << >>
  PROVE  RunsKept(KeepLetter(0, u, c), t, k + 1)
  <1> DEFINE v == KeepLetter(0, u, c)
  <1> SUFFICES ASSUME NEW s, NEW n, Run(t, s, n), s + n <= k + 1
               PROVE  \E o : /\ Holds(v, o, t, s, n)
                             /\ s = 0 => o = 0
                             /\ s + n = k + 1 => o + n = Len(v)
    BY DEF RunsKept
  <1>0. s \in Nat /\ n \in Nat \ {0} /\ Len(u) \in Nat
    BY DEF Run
  <1>1. /\ Len(v) \in Nat /\ Len(u) <= Len(v)
        /\ \A x \in 1..Len(u) : v[x] = u[x]
        /\ c \in Letters => Len(v) = Len(u) + 1 /\ v[Len(u) + 1] = c
    BY DEF KeepLetter
  <1> HIDE DEF v
  <1>2. CASE s + n <= k
    <2>1. PICK o : Holds(u, o, t, s, n) /\ (s = 0 => o = 0)
      BY <1>2 DEF RunsKept
    <2>2. Holds(v, o, t, s, n)
      BY <1>0, <1>1, <2>1, HoldsInLonger
    <2> QED
      BY <1>0, <1>2, <2>1, <2>2
  <1>3. CASE s + n = k + 1
    <2>1. c \in Letters
      <3>1. t[s + n] \in Letters
        BY <1>0 DEF Run
      <3> QED
        BY <1>3, <3>1
    <2>2. CASE n = 1
      <3> DEFINE o == Len(u)
      <3>1. s = k /\ (s = 0 => o = 0)
        BY <1>0, <1>3, <2>2
      <3>2. Holds(v, o, t, s, n)
        BY <1>0, <1>1, <2>1, <2>2, <3>1 DEF Holds
      <3>3. o + n = Len(v)
        BY <1>1, <2>1, <2>2
      <3> HIDE DEF o
      <3> QED
        BY <3>1, <3>2, <3>3
    <2>3. CASE n # 1
      <3> DEFINE m == n - 1
      <3>1. m \in Nat \ {0} /\ n = m + 1 /\ s + m = k
        BY <1>0, <1>3, <2>3
      <3> HIDE DEF m
      <3>2. Run(t, s, m)
        BY <1>0, <3>1 DEF Run
      <3>3. PICK o : Holds(u, o, t, s, m) /\ (s = 0 => o = 0) /\ o + m = Len(u)
        BY <1>0, <3>1, <3>2 DEF RunsKept
      <3>4. o \in Nat /\ o + n = Len(v) /\ v[o + n] = t[s + n]
        <4>1. o \in Nat /\ o + n = Len(u) + 1 /\ s + n = k + 1
          BY <1>0, <1>3, <3>1, <3>3 DEF Holds
        <4> QED
          BY <1>1, <2>1, <4>1
      <3>5. \A x \in 1..n : x = n \/ x \in 1..m
        BY <3>1
      <3>6. \A x \in 1..m : v[o + x] = t[s + x]
        <4>1. m \in Nat
          BY <3>1
        <4>2. Holds(v, o, t, s, m)
          BY <1>0, <1>1, <3>3, <4>1, HoldsInLonger
        <4> QED
          BY <4>2 DEF Holds
      <3>7. Holds(v, o, t, s, n)
        BY <1>1, <3>4, <3>5, <3>6 DEF Holds
      <3> QED
        BY <3>3, <3>4, <3>7
    <2> QED
      BY <2>2, <2>3
  <1> QED
    BY <1>0, <1>2, <1>3

LEMMA NormalizeKeepsRuns ==
  ASSUME NEW t, IsText(t)
  PROVE  RunsKept(Normalize(t), t, Len(t))
  <1> DEFINE m == Len(t)
  <1>1. m \in Nat
    BY DEF IsText
  <1>2. PICK acc : Kept!IsLoop(acc, 0, << >>, t, m) /\ Normalize(t) = acc[m]
    BY NormalizeIsLoop
  <1> HIDE DEF m
  <1>3. \A k \in 0..m : acc[k] \in Seq(Letters)
    BY <1>1, <1>2, KeptLetters
  <1> DEFINE K == {k \in 0..m : RunsKept(acc[k], t, k)}
  <1>4. acc[0] = << >>
    BY <1>2 DEF Kept!IsLoop
  <1>5. 0 \in K
    <2>1. \A s, n : ~(Run(t, s, n) /\ s + n <= 0)
      BY DEF Run
    <2>2. RunsKept(acc[0], t, 0)
      BY <2>1, Zenon DEF RunsKept
    <2> QED
      BY <1>1, <2>2
  <1>6. ASSUME NEW k \in 0..m - 1, k \in K PROVE k + 1 \in K
    <2>1. acc[k + 1] = KeepLetter(0, acc[k], t[k + 1])
      BY <1>2 DEF Kept!IsLoop
    <2>2. k \in Nat /\ acc[k] \in Seq(Letters) /\ RunsKept(acc[k], t, k)
      BY <1>3, <1>6
    <2>3. k = 0 => acc[k] = << >>
      BY <1>4
    <2> HIDE DEF K
    <2>4. RunsKept(acc[k + 1], t, k + 1)
      BY <2>1, <2>2, <2>3, RunsKeptByLetter
    <2>5. k + 1 \in 0..m
      BY <1>1
    <2> QED
      BY <2>4, <2>5 DEF K
  <1> HIDE DEF K
  <1>7. \A k \in 0..m : k \in K
    BY <1>1, <1>5, <1>6, Kept!IntervalByInduction
  <1>8. RunsKept(acc[m], t, m)
    BY <1>1, <1>7 DEF K
  <1> QED
    BY <1>2, <1>8 DEF m

\* A run of the text is in a word, at its end if the text ends with it.
RunInWord(W, T, s, n) ==
    \E i \in 1..Len(W) : \E o : /\ Holds(W[i].text, o, T, s, n)
                                /\ s + n = Len(T) => i = Len(W) /\ o + n = Len(W[i].text)
RunsInWords(W, T) == \A s, n : Run(T, s, n) => RunInWord(W, T, s, n)

LEMMA JoinedTexts ==
  ASSUME NEW x, NEW y, IsText(x), IsText(y), NEW z, IsJoin(z, x, y)
  PROVE  IsText(z) /\ Len(x) \in Nat /\ Len(y) \in Nat /\ Joined(z, x, y)
  BY JoinIsText DEF IsJoin, Joined

LEMMA HeardIsText ==
  ASSUME NEW p, IsText(p.text), NEW b, b = IF p.begins THEN 1 ELSE 0
  PROVE  /\ IsText(Heard(p)) /\ Len(Heard(p)) = b + Len(p.text) /\ Len(p.text) \in Nat
         /\ \A x \in 1..Len(p.text) : Heard(p)[b + x] = p.text[x]
         /\ b = 1 => Heard(p)[1] = Space
  <1> DEFINE y == IF p.begins THEN <<Space>> ELSE << >>
  <1>1. IsText(y) /\ Len(y) = b /\ (b = 1 => y[1] = Space)
    <2>1. <<Space>> \in Seq({Space}) /\ << >> \in Seq({Space})
      OBVIOUS
    <2>2. IsText(<<Space>>) /\ IsText(<< >>)
      BY <2>1, LettersAreText
    <2>3. Len(<<Space>>) = 1 /\ <<Space>>[1] = Space /\ Len(<< >>) = 0
      OBVIOUS
    <2> QED
      BY <2>2, <2>3
  <1> DEFINE h == Heard(p)
  <1>2. IsJoin(h, y, p.text)
    BY Zenon DEF Heard, IsJoin
  <1> HIDE DEF h, y
  <1>3. IsText(h) /\ Len(p.text) \in Nat /\ Joined(h, y, p.text)
    BY <1>1, <1>2, JoinedTexts
  <1>4. /\ IsText(h) /\ Len(p.text) \in Nat /\ Len(h) = Len(y) + Len(p.text)
        /\ \A k \in 1..Len(y) : h[k] = y[k]
        /\ \A k \in 1..Len(p.text) : h[Len(y) + k] = p.text[k]
    BY <1>3 DEF Joined
  <1>5. b = 1 => 1 \in 1..Len(y)
    BY <1>1
  <1>6. /\ IsText(h) /\ Len(h) = b + Len(p.text) /\ Len(p.text) \in Nat
        /\ \A x \in 1..Len(p.text) : h[b + x] = p.text[x]
        /\ b = 1 => h[1] = Space
    BY <1>1, <1>4, <1>5
  <1> QED
    BY <1>6 DEF h

\* The text of the word that a piece belongs to.
Base(W, p) == IF Fresh(W, p) THEN << >> ELSE W[Len(W)].text

LEMMA TextOfWord ==
  ASSUME NEW W \in Seq(Word), NEW p, IsText(p.text), p.prob \in Int,
         NEW m, m = Places(W, p), NEW u, u = AddPiece(W, p)[m].text,
         NEW base, base = Base(W, p), NEW nl, nl = Normalize(p.text)
  PROVE  /\ Len(base) \in Nat /\ Len(nl) \in Nat /\ Len(u) = Len(base) + Len(nl)
         /\ \A x \in 1..Len(base) : u[x] = base[x]
         /\ \A x \in 1..Len(nl) : u[Len(base) + x] = nl[x]
  <1>1. nl \in Seq(Letters)
    BY NormalizeKeepsLetters
  <1>2. base \in Seq(Letters)
    <2>1. CASE Fresh(W, p)
      BY <2>1 DEF Base
    <2>2. CASE ~Fresh(W, p)
      <3>1. W # << >> /\ Len(W) \in Nat
        BY <2>2 DEF Fresh
      <3>2. W[Len(W)] \in Word
        <4> HIDE DEF Word
        <4> QED
          BY <3>1
      <3> QED
        BY <2>2, <3>2 DEF Base, Word
    <2> QED
      BY <2>1, <2>2
  <1>3. u = base \o nl
    <2>1. u = LastWord(W, p).text
      BY AddedPiece
    <2>2. CASE Fresh(W, p)
      <3>1. u = nl /\ base = << >>
        BY <2>1, <2>2 DEF LastWord, Piece, Base
      <3> QED
        BY <1>1, <3>1
    <2>3. CASE ~Fresh(W, p)
      BY <2>1, <2>3, Zenon DEF LastWord, Longer, Base
    <2> QED
      BY <2>2, <2>3
  <1>4. IsText(base) /\ IsText(nl)
    BY <1>1, <1>2, LettersAreText
  <1> QED
    BY <1>3, <1>4, JoinIsText

LEMMA NothingKeptOfNothing ==
  ASSUME NEW t, IsText(t), Len(t) = 0
  PROVE  Normalize(t) = << >>
  <1>1. PICK acc : /\ Kept!IsLoop(acc, 0, << >>, t, 0)
                   /\ Normalize(t) = acc[0]
    BY NormalizeIsLoop
  <1> QED
    BY <1>1 DEF Kept!IsLoop

LEMMA RunsInMoreWords ==
  ASSUME NEW W \in Seq(Word), NEW T, IsText(T), RunsInWords(W, T),
         NEW p, IsText(p.text), p.prob \in Int
  PROVE  RunsInWords(AddPiece(W, p), T \o Heard(p))
  <1> DEFINE A == AddPiece(W, p)
             m == Places(W, p)
             u == A[m].text
             base == Base(W, p)
             t == p.text
             nl == Normalize(t)
             b == IF p.begins THEN 1 ELSE 0
             h == Heard(p)
             Z == T \o h
             L == Len(T)
             B == Len(base)
             R == Len(t)
  <1>1. /\ IsText(h) /\ Len(h) = b + R /\ R \in Nat
        /\ \A x \in 1..R : h[b + x] = t[x]
        /\ b = 1 => h[1] = Space
    BY HeardIsText
  <1>2. /\ B \in Nat /\ Len(nl) \in Nat /\ Len(u) = B + Len(nl)
        /\ \A x \in 1..B : u[x] = base[x]
        /\ \A x \in 1..Len(nl) : u[B + x] = nl[x]
    BY TextOfWord, SMTT(30)
  <1>3. /\ m \in Nat \ {0} /\ Len(A) = m
        /\ \A i \in 1..m : i # m => i \in 1..Len(W) /\ A[i] = W[i]
    BY AddedPiece
  <1>4. /\ Fresh(W, p) => m = Len(W) + 1 /\ base = << >>
        /\ ~Fresh(W, p) => m = Len(W) /\ base = W[m].text
        /\ Fresh(W, p) <=> W = << >> \/ b = 1
    BY DEF Places, Base, Fresh
  <1>5. b \in {0, 1} /\ Len(W) \in Nat /\ (W = << >> <=> Len(W) = 0)
    BY DEF Fresh
  <1>6. RunsKept(nl, t, R)
    BY NormalizeKeepsRuns
  <1>7. R = 0 => Len(nl) = 0
    BY NothingKeptOfNothing
  <1>8. /\ L \in Nat /\ Len(Z) = L + Len(h)
        /\ \A x \in 1..L : Z[x] = T[x]
        /\ \A x \in 1..Len(h) : Z[L + x] = h[x]
    <2> HIDE DEF h
    <2>1. IsJoin(Z, T, h)
      BY DEF IsJoin
    <2> HIDE DEF Z
    <2>2. IsText(h)
      BY <1>1
    <2>3. Len(T) \in Nat /\ Joined(Z, T, h)
      BY <2>1, <2>2, JoinedTexts
    <2> QED
      BY <2>3 DEF Joined
  <1> HIDE DEF A, m, u, base, t, nl, b, h, Z, L, B, R
  <1>9. /\ Len(Z) = L + b + R
        /\ \A x \in 1..R : Z[L + b + x] = t[x]
        /\ b = 1 => Z[L + 1] \notin Letters
    <2>1. Len(Z) = L + b + R
      BY <1>1, <1>5, <1>8
    <2>2. ASSUME NEW x \in 1..R PROVE Z[L + b + x] = t[x]
      <3> DEFINE y == b + x
      <3>1. y \in 1..Len(h) /\ L + b + x = L + y /\ h[y] = t[x]
        <4>1. h[y] = t[x]
          BY <1>1
        <4>2. L \in Nat /\ b \in {0, 1} /\ R \in Nat /\ Len(h) = b + R
          BY <1>1, <1>5, <1>8
        <4>3. y \in 1..Len(h) /\ L + b + x = L + y
          BY <4>2
        <4> QED
          BY <4>1, <4>3
      <3> HIDE DEF y
      <3> QED
        BY <1>8, <3>1
    <2>3. b = 1 => Z[L + 1] \notin Letters
      <3>1. b = 1 => 1 \in 1..Len(h)
        BY <1>1
      <3> QED
        BY <1>1, <1>8, <3>1, MatchAssumption
    <2> QED
      BY <2>1, <2>2, <2>3
  <1> SUFFICES ASSUME NEW s, NEW n, Run(Z, s, n) PROVE RunInWord(A, Z, s, n)
    BY DEF RunsInWords, A, Z, h
  <1>10. /\ s \in Nat /\ n \in Nat \ {0} /\ s + n <= Len(Z)
         /\ \A x \in 1..n : Z[s + x] \in Letters
    BY DEF Run
  <1>14. /\ s \in Nat /\ n \in Nat /\ n # 0 /\ L \in Nat /\ b \in Nat /\ R \in Nat
         /\ B \in Nat /\ Len(nl) \in Nat /\ Len(u) = B + Len(nl)
         /\ Len(Z) = L + b + R /\ s + n <= L + b + R
    BY <1>1, <1>2, <1>5, <1>8, <1>9, <1>10
  <1>11. CASE s + n <= L
    <2>1. \A x \in 1..n : s + x \in 1..L /\ T[s + x] = Z[s + x]
      <3>1. \A x \in 1..n : s + x \in 1..L
        BY <1>11, <1>14
      <3> QED
        BY <1>8, <3>1
    <2>2. Run(T, s, n)
      BY <1>10, <1>11, <2>1 DEF Run, L
    <2>3. PICK i \in 1..Len(W) : \E o : /\ Holds(W[i].text, o, T, s, n)
                                        /\ s + n = L => i = Len(W) /\ o + n = Len(W[i].text)
      BY <2>2 DEF RunsInWords, RunInWord, L
    <2>4. PICK o : /\ Holds(W[i].text, o, T, s, n)
                   /\ s + n = L => i = Len(W) /\ o + n = Len(W[i].text)
      BY <2>3
    <2>5. Holds(W[i].text, o, Z, s, n)
      BY <2>1, <2>4 DEF Holds
    <2>6. i \in 1..m /\ W # << >>
      BY <1>3, <1>4, <1>5
    <2>7. Holds(A[i].text, o, Z, s, n)
      <3>1. CASE i # m
        BY <1>3, <2>5, <2>6, <3>1
      <3>2. CASE i = m
        <4>1. ~Fresh(W, p)
          BY <1>4, <1>5, <3>2
        <4>2. W[i].text = base /\ A[i].text = u
          BY <1>4, <3>2, <4>1 DEF u
        <4>3. Len(base) \in Nat /\ Len(u) \in Nat /\ Len(base) <= Len(u)
              /\ \A x \in 1..Len(base) : u[x] = base[x]
          BY <1>2 DEF B
        <4>4. n \in Nat /\ Holds(base, o, Z, s, n)
          BY <1>10, <2>5, <4>2
        <4> QED
          BY <4>2, <4>3, <4>4, HoldsInLonger
      <3> QED
        BY <3>1, <3>2
    <2>8. s + n = Len(Z) => i = m /\ o + n = Len(A[i].text)
      <3> SUFFICES ASSUME s + n = Len(Z) PROVE i = m /\ o + n = Len(A[i].text)
        OBVIOUS
      <3>1. b = 0 /\ R = 0 /\ s + n = L
        BY <1>11, <1>14
      <3>2. m = Len(W) /\ base = W[m].text /\ Len(u) = B /\ i = m /\ o + n = Len(W[i].text)
        BY <1>2, <1>4, <1>7, <2>4, <2>6, <3>1
      <3> QED
        BY <3>2 DEF u, B
    <2> QED
      BY <1>3, <2>6, <2>7, <2>8 DEF RunInWord
  <1>12. CASE s >= L
    <2> DEFINE r == s - (L + b)
    <2>1. r \in Nat /\ s = L + b + r
      <3>1. b = 1 => s # L
        <4>1. Z[s + 1] \in Letters
          BY <1>10
        <4> QED
          BY <1>9, <4>1
      <3> QED
        BY <1>5, <1>8, <1>10, <1>12, <3>1
    <2> HIDE DEF r
    <2>2. r + n <= R /\ (s + n = Len(Z) <=> r + n = R)
      BY <1>14, <2>1
    <2>3. \A x \in 1..n : t[r + x] = Z[s + x]
      <3> TAKE x \in 1..n
      <3> DEFINE y == r + x
      <3>1. y \in 1..R /\ s + x = L + b + y
        BY <1>14, <2>1, <2>2
      <3> HIDE DEF y
      <3>2. Z[s + x] = t[y]
        BY <1>9, <3>1
      <3> QED
        BY <3>2 DEF y
    <2>4. Run(t, r, n)
      BY <1>10, <2>1, <2>2, <2>3 DEF Run, R
    <2>5. PICK o : Holds(nl, o, t, r, n) /\ (r + n = R => o + n = Len(nl))
      BY <1>6, <2>2, <2>4 DEF RunsKept
    <2>6. o \in Nat /\ o + n <= Len(nl) /\ \A x \in 1..n : nl[o + x] = t[r + x]
      BY <2>5 DEF Holds
    <2>7. \A x \in 1..n : u[B + o + x] = Z[s + x]
      <3> TAKE x \in 1..n
      <3> DEFINE y == o + x
      <3>1. y \in 1..Len(nl) /\ B + o + x = B + y
        BY <1>14, <2>6
      <3>2. nl[y] = Z[s + x]
        BY <2>3, <2>6
      <3> HIDE DEF y
      <3> QED
        BY <1>2, <3>1, <3>2
    <2>8. Holds(u, B + o, Z, s, n) /\ (s + n = Len(Z) => B + o + n = Len(u))
      <3>1. B + o \in Nat /\ B + o + n <= Len(u) /\ (s + n = Len(Z) => B + o + n = Len(u))
        <4>1. s + n = Len(Z) => o + n = Len(nl)
          BY <2>2, <2>5
        <4>2. o \in Nat /\ o + n <= Len(nl)
          BY <2>6
        <4> QED
          BY <1>14, <4>1, <4>2
      <3> QED
        BY <2>7, <3>1 DEF Holds
    <2>9. m \in 1..m /\ m = Len(A) /\ u = A[m].text
      BY <1>3 DEF u
    <2> QED
      BY <2>8, <2>9 DEF RunInWord
  <1>13. CASE s < L /\ s + n > L
    <2> DEFINE k == L - s
               r == n - k
    <2>1. k \in Nat \ {0} /\ r \in Nat \ {0} /\ s + k = L /\ n = k + r
      BY <1>13, <1>14
    <2> HIDE DEF k, r
    <2>2. b = 0
      <3>1. k + 1 \in 1..n /\ s + (k + 1) = L + 1
        BY <1>14, <2>1
      <3>2. Z[L + 1] \in Letters
        BY <1>10, <3>1
      <3> QED
        BY <1>5, <1>9, <3>2
    <2>3. \A x \in 1..k : x \in 1..n /\ s + x \in 1..L /\ T[s + x] = Z[s + x]
      <3>1. \A x \in 1..k : x \in 1..n /\ s + x \in 1..L
        BY <1>14, <2>1
      <3> QED
        BY <1>8, <3>1
    <2>4. Run(T, s, k)
      <3>1. s \in Nat /\ k \in Nat \ {0} /\ s + k <= Len(T)
        BY <1>14, <2>1 DEF L
      <3> QED
        BY <1>10, <2>3, <3>1 DEF Run
    <2>5. PICK i \in 1..Len(W) : \E o : /\ Holds(W[i].text, o, T, s, k)
                                        /\ i = Len(W) /\ o + k = Len(W[i].text)
      BY <2>1, <2>4 DEF RunsInWords, RunInWord, L
    <2>6. PICK o : Holds(W[i].text, o, T, s, k) /\ i = Len(W) /\ o + k = Len(W[i].text)
      BY <2>5
    <2>7. m = Len(W) /\ base = W[i].text
      <3>1. ~Fresh(W, p)
        BY <1>4, <1>5, <2>2
      <3> QED
        BY <1>4, <2>6, <3>1
    <2>8. o \in Nat /\ o + k = B /\ \A x \in 1..k : base[o + x] = T[s + x]
      BY <2>6, <2>7 DEF Holds, B
    <2>9. r <= R /\ (s + n = Len(Z) <=> r = R)
      BY <1>14, <2>1, <2>2
    <2>10. \A x \in 1..r : t[x] = Z[s + (k + x)] /\ k + x \in 1..n
      <3> TAKE x \in 1..r
      <3>1. x \in 1..R /\ L + b + x = s + (k + x) /\ k + x \in 1..n
        BY <1>14, <2>1, <2>2, <2>9
      <3> QED
        BY <1>9, <3>1
    <2>16. Run(t, 0, r)
      <3>1. \A x \in 1..r : t[0 + x] \in Letters
        <4> TAKE x \in 1..r
        <4> DEFINE y == k + x
        <4>1. y \in 1..n /\ t[x] = Z[s + y]
          BY <2>10
        <4> HIDE DEF y
        <4>2. t[x] \in Letters
          BY <1>10, <4>1
        <4>3. 0 + x = x
          OBVIOUS
        <4> QED
          BY <4>2, <4>3
      <3>2. 0 \in Nat /\ r \in Nat \ {0} /\ 0 + r <= Len(t)
        BY <1>14, <2>1, <2>9 DEF R
      <3> QED
        BY <3>1, <3>2 DEF Run
    <2>11. Holds(nl, 0, t, 0, r) /\ (r = R => r = Len(nl))
      <3>1. PICK d : Holds(nl, d, t, 0, r) /\ d = 0 /\ (r = R => d + r = Len(nl))
        <4>1. 0 + r <= R /\ 0 + r = r
          BY <2>1, <2>9
        <4> QED
          BY <1>6, <2>16, <4>1 DEF RunsKept
      <3> QED
        BY <2>1, <3>1
    <2>12. r <= Len(nl) /\ \A x \in 1..r : nl[x] = t[x]
      <3>1. \A x \in 1..r : 0 + x = x
        OBVIOUS
      <3> QED
        BY <2>1, <2>11, <3>1 DEF Holds
    <2>13. \A x \in 1..n : u[o + x] = Z[s + x]
      <3> TAKE x \in 1..n
      <3>1. CASE x <= k
        <4> DEFINE y == o + x
        <4>1. x \in 1..k /\ y \in 1..B
          BY <1>14, <2>1, <2>8, <3>1
        <4>3. base[y] = Z[s + x]
          BY <2>3, <2>8, <4>1
        <4> HIDE DEF y
        <4>2. u[y] = Z[s + x]
          BY <1>2, <4>1, <4>3
        <4> QED
          BY <4>2 DEF y
      <3>2. CASE x > k
        <4> DEFINE y == x - k
        <4>1. y \in 1..r /\ o + x = B + y /\ x = k + y /\ y \in 1..Len(nl)
          BY <1>14, <2>1, <2>8, <2>12, <3>2
        <4> HIDE DEF y
        <4>2. nl[y] = Z[s + (k + y)]
          BY <2>10, <2>12, <4>1
        <4> QED
          BY <1>2, <4>1, <4>2
      <3> QED
        BY <2>1, <3>1, <3>2
    <2>14. Holds(u, o, Z, s, n) /\ (s + n = Len(Z) => o + n = Len(u))
      <3>1. o \in Nat /\ o + n <= Len(u) /\ (s + n = Len(Z) => o + n = Len(u))
        BY <1>14, <2>1, <2>8, <2>9, <2>11, <2>12
      <3> QED
        BY <2>13, <3>1 DEF Holds
    <2>15. m \in 1..m /\ m = Len(A) /\ u = A[m].text
      BY <1>3 DEF u
    <2> QED
      BY <2>14, <2>15 DEF RunInWord
  <1> QED
    BY <1>5, <1>8, <1>10, <1>11, <1>12, <1>13

Saying(x, text, p) == text \o Heard(p)

Said == INSTANCE FoldTheorems WITH Op <- Saying

LEMMA TextIsLoop ==
  ASSUME NEW N \in Nat, NEW ps, IsTranscript(ps, N)
  PROVE  \E acc : Said!IsLoop(acc, 0, << >>, ps, N) /\ Text(ps) = acc[N]
  <1>1. Text(ps) = Said!Fold(0, << >>, ps)
    BY DEF Text, Saying, FoldLeft, MapThenFoldSet, Max,
           Said!Fold, Said!FoldLeft, Said!MapThenFoldSet, Said!Max
  <1>2. DOMAIN ps = 1..N
    BY DEF IsTranscript
  <1> QED
    BY <1>1, <1>2, Said!FoldIsLoop

LEMMA RunsOfTranscript ==
  ASSUME NEW N \in Nat, NEW ps, IsTranscript(ps, N)
  PROVE  IsText(Text(ps)) /\ Merge(ps) \in Seq(Word) /\ RunsInWords(Merge(ps), Text(ps))
  <1>1. PICK T : Said!IsLoop(T, 0, << >>, ps, N) /\ Text(ps) = T[N]
    BY TextIsLoop
  <1>2. PICK W : Merged!IsLoop(W, 0, << >>, ps, N) /\ Merge(ps) = W[N]
    BY MergeIsLoop
  <1>3. \A k \in 0..N : W[k] \in Seq(Word)
    BY <1>2, MergedAreWords
  <1> DEFINE K == {k \in 0..N : IsText(T[k]) /\ RunsInWords(W[k], T[k])}
  <1>4. 0 \in K
    <2>1. T[0] = << >>
      BY <1>1 DEF Said!IsLoop
    <2>2. << >> \in Seq({}) /\ Len(<< >>) = 0
      OBVIOUS
    <2>3. IsText(T[0])
      BY <2>1, <2>2, LettersAreText
    <2>4. \A s, n : ~Run(T[0], s, n)
      BY <2>1, <2>2 DEF Run
    <2>5. RunsInWords(W[0], T[0])
      BY <2>4, Zenon DEF RunsInWords
    <2> QED
      BY <2>3, <2>5
  <1>5. ASSUME NEW k \in 0..N - 1, k \in K PROVE k + 1 \in K
    <2> DEFINE l == k + 1
    <2>1. l \in 0..N /\ l \in 1..N /\ k \in 0..N
      OBVIOUS
    <2>2. T[l] = T[k] \o Heard(ps[l]) /\ W[l] = AddPiece(W[k], ps[l])
      BY <1>1, <1>2, Zenon DEF Said!IsLoop, Saying, Merged!IsLoop, MergePiece
    <2>3. IsText(T[k]) /\ RunsInWords(W[k], T[k]) /\ W[k] \in Seq(Word)
      BY <1>3, <1>5, <2>1
    <2> HIDE DEF K, l
    <2>4. IsText(ps[l].text) /\ ps[l].prob \in Int
      BY <2>1 DEF IsTranscript
    <2>5. IsText(T[l])
      <3>1. IsText(Heard(ps[l])) /\ IsJoin(T[l], T[k], Heard(ps[l]))
        BY <2>2, <2>4, HeardIsText, Zenon DEF IsJoin
      <3> QED
        BY <2>3, <3>1, JoinedTexts
    <2>6. RunsInWords(W[l], T[l])
      BY <2>2, <2>3, <2>4, RunsInMoreWords, Zenon
    <2> QED
      BY <2>1, <2>5, <2>6 DEF K, l
  <1> HIDE DEF K
  <1>6. \A k \in 0..N : k \in K
    BY <1>4, <1>5, Said!IntervalByInduction
  <1>7. IsText(T[N]) /\ RunsInWords(W[N], T[N]) /\ W[N] \in Seq(Word)
    <2>1. N \in 0..N
      OBVIOUS
    <2> QED
      BY <1>3, <1>6, <2>1 DEF K
  <1> QED
    BY <1>1, <1>2, <1>7

LEMMA OccursIsRun ==
  ASSUME NEW k, IsText(k), k # << >>, ToSet(k) \subseteq Letters, NEW T, IsText(T), Occurs(k, T)
  PROVE  \E s : /\ Run(T, s, Len(k))
                /\ \A x \in 1..Len(k) : T[s + x] = k[x]
  <1> DEFINE n == Len(k)
  <1>1. /\ n \in Nat \ {0} /\ Len(T) \in Nat /\ \A x \in 1..n : k[x] \in Letters
    <2>1. k \in Seq(ToSet(k)) /\ T \in Seq(ToSet(T))
      BY DEF IsText
    <2>2. \A x \in 1..n : k[x] \in Letters
      BY <2>1
    <2> QED
      BY <2>1, <2>2
  <1>2. PICK s \in 0..Len(T) - n : SubSeq(T, s + 1, s + n) = k
    BY DEF Occurs
  <1>3. \A x \in 1..n : T[s + x] = k[x]
    <2>1. T \in Seq(ToSet(T))
      BY DEF IsText
    <2>2. \A x \in 1..n : SubSeq(T, s + 1, s + n)[x] = T[s + x]
      BY <1>1, <2>1
    <2> QED
      BY <1>2, <2>2
  <1> HIDE DEF n
  <1>4. Run(T, s, n)
    <2>1. s \in Nat /\ s + n <= Len(T)
      BY <1>1
    <2> QED
      BY <1>1, <1>3, <2>1 DEF Run
  <1> QED
    BY <1>3, <1>4 DEF n

LEMMA HoldsIsOccurs ==
  ASSUME NEW k, IsText(k), NEW u \in Seq(Letters), NEW o, NEW T, NEW s,
         Holds(u, o, T, s, Len(k)), \A x \in 1..Len(k) : T[s + x] = k[x]
  PROVE  Occurs(k, u)
  <1> DEFINE n == Len(k)
  <1>1. k \in Seq(ToSet(k)) /\ n \in Nat /\ Len(u) \in Nat
    BY DEF IsText
  <1>2. o \in Nat /\ o + n <= Len(u) /\ \A x \in 1..n : u[o + x] = k[x]
    BY DEF Holds
  <1>3. SubSeq(u, o + 1, o + n) = k
    BY <1>1, <1>2
  <1>4. o \in 0..Len(u) - n
    BY <1>1, <1>2
  <1> QED
    BY <1>3, <1>4 DEF Occurs

\* A keyword of letters that the first pass finds in the transcript is in one of the words
\* that the second pass merges, so the second pass does not miss it.
THEOREM SecondPassMissesNothing == MatchSpec => []SecondPassFindsWord
  <1>1. ASSUME MatchInv PROVE SecondPassFindsWord
    <2> SUFFICES ASSUME NEW k \in keywords, ToSet(k) \subseteq Letters, Occurs(k, Text(pieces))
                 PROVE  PassesPrompted(pieces) # "absent"
      BY DEF SecondPassFindsWord
    <2> DEFINE T == Text(pieces)
               W == Merge(pieces)
               n == Len(k)
    <2>1. IsText(k) /\ k # << >>
      BY <1>1, MatchAssumption DEF MatchInv, IsText
    <2>2. IsText(T) /\ W \in Seq(Word) /\ RunsInWords(W, T)
      BY <1>1, PiecesAreTranscript, RunsOfTranscript
    <2>3. PICK s : Run(T, s, n) /\ \A x \in 1..n : T[s + x] = k[x]
      BY <2>1, <2>2, OccursIsRun
    <2>4. PICK i \in 1..Len(W) : \E o : Holds(W[i].text, o, T, s, n)
      BY <2>2, <2>3 DEF RunsInWords, RunInWord
    <2>5. PICK o : Holds(W[i].text, o, T, s, n)
      BY <2>4
    <2>6. DOMAIN W = 1..Len(W) /\ W[i] \in Word
      <3> HIDE DEF Word, W
      <3> QED
        BY <2>2
    <2>7. W[i].text \in Seq(Letters)
      BY <2>6 DEF Word
    <2>8. Occurs(k, W[i].text)
      BY <2>1, <2>3, <2>5, <2>7, HoldsIsOccurs
    <2>9. i \in {j \in DOMAIN W : Matches(W[j].text)}
      BY <2>6, <2>8 DEF Matches
    <2> QED
      BY <2>9 DEF PassesPrompted
  <1> QED
    BY <1>1, MatchInvariant, PTL
=============================================================================
