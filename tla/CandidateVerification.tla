------------------------ MODULE CandidateVerification ------------------------
(***************************************************************************)
(* The verification of a candidate detection by one Wyoming client handler *)
(* (handler.py and asr_verify.py): the audio it buffers, the call to the   *)
(* central verifier and the two calls to the ASR server, while the settings*)
(* can be patched at every await.                                          *)
(*                                                                         *)
(* The handler is sequential: nothing but the settings changes between its *)
(* awaits.  A phase is named for the await the handler is in.              *)
(*                                                                         *)
(* Audio is a sequence of chunks; all a verifier can tell is whether the   *)
(* wake word is in what it was sent.  Verifiers may miss it, and are       *)
(* assumed never to hear a word that was not spoken.                       *)
(***************************************************************************)
EXTENDS Naturals, Sequences

CONSTANTS
    CaptureChunks,      \* --capture-seconds, in chunks
    VerifyChunks,       \* VERIFY_WINDOW_SECONDS, in chunks
    VerifyTimeout,      \* settings.verify_timeout, 0 for none
    AsrTimeout,         \* settings.verify_asr_timeout, 0 for none
    LongestWait,        \* bound on a call without a timeout
    InitialSettings,    \* settings the server may be started with
    Patchable,          \* settings that are patched in a behaviour
    CaptureDir,         \* --capture-dir is given
    Faults              \* subset of {"unreachable", "malformed"}

\* What the verification depends on.  verify and verify_asr stand for the
\* switch and the URL together, keyword and prompt for strings that are not
\* empty.
Settings == [capture : BOOLEAN, verify : BOOLEAN, verify_asr : BOOLEAN,
             keyword : BOOLEAN, prompt : BOOLEAN, fail_open : BOOLEAN]

ASSUME VerificationAssumption ==
    /\ CaptureChunks \in Nat /\ VerifyChunks \in Nat \ {0}
    /\ VerifyTimeout \in Nat /\ AsrTimeout \in Nat /\ LongestWait \in Nat
    /\ InitialSettings \subseteq Settings
    /\ Patchable \subseteq {"capture", "verify", "verify_asr", "keyword",
                            "prompt", "fail_open"}
    /\ CaptureDir \in BOOLEAN

VARIABLES
    settings,
    buffer,     \* _capture_buffer
    heard,      \* history: the last chunks the client has sent
    phase,      \* the await the handler is in
    stages,     \* the stages the candidate has to pass
    answers,    \* history: what the stages have answered
    policy,     \* history: the values of fail_open during the candidate
    spent,      \* history: time taken by each stage
    verdict     \* on the last candidate of the last chunk

candidate == <<stages, answers, policy, spent>>
vars == <<settings, buffer, heard, phase, candidate, verdict>>

Stage == {"model", "asr"}
Chunk == [word : BOOLEAN, old : BOOLEAN]    \* old: sent in an earlier stream

Phases == {"listening", "wav", "model", "unbiased", "prompted"}

TypeOK ==
    /\ settings \in Settings
    /\ buffer \in Seq(Chunk) /\ Len(buffer) <= CaptureChunks
    /\ heard \in Seq(Chunk)
    /\ phase \in Phases
    /\ stages \subseteq Stage
    /\ answers \subseteq Stage \cup {"failed", "denied", "malformed"}
    /\ policy \subseteq BOOLEAN
    /\ spent \in [Stage -> Nat]
    /\ verdict \in {"none", "accepted", "rejected", "dropped"}

----------------------------------------------------------------------------
(* Audio                                                                    *)

Latest(s, n) == IF Len(s) <= n THEN s ELSE SubSeq(s, Len(s) - n + 1, Len(s))

BufferNeeded == settings.capture \/ settings.verify

Trim_Never(s) == s                      \* mutant: popleft() missing
Trim(s) == Latest(s, CaptureChunks)

Wav_Whole == buffer                     \* mutant: samples[-max_samples:] missing
Wav == Latest(buffer, VerifyChunks)

WordIn(s) == \E k \in DOMAIN s : s[k].word

Earlier(s) == [k \in DOMAIN s |-> [s[k] EXCEPT !.old = TRUE]]

HandleAudioStart ==
    /\ phase = "listening"
    /\ buffer' = Earlier(buffer) /\ heard' = Earlier(heard)
    /\ verdict' = "none"
    /\ UNCHANGED <<settings, phase, candidate>>

HandleAudioChunk ==
    /\ phase = "listening"
    /\ \E word \in BOOLEAN :
          LET chunk == [word |-> word, old |-> FALSE] IN
          /\ buffer' = IF BufferNeeded THEN Trim(Append(buffer, chunk)) ELSE buffer
          /\ heard' = Latest(Append(heard, chunk), VerifyChunks)
    /\ verdict' = "none"
    /\ UNCHANGED <<settings, phase, candidate>>

----------------------------------------------------------------------------
(* _verify_candidate                                                        *)

Decide(v) == phase' = "listening" /\ verdict' = v

FailOpen == Decide(IF settings.fail_open THEN "accepted" ELSE "rejected")

EnabledStages ==
    {s \in Stage : \/ s = "model" /\ settings.verify
                   \/ s = "asr" /\ settings.verify_asr}

\* A detector of the last chunk has a candidate: the stages are chosen ...
BeginCandidate ==
    /\ phase = "listening"
    /\ heard # <<>> /\ ~heard[Len(heard)].old
    /\ stages' = EnabledStages
    /\ answers' = {} /\ policy' = {settings.fail_open}
    /\ spent' = [s \in Stage |-> 0]
    /\ \/ stages' = {} /\ Decide("accepted")
       \/ stages' # {} /\ buffer = <<>> /\ FailOpen
       \/ stages' # {} /\ buffer # <<>> /\ phase' = "wav" /\ verdict' = "none"
    /\ UNCHANGED <<settings, buffer, heard>>

\* verify_wake_word up to its first call.
BeginAsr(got) ==
    \/ /\ settings.keyword
       /\ phase' = "unbiased" /\ answers' = got
       /\ UNCHANGED verdict
    \/ /\ ~settings.keyword
       /\ FailOpen /\ answers' = got \cup {"failed"}

AfterModel_Done(got) == Decide("accepted") /\ answers' = got   \* mutant: returns
AfterModel(got) ==
    \/ "asr" \notin stages /\ Decide("accepted") /\ answers' = got
    \/ "asr" \in stages /\ BeginAsr(got)

\* ... the buffer is encoded by a thread, and the first stage begins.
SendCandidate ==
    /\ phase = "wav"
    /\ \/ "model" \in stages /\ phase' = "model" /\ UNCHANGED <<answers, verdict>>
       \/ "model" \notin stages /\ BeginAsr(answers)
    /\ UNCHANGED <<settings, buffer, heard, stages, policy, spent>>

\* settings.py accepts a timeout of 0, which aiohttp takes for none.
Takes(stage, limit) ==
    \E t \in 0..(IF limit = 0 THEN LongestWait ELSE limit) :
        spent' = [spent EXCEPT ![stage] = @ + t]

ModelConfirms ==
    /\ phase = "model" /\ WordIn(Wav)
    /\ Takes("model", VerifyTimeout)
    /\ AfterModel(answers \cup {"model"})
    /\ UNCHANGED <<settings, buffer, heard, stages, policy>>

ModelDenies ==
    /\ phase = "model"
    /\ Takes("model", VerifyTimeout)
    /\ Decide("rejected") /\ answers' = answers \cup {"denied"}
    /\ UNCHANGED <<settings, buffer, heard, stages, policy>>

\* No connection, a timeout or an error status.
ModelFails_Open ==      \* mutant: fail_open not looked at
    /\ "unreachable" \in Faults
    /\ phase = "model"
    /\ Takes("model", VerifyTimeout)
    /\ AfterModel(answers \cup {"failed"})
    /\ UNCHANGED <<settings, buffer, heard, stages, policy>>

ModelFails_Hangs == FALSE   \* mutant: no timeout= for an absent verifier

ModelFails ==
    /\ "unreachable" \in Faults
    /\ phase = "model"
    /\ Takes("model", VerifyTimeout)
    /\ \/ settings.fail_open /\ AfterModel(answers \cup {"failed"})
       \/ /\ ~settings.fail_open
          /\ Decide("rejected") /\ answers' = answers \cup {"failed"}
    /\ UNCHANGED <<settings, buffer, heard, stages, policy>>

\* The unbiased transcript; the prompt is read after it has come.
KeywordFound ==
    /\ phase = "unbiased" /\ WordIn(Wav)
    /\ Takes("asr", AsrTimeout)
    /\ \/ /\ settings.prompt
          /\ phase' = "prompted" /\ UNCHANGED <<answers, verdict>>
       \/ /\ ~settings.prompt
          /\ Decide("accepted") /\ answers' = answers \cup {"asr"}
    /\ UNCHANGED <<settings, buffer, heard, stages, policy>>

PromptedWordFound ==
    /\ phase = "prompted" /\ WordIn(Wav)
    /\ Takes("asr", AsrTimeout)
    /\ Decide("accepted") /\ answers' = answers \cup {"asr"}
    /\ UNCHANGED <<settings, buffer, heard, stages, policy>>

\* No keyword in the transcript, or no likely enough word in the prompted one.
AsrDenies ==
    /\ phase \in {"unbiased", "prompted"}
    /\ Takes("asr", AsrTimeout)
    /\ Decide("rejected") /\ answers' = answers \cup {"denied"}
    /\ UNCHANGED <<settings, buffer, heard, stages, policy>>

AsrFails_Rejects ==     \* mutant: None taken for False
    /\ "unreachable" \in Faults
    /\ phase \in {"unbiased", "prompted"}
    /\ Takes("asr", AsrTimeout)
    /\ Decide("rejected") /\ answers' = answers \cup {"failed"}
    /\ UNCHANGED <<settings, buffer, heard, stages, policy>>

AsrFails_Retries ==     \* mutant: the first call is made again
    /\ "unreachable" \in Faults
    /\ phase \in {"unbiased", "prompted"}
    /\ Takes("asr", AsrTimeout)
    /\ \/ FailOpen
       \/ "failed" \notin answers /\ phase' = "unbiased" /\ UNCHANGED verdict
    /\ answers' = answers \cup {"failed"}
    /\ UNCHANGED <<settings, buffer, heard, stages, policy>>

AsrFails ==
    /\ "unreachable" \in Faults
    /\ phase \in {"unbiased", "prompted"}
    /\ Takes("asr", AsrTimeout)
    /\ FailOpen /\ answers' = answers \cup {"failed"}
    /\ UNCHANGED <<settings, buffer, heard, stages, policy>>

----------------------------------------------------------------------------
(* Connections and settings                                                 *)

\* A new handler of a server with --capture-dir switches capturing on.
SettingsOnConnect ==
    IF CaptureDir THEN [settings EXCEPT !.capture = TRUE] ELSE settings

\* The connection ends and the client comes back with a new handler.
NewHandler ==
    /\ settings' = SettingsOnConnect
    /\ buffer' = <<>> /\ heard' = <<>>
    /\ phase' = "listening"

\* An answer that is no JSON object raises through handle_event.
MalformedAnswer ==
    /\ "malformed" \in Faults
    /\ \/ phase = "model" /\ Takes("model", VerifyTimeout)
       \/ phase \in {"unbiased", "prompted"} /\ Takes("asr", AsrTimeout)
    /\ NewHandler
    /\ verdict' = "dropped" /\ answers' = answers \cup {"malformed"}
    /\ UNCHANGED <<stages, policy>>

ClientReconnects ==
    /\ phase = "listening"
    /\ NewHandler
    /\ verdict' = "none"
    /\ UNCHANGED candidate

DuringCandidate(open) ==
    policy' = IF phase = "listening" THEN policy ELSE policy \cup {open}

AnotherClientConnects ==
    /\ settings' = SettingsOnConnect
    /\ UNCHANGED <<buffer, heard, phase, candidate, verdict>>

PatchSettings ==
    /\ \E key \in Patchable : settings' = [settings EXCEPT ![key] = ~@]
    /\ DuringCandidate(settings'.fail_open)
    /\ UNCHANGED <<buffer, heard, phase, stages, answers, spent, verdict>>

----------------------------------------------------------------------------
Init ==
    /\ settings \in InitialSettings
    /\ buffer = <<>> /\ heard = <<>>
    /\ phase = "listening"
    /\ stages = {} /\ answers = {} /\ policy = {}
    /\ spent = [s \in Stage |-> 0]
    /\ verdict = "none"

Stream == HandleAudioStart \/ HandleAudioChunk \/ BeginCandidate

Verify ==
    \/ SendCandidate
    \/ ModelConfirms \/ ModelDenies \/ ModelFails
    \/ KeywordFound \/ PromptedWordFound \/ AsrDenies \/ AsrFails
    \/ MalformedAnswer

Next ==
    \/ Stream \/ Verify
    \/ ClientReconnects \/ AnotherClientConnects \/ PatchSettings

Spec == Init /\ [][Next]_vars

\* The thread that encodes the buffer runs, and a call with a timeout ends; the
\* verifiers need not answer.
Fairness ==
    /\ WF_vars(SendCandidate)
    /\ WF_vars(VerifyTimeout # 0 /\ ModelFails) /\ WF_vars(AsrTimeout # 0 /\ AsrFails)

FairSpec == Spec /\ Fairness

----------------------------------------------------------------------------
\* settings.py, verify_fail_open False: a candidate that is accepted although
\* the setting was off all along has been confirmed by every stage that was
\* enabled when it came up, whatever else was patched meanwhile.
FailClosedIsStrict ==
    verdict = "accepted" /\ policy = {FALSE} => stages \subseteq answers

\* settings.py, verify_fail_open True: a candidate is suppressed, rejected or lost
\* with its connection, only if a verifier has heard the audio and denied the word,
\* or has answered with something that is no answer (asr_verify.py:154,
\* handler.py:463): verify_fail_open is not looked at then.
FailOpenKeepsDetections ==
    verdict \in {"rejected", "dropped"} /\ policy = {TRUE} =>
        answers \cap {"denied", "malformed"} # {}

\* handler.py ("either stage can run alone"): a candidate that is accepted
\* while no stage fails was confirmed by every stage enabled when it came up.
EveryStageConfirms ==
    verdict = "accepted" /\ "failed" \notin answers => stages \subseteq answers

\* asr_verify.py ("the candidate audio is transcribed"): what a verifier
\* confirmed is a word among the last chunks the client has sent, if perhaps in an
\* earlier stream.
ConfirmedOnRecentWord ==
    verdict = "accepted" /\ answers \cap Stage # {} => WordIn(heard)

\* settings.py (verify_timeout bounds the latency a verifier can add): one
\* timeout of the central verifier, and one for each ASR call.  A timeout of 0
\* bounds nothing.
LatencyBounded ==
    /\ VerifyTimeout # 0 => spent["model"] <= VerifyTimeout
    /\ AsrTimeout # 0 => spent["asr"] <= 2 * AsrTimeout

\* settings.py, verify_asr_timeout: "budget for both transcription calls
\* together".
AsrBudget == spent["asr"] <= AsrTimeout

\* Every candidate is decided in the end, or the client is dropped, although
\* no verifier may ever answer: where both timeouts are set.
CandidateDecided == phase # "listening" ~> phase = "listening"
=============================================================================
