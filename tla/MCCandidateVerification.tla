------------------------ MODULE MCCandidateVerification ------------------------
(* Instances of CandidateVerification for TLC.                               *)
EXTENDS CandidateVerification

EverySetting ==
    {"capture", "verify", "verify_asr", "keyword", "prompt", "fail_open"}

\* Audio is buffered from the first chunk on.
Buffering == {s \in Settings : s.capture}
Unrelated == EverySetting \ {"capture"}

\* The add-on's ASR options alone.
AsrAlone ==
    {s \in Settings : /\ s.verify_asr /\ s.keyword /\ s.prompt /\ s.fail_open
                      /\ ~s.verify /\ ~s.capture}

WithCapture(S) == {[s EXCEPT !.capture = TRUE] : s \in S}
AsrAndCapture == WithCapture(AsrAlone)
=============================================================================
