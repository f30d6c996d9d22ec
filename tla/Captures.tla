-------------------------------- MODULE Captures --------------------------------
(***************************************************************************)
(* The capture files: worker threads of several connections write the audio  *)
(* that led up to a detection or a rejection and prune the directory they     *)
(* share (handler.py, _write_capture), and the server may be killed meanwhile.*)
(* Whether capturing is on and audio is buffered decides only whether a       *)
(* thread has anything to do.                                                *)
(*                                                                         *)
(* A file is named after a stem (the wake word, or the wake word followed by  *)
(* "-rejected"), the second of the local clock, which can be set back, and    *)
(* the connection; names sort in this order.  Stems are numbered as they      *)
(* sort; none is another one with a digit or a hyphen and a digit after it.   *)
(***************************************************************************)
EXTENDS Naturals, FiniteSets

CONSTANTS Stems, Seconds, Handlers, capture_keep

ASSUME CapturesAssumption ==
    /\ Stems \subseteq Nat /\ Seconds \subseteq Nat /\ Handlers \subseteq Nat
    /\ IsFiniteSet(Handlers) /\ capture_keep \in Nat

VARIABLES
    captures,           \* the *.wav files of the directory
    job,                \* what each connection's worker thread is at
    pruned,             \* history: a thread has listed the files since the start
    gone                \* history: names removed since then that are not there again

captureVars == <<captures, job, pruned, gone>>

FileName == Stems \X Seconds \X Handlers

\* The order of sorted().
Before(a, b) ==
    \/ a[1] < b[1]
    \/ a[1] = b[1] /\ a[2] < b[2]
    \/ a[1] = b[1] /\ a[2] = b[2] /\ a[3] < b[3]

Idle == [step |-> "idle", doomed |-> {}]

\* All but the last capture_keep of a sorted listing.
Surplus_First(files) ==                 \* mutant: the first ones are kept
    {f \in files : Cardinality({g \in files : Before(g, f)}) >= capture_keep}
Surplus(files) == {f \in files : Cardinality({g \in files : Before(f, g)}) >= capture_keep}

\* A file of the same name is written over.
Capture(h) ==
    /\ job[h].step = "idle"
    /\ \E stem \in Stems, second \in Seconds :
          /\ captures' = captures \cup {<<stem, second, h>>}
          /\ gone' = gone \ {<<stem, second, h>>}
    /\ job' = [job EXCEPT ![h].step = "list"]
    /\ UNCHANGED pruned

List(h) ==
    /\ job[h].step = "list"
    /\ job' = [job EXCEPT ![h] = [step |-> "unlink", doomed |-> Surplus(captures)]]
    /\ pruned' = TRUE
    /\ UNCHANGED <<captures, gone>>

\* missing_ok: another thread may have been faster.
Unlink(h) ==
    /\ job[h].step = "unlink"
    /\ \E f \in job[h].doomed :
          /\ \A g \in job[h].doomed : ~Before(g, f)
          /\ captures' = captures \ {f}
          /\ gone' = gone \cup {f}
          /\ job' = [job EXCEPT ![h].doomed = @ \ {f}]
    /\ UNCHANGED pruned

Finish(h) ==
    /\ job[h].step = "unlink" /\ job[h].doomed = {}
    /\ job' = [job EXCEPT ![h] = Idle]
    /\ UNCHANGED <<captures, pruned, gone>>

\* The process is killed, whatever its threads are at, and started again.
RestartServer ==
    /\ job' = [h \in Handlers |-> Idle]
    /\ pruned' = FALSE /\ gone' = {}
    /\ UNCHANGED captures

CapturesInit ==
    /\ captures \in SUBSET FileName /\ IsFiniteSet(captures)
    /\ job = [h \in Handlers |-> Idle]
    /\ pruned = FALSE /\ gone = {}

CapturesNext ==
    \/ \E h \in Handlers : Capture(h) \/ List(h) \/ Unlink(h) \/ Finish(h)
    \/ RestartServer

CapturesSpec == CapturesInit /\ [][CapturesNext]_captureVars

----------------------------------------------------------------------------
\* "Newest capture files to keep" (__main__.py:142), as far as the code goes: when
\* the threads are through, however they interleaved, there are no more than
\* capture_keep files, and none that sorts before one they have removed; so of
\* one stem, and a clock that is not set back, the newest are kept.
CapturesPruned ==
    pruned /\ (\A h \in Handlers : job[h] = Idle) =>
        /\ Cardinality(captures) <= capture_keep
        /\ \A f \in captures, g \in gone : Before(g, f)
=============================================================================
