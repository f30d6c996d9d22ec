--------------------------------- MODULE Scores ---------------------------------
(***************************************************************************)
(* The counts of detections that GET /api/scores and the score sensors show   *)
(* (state.py): worker threads of inferences make an entry for a wake word they *)
(* find none of, the event loop counts, and a refresh replaces the dict with  *)
(* one of the wake words that are still known.  Rejections are counted alike; *)
(* the scores themselves are left out.                                       *)
(***************************************************************************)
EXTENDS Naturals

CONSTANTS
    Words, Threads,
    MaxDetections       \* bound: of each wake word

ASSUME ScoresAssumption == MaxDetections \in Nat

VARIABLES
    scores,             \* id -> detections, of those with an entry
    missed,             \* thread -> id it has found no entry of and is about to
                        \* insert one for
    tally,              \* history: detections since a refresh has dropped the id
    overwritten         \* history: ids whose entry a thread has replaced since then

scoreVars == <<scores, missed, tally, overwritten>>

Count(m) == IF m \in DOMAIN scores THEN scores[m] ELSE 0

With(m, n) == [i \in DOMAIN scores \cup {m} |-> IF i = m THEN n ELSE scores[i]]

\* update_score, in a thread, up to the entry it makes; with an entry it changes
\* only scores.
Miss(t) ==
    /\ t \notin DOMAIN missed
    /\ \E m \in Words \ DOMAIN scores :
          missed' = [u \in DOMAIN missed \cup {t} |-> IF u = t THEN m ELSE missed[u]]
    /\ UNCHANGED <<scores, tally, overwritten>>

Insert(t) ==
    /\ t \in DOMAIN missed
    /\ scores' = With(missed[t], 0)
    /\ missed' = [u \in DOMAIN missed \ {t} |-> missed[u]]
    /\ overwritten' = overwritten \cup ({missed[t]} \cap DOMAIN scores)
    /\ UNCHANGED tally

\* record_detection, on the event loop.
Detect(m) ==
    /\ tally[m] < MaxDetections
    /\ scores' = With(m, Count(m) + 1)
    /\ tally' = [tally EXCEPT ![m] = @ + 1]
    /\ UNCHANGED <<missed, overwritten>>

Kept_All(ids) == scores                 \* mutant: entries outlive their wake words
Kept(ids) == [m \in DOMAIN scores \cap ids |-> scores[m]]

\* ids: what the refresh has found.
RefreshScores == \E ids \in SUBSET Words :
    /\ scores' = Kept(ids)
    /\ tally' = [m \in Words |-> IF m \in ids THEN tally[m] ELSE 0]
    /\ overwritten' = overwritten \cap ids
    /\ UNCHANGED missed

\* A thread inserts while refresh() iterates: RuntimeError, and the dict stays.
RefreshRaises(t) ==
    /\ t \in DOMAIN missed /\ missed[t] \notin DOMAIN scores /\ DOMAIN scores # {}
    /\ scores' = With(missed[t], 0)
    /\ missed' = [u \in DOMAIN missed \ {t} |-> missed[u]]
    /\ UNCHANGED <<tally, overwritten>>

ScoresInit ==
    /\ scores = [m \in {} |-> 0] /\ missed = [t \in {} |-> CHOOSE m \in Words : TRUE]
    /\ tally = [m \in Words |-> 0] /\ overwritten = {}

ScoresNext ==
    \/ RefreshScores
    \/ \E t \in Threads : Miss(t) \/ Insert(t) \/ RefreshRaises(t)
    \/ \E m \in Words : Detect(m)

ScoresSpec == ScoresInit /\ [][ScoresNext]_scoreVars

----------------------------------------------------------------------------
\* A wake word's detections are all counted, over the refreshes it survives and
\* whichever threads score it meanwhile, from when a refresh dropped it: unless
\* two threads found it without an entry at once, and the later one has put
\* theirs over a count.
DetectionsCounted ==
    \A m \in Words \ overwritten : Count(m) = tally[m]
=============================================================================
