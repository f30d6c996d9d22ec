------------------------------ MODULE AsrMatching ------------------------------
(***************************************************************************)
(* When a transcript contains the wake word (asr_verify.py): the literal     *)
(* test of the first pass, and the second, which puts word pieces together,  *)
(* allows two typing errors and asks for the mean probability of the pieces. *)
(* A transcript comes as pieces; a piece begins a word if it begins with a   *)
(* space.  Texts are sequences of characters.                                *)
(***************************************************************************)
EXTENDS Integers, Sequences, SequencesExt

CONSTANTS
    Letters,        \* characters that _normalize keeps
    Texts,          \* texts that pieces may have
    Wakewords,      \* values of the list of keywords, sets of texts
    Probabilities,  \* of a piece, in per cent
    MinProb,        \* verify_asr_min_prob
    MaxPieces

Space == "space"

\* Keywords are not empty (_keywords).
ASSUME MatchAssumption ==
    /\ Space \notin Letters
    /\ \A text \in Texts : text \in Seq(ToSet(text))
    /\ \A list \in Wakewords : \A k \in list : k \in Seq(ToSet(k)) /\ k # << >>
    /\ Probabilities \subseteq Int /\ MinProb \in Int

VARIABLES
    keywords,
    pieces          \* of both transcripts

matchVars == <<keywords, pieces>>

----------------------------------------------------------------------------
(* _edit_distance                                                            *)

\* One pass of the outer loop: the row of distances for one more letter of a.
\* While the row is overwritten from the left, previous keeps the entry to the
\* upper left of the current one.
NextRow_NoPrevious(row, i, letter, b) ==    \* mutant: the upper left is lost
    LET step(acc, j) ==
            Append(acc, Min({row[j + 1] + 1, acc[j] + 1,
                             acc[j] + (IF letter = b[j] THEN 0 ELSE 1)}))
    IN  FoldLeft(step, <<i>>, [j \in DOMAIN b |-> j])
NextRow(row, i, letter, b) ==
    LET step(acc, j) ==
            Append(acc, Min({row[j + 1] + 1, acc[j] + 1,
                             row[j] + (IF letter = b[j] THEN 0 ELSE 1)}))
    IN  FoldLeft(step, <<i>>, [j \in DOMAIN b |-> j])

EditDistance(a, b) ==
    Last(FoldLeft(LAMBDA row, i : NextRow(row, i, a[i], b),
                  [j \in 1..Len(b) + 1 |-> j - 1],
                  [i \in DOMAIN a |-> i]))

----------------------------------------------------------------------------
(* The two passes                                                            *)

Occurs(k, text) == \E i \in 0..Len(text) - Len(k) : SubSeq(text, i + 1, i + Len(k)) = k

\* The transcript as one text.
Heard(p) == (IF p.begins THEN <<Space>> ELSE << >>) \o p.text
Text(ps) == FoldLeft(LAMBDA text, p : text \o Heard(p), << >>, ps)

PassesUnbiased(ps) == \E k \in keywords : Occurs(k, Text(ps))

Normalize(text) ==
    FoldLeft(LAMBDA kept, c : IF c \in Letters THEN Append(kept, c) ELSE kept, << >>, text)

\* Of the probabilities of a word's pieces, the sum and the number are kept.
Piece(p) == [text |-> Normalize(p.text), total |-> p.prob, count |-> 1]

\* Pieces that do not begin a word belong to the word before.
AddPiece_Never(words, p) == Append(words, Piece(p))      \* mutant: a piece is a word
AddPiece(words, p) ==
    IF words = << >> \/ p.begins THEN Append(words, Piece(p))
    ELSE LET old == words[Len(words)]
         IN  [words EXCEPT ![Len(words)] = [text |-> old.text \o Normalize(p.text),
                                            total |-> old.total + p.prob,
                                            count |-> old.count + 1]]

Merge(ps) == FoldLeft(LAMBDA words, p : AddPiece(words, p), << >>, ps)

Matches_Whole(text) == \E k \in keywords : k = text     \* mutant: no inflections
Matches(text) ==
    \E k \in keywords :
       Occurs(k, text) \/ (Len(text) >= 3 /\ EditDistance(text, k) <= 2)

\* The first word that matches decides, by the mean of its probabilities.
PassesPrompted(ps) ==
    LET words == Merge(ps)
        matching == {i \in DOMAIN words : Matches(words[i].text)}
        first == words[Min(matching)]
    IN  IF matching = {} THEN "absent"
        ELSE IF first.total >= MinProb * first.count THEN "passed" ELSE "unsure"

----------------------------------------------------------------------------
MatchInit ==
    /\ keywords \in Wakewords
    /\ pieces = << >>

\* The transcript goes on.
Hear ==
    /\ Len(pieces) < MaxPieces
    /\ \E text \in Texts, begins \in BOOLEAN, prob \in Probabilities :
          pieces' = Append(pieces, [text |-> text, begins |-> begins, prob |-> prob])
    /\ UNCHANGED keywords

\* Another candidate is transcribed.
NextTranscript == pieces' = << >> /\ UNCHANGED keywords

MatchNext == Hear \/ NextTranscript

MatchSpec == MatchInit /\ [][MatchNext]_matchVars

----------------------------------------------------------------------------
\* The least number of insertions, deletions and changes that make b of a.
Levenshtein(a, b) ==
    LET d[x \in (0..Len(a)) \X (0..Len(b))] ==
            LET i == x[1]
                j == x[2]
            IN  IF i = 0 THEN j
                ELSE IF j = 0 THEN i
                ELSE IF a[i] = b[j] THEN d[<<i - 1, j - 1>>]
                ELSE 1 + Min({d[<<i - 1, j>>], d[<<i, j - 1>>], d[<<i - 1, j - 1>>]})
    IN  d[<<Len(a), Len(b)>>]

\* The one-row computation gives the edit distance (_edit_distance), for every
\* word of a transcript and every keyword.
DistanceIsLevenshtein ==
    \A w \in ToSet(Merge(pieces)), k \in keywords :
       EditDistance(w.text, k) = Levenshtein(w.text, k)

\* How the recogniser cuts a word into pieces makes no difference, as long as it
\* is equally sure of them ("whisper.cpp splits words into sub-tokens").
CutsDoNotMatter ==
    \A i \in DOMAIN pieces : \A n \in 1..Len(pieces[i].text) - 1 :
       LET p == pieces[i]
           cut == SubSeq(pieces, 1, i - 1)
                  \o <<[p EXCEPT !.text = SubSeq(@, 1, n)],
                       [p EXCEPT !.text = SubSeq(@, n + 1, Len(@)), !.begins = FALSE]>>
                  \o SubSeq(pieces, i + 1, Len(pieces))
       IN  (\A j \in DOMAIN pieces : pieces[j].prob = p.prob) =>
              PassesPrompted(cut) = PassesPrompted(pieces)

\* A keyword of letters that the first pass finds is not missed by the second, which
\* is left to reject for want of certainty only, if both passes hear the same: the
\* second pass may not be stricter about words than the first.
SecondPassFindsWord ==
    \A k \in keywords :
       ToSet(k) \subseteq Letters /\ Occurs(k, Text(pieces)) => PassesPrompted(pieces) # "absent"
=============================================================================
