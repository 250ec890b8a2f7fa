------------------------------- MODULE Extract -------------------------------
(***************************************************************************)
(* The extractive compressor (ts/src/compressors/extract.ts): compressText *)
(* with its guards, and selectSentences as the machine it is -- the        *)
(* prohibitions kept up front, then one ranked candidate after another     *)
(* until the budget is met.                                                *)
(*                                                                         *)
(* What scoring and tokenizing compute from the characters of a sentence   *)
(* is given with it: its token count, score, markers, shingles and the     *)
(* words with digits.  Cutting a text into sentences and joining those     *)
(* that are kept is the module Segment.                                    *)
(***************************************************************************)
EXTENDS Integers, Sequences, FiniteSets, Functions

CONSTANTS
  Texts,          \* the texts: sequences of sentences
  Ratios,         \* the values of ratioMillis: 0 for a ratio below 1/2000
  RedundancyPct,  \* REDUNDANCY_PCT
  MinSpan,        \* MIN_SPAN_TOKENS
  MinSentences,   \* MIN_SENTENCES_TO_COMPRESS
  Slack           \* how far counting a joined text is off counting its parts

SentenceFields(s) ==
  /\ s.tokens \in Nat /\ s.score \in Int
  /\ s.prohibits \in BOOLEAN /\ s.anaphoric \in BOOLEAN /\ s.listItem \in BOOLEAN
  /\ IsFiniteSet(s.shingles)

ASSUME ExtractAssumption ==
  /\ \A t \in Texts : /\ Len(t) \in Nat /\ DOMAIN t = 1..Len(t)
                      /\ \A i \in 1..Len(t) : SentenceFields(t[i])
  /\ Ratios \subseteq 0..1000 /\ RedundancyPct \in Nat /\ Slack \in Nat

VARIABLES
  text,         \* the text
  ratioMillis,  \* the share of its tokens to keep, in thousandths
  phase,        \* "guard", "rank" or "done"
  left,         \* the sentences still to be considered, by index
  kept,         \* keptByIndex
  spent,        \* keptTokens
  out           \* the indices of the sentences returned

extractVars == <<text, ratioMillis, phase, left, kept, spent, out>>

Index == 1..Len(text)
Total(f) == FoldFunction(+, 0, f)
Cost(S) == Total([i \in S |-> text[i].tokens])
Counts(n) == {k \in 0..(n + Slack) : k + Slack >= n}

ExtractInit ==
  /\ text \in Texts /\ ratioMillis \in Ratios
  /\ phase = "guard"
  /\ left = {} /\ kept = {} /\ spent = 0 /\ out = {}

-----------------------------------------------------------------------------

UnderBudget == spent * 1000 < ratioMillis * Cost(Index)

\* isRedundant for one kept sentence: near-equal shingles, the same digits.
Redundant(i, k) ==
  LET common == Cardinality(text[i].shingles \cap text[k].shingles)
      all == Cardinality(text[i].shingles \cup text[k].shingles)
  IN  /\ ~text[i].listItem
      /\ common * 100 > RedundancyPct * all
      /\ text[i].digits = text[k].digits

\* (mutant) A prohibition that resembles an earlier one is dropped.
UnlikeProhibitions ==
  {i \in Index : text[i].prohibits
     /\ ~\E k \in Index : k < i /\ text[k].prohibits /\ Redundant(i, k)}

Prohibitions == {i \in Index : text[i].prohibits}

\* (mutant) Candidates are compared with the ranked sentences only.
RepeatsRanked(i) == \E k \in kept \ Prohibitions : Redundant(i, k)

RepeatsKept(i) == \E k \in kept : Redundant(i, k)

\* (mutants) A predecessor is charged a second time; it has to fit in.
AntecedentAgain(i) == IF text[i].anaphoric /\ i > 1 THEN {i - 1} ELSE {}
AntecedentThatFits(i) ==
  IF /\ text[i].anaphoric /\ i > 1 /\ i - 1 \notin kept
     /\ (spent + text[i].tokens) * 1000 < ratioMillis * Cost(Index)
  THEN {i - 1} ELSE {}

\* The predecessor a kept sentence pulls in with it.
Antecedent(i) ==
  IF text[i].anaphoric /\ i > 1 /\ i - 1 \notin kept THEN {i - 1} ELSE {}

\* (mutant) The sentences are taken as they come.
FirstOf(S) == CHOOSE i \in S : \A j \in S : i <= j

\* Ranked by score, ties to the earlier sentence.
Outranks(i, j) ==
  text[i].score > text[j].score \/ (text[i].score = text[j].score /\ i <= j)

Best(S) == CHOOSE i \in S : \A j \in S : Outranks(i, j)

-----------------------------------------------------------------------------

\* The guards of compressText: short spans pass through as they are.
PassThrough ==
  /\ phase = "guard"
  /\ phase' = "done" /\ out' = Index
  /\ UNCHANGED <<text, ratioMillis, left, kept, spent>>

KeepProhibitions ==
  /\ phase = "guard" /\ Len(text) >= MinSentences
  /\ phase' = "rank"
  /\ left' = Index
  /\ kept' = Prohibitions /\ spent' = Cost(Prohibitions)
  /\ UNCHANGED <<text, ratioMillis, out>>

\* Structural and non-Latin spans take the first branch whatever their length.
Guard ==
  \E inTok \in Counts(Cost(Index)), plain \in BOOLEAN :
    IF plain /\ inTok >= MinSpan /\ Len(text) >= MinSentences
    THEN KeepProhibitions ELSE PassThrough

Skip ==
  /\ phase = "rank" /\ left # {} /\ UnderBudget
  /\ Best(left) \in kept \/ RepeatsKept(Best(left))
  /\ left' = left \ {Best(left)}
  /\ UNCHANGED <<text, ratioMillis, phase, kept, spent, out>>

Keep ==
  /\ phase = "rank" /\ left # {} /\ UnderBudget
  /\ Best(left) \notin kept /\ ~RepeatsKept(Best(left))
  /\ left' = left \ {Best(left)}
  /\ LET new == {Best(left)} \cup Antecedent(Best(left))
     IN  kept' = kept \cup new /\ spent' = spent + Cost(new)
  /\ UNCHANGED <<text, ratioMillis, phase, out>>

\* At least one sentence survives; a result that saves nothing is discarded
\* for the original.
Finish ==
  /\ phase = "rank" /\ (left = {} \/ ~UnderBudget)
  /\ phase' = "done"
  /\ kept' = IF kept = {} /\ Index # {} THEN {Best(Index)} ELSE kept
  /\ \E inTok \in Counts(Cost(Index)), outTok \in Counts(Cost(kept')) :
       out' = IF outTok >= inTok THEN Index ELSE kept'
  /\ UNCHANGED <<text, ratioMillis, left, spent>>

ExtractNext == Guard \/ Skip \/ Keep \/ Finish

ExtractSpec ==
  ExtractInit /\ [][ExtractNext]_extractVars /\ WF_extractVars(ExtractNext)

-----------------------------------------------------------------------------

Ranked(i) == i \in kept /\ ~text[i].prohibits

\* A sentence that may be there only because its successor leans on it.
PulledIn(i) ==
  /\ Ranked(i) /\ i + 1 \in kept
  /\ text[i + 1].anaphoric /\ ~text[i + 1].prohibits

Selected == phase = "done" /\ out = kept

\* README: prohibitions are kept unconditionally inside their message.
ProhibitionsSurvive ==
  phase = "done" => \A i \in Index : text[i].prohibits => i \in out

\* A kept sentence that leans on its predecessor has it -- unless it is itself
\* there as somebody's predecessor, or is all there is.
AntecedentsSurvive ==
  Selected /\ Cardinality(kept) > 1 => \A i \in kept :
    Ranked(i) /\ text[i].anaphoric /\ i > 1 => i - 1 \in kept \/ PulledIn(i)

\* The selection is greedy and maximal: a dropped sentence repeats a kept one,
\* or the budget is used up and nothing that scores less was kept for its own
\* sake.
DroppedForAReason ==
  Selected => \A d \in Index \ kept :
    \/ RepeatsKept(d)
    \/ /\ ~UnderBudget
       /\ \A k \in kept : Ranked(k) /\ ~PulledIn(k) => text[k].score >= text[d].score

\* Every kept sentence is charged exactly once (but for one that is kept
\* because nothing else was), and the budget is overdrawn by one candidate and
\* its antecedent at most, the prohibitions apart.
BudgetIsKept ==
  /\ spent = Cost(kept) \/ (phase = "done" /\ spent = 0 /\ Cardinality(kept) = 1)
  /\ Selected /\ Cost(kept) * 1000 >= ratioMillis * Cost(Index) =>
       \/ kept = Prohibitions
       \/ spent = 0
       \/ \E i \in kept \ Prohibitions :
            LET antecedent == IF text[i].anaphoric THEN {i - 1} \ Prohibitions ELSE {}
            IN  Cost(kept \ ({i} \cup antecedent)) * 1000 < ratioMillis * Cost(Index)

\* No two sentences are kept that say the same, but for prohibitions and
\* antecedents.
NoTwins ==
  Selected => \A i, k \in kept :
    i # k /\ Redundant(i, k) /\ Redundant(k, i) =>
      \/ text[i].prohibits /\ text[k].prohibits
      \/ PulledIn(i) \/ PulledIn(k)
=============================================================================
