---------------------------- MODULE Extract_proofs ----------------------------
(***************************************************************************)
(* Proofs about Extract, for any texts, ratios and limits: what the        *)
(* selection of sentences never drops, what it drops and why, what it      *)
(* spends, and that the loops of the ports keep the same.                  *)
(***************************************************************************)
EXTENDS ExtractPorts, FiniteSetTheorems, Induction, TLAPS

LEMMA TextFacts ==
  ASSUME text \in Texts
  PROVE  /\ Len(text) \in Nat
         /\ Index = 1..Len(text)
         /\ \A i \in Index : text[i].score \in Int
  BY ExtractAssumption DEF Index, SentenceFields

\* Some member of a set of indices outranks all of it: one above which the set
\* of those that rank higher is minimal.
LEMMA BestOutranks ==
  ASSUME text \in Texts, NEW S \in SUBSET Index, S # {}
  PROVE  Best(S) \in S /\ \A j \in S : Outranks(Best(S), j)
<1> DEFINE Above(i) == {j \in S : ~Outranks(i, j)}
<1>1. \A i \in S : Above(i) \in FiniteSubsetsOf(S)
  <2>1. IsFiniteSet(Index)
    BY TextFacts, FS_Interval
  <2>2. IsFiniteSet(S)
    BY <2>1, FS_Subset
  <2>3. QED
    BY <2>2, FS_Subset DEF FiniteSubsetsOf
<1>2. PICK T \in {Above(i) : i \in S} :
         \A U \in {Above(i) : i \in S} : <<U, T>> \notin StrictSubsetOrdering(S)
  <2> DEFINE Aboves == {Above(i) : i \in S}
  <2>1. Aboves \subseteq FiniteSubsetsOf(S) /\ Aboves # {}
    BY <1>1
  <2> HIDE DEF Aboves
  <2>2. \E T \in Aboves : \A U \in Aboves : ~(<<U, T>> \in StrictSubsetOrdering(S))
    BY <2>1, FS_StrictSubsetOrderingWellFounded, WFMin
  <2>3. QED
    BY <2>2 DEF Aboves
<1>3. PICK i \in S : T = Above(i)
  BY <1>2
<1>4. \A j \in S : Outranks(i, j)
  <2> SUFFICES ASSUME NEW j \in S, ~Outranks(i, j) PROVE FALSE
    OBVIOUS
  <2>1. Above(j) \subseteq Above(i)
    BY TextFacts DEF Outranks
  <2>2. j \in Above(i) /\ j \notin Above(j)
    BY TextFacts DEF Outranks
  <2>3. <<Above(j), Above(i)>> \in StrictSubsetOrdering(S)
    BY <2>1, <2>2 DEF StrictSubsetOrdering
  <2>4. QED
    BY <1>2, <1>3, <2>3
<1>5. QED
  BY <1>4 DEF Best

-----------------------------------------------------------------------------

\* A sentence that leans on its predecessor has it.
Leans(i) ==
  Ranked(i) /\ text[i].anaphoric /\ i > 1 => i - 1 \in kept \/ PulledIn(i)

Twinless(i, k) ==
  i # k /\ Redundant(i, k) /\ Redundant(k, i) =>
    \/ text[i].prohibits /\ text[k].prohibits
    \/ PulledIn(i) \/ PulledIn(k)

\* While ranking: what has been passed over repeats a kept sentence, and what
\* was kept for its own sake ranks above all that is left.
RankInv ==
  /\ Prohibitions \subseteq kept
  /\ \A d \in Index \ (left \cup kept) : RepeatsKept(d)
  /\ \A k \in kept : Ranked(k) /\ ~PulledIn(k) =>
       \A d \in left : text[k].score >= text[d].score

ShapeInv ==
  /\ text \in Texts
  /\ left \subseteq Index /\ kept \subseteq Index
  /\ phase = "guard" => kept = {}

AntecedentInv == (\A i \in kept : Leans(i)) \/ (\E x : kept = {x})

ExtractInv ==
  /\ ShapeInv
  /\ phase = "rank" => RankInv /\ \A i \in kept : Leans(i)
  /\ AntecedentInv
  /\ \A i, k \in kept : Twinless(i, k)
  /\ ProhibitionsSurvive
  /\ DroppedForAReason

LEMMA ExtractInitInv == ExtractInit => ExtractInv
  BY DEF ExtractInit, ExtractInv, ShapeInv, AntecedentInv, ProhibitionsSurvive,
         DroppedForAReason, Selected

\* The whole text comes out: nothing is selected, unless there is nothing.
LEMMA PassThroughInv == ASSUME ExtractInv, PassThrough PROVE ExtractInv'
<1>1. /\ phase' = "done" /\ out' = Index /\ kept = {}
      /\ UNCHANGED <<text, ratioMillis, left, kept, spent>>
  BY DEF PassThrough, ExtractInv, ShapeInv
<1>2. ShapeInv' /\ AntecedentInv' /\ (\A i, k \in kept : Twinless(i, k))'
  BY <1>1 DEF ExtractInv, ShapeInv, AntecedentInv, Index
<1>3. ProhibitionsSurvive'
  BY <1>1 DEF ProhibitionsSurvive, Index
<1>4. DroppedForAReason'
  BY <1>1 DEF DroppedForAReason, Selected, Index
<1>5. QED
  BY <1>1, <1>2, <1>3, <1>4 DEF ExtractInv

\* The prohibitions are no candidates, so none of them has to lean on another.
LEMMA KeepProhibitionsInv == ASSUME ExtractInv, KeepProhibitions PROVE ExtractInv'
<1>1. /\ phase' = "rank" /\ left' = Index /\ kept' = Prohibitions
      /\ UNCHANGED <<text, ratioMillis, out>>
  BY DEF KeepProhibitions
<1>2. \A i \in Prohibitions : i \in Index /\ text[i].prohibits
  BY DEF Prohibitions
<1>3. ShapeInv'
  BY <1>1, <1>2 DEF ExtractInv, ShapeInv, Index
<1>4. \A i \in kept' : ~Ranked(i)'
  BY <1>1, <1>2 DEF Ranked
<1>5. (\A i \in kept : Leans(i))' /\ AntecedentInv'
  BY <1>4 DEF Leans, AntecedentInv
<1>6. RankInv'
  BY <1>1, <1>4 DEF RankInv, Prohibitions, Index
<1>7. (\A i, k \in kept : Twinless(i, k))'
  BY <1>1, <1>2 DEF Twinless
<1>8. ProhibitionsSurvive' /\ DroppedForAReason'
  BY <1>1 DEF ProhibitionsSurvive, DroppedForAReason, Selected
<1>9. QED
  BY <1>3, <1>5, <1>6, <1>7, <1>8 DEF ExtractInv

LEMMA SkipInv == ASSUME ExtractInv, Skip PROVE ExtractInv'
<1>1. /\ phase = "rank" /\ left' = left \ {Best(left)}
      /\ Best(left) \in kept \/ RepeatsKept(Best(left))
      /\ UNCHANGED <<text, ratioMillis, phase, kept, spent, out>>
  BY DEF Skip
<1>2. ShapeInv'
  BY <1>1 DEF ExtractInv, ShapeInv, Index
<1>3. /\ \A i : Ranked(i)' = Ranked(i) /\ PulledIn(i)' = PulledIn(i)
      /\ \A i, k : Redundant(i, k)' = Redundant(i, k)
  BY <1>1 DEF Ranked, PulledIn, Redundant
<1>4. RankInv'
  <2>1. RankInv
    BY <1>1 DEF ExtractInv
  <2>2. Prohibitions' \subseteq kept'
    BY <1>1, <2>1 DEF RankInv, Prohibitions, Index
  <2>3. (\A d \in Index \ (left \cup kept) : RepeatsKept(d))'
    BY <1>1, <1>3, <2>1 DEF RankInv, RepeatsKept, Index
  <2>4. (\A k \in kept : Ranked(k) /\ ~PulledIn(k) =>
           \A d \in left : text[k].score >= text[d].score)'
    BY <1>1, <1>3, <2>1 DEF RankInv
  <2>5. QED
    BY <2>2, <2>3, <2>4 DEF RankInv
<1>5. (\A i \in kept : Leans(i))'
  BY <1>1, <1>3 DEF ExtractInv, Leans
<1>6. (\A i, k \in kept : Twinless(i, k))'
  BY <1>1, <1>3 DEF ExtractInv, Twinless
<1>7. ProhibitionsSurvive' /\ DroppedForAReason'
  BY <1>1 DEF ProhibitionsSurvive, DroppedForAReason, Selected
<1>8. QED
  BY <1>1, <1>2, <1>4, <1>5, <1>6, <1>7 DEF ExtractInv, AntecedentInv

\* A candidate that is kept repeats nothing that is kept already; its
\* antecedent may, but is only there because it is pulled in.
LEMMA KeepInv == ASSUME ExtractInv, Keep PROVE ExtractInv'
<1> DEFINE b == Best(left)
<1>1. /\ phase = "rank" /\ left # {} /\ b \notin kept /\ ~RepeatsKept(b)
      /\ left' = left \ {b}
      /\ kept' = kept \cup {b} \cup Antecedent(b)
      /\ UNCHANGED <<text, ratioMillis, phase, out>>
  BY DEF Keep
<1>2. /\ text \in Texts /\ left \subseteq Index /\ kept \subseteq Index
      /\ RankInv /\ (\A i \in kept : Leans(i)) /\ \A i, k \in kept : Twinless(i, k)
  BY <1>1 DEF ExtractInv, ShapeInv
<1>3. b \in left /\ \A d \in left : Outranks(b, d)
  BY <1>1, <1>2, BestOutranks
<1> HIDE DEF b
<1>4. b \in Index /\ ~text[b].prohibits
  BY <1>1, <1>2, <1>3 DEF RankInv, Prohibitions
<1>5. \A a \in Antecedent(b) :
        a = b - 1 /\ a \in Index /\ text[b].anaphoric /\ a \notin kept
  BY <1>2, <1>4, TextFacts DEF Antecedent
<1>6. /\ \A i : PulledIn(i) => PulledIn(i)'
      /\ \A i, k : Redundant(i, k)' = Redundant(i, k)
      /\ Index' = Index
  BY <1>1 DEF Ranked, PulledIn, Redundant, Index
<1>7. \A a \in Antecedent(b) : a \in Prohibitions \/ PulledIn(a)'
  <2> SUFFICES ASSUME NEW a \in Antecedent(b), ~text[a].prohibits PROVE PulledIn(a)'
    BY <1>5 DEF Prohibitions
  <2>1. a \in kept' /\ a + 1 = b /\ b \in kept'
    BY <1>1, <1>4, <1>5, TextFacts, <1>2
  <2>2. QED
    BY <1>1, <1>4, <1>5, <2>1 DEF PulledIn, Ranked
<1>8. \A a \in Antecedent(b) : PulledIn(a)'
  BY <1>2, <1>5, <1>7 DEF RankInv
<1>9. ShapeInv'
  <2>1. Antecedent(b) \subseteq Index
    BY <1>5
  <2>2. QED
    BY <1>1, <1>2, <1>4, <1>6, <2>1 DEF ShapeInv
<1>10. (\A i \in kept : Leans(i))'
  <2> SUFFICES ASSUME NEW i \in kept', Ranked(i)', text[i].anaphoric, i > 1
               PROVE  i - 1 \in kept' \/ PulledIn(i)'
    BY <1>1 DEF Leans
  <2>1. CASE i \in kept
    <3>1. Ranked(i)
      BY <1>1, <2>1 DEF Ranked
    <3>2. i - 1 \in kept \/ PulledIn(i)
      BY <1>2, <2>1, <3>1 DEF Leans
    <3>3. QED
      BY <1>1, <1>6, <3>2
  <2>2. CASE i = b
    <3>1. i - 1 \in kept \cup Antecedent(b)
      BY <2>2 DEF Antecedent
    <3>2. QED
      BY <1>1, <3>1
  <2>3. CASE i \in Antecedent(b)
    BY <1>8, <2>3
  <2>4. QED
    BY <1>1, <2>1, <2>2, <2>3
<1>11. RankInv'
  <2>1. Prohibitions' \subseteq kept'
    BY <1>1, <1>2, <1>6 DEF RankInv, Prohibitions
  <2>2. (\A d \in Index \ (left \cup kept) : RepeatsKept(d))'
    <3> SUFFICES ASSUME NEW d \in Index, d \notin left', d \notin kept'
                 PROVE  \E k \in kept' : Redundant(d, k)
      BY <1>6 DEF RepeatsKept
    <3>1. d \notin left /\ d \notin kept
      BY <1>1
    <3>2. QED
      BY <1>1, <1>2, <3>1 DEF RankInv, RepeatsKept
  <2>3. (\A k \in kept : Ranked(k) /\ ~PulledIn(k) =>
           \A d \in left : text[k].score >= text[d].score)'
    <3> SUFFICES ASSUME NEW k \in kept', Ranked(k)', ~PulledIn(k)', NEW d \in left'
                 PROVE  text[k].score >= text[d].score
      BY <1>1
    <3>1. CASE k \in kept
      <4>1. Ranked(k) /\ ~PulledIn(k) /\ d \in left
        BY <1>1, <1>6, <3>1 DEF Ranked
      <4>2. QED
        BY <1>2, <3>1, <4>1 DEF RankInv
    <3>2. CASE k = b
      <4>1. d \in left
        BY <1>1
      <4>2. Outranks(b, d) /\ text[b].score \in Int /\ text[d].score \in Int
        BY <1>2, <1>3, <1>4, <4>1, TextFacts
      <4>3. QED
        BY <3>2, <4>2 DEF Outranks
    <3>3. CASE k \in Antecedent(b)
      BY <1>8, <3>3
    <3>4. QED
      BY <1>1, <3>1, <3>2, <3>3
  <2>4. QED
    BY <2>1, <2>2, <2>3 DEF RankInv
<1>12. (\A i, k \in kept : Twinless(i, k))'
  <2> SUFFICES ASSUME NEW i \in kept', NEW k \in kept', i # k,
                      Redundant(i, k), Redundant(k, i), ~PulledIn(i)', ~PulledIn(k)'
               PROVE  text[i].prohibits /\ text[k].prohibits
    BY <1>1, <1>6 DEF Twinless
  <2>1. i \in kept \cup {b} /\ k \in kept \cup {b}
    BY <1>1, <1>8
  <2>2. i # b /\ k # b
    BY <1>1, <2>1 DEF RepeatsKept
  <2>3. ~PulledIn(i) /\ ~PulledIn(k)
    BY <1>6
  <2>4. QED
    BY <1>2, <2>1, <2>2, <2>3 DEF Twinless
<1>13. ProhibitionsSurvive' /\ DroppedForAReason'
  BY <1>1 DEF ProhibitionsSurvive, DroppedForAReason, Selected
<1>14. QED
  BY <1>9, <1>10, <1>11, <1>12, <1>13 DEF ExtractInv, AntecedentInv

\* The loop ended because nothing was left, or because the budget is used up;
\* the one sentence kept when there is none scores as high as any.
LEMMA FinishInv == ASSUME ExtractInv, Finish PROVE ExtractInv'
<1>1. /\ phase = "rank" /\ (left = {} \/ ~UnderBudget)
      /\ phase' = "done"
      /\ kept' = IF kept = {} /\ Index # {} THEN {Best(Index)} ELSE kept
      /\ out' = Index \/ out' = kept'
      /\ UNCHANGED <<text, ratioMillis, left, spent>>
  BY DEF Finish
<1>2. /\ ShapeInv /\ RankInv
      /\ (\A i \in kept : Leans(i)) /\ \A i, k \in kept : Twinless(i, k)
  BY <1>1 DEF ExtractInv
<1>3. /\ \A i, k : Redundant(i, k)' = Redundant(i, k)
      /\ Index' = Index /\ Prohibitions' = Prohibitions
  BY <1>1 DEF Redundant, Index, Prohibitions
<1>4. UnderBudget' = UnderBudget
  <2>1. Cost(Index)' = Cost(Index)
    BY <1>1, <1>3 DEF Cost
  <2>2. QED
    BY <1>1, <2>1 DEF UnderBudget
<1>5. CASE kept # {}
  <2>1. kept' = kept
    BY <1>1, <1>5
  <2>2. \A i : Ranked(i)' = Ranked(i) /\ PulledIn(i)' = PulledIn(i)
    BY <1>1, <2>1 DEF Ranked, PulledIn
  <2>3. ShapeInv'
    BY <1>1, <1>2, <1>3, <2>1 DEF ShapeInv
  <2>4. AntecedentInv'
    BY <1>1, <1>2, <2>1, <2>2 DEF AntecedentInv, Leans
  <2>5. (\A i, k \in kept : Twinless(i, k))'
    BY <1>1, <1>2, <1>3, <2>1, <2>2 DEF Twinless
  <2>6. ProhibitionsSurvive'
    BY <1>1, <1>2, <1>3, <2>1 DEF ProhibitionsSurvive, RankInv, Prohibitions
  <2>7. DroppedForAReason'
    <3> SUFFICES ASSUME NEW d \in Index, d \notin kept, ~RepeatsKept(d)
                 PROVE  /\ ~UnderBudget
                        /\ \A k \in kept : Ranked(k) /\ ~PulledIn(k) =>
                             text[k].score >= text[d].score
      BY <1>1, <1>3, <1>4, <2>1, <2>2 DEF DroppedForAReason, RepeatsKept
    <3>1. d \in left
      BY <1>2 DEF RankInv
    <3>2. QED
      BY <1>1, <1>2, <3>1 DEF RankInv
  <2>8. QED
    BY <1>1, <2>3, <2>4, <2>5, <2>6, <2>7 DEF ExtractInv
<1>6. CASE kept = {} /\ Index # {}
  <2> DEFINE b == Best(Index)
  <2>1. kept' = {b} /\ Prohibitions = {}
    BY <1>1, <1>2, <1>6 DEF RankInv
  <2>2. b \in Index /\ \A d \in Index : Outranks(b, d)
    BY <1>2, <1>6, BestOutranks DEF ShapeInv
  <2> HIDE DEF b
  <2>3. ShapeInv'
    BY <1>1, <1>2, <1>3, <2>1, <2>2 DEF ShapeInv
  <2>4. AntecedentInv' /\ (\A i, k \in kept : Twinless(i, k))'
    BY <2>1 DEF AntecedentInv, Twinless
  <2>5. ProhibitionsSurvive'
    BY <1>3, <2>1 DEF ProhibitionsSurvive, Prohibitions
  <2>6. DroppedForAReason'
    <3> SUFFICES ASSUME NEW d \in Index
                 PROVE  ~UnderBudget /\ text[b].score >= text[d].score
      BY <1>1, <1>3, <1>4, <2>1 DEF DroppedForAReason
    <3>1. d \in left
      BY <1>2, <1>6 DEF RankInv, RepeatsKept
    <3>2. Outranks(b, d) /\ text[b].score \in Int /\ text[d].score \in Int
      BY <1>2, <2>2, TextFacts DEF ShapeInv
    <3>3. QED
      BY <1>1, <3>1, <3>2 DEF Outranks
  <2>7. QED
    BY <1>1, <2>3, <2>4, <2>5, <2>6 DEF ExtractInv
<1>7. CASE kept = {} /\ Index = {}
  <2>1. kept' = {} /\ Index' = {}
    BY <1>1, <1>3, <1>7
  <2>2. ShapeInv'
    BY <1>1, <1>2, <1>3, <2>1 DEF ShapeInv
  <2>3. AntecedentInv' /\ (\A i, k \in kept : Twinless(i, k))'
    BY <2>1 DEF AntecedentInv
  <2>4. ProhibitionsSurvive' /\ DroppedForAReason'
    BY <2>1 DEF ProhibitionsSurvive, DroppedForAReason
  <2>5. QED
    BY <1>1, <2>2, <2>3, <2>4 DEF ExtractInv
<1>8. QED
  BY <1>5, <1>6, <1>7

LEMMA ExtractNextInv == ExtractInv /\ [ExtractNext]_extractVars => ExtractInv'
<1> SUFFICES ASSUME ExtractInv, [ExtractNext]_extractVars PROVE ExtractInv'
  OBVIOUS
<1>1. CASE Guard
  BY <1>1, PassThroughInv, KeepProhibitionsInv DEF Guard
<1>2. CASE UNCHANGED extractVars
  <2>1. UNCHANGED <<text, ratioMillis, phase, left, kept, spent, out>>
    BY <1>2 DEF extractVars
  <2>2. /\ \A i : Ranked(i)' = Ranked(i) /\ PulledIn(i)' = PulledIn(i)
        /\ \A i, k : Redundant(i, k)' = Redundant(i, k)
        /\ Index' = Index /\ UnderBudget' = UnderBudget
    BY <2>1 DEF Ranked, PulledIn, Redundant, Index, UnderBudget, Cost
  <2>3. ShapeInv' = ShapeInv /\ AntecedentInv' = AntecedentInv
    BY <2>1, <2>2 DEF ShapeInv, AntecedentInv, Leans
  <2>4. RankInv' = RankInv /\ (\A i \in kept : Leans(i))' = (\A i \in kept : Leans(i))
    BY <2>1, <2>2 DEF RankInv, Leans, RepeatsKept, Prohibitions
  <2>5. (\A i, k \in kept : Twinless(i, k))' = (\A i, k \in kept : Twinless(i, k))
    BY <2>1, <2>2 DEF Twinless
  <2>6. ProhibitionsSurvive' = ProhibitionsSurvive /\ DroppedForAReason' = DroppedForAReason
    BY <2>1, <2>2 DEF ProhibitionsSurvive, DroppedForAReason, Selected, RepeatsKept
  <2>7. QED
    BY <2>1, <2>3, <2>4, <2>5, <2>6 DEF ExtractInv
<1>3. QED
  BY <1>1, <1>2, SkipInv, KeepInv, FinishInv DEF ExtractNext

LEMMA ExtractInvariance == ExtractSpec => []ExtractInv
  BY ExtractInitInv, ExtractNextInv, PTL DEF ExtractSpec

\* Whatever the text and the ratio, every prohibition comes out.
THEOREM ProhibitionsAreKept == ExtractSpec => []ProhibitionsSurvive
<1>1. ExtractInv => ProhibitionsSurvive
  BY DEF ExtractInv
<1>2. QED
  BY <1>1, ExtractInvariance, PTL

\* A sentence kept for its own sake that leans on its predecessor has it.
THEOREM AntecedentsAreKept == ExtractSpec => []AntecedentsSurvive
<1>1. ExtractInv => AntecedentsSurvive
  <2> SUFFICES ASSUME AntecedentInv, Cardinality(kept) > 1, NEW i \in kept
               PROVE  Leans(i)
    BY DEF ExtractInv, AntecedentsSurvive, Leans
  <2>1. \A x : kept # {x}
    BY FS_Singleton
  <2>2. QED
    BY <2>1 DEF AntecedentInv
<1>2. QED
  BY <1>1, ExtractInvariance, PTL

\* A sentence is dropped because it repeats a kept one, or because the budget
\* is used up and nothing that ranks lower was kept for its own sake.
THEOREM NothingIsDroppedForNothing == ExtractSpec => []DroppedForAReason
<1>1. ExtractInv => DroppedForAReason
  BY DEF ExtractInv
<1>2. QED
  BY <1>1, ExtractInvariance, PTL

\* No two sentences that say the same are kept for their own sake.
THEOREM TwinsAreDropped == ExtractSpec => []NoTwins
<1>1. ExtractInv => NoTwins
  BY DEF ExtractInv, NoTwins, Twinless
<1>2. QED
  BY <1>1, ExtractInvariance, PTL

-----------------------------------------------------------------------------
(* What a set of sentences costs.                                           *)

Some(s) == CHOOSE x \in s : TRUE

\* What a fold over a set adds up, subset by subset.
Adds(g, t, S) ==
  g = [s \in SUBSET S |-> IF s = {} THEN 0 ELSE t[Some(s)] + g[s \ {Some(s)}]]

LEMMA TotalUnfolds ==
  ASSUME NEW t
  PROVE  Total(t) = (CHOOSE g : Adds(g, t, DOMAIN t))[DOMAIN t]
  BY DEF Total, FoldFunction, FoldFunctionOnSet, MapThenFoldSet, Adds, Some

LEMMA SomeMember ==
  ASSUME NEW S, NEW s \in SUBSET S, s # {}, IsFiniteSet(S)
  PROVE  /\ Some(s) \in s /\ s \ {Some(s)} \in SUBSET S /\ IsFiniteSet(s)
         /\ Cardinality(s) \in Nat /\ Cardinality(s \ {Some(s)}) = Cardinality(s) - 1
<1>1. Some(s) \in s
  BY DEF Some
<1>2. IsFiniteSet(s)
  BY FS_Subset
<1>3. QED
  BY <1>1, <1>2, FS_RemoveElement, FS_CardinalityType

\* There are such sums: one step more is right for sets of one element more.
LEMMA SumsExist ==
  ASSUME NEW S, IsFiniteSet(S), NEW t \in [S -> Nat]
  PROVE  \E g \in [SUBSET S -> Nat] : Adds(g, t, S)
<1> DEFINE W == [SUBSET S -> Nat]
           n == Cardinality(S)
           Step(g) == [s \in SUBSET S |-> IF s = {} THEN 0 ELSE t[Some(s)] + g[s \ {Some(s)}]]
           base == [s \in SUBSET S |-> 0]
           step == [i \in 1..n |-> [g \in W |-> Step(g)]]
<1>1. n \in Nat
  BY FS_CardinalityType
<1>2. base \in W
  OBVIOUS
<1>3. \A g \in W : Step(g) \in W
  <2> SUFFICES ASSUME NEW g \in W PROVE Step(g) \in W
    OBVIOUS
  <2>1. \A s \in SUBSET S : s # {} => t[Some(s)] \in Nat /\ g[s \ {Some(s)}] \in Nat
    BY SomeMember
  <2>2. QED
    BY <2>1
<1>4. step \in [1..n -> [W -> W]]
  BY <1>3
<1> HIDE DEF W, n, Step, base, step
<1>5. PICK f \in [0..n -> W] : Follows(f, base, n, step)
  BY <1>1, <1>2, <1>4, RecursionExists
<1>6. f[0] = base /\ \A i \in 1..n : f[i] = Step(f[i - 1])
  <2>1. \A i \in 1..n : i - 1 \in 0..n /\ f[i - 1] \in W
    BY <1>1
  <2>2. \A i \in 1..n, g \in W : step[i][g] = Step(g)
    BY DEF step
  <2>3. QED
    BY <1>5, <2>1, <2>2 DEF Follows
<1> DEFINE Right == {i \in 0..n : \A s \in SUBSET S : Cardinality(s) <= i => Step(f[i])[s] = f[i][s]}
<1>7. 0 \in Right
  <2> SUFFICES ASSUME NEW s \in SUBSET S, Cardinality(s) <= 0 PROVE Step(f[0])[s] = f[0][s]
    BY <1>1
  <2>1. s = {}
    <3>1. IsFiniteSet(s) /\ Cardinality(s) = 0
      BY FS_Subset, FS_CardinalityType
    <3>2. QED
      BY <3>1, FS_EmptySet
  <2>2. QED
    BY <1>6, <2>1 DEF Step, base
<1>8. ASSUME NEW i \in 1..n, i - 1 \in Right PROVE i \in Right
  <2> SUFFICES ASSUME NEW s \in SUBSET S, Cardinality(s) <= i PROVE Step(f[i])[s] = f[i][s]
    OBVIOUS
  <2>1. f[i] = Step(f[i - 1])
    BY <1>6
  <2>2. CASE s = {}
    BY <2>1, <2>2 DEF Step
  <2>3. CASE s # {}
    <3> DEFINE u == s \ {Some(s)}
    <3>0. /\ u \in SUBSET S /\ Cardinality(s) \in Nat
          /\ Cardinality(u) = Cardinality(s) - 1
      BY <2>3, SomeMember
    <3> HIDE DEF u
    <3>1. u \in SUBSET S /\ Cardinality(u) <= i - 1
      BY <1>1, <3>0
    <3>2. Step(f[i - 1])[u] = f[i - 1][u]
      BY <1>8, <3>1
    <3>3. Step(f[i])[s] = t[Some(s)] + f[i][u] /\ Step(f[i - 1])[s] = t[Some(s)] + f[i - 1][u]
      BY <2>3 DEF Step, u
    <3>4. QED
      BY <2>1, <3>2, <3>3
  <2>4. QED
    BY <2>2, <2>3
<1> HIDE DEF Right
<1>9. n \in Right
  <2>1. \A i \in 0..n : i \in Right
    BY <1>1, <1>7, <1>8, InductionUpTo
  <2>2. QED
    BY <1>1, <2>1
<1>10. \A s \in SUBSET S : Step(f[n])[s] = f[n][s]
  <2> SUFFICES ASSUME NEW s \in SUBSET S PROVE Cardinality(s) <= n
    BY <1>9 DEF Right
  <2>1. QED
    BY FS_Subset DEF n
<1>11. f[n] \in W
  BY <1>1
<1>12. Step(f[n]) = f[n]
  <2>1. Step(f[n]) \in [SUBSET S -> Nat] /\ f[n] \in [SUBSET S -> Nat]
    BY <1>3, <1>11 DEF W
  <2> DEFINE a == Step(f[n])
             b == f[n]
  <2>2. a \in [SUBSET S -> Nat] /\ b \in [SUBSET S -> Nat] /\ \A s \in SUBSET S : a[s] = b[s]
    BY <1>10, <2>1
  <2> HIDE DEF a, b
  <2>3. a = b
    BY <2>2
  <2>4. QED
    BY <2>3 DEF a, b
<1>13. QED
  BY <1>11, <1>12 DEF Step, Adds, W

\* ... and they do not depend on the set they are defined on.
LEMMA SumsAgree ==
  ASSUME NEW S, IsFiniteSet(S), NEW t, NEW T \in SUBSET S, NEW u,
         \A i \in T : u[i] = t[i],
         NEW g, Adds(g, t, S), NEW h, Adds(h, u, T)
  PROVE  h[T] = g[T]
<1> DEFINE n == Cardinality(T)
           Same == {k \in 0..n : \A s \in SUBSET T : Cardinality(s) <= k => h[s] = g[s]}
<1>1. IsFiniteSet(T) /\ n \in Nat
  BY FS_Subset, FS_CardinalityType
<1>2. \A s \in SUBSET T :
        /\ h[s] = IF s = {} THEN 0 ELSE u[Some(s)] + h[s \ {Some(s)}]
        /\ g[s] = IF s = {} THEN 0 ELSE t[Some(s)] + g[s \ {Some(s)}]
  <2> SUFFICES ASSUME NEW s \in SUBSET T
               PROVE  /\ h[s] = IF s = {} THEN 0 ELSE u[Some(s)] + h[s \ {Some(s)}]
                      /\ g[s] = IF s = {} THEN 0 ELSE t[Some(s)] + g[s \ {Some(s)}]
    OBVIOUS
  <2>1. s \in SUBSET S
    OBVIOUS
  <2>2. QED
    BY <2>1 DEF Adds
<1> HIDE DEF n
<1>3. 0 \in Same
  <2> SUFFICES ASSUME NEW s \in SUBSET T, Cardinality(s) <= 0 PROVE h[s] = g[s]
    BY <1>1
  <2>1. s = {}
    <3>1. IsFiniteSet(s) /\ Cardinality(s) = 0
      BY <1>1, FS_Subset, FS_CardinalityType
    <3>2. QED
      BY <3>1, FS_EmptySet
  <2>2. QED
    BY <1>2, <2>1
<1>4. ASSUME NEW k \in 1..n, k - 1 \in Same PROVE k \in Same
  <2> SUFFICES ASSUME NEW s \in SUBSET T, Cardinality(s) <= k PROVE h[s] = g[s]
    OBVIOUS
  <2>1. CASE s = {}
    BY <1>2, <2>1
  <2>2. CASE s # {}
    <3> DEFINE r == s \ {Some(s)}
    <3>1. Some(s) \in s /\ r \in SUBSET T /\ Cardinality(r) <= k - 1
      BY <1>1, <2>2, SomeMember
    <3>2. h[r] = g[r]
      BY <1>4, <3>1
    <3>3. u[Some(s)] = t[Some(s)]
      BY <3>1
    <3>4. QED
      BY <1>2, <2>2, <3>2, <3>3
  <2>3. QED
    BY <2>1, <2>2
<1> HIDE DEF Same
<1>5. n \in Same
  <2>1. \A k \in 0..n : k \in Same
    BY <1>1, <1>3, <1>4, InductionUpTo
  <2>2. QED
    BY <1>1, <2>1
<1>6. QED
  BY <1>1, <1>5 DEF Same, n

\* The order in which the members of a set are added does not matter.
LEMMA SumsGrow ==
  ASSUME NEW S, IsFiniteSet(S), NEW t \in [S -> Nat], NEW g \in [SUBSET S -> Nat], Adds(g, t, S),
         NEW T \in SUBSET S, NEW x \in S \ T
  PROVE  g[T \cup {x}] = t[x] + g[T]
<1> DEFINE n == Cardinality(S)
           Grows == {k \in 0..n : \A s \in SUBSET S, y \in S :
                       y \notin s /\ Cardinality(s) <= k => g[s \cup {y}] = t[y] + g[s]}
<1>1. n \in Nat /\ \A s \in SUBSET S : IsFiniteSet(s) /\ Cardinality(s) \in 0..n
  BY FS_Subset, FS_CardinalityType
<1>2. \A s \in SUBSET S : g[s] = IF s = {} THEN 0 ELSE t[Some(s)] + g[s \ {Some(s)}]
  BY DEF Adds
<1> HIDE DEF n
<1>3. ASSUME NEW k \in 0..n, k = 0 \/ k - 1 \in Grows PROVE k \in Grows
  <2> SUFFICES ASSUME NEW s \in SUBSET S, NEW y \in S, y \notin s, Cardinality(s) <= k
               PROVE  g[s \cup {y}] = t[y] + g[s]
    OBVIOUS
  <2> DEFINE c == Some(s \cup {y})
  <2>1. s \cup {y} \in SUBSET S /\ s \cup {y} # {} /\ c \in s \cup {y}
    BY DEF Some
  <2>2. g[s \cup {y}] = t[c] + g[(s \cup {y}) \ {c}]
    BY <1>2, <2>1
  <2> HIDE DEF c
  <2>3. CASE c = y
    <3>1. (s \cup {y}) \ {c} = s
      BY <2>3
    <3>2. QED
      BY <2>2, <2>3, <3>1
  <2>4. CASE c \in s
    <3> DEFINE r == s \ {c}
    <3>1. r \in SUBSET S /\ (s \cup {y}) \ {c} = r \cup {y} /\ r \cup {c} = s
          /\ c \notin r /\ y \notin r /\ c \in S
      BY <2>4
    <3>2. Cardinality(r) = Cardinality(s) - 1 /\ Cardinality(r) \in 0..n
      BY <1>1, <2>4, FS_RemoveElement
    <3>3. Cardinality(s) \in Nat /\ k - 1 \in Grows /\ Cardinality(r) <= k - 1
      BY <1>1, <1>3, <3>2
    <3> HIDE DEF r
    <3>4. g[r \cup {y}] = t[y] + g[r] /\ g[r \cup {c}] = t[c] + g[r]
      BY <3>1, <3>3
    <3>5. t[c] \in Nat /\ t[y] \in Nat /\ g[r] \in Nat
      BY <3>1
    <3>6. g[(s \cup {y}) \ {c}] = g[r \cup {y}] /\ g[s] = g[r \cup {c}]
      BY <3>1
    <3>7. QED
      BY <2>2, <3>4, <3>5, <3>6
  <2>5. QED
    BY <2>1, <2>3, <2>4
<1> HIDE DEF Grows
<1>4. \A k \in 0..n : k \in Grows
  <2>1. 0 \in Grows
    BY <1>1, <1>3
  <2>2. \A k \in 1..n : k - 1 \in Grows => k \in Grows
    BY <1>1, <1>3
  <2>3. QED
    BY <1>1, <2>1, <2>2, InductionUpTo
<1>5. Cardinality(T) \in Grows
  BY <1>1, <1>4
<1>6. QED
  BY <1>1, <1>5 DEF Grows

\* The cost of a set of sentences: sentence by sentence, in any order.
LEMMA CostFacts ==
  ASSUME text \in Texts
  PROVE  /\ Cost({}) = 0
         /\ \A S \in SUBSET Index : Cost(S) \in Nat
         /\ \A S \in SUBSET Index, x \in Index :
              x \notin S => Cost(S \cup {x}) = text[x].tokens + Cost(S)
         /\ \A x \in Index : text[x].tokens \in Nat
<1> DEFINE t == [i \in Index |-> text[i].tokens]
<1>1. IsFiniteSet(Index) /\ \A i \in Index : text[i].tokens \in Nat
  <2>1. Len(text) \in Nat /\ Index = 1..Len(text)
    BY TextFacts
  <2>2. IsFiniteSet(Index)
    BY <2>1, FS_Interval
  <2>3. \A i \in 1..Len(text) : SentenceFields(text[i])
    BY ExtractAssumption
  <2>4. QED
    BY <2>1, <2>2, <2>3 DEF SentenceFields
<1>2. t \in [Index -> Nat]
  BY <1>1
<1> HIDE DEF t
<1>3. PICK g \in [SUBSET Index -> Nat] : Adds(g, t, Index)
  BY <1>1, <1>2, SumsExist
<1>4. \A S \in SUBSET Index : Cost(S) = g[S]
  <2> SUFFICES ASSUME NEW S \in SUBSET Index PROVE Cost(S) = g[S]
    OBVIOUS
  <2> DEFINE u == [i \in S |-> text[i].tokens]
             h == CHOOSE f : Adds(f, u, S)
  <2>1. IsFiniteSet(S) /\ u \in [S -> Nat] /\ DOMAIN u = S
    BY <1>1, FS_Subset
  <2>2. \A i \in S : u[i] = t[i]
    BY DEF t
  <2>3. Cost(S) = h[S]
    BY <2>1, TotalUnfolds DEF Cost
  <2> HIDE DEF u
  <2>4. \E f : Adds(f, u, S)
    BY <2>1, SumsExist
  <2>5. Adds(h, u, S)
    BY <2>4
  <2> HIDE DEF h
  <2>6. h[S] = g[S]
    BY <1>1, <1>3, <2>2, <2>5, SumsAgree
  <2>7. QED
    BY <2>3, <2>6
<1>5. g[{}] = 0
  BY <1>3 DEF Adds
<1>6. ASSUME NEW S \in SUBSET Index, NEW x \in Index, x \notin S
      PROVE  Cost(S \cup {x}) = text[x].tokens + Cost(S)
  <2>1. g[S \cup {x}] = t[x] + g[S]
    BY <1>1, <1>2, <1>3, <1>6, SumsGrow
  <2>2. QED
    BY <1>4, <2>1 DEF t
<1>7. QED
  BY <1>1, <1>3, <1>4, <1>5, <1>6

-----------------------------------------------------------------------------
(* The budget.                                                              *)

\* What the last candidate brought with it, and the budget before it came.
Brought(i) == {i} \cup (IF text[i].anaphoric THEN {i - 1} \ Prohibitions ELSE {})
Fits(i) == Cost(kept \ Brought(i)) * 1000 < ratioMillis * Cost(Index)
LastFits == kept = Prohibitions \/ \E i \in kept \ Prohibitions : Fits(i)

BudgetInv ==
  /\ ratioMillis \in Ratios
  /\ phase # "done" => spent = Cost(kept)
  /\ phase = "rank" => LastFits
  /\ phase = "done" =>
       \/ spent = 0 /\ (spent = Cost(kept) \/ Cardinality(kept) = 1)
       \/ spent = Cost(kept) /\ LastFits

LEMMA BudgetInitInv == ExtractInit => BudgetInv
<1> SUFFICES ASSUME ExtractInit PROVE BudgetInv
  OBVIOUS
<1>1. text \in Texts /\ ratioMillis \in Ratios /\ phase = "guard" /\ kept = {} /\ spent = 0
  BY DEF ExtractInit
<1>2. QED
  BY <1>1, CostFacts DEF BudgetInv

LEMMA KeepBudget == ASSUME ExtractInv, BudgetInv, Keep PROVE BudgetInv'
<1> PICK b : b = Best(left)
  OBVIOUS
<1>1. /\ phase = "rank" /\ left # {} /\ b \notin kept /\ UnderBudget
      /\ kept' = kept \cup ({b} \cup Antecedent(b))
      /\ spent' = spent + Cost({b} \cup Antecedent(b))
      /\ UNCHANGED <<text, ratioMillis, phase, out>>
  BY DEF Keep
<1>2. text \in Texts /\ left \subseteq Index /\ kept \subseteq Index /\ Prohibitions \subseteq kept
  BY <1>1 DEF ExtractInv, ShapeInv, RankInv
<1>3. b \in left /\ b \in Index
  BY <1>1, <1>2, BestOutranks
<1>4. /\ Antecedent(b) \subseteq Index /\ Antecedent(b) \cap kept = {}
      /\ Antecedent(b) \subseteq Brought(b) /\ b \notin Antecedent(b)
      /\ Antecedent(b) = {} \/ \E a \in Index : Antecedent(b) = {a}
  BY <1>2, <1>3, TextFacts DEF Antecedent, Brought
<1>5. \A S \in SUBSET Index : Cost(S)' = Cost(S)
  BY <1>1 DEF Cost
<1>6. Index' = Index /\ Prohibitions' = Prohibitions
  BY <1>1 DEF Index, Prohibitions
<1>7. spent = Cost(kept) /\ spent \in Nat
  BY <1>1, <1>2, CostFacts DEF BudgetInv
<1>8. Cost(kept \cup ({b} \cup Antecedent(b))) = Cost(kept) + Cost({b} \cup Antecedent(b))
  <2>1. Cost(kept \cup {b}) = text[b].tokens + Cost(kept) /\ Cost({b}) = text[b].tokens
    <3>1. Cost(kept \cup {b}) = text[b].tokens + Cost(kept)
      BY <1>1, <1>2, <1>3, CostFacts
    <3>2. Cost({} \cup {b}) = text[b].tokens + Cost({}) /\ {} \cup {b} = {b}
      BY <1>2, <1>3, CostFacts
    <3>3. Cost({}) = 0 /\ text[b].tokens \in Nat
      BY <1>2, <1>3, CostFacts
    <3>4. QED
      BY <3>1, <3>2, <3>3
  <2>2. CASE Antecedent(b) = {}
    <3>1. kept \cup ({b} \cup Antecedent(b)) = kept \cup {b} /\ {b} \cup Antecedent(b) = {b}
      BY <2>2
    <3>2. text[b].tokens \in Nat
      BY <1>2, <1>3, CostFacts
    <3>3. /\ Cost(kept \cup ({b} \cup Antecedent(b))) = Cost(kept \cup {b})
          /\ Cost({b} \cup Antecedent(b)) = Cost({b})
      BY <3>1
    <3>4. QED
      BY <1>7, <2>1, <3>2, <3>3
  <2>3. CASE Antecedent(b) # {}
    <3>1. PICK a \in Index : Antecedent(b) = {a}
      BY <1>4, <2>3
    <3>2. a \notin kept \cup {b} /\ a \notin {b}
      BY <1>4, <3>1
    <3>3. /\ Cost((kept \cup {b}) \cup {a}) = text[a].tokens + Cost(kept \cup {b})
          /\ Cost({b} \cup {a}) = text[a].tokens + Cost({b})
          /\ text[a].tokens \in Nat /\ text[b].tokens \in Nat
      BY <1>2, <1>3, <3>2, CostFacts
    <3>4. kept \cup ({b} \cup Antecedent(b)) = (kept \cup {b}) \cup {a}
      BY <3>1
    <3>5. /\ Cost(kept \cup ({b} \cup Antecedent(b))) = Cost((kept \cup {b}) \cup {a})
          /\ Cost({b} \cup Antecedent(b)) = Cost({b} \cup {a})
      BY <3>1, <3>4
    <3>6. /\ Cost(kept \cup ({b} \cup Antecedent(b)))
              = text[a].tokens + (text[b].tokens + Cost(kept))
          /\ Cost({b} \cup Antecedent(b)) = text[a].tokens + text[b].tokens
      BY <2>1, <3>3, <3>5
    <3>7. Cost(kept) \in Nat
      BY <1>7
    <3>8. QED
      BY <3>3, <3>6, <3>7
  <2>4. QED
    BY <2>2, <2>3
<1>9. spent' = Cost(kept)'
  <2>1. kept' \in SUBSET Index
    BY <1>1, <1>2, <1>3, <1>4
  <2>2. Cost(kept)' = Cost(kept')
    BY <1>1 DEF Cost
  <2>3. QED
    BY <1>1, <1>7, <1>8, <2>2
<1>10. LastFits'
  <2> DEFINE rest == kept' \ Brought(b)
  <2>1. b \in kept' \ Prohibitions
    BY <1>1, <1>2
  <2>2. rest = kept \/ \E a \in kept : rest = kept \ {a}
    BY <1>1, <1>2, <1>3, <1>4, TextFacts DEF Brought
  <2>3. Cost(rest) \in Nat /\ Cost(rest) <= Cost(kept)
    <3> HIDE DEF rest
    <3>1. CASE rest = kept
      BY <1>2, <3>1, CostFacts
    <3>2. CASE \E a \in kept : rest = kept \ {a}
      <4>1. PICK a \in kept : rest = kept \ {a}
        BY <3>2
      <4>2. rest \in SUBSET Index /\ a \in Index /\ a \notin rest /\ kept = rest \cup {a}
        BY <1>2, <4>1
      <4>3. Cost(rest \cup {a}) = text[a].tokens + Cost(rest)
            /\ Cost(rest) \in Nat /\ text[a].tokens \in Nat
        BY <1>2, <4>2, CostFacts
      <4>4. QED
        BY <4>2, <4>3
    <3>3. QED
      BY <2>2, <3>1, <3>2
  <2>4. Cost(kept) * 1000 < ratioMillis * Cost(Index)
    BY <1>1, <1>7 DEF UnderBudget
  <2>5. Cost(rest) * 1000 < ratioMillis * Cost(Index)
    <3> DEFINE limit == ratioMillis * Cost(Index)
    <3>1. limit \in Int
      <4>1. ratioMillis \in Int /\ Cost(Index) \in Nat
        BY <1>2, CostFacts, ExtractAssumption DEF BudgetInv
      <4>2. QED
        BY <4>1
    <3>2. Cost(kept) * 1000 < limit
      BY <2>4
    <3> HIDE DEF limit, rest
    <3>3. Cost(kept) \in Nat
      BY <1>2, CostFacts
    <3>4. QED
      BY <2>3, <3>1, <3>2, <3>3 DEF limit
  <2>6. Brought(b)' = Brought(b)
    BY <1>1, <1>6 DEF Brought
  <2>7. Fits(b)'
    <3>1. Cost(kept \ Brought(b))' = Cost(rest)
      BY <1>1, <2>6 DEF Cost
    <3>2. Cost(Index)' = Cost(Index)
      BY <1>1, <1>6 DEF Cost
    <3>3. QED
      BY <1>1, <2>5, <3>1, <3>2 DEF Fits
  <2>8. QED
    BY <1>6, <2>1, <2>7 DEF LastFits
<1>11. QED
  BY <1>1, <1>9, <1>10 DEF BudgetInv

LEMMA PassThroughBudget == ASSUME ExtractInv, BudgetInv, PassThrough PROVE BudgetInv'
<1>1. /\ phase' = "done" /\ kept = {} /\ text \in Texts
      /\ UNCHANGED <<text, ratioMillis, kept, spent>>
  BY DEF PassThrough, ExtractInv, ShapeInv
<1>2. spent = 0 /\ Cost({}) = 0
  BY <1>1, CostFacts DEF PassThrough, BudgetInv
<1>3. Cost(kept)' = Cost({})
  BY <1>1 DEF Cost
<1>4. QED
  BY <1>1, <1>2, <1>3 DEF BudgetInv

LEMMA KeepProhibitionsBudget ==
  ASSUME BudgetInv, KeepProhibitions PROVE BudgetInv'
<1>1. /\ phase' = "rank" /\ kept' = Prohibitions /\ spent' = Cost(Prohibitions)
      /\ UNCHANGED <<text, ratioMillis, out>>
  BY DEF KeepProhibitions
<1>2. Prohibitions' = Prohibitions
  BY <1>1 DEF Prohibitions, Index
<1>3. Cost(kept)' = Cost(Prohibitions)
  BY <1>1 DEF Cost
<1>4. LastFits'
  BY <1>1, <1>2 DEF LastFits
<1>5. QED
  BY <1>1, <1>3, <1>4 DEF BudgetInv

\* A step that keeps and charges nothing.
LEMMA SameBudget ==
  ASSUME BudgetInv, UNCHANGED <<text, ratioMillis, phase, kept, spent, out>>
  PROVE  BudgetInv'
<1>1. /\ Cost(kept)' = Cost(kept) /\ Cost(Index)' = Cost(Index)
      /\ Prohibitions' = Prohibitions
  BY DEF Cost, Index, Prohibitions
<1>2. \A i : Fits(i)' = Fits(i)
  BY <1>1 DEF Cost, Brought, Fits
<1>3. LastFits' = LastFits
  BY <1>1, <1>2 DEF LastFits
<1>4. QED
  BY <1>1, <1>3 DEF BudgetInv

LEMMA FinishBudget == ASSUME ExtractInv, BudgetInv, Finish PROVE BudgetInv'
<1>1. /\ phase = "rank" /\ phase' = "done"
      /\ kept' = IF kept = {} /\ Index # {} THEN {Best(Index)} ELSE kept
      /\ UNCHANGED <<text, ratioMillis, left, spent>>
  BY DEF Finish
<1>2. text \in Texts /\ spent = Cost(kept) /\ LastFits /\ ratioMillis \in Ratios
  BY <1>1 DEF ExtractInv, ShapeInv, BudgetInv
<1>3. CASE kept' = kept
  <2>1. /\ Cost(kept)' = Cost(kept) /\ Cost(Index)' = Cost(Index)
        /\ Prohibitions' = Prohibitions
    BY <1>1, <1>3 DEF Cost, Index, Prohibitions
  <2>2. \A i : Fits(i)' = Fits(i)
    BY <1>1, <1>3, <2>1 DEF Cost, Brought, Fits
  <2>3. LastFits'
    BY <1>2, <1>3, <2>1, <2>2 DEF LastFits
  <2>4. QED
    BY <1>1, <1>2, <2>1, <2>3 DEF BudgetInv
<1>4. CASE kept = {} /\ kept' = {Best(Index)}
  <2>1. spent = 0 /\ spent' = 0
    BY <1>1, <1>2, <1>4, CostFacts
  <2>2. Cardinality(kept') = 1
    BY <1>4, FS_Singleton
  <2>3. QED
    BY <1>1, <1>2, <2>1, <2>2 DEF BudgetInv
<1>5. QED
  BY <1>1, <1>3, <1>4

LEMMA BudgetNextInv ==
  ExtractInv /\ BudgetInv /\ [ExtractNext]_extractVars => BudgetInv'
<1> SUFFICES ASSUME ExtractInv, BudgetInv, [ExtractNext]_extractVars PROVE BudgetInv'
  OBVIOUS
<1>1. CASE Guard
  BY <1>1, PassThroughBudget, KeepProhibitionsBudget DEF Guard
<1>2. CASE Skip
  BY <1>2, SameBudget DEF Skip
<1>3. CASE UNCHANGED extractVars
  BY <1>3, SameBudget DEF extractVars
<1>4. QED
  BY <1>1, <1>2, <1>3, KeepBudget, FinishBudget DEF ExtractNext

\* Every kept sentence is charged once, and the budget is overdrawn by one
\* candidate and its antecedent at most, whatever the text, ratio and costs.
THEOREM BudgetIsRespected == ExtractSpec => []BudgetIsKept
<1>1. BudgetInv => BudgetIsKept
  <2> SUFFICES ASSUME BudgetInv PROVE BudgetIsKept
    OBVIOUS
  <2>1. \A i : Fits(i) <=>
          LET antecedent == IF text[i].anaphoric THEN {i - 1} \ Prohibitions ELSE {}
          IN  Cost(kept \ ({i} \cup antecedent)) * 1000 < ratioMillis * Cost(Index)
    BY DEF Fits, Brought
  <2>2. QED
    BY <2>1 DEF BudgetInv, BudgetIsKept, LastFits, Selected
<1>2. ExtractSpec => []BudgetInv
  BY BudgetInitInv, BudgetNextInv, ExtractInvariance, PTL DEF ExtractSpec
<1>3. QED
  BY <1>1, <1>2, PTL

-----------------------------------------------------------------------------
(* The ports.                                                               *)

\* How many sentences rank before one.
Above(i) == Cardinality({j \in Index : Before(j, i)})

LEMMA IndexFacts ==
  ASSUME text \in Texts
  PROVE  /\ IsFiniteSet(Index) /\ Cardinality(Index) = Len(text) /\ Len(text) \in Nat
         /\ \A i \in Index : i \in Nat /\ text[i].score \in Int
<1>1. Len(text) \in Nat /\ Index = 1..Len(text) /\ \A i \in Index : text[i].score \in Int
  BY TextFacts
<1>2. PICK n : n = Len(text)
  OBVIOUS
<1>3. IsFiniteSet(1..n) /\ Cardinality(1..n) = IF 1 > n THEN 0 ELSE n - 1 + 1
  <2>1. n \in Int /\ 1 \in Int
    BY <1>1, <1>2
  <2>2. QED
    BY <2>1, FS_Interval
<1>4. Cardinality(1..n) = n /\ \A i \in 1..n : i \in Nat
  BY <1>1, <1>2, <1>3
<1>5. QED
  BY <1>1, <1>2, <1>3, <1>4

LEMMA AboveType ==
  ASSUME text \in Texts, NEW i \in Index
  PROVE  Above(i) \in Nat /\ Above(i) + 1 \in Index
<1> DEFINE B == {j \in Index : Before(j, i)}
<1>1. IsFiniteSet(Index) /\ Cardinality(Index) = Len(text) /\ Len(text) \in Nat
  BY IndexFacts
<1>2. B \subseteq Index \ {i}
  BY TextFacts DEF Before
<1>3. IsFiniteSet(Index \ {i}) /\ Cardinality(Index \ {i}) = Len(text) - 1
  BY <1>1, FS_RemoveElement
<1> HIDE DEF B
<1>4. IsFiniteSet(B) /\ Cardinality(B) <= Len(text) - 1
  BY <1>2, <1>3, FS_Subset
<1>5. Cardinality(B) \in Nat
  BY <1>4, FS_CardinalityType
<1>6. Above(i) = Cardinality(B)
  BY DEF Above, B
<1>7. QED
  BY <1>1, <1>4, <1>5, <1>6, TextFacts

LEMMA BeforeIsAbove ==
  ASSUME text \in Texts, NEW i \in Index, NEW k \in Index, Before(i, k)
  PROVE  Above(i) < Above(k)
<1> DEFINE B(x) == {j \in Index : Before(j, x)}
<1>1. B(i) \subseteq B(k) /\ i \in B(k) /\ i \notin B(i)
  BY TextFacts DEF Before
<1>2. IsFiniteSet(B(k))
  <2>1. B(k) \in SUBSET Index
    OBVIOUS
  <2> HIDE DEF B
  <2>2. QED
    BY <2>1, IndexFacts, FS_Subset
<1>3. Above(i) = Cardinality(B(i)) /\ Above(k) = Cardinality(B(k))
  BY DEF Above
<1> HIDE DEF B
<1>4. Cardinality(B(i)) <= Cardinality(B(k)) /\ Cardinality(B(i)) # Cardinality(B(k))
  BY <1>1, <1>2, FS_Subset
<1>5. QED
  BY <1>3, <1>4, AboveType

\* The ranking lists every index once, the best first.
LEMMA Ranking ==
  ASSUME text \in Texts
  PROVE  /\ RankedIndices \in [Index -> Index]
         /\ \A i \in Index : \E r \in Index : RankedIndices[r] = i
         /\ \A r, s \in Index : r < s => Before(RankedIndices[r], RankedIndices[s])
<1> DEFINE f == [i \in Index |-> Above(i) + 1]
           P(i, r) == i \in Index /\ Cardinality({j \in Index : Before(j, i)}) = r - 1
<1>1. IsFiniteSet(Index) /\ \A i \in Index : i \in Nat
  BY IndexFacts
<1>2. f \in [Index -> Index]
  BY AboveType
<1>3. \A i, k \in Index : i # k => f[i] # f[k]
  <2> SUFFICES ASSUME NEW i \in Index, NEW k \in Index, i # k PROVE f[i] # f[k]
    OBVIOUS
  <2>1. Before(i, k) \/ Before(k, i)
    BY TextFacts DEF Before
  <2>2. Above(i) < Above(k) \/ Above(k) < Above(i)
    BY <2>1, BeforeIsAbove
  <2>3. Above(i) \in Nat /\ Above(k) \in Nat
    BY AboveType
  <2>4. QED
    BY <2>2, <2>3
<1> HIDE DEF f
<1>4. f \in Injection(Index, Index)
  BY <1>2, <1>3 DEF Injection, IsInjective
<1>5. f \in Surjection(Index, Index)
  BY <1>1, <1>4, FS_Injection
<1>6. ASSUME NEW r \in Index PROVE \E i \in Index : Above(i) = r - 1
  <2>1. PICK i \in Index : f[i] = r
    BY <1>5 DEF Surjection
  <2>2. Above(i) + 1 = r /\ Above(i) \in Nat
    BY <2>1, AboveType DEF f
  <2>3. QED
    BY <2>2
<1>7. ASSUME NEW r \in Index
      PROVE  RankedIndices[r] \in Index /\ Above(RankedIndices[r]) = r - 1
  <2> DEFINE x == CHOOSE i \in Index : Above(i) = r - 1
  <2>1. x \in Index /\ Above(x) = r - 1
    BY <1>6
  <2>2. RankedIndices[r] = x
    BY DEF RankedIndices, Above
  <2>3. QED
    BY <2>1, <2>2
<1>8. RankedIndices \in [Index -> Index]
  <2>1. RankedIndices = [r \in Index |-> RankedIndices[r]]
    BY DEF RankedIndices
  <2>2. QED
    BY <1>7, <2>1
<1>9. ASSUME NEW i \in Index PROVE \E r \in Index : RankedIndices[r] = i
  <2>1. PICK r : r = f[i]
    OBVIOUS
  <2>2. r \in Index /\ Above(i) = r - 1
    BY <1>2, <2>1, AboveType DEF f
  <2>3. PICK k : k = RankedIndices[r]
    OBVIOUS
  <2>4. k \in Index /\ Above(k) = r - 1
    BY <1>7, <2>2, <2>3
  <2>5. f[k] = f[i]
    BY <2>2, <2>4 DEF f
  <2>6. k = i
    BY <1>3, <2>4, <2>5
  <2>7. QED
    BY <2>2, <2>3, <2>6
<1>10. ASSUME NEW r \in Index, NEW s \in Index, r < s
       PROVE  Before(RankedIndices[r], RankedIndices[s])
  <2>1. PICK i, k : i = RankedIndices[r] /\ k = RankedIndices[s]
    OBVIOUS
  <2>2. i \in Index /\ k \in Index /\ Above(i) = r - 1 /\ Above(k) = s - 1 /\ r \in Nat /\ s \in Nat
    BY <1>1, <1>7, <2>1
  <2>3. i # k /\ ~(Above(k) < Above(i))
    BY <1>10, <2>2
  <2>4. ~Before(k, i)
    BY <2>2, <2>3, BeforeIsAbove
  <2>5. Before(i, k)
    BY <2>2, <2>3, <2>4, TextFacts DEF Before
  <2>6. QED
    BY <2>1, <2>5
<1>11. QED
  BY <1>8, <1>9, <1>10

-----------------------------------------------------------------------------

\* What the loop over the ranking has not come to after m candidates.
Remaining(m) == {RankedIndices[r] : r \in (m + 1)..Len(text)}

LEMMA RemainingFacts ==
  ASSUME text \in Texts
  PROVE  /\ Remaining(0) = Index
         /\ \A m \in 0..Len(text) : Remaining(m) = {} <=> m = Len(text)
         /\ \A m \in 0..(Len(text) - 1) :
              /\ m + 1 \in Index /\ Best(Remaining(m)) = RankedIndices[m + 1]
              /\ Remaining(m + 1) = Remaining(m) \ {RankedIndices[m + 1]}
<1> DEFINE n == Len(text)
           R == RankedIndices
<1>1. n \in Nat /\ Index = 1..n
  BY TextFacts
<1>2. /\ R \in [Index -> Index] /\ \A i \in Index : \E r \in Index : R[r] = i
      /\ \A r, s \in Index : r < s => Before(R[r], R[s])
  BY Ranking
<1> HIDE DEF R
<1>3. \A r, s \in Index : r < s => R[r] # R[s]
  <2>1. \A i \in Index : ~Before(i, i)
    BY IndexFacts DEF Before
  <2>2. QED
    BY <1>2, <2>1
<1>4. ASSUME NEW m PROVE Remaining(m) = {R[r] : r \in (m + 1)..n}
  BY DEF Remaining, R
<1> HIDE DEF n
<1>5. Remaining(0) = Index
  <2>1. Remaining(0) = {R[r] : r \in Index}
    <3>1. 0 + 1 = 1
      OBVIOUS
    <3>2. QED
      BY <1>1, <1>4, <3>1
  <2>2. \A i \in Index : R[i] \in Index
    BY <1>2
  <2>3. QED
    BY <1>2, <2>1, <2>2
<1>6. ASSUME NEW m \in 0..n PROVE Remaining(m) = {} <=> m = n
  <2>1. m = n => (m + 1)..n = {}
    BY <1>1
  <2>2. m # n => m + 1 \in (m + 1)..n
    BY <1>1
  <2>3. QED
    BY <1>4, <2>1, <2>2
<1>7. ASSUME NEW m \in 0..(n - 1)
      PROVE  /\ m + 1 \in Index /\ Best(Remaining(m)) = R[m + 1]
             /\ Remaining(m + 1) = Remaining(m) \ {R[m + 1]}
  <2>1. PICK k : k = m + 1
    OBVIOUS
  <2>2. k \in 1..n /\ k \in (m + 1)..n /\ k + 1 \in Int
        /\ (\A s \in (m + 1)..n : s = k \/ s \in (k + 1)..n)
        /\ (\A s \in (k + 1)..n : s \in (m + 1)..n /\ k < s)
        /\ (\A s \in (m + 1)..n : s \in 1..n)
    BY <1>1, <2>1
  <2> DEFINE S == Remaining(m)
  <2>3. S = {R[r] : r \in (m + 1)..n} /\ S # {} /\ S \subseteq Index /\ R[k] \in S
    <3>1. S = {R[r] : r \in (m + 1)..n}
      BY <1>4
    <3>2. \A s \in (m + 1)..n : R[s] \in Index
      BY <1>1, <1>2, <2>2
    <3>3. QED
      BY <2>2, <3>1, <3>2
  <2> HIDE DEF S
  <2>4. Best(S) \in S /\ Outranks(Best(S), R[k])
    BY <2>3, BestOutranks
  <2>5. PICK s \in (m + 1)..n : Best(S) = R[s]
    BY <2>3, <2>4
  <2>6. s = k
    <3> SUFFICES ASSUME s \in (k + 1)..n PROVE FALSE
      BY <2>2
    <3>1. Before(R[k], R[s]) /\ R[k] \in Index /\ R[s] \in Index
      BY <1>1, <1>2, <2>2
    <3>2. Outranks(R[s], R[k])
      BY <2>4, <2>5
    <3>3. QED
      BY <1>1, <3>1, <3>2, TextFacts DEF Before, Outranks
  <2>7. Remaining(k) = S \ {R[k]}
    <3>1. Remaining(k) = {R[r] : r \in (k + 1)..n}
      BY <1>4
    <3>2. \A r \in (k + 1)..n : R[r] # R[k]
      BY <1>1, <1>3, <2>2
    <3>3. ASSUME NEW x \in Remaining(k) PROVE x \in S \ {R[k]}
      BY <2>2, <2>3, <3>1, <3>2
    <3>4. ASSUME NEW x \in S \ {R[k]} PROVE x \in Remaining(k)
      <4>1. PICK r \in (m + 1)..n : x = R[r]
        BY <2>3
      <4>2. r \in (k + 1)..n
        BY <2>2, <4>1
      <4>3. QED
        BY <3>1, <4>1, <4>2
    <3>5. QED
      BY <3>3, <3>4
  <2>8. QED
    BY <1>1, <2>1, <2>2, <2>5, <2>6, <2>7 DEF S
<1>8. QED
  BY <1>5, <1>6, <1>7 DEF n, R

\* What the ports ask about a candidate is what the reference asks.
LEMMA ResemblesIsRedundant ==
  ASSUME text \in Texts, NEW i \in Index, NEW k \in Index
  PROVE  Redundant(i, k) <=>
           /\ ~text[i].listItem /\ text[i].shingles # {}
           /\ GoResembles(i, k) /\ text[i].digits = text[k].digits
<1>1. PICK a, b : a = text[i].shingles /\ b = text[k].shingles
  OBVIOUS
<1>2. IsFiniteSet(a) /\ IsFiniteSet(b)
  BY <1>1, TextFacts, ExtractAssumption DEF SentenceFields
<1>3. Cardinality(a \cup b) = Cardinality(a) + Cardinality(b) - Cardinality(a \cap b)
  BY <1>2, FS_Union
<1>4. Cardinality(a \cap b) \in Nat /\ Cardinality(a \cap b) <= Cardinality(a)
      /\ Cardinality(a \cap b) <= Cardinality(b) /\ Cardinality(a) \in Nat /\ Cardinality(b) \in Nat
  <2>1. /\ IsFiniteSet(a \cap b) /\ Cardinality(a \cap b) <= Cardinality(a)
        /\ Cardinality(a \cap b) <= Cardinality(b)
    BY <1>2, FS_Intersection
  <2>2. QED
    BY <1>2, <2>1, FS_CardinalityType
<1>5. PICK x, u, p : x = Cardinality(a \cap b) /\ u = Cardinality(a \cup b) /\ p = RedundancyPct * u
  OBVIOUS
<1>6. x \in Nat /\ u \in Nat
  <2>1. IsFiniteSet(a \cup b)
    BY <1>2, FS_Union
  <2>2. QED
    BY <1>4, <1>5, <2>1, FS_CardinalityType
<1>7. p \in Nat
  BY <1>5, <1>6, ExtractAssumption
<1>8. Redundant(i, k) <=>
        ~text[i].listItem /\ x * 100 > p /\ text[i].digits = text[k].digits
  BY <1>1, <1>5 DEF Redundant
<1>9. GoResembles(i, k) <=> u > 0 /\ x * 100 > p
  <2>1. Cardinality(a) + Cardinality(b) - x = u
    BY <1>3, <1>5
  <2>2. QED
    BY <1>1, <1>5, <2>1 DEF GoResembles
<1>10. x * 100 > p => u > 0 /\ a # {}
  <2>1. x * 100 > p => x > 0
    BY <1>6, <1>7
  <2>2. x <= u
    BY <1>3, <1>4, <1>5
  <2>3. a = {} => x = 0
    <3>1. a = {} => a \cap b = {}
      OBVIOUS
    <3>2. QED
      BY <1>5, <3>1, FS_EmptySet
  <2>4. QED
    BY <1>6, <2>1, <2>2, <2>3
<1>11. QED
  BY <1>1, <1>8, <1>9, <1>10

LEMMA GoRepeats ==
  ASSUME text \in Texts, kept \subseteq Index, NEW i \in Index
  PROVE  GoIsRedundant(i, kept) <=> RepeatsKept(i)
<1>1. \A k \in kept : Redundant(i, k) <=>
           /\ ~text[i].listItem /\ text[i].shingles # {}
           /\ GoResembles(i, k) /\ text[i].digits = text[k].digits
  BY ResemblesIsRedundant
<1>2. QED
  BY <1>1 DEF GoIsRedundant, RepeatsKept

\* A set of indices as flags.
Flags(S) == [i \in Index |-> i \in S]

LEMMA RustRepeats ==
  ASSUME text \in Texts, kept \subseteq Index, NEW i \in Index
  PROVE  RustIsRedundant(i, Flags(kept)) <=> RepeatsKept(i)
<1>1. {j \in Index : Flags(kept)[j]} = kept
  BY DEF Flags
<1>2. \A k \in Index : {s \in text[i].shingles : s \in text[k].shingles}
                        = text[i].shingles \cap text[k].shingles
  OBVIOUS
<1>3. RustIsRedundant(i, Flags(kept)) <=>
        /\ ~text[i].listItem /\ text[i].shingles # {}
        /\ \E k \in kept : GoResembles(i, k) /\ text[i].digits = text[k].digits
  BY <1>1, <1>2 DEF RustIsRedundant, GoResembles
<1>4. \A k \in kept : Redundant(i, k) <=>
           /\ ~text[i].listItem /\ text[i].shingles # {}
           /\ GoResembles(i, k) /\ text[i].digits = text[k].digits
  BY ResemblesIsRedundant
<1>5. QED
  BY <1>3, <1>4 DEF RepeatsKept

-----------------------------------------------------------------------------

\* What the loops of Go carry.
Acc == [kept : SUBSET Index, tokens : Nat]

LEMMA GoKeepType ==
  ASSUME text \in Texts, NEW acc \in Acc, NEW i \in Index
  PROVE  GoKeep(acc, i) \in Acc
  BY CostFacts DEF GoKeep, Acc

LEMMA GoConsiderType ==
  ASSUME text \in Texts, NEW acc \in Acc, NEW i \in Index
  PROVE  GoConsider(acc, i) \in Acc
<1>1. i > 1 => i - 1 \in Index
  BY TextFacts
<1>2. GoKeep(acc, i) \in Acc /\ (i > 1 => GoKeep(GoKeep(acc, i), i - 1) \in Acc)
  BY <1>1, GoKeepType
<1>3. GoKeepWithPrevious(acc, i) \in Acc
  BY <1>2 DEF GoKeepWithPrevious
<1>4. QED
  BY <1>3 DEF GoConsider

\* What the loop of Rust carries.
RustAcc == [kept : [Index -> BOOLEAN], tokens : Nat]
Counted(S, t) == [kept |-> Flags(S), tokens |-> t]

LEMMA RustFlagType ==
  ASSUME text \in Texts, NEW acc \in RustAcc, NEW i \in Index
  PROVE  RustFlag(acc, i) \in RustAcc
<1>1. text[i].tokens \in Nat /\ acc.tokens \in Nat /\ acc.kept \in [Index -> BOOLEAN]
  BY CostFacts DEF RustAcc
<1>2. [acc.kept EXCEPT ![i] = TRUE] \in [Index -> BOOLEAN]
  BY <1>1
<1>3. acc.tokens + text[i].tokens \in Nat
  BY <1>1
<1>4. QED
  BY <1>2, <1>3 DEF RustFlag, RustAcc

LEMMA RustConsiderType ==
  ASSUME text \in Texts, NEW acc \in RustAcc, NEW i \in Index
  PROVE  RustConsider(acc, i) \in RustAcc
<1>1. i > 1 => i - 1 \in Index
  BY TextFacts
<1>2. RustFlag(acc, i) \in RustAcc /\ (i > 1 => RustFlag(RustFlag(acc, i), i - 1) \in RustAcc)
  BY <1>1, RustFlagType
<1>3. RustFlagWithPrevious(acc, i) \in RustAcc
  BY <1>2 DEF RustFlagWithPrevious
<1>4. QED
  BY <1>3 DEF RustConsider

\* The loops of the ports, turn by turn.
LEMMA GoForcedRec ==
  ASSUME text \in Texts
  PROVE  /\ GoForced[0] = [kept |-> {}, tokens |-> 0]
         /\ \A i \in Index : GoForced[i] =
              IF text[i].prohibits THEN GoKeep(GoForced[i - 1], i) ELSE GoForced[i - 1]
<1> DEFINE n == Len(text)
           base == [kept |-> {}, tokens |-> 0]
           Turn(v, i) == IF text[i].prohibits THEN GoKeep(v, i) ELSE v
           Body(f) == [i \in 0..n |-> IF i = 0 THEN base ELSE Turn(f[i - 1], i)]
           step == [i \in 1..n |-> [v \in Acc |-> Turn(v, i)]]
           F == CHOOSE f : f = Body(f)
<1>1. n \in Nat /\ Index = 1..n
  BY TextFacts
<1>2. base \in Acc
  BY DEF Acc
<1>3. step \in [1..n -> [Acc -> Acc]]
  BY <1>1, GoKeepType
<1>4. GoForced = F
  BY DEF GoForced
<1> HIDE DEF n, base, Turn, step
<1>5. PICK g \in [0..n -> Acc] : Follows(g, base, n, step)
  BY <1>1, <1>2, <1>3, RecursionExists
<1>6. \A i \in 1..n : g[i] = Turn(g[i - 1], i)
  <2> SUFFICES ASSUME NEW i \in 1..n PROVE g[i] = Turn(g[i - 1], i)
    OBVIOUS
  <2>1. g[i - 1] \in Acc
    BY <1>1
  <2>2. g[i] = step[i][g[i - 1]]
    BY <1>5 DEF Follows
  <2>3. QED
    BY <2>1, <2>2 DEF step
<1>7. g = Body(g)
  <2>1. \A i \in 0..n : Body(g)[i] = g[i]
    <3> SUFFICES ASSUME NEW i \in 0..n PROVE Body(g)[i] = g[i]
      OBVIOUS
    <3>1. i = 0 \/ i \in 1..n
      BY <1>1
    <3>2. QED
      BY <1>5, <1>6, <3>1 DEF Follows
  <2>2. DOMAIN Body(g) = 0..n /\ Body(g) = [i \in 0..n |-> Body(g)[i]]
    OBVIOUS
  <2> HIDE DEF Body
  <2>3. QED
    BY <2>1, <2>2
<1> HIDE DEF Body
<1>8. F = Body(F)
  BY <1>7
<1> HIDE DEF F
<1>9. \A i \in 0..n : F[i] = IF i = 0 THEN base ELSE Turn(F[i - 1], i)
  <2>1. \A i \in 0..n : Body(F)[i] = IF i = 0 THEN base ELSE Turn(F[i - 1], i)
    BY DEF Body
  <2>2. QED
    BY <1>8, <2>1
<1>10. F[0] = base /\ \A i \in 1..n : F[i] = Turn(F[i - 1], i)
  BY <1>1, <1>9
<1>11. QED
  BY <1>1, <1>4, <1>10 DEF Turn, base

\* What the prohibitions leave the loop over the ranking to start from.
LEMMA GoForcedIs ==
  ASSUME text \in Texts
  PROVE  GoForced[Len(text)] = [kept |-> Prohibitions, tokens |-> Cost(Prohibitions)]
<1> DEFINE n == Len(text)
           First(i) == {k \in Prohibitions : k <= i}
           T == {i \in 0..n : GoForced[i] = [kept |-> First(i), tokens |-> Cost(First(i))]}
<1>1. n \in Nat /\ Index = 1..n /\ \A i \in Index : i \in Nat
  BY IndexFacts, TextFacts
<1>2. \A k \in Prohibitions : k \in Index
  BY DEF Prohibitions
<1> HIDE DEF n
<1>3. 0 \in T
  <2>1. First(0) = {}
    BY <1>1, <1>2
  <2>2. GoForced[0] = [kept |-> First(0), tokens |-> Cost(First(0))]
    BY <2>1, CostFacts, GoForcedRec
  <2>3. QED
    BY <1>1, <2>2
<1>4. ASSUME NEW i \in 1..n, i - 1 \in T PROVE i \in T
  <2>1. PICK h : h = i - 1
    OBVIOUS
  <2>2. i \in Index /\ i \in 0..n /\ h \in Nat /\ i = h + 1
    BY <1>1, <2>1
  <2>3. GoForced[h] = [kept |-> First(h), tokens |-> Cost(First(h))]
    BY <1>4, <2>1
  <2>4. GoForced[i] = IF text[i].prohibits THEN GoKeep(GoForced[h], i) ELSE GoForced[h]
    BY <2>1, <2>2, GoForcedRec
  <2>5. CASE text[i].prohibits
    <3>1. i \in Prohibitions
      BY <2>2, <2>5 DEF Prohibitions
    <3>2. PICK S, U : S = First(h) /\ U = First(i)
      OBVIOUS
    <3>3. S \in SUBSET Index /\ i \notin S
      BY <1>1, <1>2, <2>2, <3>2
    <3>4. U = S \cup {i}
      <4>1. ASSUME NEW k \in U PROVE k \in S \cup {i}
        BY <1>1, <1>2, <2>2, <3>2
      <4>2. ASSUME NEW k \in S PROVE k \in U
        BY <1>1, <1>2, <2>2, <3>2
      <4>3. i \in U
        BY <1>1, <2>2, <3>1, <3>2
      <4>4. QED
        BY <4>1, <4>2, <4>3
    <3> HIDE DEF First
    <3>5. GoKeep(GoForced[h], i) = [kept |-> First(i), tokens |-> Cost(First(i))]
      <4>1. Cost(U) = text[i].tokens + Cost(S) /\ text[i].tokens \in Nat /\ Cost(S) \in Nat
        BY <2>2, <3>3, <3>4, CostFacts
      <4>2. PICK a, b : a = Cost(S) /\ b = text[i].tokens
        OBVIOUS
      <4>3. a + b = Cost(U)
        BY <4>1, <4>2
      <4>4. GoForced[h] = [kept |-> S, tokens |-> a]
        BY <2>3, <3>2, <4>2
      <4>5. GoKeep(GoForced[h], i) = [kept |-> S \cup {i}, tokens |-> a + b]
        BY <4>2, <4>4 DEF GoKeep
      <4>6. QED
        BY <3>2, <3>4, <4>3, <4>5
    <3>6. QED
      BY <2>2, <2>4, <2>5, <3>5
  <2>6. CASE ~text[i].prohibits
    <3>1. i \notin Prohibitions
      BY <2>6 DEF Prohibitions
    <3>2. First(i) = First(h)
      BY <1>1, <1>2, <2>2, <3>1
    <3> HIDE DEF First
    <3>3. QED
      BY <2>2, <2>3, <2>4, <2>6, <3>2
  <2>7. QED
    BY <2>5, <2>6
<1> HIDE DEF T
<1>5. n \in T
  <2>1. n \in 0..n
    BY <1>1
  <2>2. \A i \in 0..n : i \in T
    BY <1>1, <1>3, <1>4, InductionUpTo
  <2>3. QED
    BY <2>1, <2>2
<1>6. First(n) = Prohibitions
  BY <1>1, <1>2
<1>7. QED
  BY <1>5, <1>6 DEF T, n

LEMMA GoRankedRec ==
  ASSUME text \in Texts
  PROVE  /\ GoRanked[0] = GoForced[Len(text)]
         /\ \A r \in Index : GoRanked[r] = GoConsider(GoRanked[r - 1], RankedIndices[r])
<1> DEFINE n == Len(text)
           base == GoForced[Len(text)]
           Turn(v, i) == GoConsider(v, RankedIndices[i])
           Body(f) == [i \in 0..n |-> IF i = 0 THEN base ELSE Turn(f[i - 1], i)]
           step == [i \in 1..n |-> [v \in Acc |-> Turn(v, i)]]
           F == CHOOSE f : f = Body(f)
<1>1. n \in Nat /\ Index = 1..n
  BY TextFacts
<1>2. base \in Acc
  <2>1. Prohibitions \in SUBSET Index
    BY DEF Prohibitions
  <2>2. Cost(Prohibitions) \in Nat
    BY <2>1, CostFacts
  <2>3. QED
    BY <2>1, <2>2, GoForcedIs DEF Acc
<1>3. step \in [1..n -> [Acc -> Acc]]
  <2>1. \A i \in 1..n : RankedIndices[i] \in Index
    BY <1>1, Ranking
  <2>2. QED
    BY <2>1, GoConsiderType
<1>4. GoRanked = F
  BY DEF GoRanked
<1> HIDE DEF n, base, Turn, step
<1>5. PICK g \in [0..n -> Acc] : Follows(g, base, n, step)
  BY <1>1, <1>2, <1>3, RecursionExists
<1>6. \A i \in 1..n : g[i] = Turn(g[i - 1], i)
  <2> SUFFICES ASSUME NEW i \in 1..n PROVE g[i] = Turn(g[i - 1], i)
    OBVIOUS
  <2>1. g[i - 1] \in Acc
    BY <1>1
  <2>2. g[i] = step[i][g[i - 1]]
    BY <1>5 DEF Follows
  <2>3. QED
    BY <2>1, <2>2 DEF step
<1>7. g = Body(g)
  <2>1. \A i \in 0..n : Body(g)[i] = g[i]
    <3> SUFFICES ASSUME NEW i \in 0..n PROVE Body(g)[i] = g[i]
      OBVIOUS
    <3>1. i = 0 \/ i \in 1..n
      BY <1>1
    <3>2. QED
      BY <1>5, <1>6, <3>1 DEF Follows
  <2>2. DOMAIN Body(g) = 0..n /\ Body(g) = [i \in 0..n |-> Body(g)[i]]
    OBVIOUS
  <2> HIDE DEF Body
  <2>3. QED
    BY <2>1, <2>2
<1> HIDE DEF Body
<1>8. F = Body(F)
  BY <1>7
<1> HIDE DEF F
<1>9. \A i \in 0..n : F[i] = IF i = 0 THEN base ELSE Turn(F[i - 1], i)
  <2>1. \A i \in 0..n : Body(F)[i] = IF i = 0 THEN base ELSE Turn(F[i - 1], i)
    BY DEF Body
  <2>2. QED
    BY <1>8, <2>1
<1>10. F[0] = base /\ \A i \in 1..n : F[i] = Turn(F[i - 1], i)
  BY <1>1, <1>9
<1>11. QED
  BY <1>1, <1>4, <1>10 DEF Turn, base, n

LEMMA RustRankedRec ==
  ASSUME text \in Texts
  PROVE  /\ RustRanked[0] = Counted(Prohibitions, Cost(Prohibitions))
         /\ \A r \in Index : RustRanked[r] = RustConsider(RustRanked[r - 1], RankedIndices[r])
<1> DEFINE n == Len(text)
           base == Counted(Prohibitions, Cost(Prohibitions))
           Turn(v, i) == RustConsider(v, RankedIndices[i])
           Body(f) == [i \in 0..n |-> IF i = 0 THEN base ELSE Turn(f[i - 1], i)]
           step == [i \in 1..n |-> [v \in RustAcc |-> Turn(v, i)]]
           F == CHOOSE f : f = Body(f)
<1>1. n \in Nat /\ Index = 1..n
  BY TextFacts
<1>2. base \in RustAcc
  <2>1. Prohibitions \in SUBSET Index
    BY DEF Prohibitions
  <2>2. Cost(Prohibitions) \in Nat
    BY <2>1, CostFacts
  <2>3. Flags(Prohibitions) \in [Index -> BOOLEAN]
    BY DEF Flags
  <2>4. QED
    BY <2>2, <2>3 DEF Counted, RustAcc
<1>3. step \in [1..n -> [RustAcc -> RustAcc]]
  <2>1. \A i \in 1..n : RankedIndices[i] \in Index
    BY <1>1, Ranking
  <2>2. QED
    BY <2>1, RustConsiderType
<1>4. RustRanked = F
  <2>1. [i \in Index |-> text[i].prohibits] = Flags(Prohibitions)
    <3>1. \A i \in Index : text[i].prohibits \in BOOLEAN
      BY TextFacts, ExtractAssumption DEF SentenceFields
    <3>2. \A i \in Index : text[i].prohibits = (i \in Prohibitions)
      BY <3>1 DEF Prohibitions
    <3>3. QED
      BY <3>2 DEF Flags
  <2>2. {i \in Index : text[i].prohibits} = Prohibitions
    BY DEF Prohibitions
  <2>3. QED
    BY <2>1, <2>2 DEF RustRanked, Counted
<1> HIDE DEF n, base, Turn, step
<1>5. PICK g \in [0..n -> RustAcc] : Follows(g, base, n, step)
  BY <1>1, <1>2, <1>3, RecursionExists
<1>6. \A i \in 1..n : g[i] = Turn(g[i - 1], i)
  <2> SUFFICES ASSUME NEW i \in 1..n PROVE g[i] = Turn(g[i - 1], i)
    OBVIOUS
  <2>1. g[i - 1] \in RustAcc
    BY <1>1
  <2>2. g[i] = step[i][g[i - 1]]
    BY <1>5 DEF Follows
  <2>3. QED
    BY <2>1, <2>2 DEF step
<1>7. g = Body(g)
  <2>1. \A i \in 0..n : Body(g)[i] = g[i]
    <3> SUFFICES ASSUME NEW i \in 0..n PROVE Body(g)[i] = g[i]
      OBVIOUS
    <3>1. i = 0 \/ i \in 1..n
      BY <1>1
    <3>2. QED
      BY <1>5, <1>6, <3>1 DEF Follows
  <2>2. DOMAIN Body(g) = 0..n /\ Body(g) = [i \in 0..n |-> Body(g)[i]]
    OBVIOUS
  <2> HIDE DEF Body
  <2>3. QED
    BY <2>1, <2>2
<1> HIDE DEF Body
<1>8. F = Body(F)
  BY <1>7
<1> HIDE DEF F
<1>9. \A i \in 0..n : F[i] = IF i = 0 THEN base ELSE Turn(F[i - 1], i)
  <2>1. \A i \in 0..n : Body(F)[i] = IF i = 0 THEN base ELSE Turn(F[i - 1], i)
    BY DEF Body
  <2>2. QED
    BY <1>8, <2>1
<1>10. F[0] = base /\ \A i \in 1..n : F[i] = Turn(F[i - 1], i)
  BY <1>1, <1>9
<1>11. QED
  BY <1>1, <1>4, <1>10 DEF Turn, base, n

-----------------------------------------------------------------------------

\* After m candidates the ports have kept and spent what the reference has.
InStep(m) ==
  /\ left = Remaining(m)
  /\ GoRanked[m] = [kept |-> kept, tokens |-> spent]
  /\ RustRanked[m] = Counted(kept, spent)

PortInv ==
  /\ phase = "rank" => \E m \in 0..Len(text) : InStep(m)
  /\ PortsKeepTheSame

\* The next candidate of the ports is the best of what is left.
LEMMA NextCandidate ==
  ASSUME text \in Texts, NEW m \in 0..Len(text), InStep(m), left # {}
  PROVE  /\ m + 1 \in Index /\ Best(left) = RankedIndices[m + 1] /\ Best(left) \in Index
         /\ left \ {Best(left)} = Remaining(m + 1)
         /\ GoRanked[m + 1] = GoConsider(GoRanked[m], Best(left))
         /\ RustRanked[m + 1] = RustConsider(RustRanked[m], Best(left))
<1>1. Len(text) \in Nat /\ Index = 1..Len(text)
  BY TextFacts
<1>2. m # Len(text) /\ left = Remaining(m)
  BY RemainingFacts DEF InStep
<1>3. m \in 0..(Len(text) - 1) /\ (m + 1) - 1 = m
  BY <1>1, <1>2
<1>4. /\ m + 1 \in Index /\ Best(left) = RankedIndices[m + 1]
      /\ left \ {Best(left)} = Remaining(m + 1)
  BY <1>2, <1>3, RemainingFacts
<1>5. Best(left) \in Index
  BY <1>4, Ranking
<1>6. GoRanked[m + 1] = GoConsider(GoRanked[m], Best(left))
  BY <1>3, <1>4, GoRankedRec
<1>7. RustRanked[m + 1] = RustConsider(RustRanked[m], Best(left))
  BY <1>3, <1>4, RustRankedRec
<1>8. QED
  BY <1>4, <1>5, <1>6, <1>7

\* What the ports charge and what they have to spend is the reference's.
LEMMA PortsBudget ==
  ASSUME text \in Texts, ratioMillis \in Ratios, kept \subseteq Index, spent = Cost(kept)
  PROVE  /\ GoSpent([kept |-> kept, tokens |-> spent]) <=> ~UnderBudget
         /\ RustSpent(Counted(kept, spent)) <=> ~UnderBudget
<1>1. Cost(kept) \in Nat /\ Cost(Index) \in Nat
  BY CostFacts
<1>2. PICK p : p = ratioMillis * Cost(Index)
  OBVIOUS
<1>3. p \in Int
  BY <1>1, <1>2, ExtractAssumption
<1>5. RustSpent(Counted(kept, spent)) <=> spent * 1000 >= p
  BY <1>2 DEF RustSpent, Counted
<1>6. GoSpent([kept |-> kept, tokens |-> spent]) <=> spent * 1000 >= p
  BY <1>2 DEF GoSpent
<1>7. UnderBudget <=> spent * 1000 < p
  BY <1>2 DEF UnderBudget
<1>8. spent * 1000 \in Int
  BY <1>1
<1>9. QED
  BY <1>3, <1>5, <1>6, <1>7, <1>8

\* What one candidate changes in the ports, by the reference's conditions.
LEMMA PortsSkip ==
  ASSUME text \in Texts, ratioMillis \in Ratios, kept \subseteq Index, spent = Cost(kept),
         NEW b \in Index, ~UnderBudget \/ b \in kept \/ RepeatsKept(b)
  PROVE  /\ GoConsider([kept |-> kept, tokens |-> spent], b) = [kept |-> kept, tokens |-> spent]
         /\ RustConsider(Counted(kept, spent), b) = Counted(kept, spent)
<1>1. Counted(kept, spent).kept = Flags(kept) /\ (Flags(kept)[b] <=> b \in kept)
  BY DEF Counted, Flags
<1>2. QED
  BY <1>1, PortsBudget, GoRepeats, RustRepeats DEF GoConsider, RustConsider

LEMMA FlagRaised ==
  ASSUME NEW S, NEW t, NEW b \in Index
  PROVE  RustFlag(Counted(S, t), b) = Counted(S \cup {b}, t + text[b].tokens)
<1>1. PICK g, h : g = [Flags(S) EXCEPT ![b] = TRUE] /\ h = Flags(S \cup {b})
  OBVIOUS
<1>2. /\ g = [i \in Index |-> IF i = b THEN TRUE ELSE i \in S]
      /\ h = [i \in Index |-> i \in S \cup {b}]
  BY <1>1 DEF Flags
<1>3. ASSUME NEW i \in Index
      PROVE  (IF i = b THEN TRUE ELSE i \in S) = (i \in S \cup {b})
  <2>1. CASE i = b
    <3>1. i \in S \cup {b}
      BY <2>1
    <3>2. QED
      BY <2>1, <3>1, Zenon
  <2>2. CASE i # b
    <3>1. (i \in S \cup {b}) = (i \in S)
      BY <2>2
    <3>2. QED
      BY <2>2, <3>1, Zenon
  <2>3. QED
    BY <2>1, <2>2
<1>4. g = h
  BY <1>2, <1>3
<1>5. QED
  BY <1>1, <1>4 DEF RustFlag, Counted

LEMMA PortsKeep ==
  ASSUME text \in Texts, ratioMillis \in Ratios, kept \subseteq Index, spent = Cost(kept),
         NEW b \in Index, UnderBudget, b \notin kept, ~RepeatsKept(b),
         NEW new, new = {b} \cup Antecedent(b)
  PROVE  /\ GoConsider([kept |-> kept, tokens |-> spent], b)
              = [kept |-> kept \cup new, tokens |-> spent + Cost(new)]
         /\ RustConsider(Counted(kept, spent), b) = Counted(kept \cup new, spent + Cost(new))
<1> DEFINE acc == [kept |-> kept, tokens |-> spent]
           count == Counted(kept, spent)
<1>1. GoConsider(acc, b) = GoKeepWithPrevious(acc, b)
  BY PortsBudget, GoRepeats DEF GoConsider
<1>2. RustConsider(count, b) = RustFlagWithPrevious(count, b)
  <2>1. ~Flags(kept)[b] /\ count.kept = Flags(kept)
    BY DEF Flags, Counted
  <2>2. QED
    BY <2>1, PortsBudget, RustRepeats DEF RustConsider
<1>3. /\ text[b].tokens \in Nat /\ Cost({b}) = text[b].tokens /\ spent \in Nat
      /\ b \in Nat /\ {b} \in SUBSET Index
  <2>1. Cost({} \cup {b}) = text[b].tokens + Cost({}) /\ Cost({}) = 0
        /\ text[b].tokens \in Nat /\ spent \in Nat
    BY CostFacts
  <2>2. {} \cup {b} = {b}
    OBVIOUS
  <2>3. Cost({b}) = text[b].tokens
    BY <2>1, <2>2
  <2>4. QED
    BY <2>1, <2>3, IndexFacts
<1>4. GoKeep(acc, b) = [kept |-> kept \cup {b}, tokens |-> spent + text[b].tokens]
  BY DEF GoKeep
<1>5. CASE text[b].anaphoric /\ b > 1 /\ b - 1 \notin kept
  <2>1. PICK a : a = b - 1
    OBVIOUS
  <2>2. a \in Index /\ a # b /\ a \notin kept /\ text[a].tokens \in Nat
    <3>1. a \in Index /\ a # b
      BY <1>5, <2>1, TextFacts
    <3>2. QED
      BY <1>5, <2>1, <3>1, CostFacts
  <2>3. new = {b} \cup {a}
    BY <1>5, <2>1 DEF Antecedent
  <2>4. Cost(new) = text[a].tokens + text[b].tokens
    BY <1>3, <2>2, <2>3, CostFacts
  <2>5. GoKeepWithPrevious(acc, b) = GoKeep(GoKeep(acc, b), a)
    BY <1>5, <2>1, <2>2 DEF GoKeepWithPrevious
  <2>6. GoKeep(GoKeep(acc, b), a)
          = [kept |-> (kept \cup {b}) \cup {a}, tokens |-> (spent + text[b].tokens) + text[a].tokens]
    BY <1>4 DEF GoKeep
  <2>7. (spent + text[b].tokens) + text[a].tokens = spent + Cost(new)
    BY <1>3, <2>2, <2>4
  <2>8. (kept \cup {b}) \cup {a} = kept \cup new
    BY <2>3
  <2>9. RustFlagWithPrevious(count, b) = Counted(kept \cup new, spent + Cost(new))
    <3>1. ~count.kept[a]
      BY <2>2 DEF Counted, Flags
    <3>2. RustFlagWithPrevious(count, b) = RustFlag(RustFlag(count, b), a)
      BY <1>5, <2>1, <3>1 DEF RustFlagWithPrevious
    <3>3. RustFlag(count, b) = Counted(kept \cup {b}, spent + text[b].tokens)
      BY FlagRaised
    <3>4. RustFlag(Counted(kept \cup {b}, spent + text[b].tokens), a)
            = Counted((kept \cup {b}) \cup {a}, (spent + text[b].tokens) + text[a].tokens)
      BY <2>2, FlagRaised
    <3>5. QED
      BY <2>7, <2>8, <3>2, <3>3, <3>4
  <2>10. QED
    BY <1>1, <1>2, <2>5, <2>6, <2>7, <2>8, <2>9
<1>6. CASE ~(text[b].anaphoric /\ b > 1 /\ b - 1 \notin kept)
  <2>1. new = {b}
    BY <1>6 DEF Antecedent
  <2>2. GoKeepWithPrevious(acc, b) = GoKeep(acc, b)
    BY <1>6 DEF GoKeepWithPrevious
  <2>3. RustFlagWithPrevious(count, b) = Counted(kept \cup new, spent + Cost(new))
    <3>1. text[b].anaphoric /\ b > 1 => count.kept[b - 1]
      <4>1. text[b].anaphoric /\ b > 1 => b - 1 \in kept /\ b - 1 \in Index
        BY <1>6
      <4>2. QED
        BY <4>1 DEF Counted, Flags
    <3>2. RustFlagWithPrevious(count, b) = RustFlag(count, b)
      BY <3>1 DEF RustFlagWithPrevious
    <3>3. RustFlag(count, b) = Counted(kept \cup {b}, spent + text[b].tokens)
      BY FlagRaised
    <3>4. QED
      BY <1>3, <2>1, <3>2, <3>3
  <2>4. QED
    BY <1>1, <1>2, <1>3, <1>4, <2>1, <2>2, <2>3
<1>7. QED
  BY <1>5, <1>6

\* With the budget used up, or nothing left, the loops are at their end.
LEMMA PortsEnd ==
  ASSUME text \in Texts, ratioMillis \in Ratios, kept \subseteq Index, spent = Cost(kept),
         NEW m \in 0..Len(text), InStep(m), left = {} \/ ~UnderBudget
  PROVE  /\ GoRanked[Len(text)] = [kept |-> kept, tokens |-> spent]
         /\ RustRanked[Len(text)] = Counted(kept, spent)
<1> DEFINE n == Len(text)
           acc == [kept |-> kept, tokens |-> spent]
           T == {i \in 0..n : i >= m => GoRanked[i] = acc /\ RustRanked[i] = Counted(kept, spent)}
<1>1. n \in Nat /\ Index = 1..n
  BY TextFacts
<1>2. CASE left = {}
  BY <1>2, RemainingFacts DEF InStep
<1>3. CASE ~UnderBudget
  <2> HIDE DEF n
  <2>1. 0 \in T
    <3>1. 0 >= m => m = 0
      BY <1>1 DEF n
    <3>2. QED
      BY <1>1, <3>1 DEF InStep
  <2>2. ASSUME NEW i \in 1..n, i - 1 \in T PROVE i \in T
    <3> SUFFICES ASSUME i >= m PROVE GoRanked[i] = acc /\ RustRanked[i] = Counted(kept, spent)
      BY <1>1
    <3>1. CASE i = m
      BY <3>1 DEF InStep
    <3>2. CASE i # m
      <4>1. PICK h, b : h = i - 1 /\ b = RankedIndices[i]
        OBVIOUS
      <4>2. h >= m /\ b \in Index /\ i \in Index
        BY <1>1, <3>2, <4>1, Ranking
      <4>3. GoRanked[h] = acc /\ RustRanked[h] = Counted(kept, spent)
        BY <2>2, <4>1, <4>2
      <4>4. GoConsider(acc, b) = acc /\ RustConsider(Counted(kept, spent), b) = Counted(kept, spent)
        BY <1>3, <4>2, PortsSkip
      <4>5. GoRanked[i] = GoConsider(GoRanked[h], b) /\ RustRanked[i] = RustConsider(RustRanked[h], b)
        BY <4>1, <4>2, GoRankedRec, RustRankedRec
      <4>6. QED
        BY <4>3, <4>4, <4>5
    <3>3. QED
      BY <3>1, <3>2
  <2> HIDE DEF T
  <2>3. \A i \in 0..n : i \in T
    BY <1>1, <2>1, <2>2, InductionUpTo
  <2>4. n \in 0..n /\ n >= m
    BY <1>1 DEF n
  <2>5. QED
    BY <2>3, <2>4 DEF T, n
<1>4. QED
  BY <1>2, <1>3

-----------------------------------------------------------------------------

\* What the ports compute does not depend on how far the reference has come.
LEMMA PortsStay ==
  ASSUME UNCHANGED <<text, ratioMillis>>
  PROVE  /\ Len(text)' = Len(text) /\ Index' = Index
         /\ \A m : Remaining(m)' = Remaining(m)
         /\ \A S, t : Counted(S, t)' = Counted(S, t)
         /\ GoRanked' = GoRanked /\ RustRanked' = RustRanked
         /\ RankedIndices' = RankedIndices
<1>1. \A m : Remaining(m)' = Remaining(m)
  BY DEF Remaining, RankedIndices, Before, Index
<1>2. \A S, t : Counted(S, t)' = Counted(S, t)
  BY DEF Counted, Flags, Index
<1>3. GoRanked' = GoRanked
  BY DEF GoRanked, GoForced, GoConsider, GoSpent, GoIsRedundant, GoResembles,
         GoKeepWithPrevious, GoKeep, RankedIndices, Before, Cost, Index
<1>4. RustRanked' = RustRanked
  BY DEF RustRanked, RustConsider, RustSpent, RustIsRedundant, RustFlag,
         RustFlagWithPrevious, RankedIndices, Before, Cost, Index
<1>5. RankedIndices' = RankedIndices /\ Index' = Index
  BY DEF RankedIndices, Before, Index
<1>6. QED
  BY <1>1, <1>2, <1>3, <1>4, <1>5

LEMMA KeepProhibitionsPorts ==
  ASSUME text \in Texts, KeepProhibitions PROVE PortInv'
<1>1. /\ phase' = "rank" /\ left' = Index /\ kept' = Prohibitions
      /\ spent' = Cost(Prohibitions) /\ UNCHANGED <<text, ratioMillis>>
  BY DEF KeepProhibitions
<1>2. Remaining(0) = Index /\ 0 \in 0..Len(text)
  BY RemainingFacts, TextFacts
<1>3. GoRanked[0] = [kept |-> Prohibitions, tokens |-> Cost(Prohibitions)]
  BY GoRankedRec, GoForcedIs
<1>4. RustRanked[0] = Counted(Prohibitions, Cost(Prohibitions))
  BY RustRankedRec
<1>5. InStep(0)'
  BY <1>1, <1>2, <1>3, <1>4, PortsStay DEF InStep
<1>6. 0 \in 0..Len(text)'
  BY <1>1, <1>2, PortsStay
<1>7. QED
  BY <1>1, <1>5, <1>6 DEF PortInv, PortsKeepTheSame

LEMMA TurnPorts ==
  ASSUME text \in Texts, NEW m \in 0..Len(text), InStep(m), left # {}, phase = "rank",
         left' = left \ {Best(left)}, UNCHANGED <<text, ratioMillis, phase>>,
         GoConsider([kept |-> kept, tokens |-> spent], Best(left)) = [kept |-> kept', tokens |-> spent'],
         RustConsider(Counted(kept, spent), Best(left)) = Counted(kept', spent')
  PROVE  PortInv'
<1>1. PICK k : k = m + 1
  OBVIOUS
<1>2. /\ k \in Index /\ left' = Remaining(k)
      /\ GoRanked[k] = GoConsider(GoRanked[m], Best(left))
      /\ RustRanked[k] = RustConsider(RustRanked[m], Best(left))
  BY <1>1, NextCandidate
<1>3. GoRanked[k] = [kept |-> kept', tokens |-> spent'] /\ RustRanked[k] = Counted(kept', spent')
  BY <1>2 DEF InStep
<1>4. InStep(k)'
  BY <1>2, <1>3, PortsStay DEF InStep
<1>5. k \in 0..Len(text)'
  BY <1>2, TextFacts, PortsStay
<1>6. QED
  BY <1>4, <1>5 DEF PortInv, PortsKeepTheSame

LEMMA RankPorts ==
  ASSUME ExtractInv, BudgetInv, PortInv, phase = "rank"
  PROVE  /\ text \in Texts /\ ratioMillis \in Ratios /\ kept \subseteq Index
         /\ left \subseteq Index /\ spent = Cost(kept)
         /\ \E m \in 0..Len(text) : InStep(m)
  BY DEF ExtractInv, ShapeInv, BudgetInv, PortInv

LEMMA SkipPorts ==
  ASSUME ExtractInv, BudgetInv, PortInv, Skip PROVE PortInv'
<1>1. /\ phase = "rank" /\ left # {} /\ left' = left \ {Best(left)}
      /\ Best(left) \in kept \/ RepeatsKept(Best(left))
      /\ UNCHANGED <<text, ratioMillis, phase, kept, spent>>
  BY DEF Skip
<1>2. PICK m \in 0..Len(text) : InStep(m)
  BY <1>1, RankPorts
<1>3. /\ text \in Texts /\ ratioMillis \in Ratios /\ kept \subseteq Index
      /\ left \subseteq Index /\ spent = Cost(kept)
  BY <1>1, RankPorts
<1>4. Best(left) \in Index
  BY <1>1, <1>3, BestOutranks
<1>5. /\ GoConsider([kept |-> kept, tokens |-> spent], Best(left)) = [kept |-> kept, tokens |-> spent]
      /\ RustConsider(Counted(kept, spent), Best(left)) = Counted(kept, spent)
  BY <1>1, <1>3, <1>4, PortsSkip
<1>6. QED
  BY <1>1, <1>2, <1>3, <1>5, TurnPorts

LEMMA KeepPorts ==
  ASSUME ExtractInv, BudgetInv, PortInv, Keep PROVE PortInv'
<1>1. PICK b, new : b = Best(left) /\ new = {b} \cup Antecedent(b)
  OBVIOUS
<1>2. /\ phase = "rank" /\ left # {} /\ left' = left \ {b} /\ UnderBudget
      /\ b \notin kept /\ ~RepeatsKept(b)
      /\ kept' = kept \cup new /\ spent' = spent + Cost(new)
      /\ UNCHANGED <<text, ratioMillis, phase>>
  BY <1>1 DEF Keep
<1>3. PICK m \in 0..Len(text) : InStep(m)
  BY <1>2, RankPorts
<1>4. /\ text \in Texts /\ ratioMillis \in Ratios /\ kept \subseteq Index
      /\ left \subseteq Index /\ spent = Cost(kept)
  BY <1>2, RankPorts
<1>5. b \in Index
  BY <1>1, <1>2, <1>4, BestOutranks
<1>6. /\ GoConsider([kept |-> kept, tokens |-> spent], b)
           = [kept |-> kept \cup new, tokens |-> spent + Cost(new)]
      /\ RustConsider(Counted(kept, spent), b) = Counted(kept \cup new, spent + Cost(new))
  BY <1>1, <1>2, <1>4, <1>5, PortsKeep
<1>7. QED
  BY <1>1, <1>2, <1>3, <1>4, <1>6, TurnPorts

\* What the ports select from what they have kept.
LEMMA PortsSelect ==
  ASSUME text \in Texts, Index # {}, NEW K \in SUBSET Index, NEW s,
         GoRanked[Len(text)] = [kept |-> K, tokens |-> s],
         RustRanked[Len(text)] = Counted(K, s)
  PROVE  LET chosen == IF K = {} THEN {Best(Index)} ELSE K
         IN  GoSelect = chosen /\ RustSelect = chosen
<1>1. Best(Index) = RankedIndices[1] /\ RankedIndices[1] \in Index
  <2>1. Len(text) \in Nat /\ Index = 1..Len(text)
    BY TextFacts
  <2>2. 0 \in 0..(Len(text) - 1) /\ 0 + 1 = 1 /\ 1 \in Index
    BY <2>1
  <2>3. Remaining(0) = Index /\ Best(Remaining(0)) = RankedIndices[1]
    BY <2>2, RemainingFacts
  <2>4. QED
    BY <2>2, <2>3, Ranking
<1>2. GoSelect = IF K = {} THEN {Best(Index)} ELSE K
  BY <1>1 DEF GoSelect
<1>3. RustSelect = IF K = {} THEN {Best(Index)} ELSE K
  <2>1. RustSelect = {i \in Index : i \in K \/ (K = {} /\ i = Best(Index))}
    <3>1. \A i \in Index : RustRanked[Len(text)].kept[i] <=> i \in K
      <4>1. RustRanked[Len(text)].kept = Flags(K)
        BY DEF Counted
      <4>2. \A i \in Index : Flags(K)[i] <=> i \in K
        BY DEF Flags
      <4>3. QED
        BY <4>1, <4>2
    <3>2. (\A j \in Index : ~RustRanked[Len(text)].kept[j]) <=> K = {}
      BY <3>1
    <3>3. QED
      BY <1>1, <3>1, <3>2 DEF RustSelect
  <2>2. CASE K = {}
    BY <1>1, <2>1, <2>2
  <2>3. CASE K # {}
    BY <2>1, <2>3
  <2>4. QED
    BY <2>2, <2>3
<1>4. QED
  BY <1>2, <1>3

LEMMA FinishPorts ==
  ASSUME ExtractInv, BudgetInv, PortInv, Finish PROVE PortInv'
<1>1. /\ phase = "rank" /\ (left = {} \/ ~UnderBudget) /\ phase' = "done"
      /\ kept' = IF kept = {} /\ Index # {} THEN {Best(Index)} ELSE kept
      /\ UNCHANGED <<text, ratioMillis>>
  BY DEF Finish
<1>2. PICK m \in 0..Len(text) : InStep(m)
  BY <1>1, RankPorts
<1>3. /\ text \in Texts /\ ratioMillis \in Ratios /\ kept \subseteq Index /\ spent = Cost(kept)
  BY <1>1, RankPorts
<1>4. /\ GoRanked[Len(text)] = [kept |-> kept, tokens |-> spent]
      /\ RustRanked[Len(text)] = Counted(kept, spent)
  BY <1>1, <1>2, <1>3, PortsEnd
<1>5. ASSUME kept' # {} PROVE GoSelect = kept' /\ RustSelect = kept'
  <2>1. Index # {}
    BY <1>1, <1>3, <1>5
  <2>2. kept' = IF kept = {} THEN {Best(Index)} ELSE kept
    BY <1>1, <2>1
  <2>3. QED
    BY <1>3, <1>4, <2>1, <2>2, PortsSelect
<1>6. GoSelect' = GoSelect /\ RustSelect' = RustSelect
  <2>1. /\ Len(text)' = Len(text) /\ Index' = Index
        /\ GoRanked' = GoRanked /\ RustRanked' = RustRanked
        /\ RankedIndices' = RankedIndices
    BY <1>1, PortsStay
  <2>2. QED
    BY <1>1, <2>1 DEF GoSelect, RustSelect
<1>7. QED
  BY <1>1, <1>5, <1>6 DEF PortInv, PortsKeepTheSame

LEMMA PortNextInv ==
  ExtractInv /\ BudgetInv /\ PortInv /\ [ExtractNext]_extractVars => PortInv'
<1> SUFFICES ASSUME ExtractInv, BudgetInv, PortInv, [ExtractNext]_extractVars PROVE PortInv'
  OBVIOUS
<1>1. CASE PassThrough
  <2>1. kept = {}
    BY <1>1 DEF PassThrough, ExtractInv, ShapeInv
  <2>2. QED
    BY <1>1, <2>1 DEF PassThrough, PortInv, PortsKeepTheSame
<1>2. CASE KeepProhibitions
  BY <1>2, KeepProhibitionsPorts DEF ExtractInv, ShapeInv
<1>3. CASE Skip
  BY <1>3, SkipPorts
<1>4. CASE Keep
  BY <1>4, KeepPorts
<1>5. CASE Finish
  BY <1>5, FinishPorts
<1>6. CASE UNCHANGED extractVars
  <2>1. UNCHANGED <<text, ratioMillis, phase, left, kept, spent>>
    BY <1>6 DEF extractVars
  <2>2. /\ Len(text)' = Len(text) /\ Index' = Index
        /\ \A n : Remaining(n)' = Remaining(n) /\ \A S, t : Counted(S, t)' = Counted(S, t)
        /\ GoRanked' = GoRanked /\ RustRanked' = RustRanked
        /\ RankedIndices' = RankedIndices
    BY <2>1, PortsStay
  <2>3. CASE phase = "rank"
    <3>1. PICK m \in 0..Len(text) : InStep(m)
      BY <2>3 DEF PortInv
    <3>2. InStep(m)'
      BY <2>1, <2>2, <3>1 DEF InStep
    <3>3. m \in 0..Len(text)'
      BY <2>2
    <3>4. QED
      BY <2>1, <2>3, <3>2, <3>3 DEF PortInv, PortsKeepTheSame
  <2>4. CASE phase # "rank"
    <3>1. GoSelect' = GoSelect /\ RustSelect' = RustSelect
      BY <2>1, <2>2 DEF GoSelect, RustSelect
    <3>2. QED
      BY <2>1, <2>4, <3>1 DEF PortInv, PortsKeepTheSame
  <2>5. QED
    BY <2>3, <2>4
<1>7. QED
  BY <1>1, <1>2, <1>3, <1>4, <1>5, <1>6 DEF ExtractNext, Guard

\* Of every text that is compressed at all, whatever the ratio, the Go and the
\* Rust port keep the sentences the reference keeps: sorting first and stopping
\* early is picking the best of what is left, turn by turn.
THEOREM PortsKeepWhatIsKept == ExtractSpec => []PortsKeepTheSame
<1>1. ExtractInit => PortInv
  BY DEF ExtractInit, PortInv, PortsKeepTheSame
<1>2. PortInv => PortsKeepTheSame
  BY DEF PortInv
<1>3. ExtractSpec => [](ExtractInv /\ BudgetInv)
  BY ExtractInvariance, BudgetInitInv, BudgetNextInv, PTL DEF ExtractSpec
<1>4. ExtractSpec => []PortInv
  BY <1>1, <1>3, PortNextInv, PTL DEF ExtractSpec
<1>5. QED
  BY <1>2, <1>4, PTL
=============================================================================
