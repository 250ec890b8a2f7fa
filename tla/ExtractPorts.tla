---------------------------- MODULE ExtractPorts ----------------------------
(***************************************************************************)
(* selectSentences of the Go port (go/extract.go) and of the Rust port     *)
(* (rust/src/compressors/extract.rs) as functions of a scored text, next   *)
(* to the reference, which Extract has as a machine.                       *)
(***************************************************************************)
EXTENDS Extract

\* The order of sort.SliceStable (Go) and sort_by (Rust).
Before(i, j) ==
  \/ text[i].score > text[j].score
  \/ text[i].score = text[j].score /\ i < j

\* The indices, the best first.
RankedIndices ==
  [r \in Index |-> CHOOSE i \in Index : Cardinality({j \in Index : Before(j, i)}) = r - 1]

-----------------------------------------------------------------------------
(* Go: kept is a slice of flags, here the set of the indices flagged.       *)

GoResembles(i, k) ==
  LET intersection == Cardinality(text[i].shingles \cap text[k].shingles)
      union == Cardinality(text[i].shingles) + Cardinality(text[k].shingles) - intersection
  IN  union > 0 /\ intersection * 100 > RedundancyPct * union

GoIsRedundant(i, kk) ==
  /\ ~text[i].listItem /\ kk # {} /\ text[i].shingles # {}
  /\ \E k \in kk : GoResembles(i, k) /\ text[i].digits = text[k].digits

GoKeep(acc, i) == [kept |-> acc.kept \cup {i}, tokens |-> acc.tokens + text[i].tokens]

\* The loop over the sentences, up to the n-th: prohibitions are kept up front.
GoForced[n \in 0..Len(text)] ==
  IF n = 0 THEN [kept |-> {}, tokens |-> 0]
  ELSE IF text[n].prohibits THEN GoKeep(GoForced[n - 1], n) ELSE GoForced[n - 1]

GoSpent(acc) == acc.tokens * 1000 >= ratioMillis * Cost(Index)

\* A candidate, and the predecessor it leans on.
GoKeepWithPrevious(acc, i) ==
  IF text[i].anaphoric /\ i > 1 /\ i - 1 \notin acc.kept
  THEN GoKeep(GoKeep(acc, i), i - 1) ELSE GoKeep(acc, i)

GoConsider(acc, i) ==
  IF GoSpent(acc) \/ i \in acc.kept \/ GoIsRedundant(i, acc.kept)
  THEN acc ELSE GoKeepWithPrevious(acc, i)

\* The loop over the ranked candidates, up to the r-th; once the budget is used
\* up the rest of them changes nothing, which is its break.
GoRanked[r \in 0..Len(text)] ==
  IF r = 0 THEN GoForced[Len(text)] ELSE GoConsider(GoRanked[r - 1], RankedIndices[r])

GoSelect ==
  LET all == GoRanked[Len(text)].kept
  IN  IF all = {} THEN {RankedIndices[1]} ELSE all

-----------------------------------------------------------------------------
(* Rust: kept is a vector of flags, with the running count kept_tokens.     *)

\* (mutant) A kept sentence is compared though its numbers differ.
RustIsRedundantInNumbers(i, kept1) ==
  \E k \in Index : kept1[k] /\ ~text[i].listItem /\ GoResembles(i, k)

RustIsRedundant(i, kept1) ==
  /\ ~text[i].listItem /\ text[i].shingles # {}
  /\ \E k \in {j \in Index : kept1[j]} :
       LET intersection == Cardinality({s \in text[i].shingles : s \in text[k].shingles})
           union == Cardinality(text[i].shingles) + Cardinality(text[k].shingles) - intersection
       IN  /\ union > 0 /\ intersection * 100 > RedundancyPct * union
           /\ text[i].digits = text[k].digits

RustSpent(acc) == acc.tokens * 1000 >= ratioMillis * Cost(Index)

\* The flag goes up, and the sentence is charged for.
RustFlag(acc, i) ==
  [kept |-> [acc.kept EXCEPT ![i] = TRUE], tokens |-> acc.tokens + text[i].tokens]

RustFlagWithPrevious(acc, i) ==
  IF text[i].anaphoric /\ i > 1 /\ ~acc.kept[i - 1]
  THEN RustFlag(RustFlag(acc, i), i - 1) ELSE RustFlag(acc, i)

RustConsider(acc, i) ==
  IF RustSpent(acc) \/ acc.kept[i] \/ RustIsRedundant(i, acc.kept)
  THEN acc ELSE RustFlagWithPrevious(acc, i)

\* Flags and tokens after the prohibitions and the first r of the ranked
\* candidates.
RustRanked[r \in 0..Len(text)] ==
  IF r = 0 THEN [kept |-> [i \in Index |-> text[i].prohibits],
                 tokens |-> Cost({i \in Index : text[i].prohibits})]
  ELSE RustConsider(RustRanked[r - 1], RankedIndices[r])

RustSelect ==
  LET all == RustRanked[Len(text)].kept
  IN  {i \in Index : all[i] \/ ((\A j \in Index : ~all[j]) /\ i = RankedIndices[1])}

-----------------------------------------------------------------------------

\* parity-spec 8: of a text that is compressed at all, both ports keep the
\* sentences the reference keeps.
PortsKeepTheSame == phase = "done" /\ kept # {} => GoSelect = kept /\ RustSelect = kept
=============================================================================
