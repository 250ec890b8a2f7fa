------------------------------ MODULE Segment ------------------------------
(***************************************************************************)
(* segmentSentences and the re-joining of kept sentences                   *)
(* (ts/src/compressors/extract.ts), over the characters of Normalize and   *)
(* Tokens: lines are hard boundaries, list and table lines stay whole, and *)
(* other lines are cut after . ! ? before a blank, unless the word before  *)
(* a dot is an abbreviation or an initial.                                 *)
(***************************************************************************)
EXTENDS Normalize, Tokens, SequencesExt

CONSTANTS
  MinSentenceChars,   \* MIN_SENTENCE_CHARS: shorter lines are not cut
  Abbreviations       \* the words after which a dot ends no sentence

Lower(w) == [i \in 1..Len(w) |-> IF w[i] = "A" THEN "a" ELSE w[i]]

Trim(t) ==
  LET inked == {i \in 1..Len(t) : t[i] \notin White}
  IN  IF inked = {} THEN <<>>
      ELSE SubSeq(t, CHOOSE i \in inked : \A j \in inked : i <= j,
                     CHOOSE i \in inked : \A j \in inked : j <= i)

\* The pieces of t between the places in cuts, each cut the end of a piece.
Pieces(t, cuts) ==
  LET ends == Places(t, LAMBDA i : i \in cuts \/ i = Len(t))
  IN  [n \in 1..Len(ends) |-> SubSeq(t, (IF n = 1 THEN 0 ELSE ends[n - 1]) + 1, ends[n])]

RawLines(t) ==
  LET closed == Pieces(Append(t, "nl"), {i \in 1..Len(t) : t[i] = "nl"})
  IN  [n \in 1..Len(closed) |-> SubSeq(closed[n], 1, Len(closed[n]) - 1)]

IsListLine(line) ==
  LET mark == Skip(line, 1, Digits)
  IN  \/ line[1] = "|"
      \/ line[1] \in {"-", "*", "+"} /\ At(line, 2, {"sp"}) /\ Len(line) > 2
      \/ mark > 1 /\ At(line, mark, {".", ")"}) /\ At(line, mark + 1, {"sp"})

\* The word that ends before the dot at i, inner dots included.
LastWordBefore(line, i) ==
  LET start[k \in 1..i] ==
        IF k > 1 /\ line[k - 1] \in Word \cup {"."} THEN start[k - 1] ELSE k
  IN  SubSeq(line, Skip(line, start[i], {"."}), i - 1)

EndsSentence(line, i) ==
  /\ line[i] \in {".", "!", "?"} /\ At(line, i + 1, Blanks)
  /\ line[i] = "." => LET word == LastWordBefore(line, i)
                      IN  Lower(word) \notin Abbreviations /\ word # <<"A">>

\* The texts of a line's sentences.
Cut(line) ==
  IF IsListLine(line) \/ Len(line) <= MinSentenceChars THEN <<line>>
  ELSE LET pieces == Pieces(line, {i \in 1..Len(line) : EndsSentence(line, i)})
       IN  SelectSeq([n \in 1..Len(pieces) |-> Trim(pieces[n])], LAMBDA p : p # <<>>)

\* (mutant) A line of blanks is not taken for a blank line.
BreaksUntrimmed(raw, n) ==
  n > 1 /\ raw[n - 1] = <<>> /\ \E m \in 1..(n - 1) : raw[m] # <<>>

\* Blank lines between the n-th line and the one with text before it.
BreaksBefore(raw, n) ==
  /\ n > 1 /\ Trim(raw[n - 1]) = <<>>
  /\ \E m \in 1..(n - 1) : Trim(raw[m]) # <<>>

SegmentSentences(t) ==
  LET raw   == RawLines(t)
      lines == Places(raw, LAMBDA n : Trim(raw[n]) # <<>>)
      Of(l, line, texts) ==
        [n \in 1..Len(texts) |->
           [text |-> texts[n], listItem |-> IsListLine(line), line |-> l - 1,
            paragraphBreak |-> BreaksBefore(raw, lines[l])]]
  IN  FlattenSeq([l \in 1..Len(lines) |->
        LET line == Trim(raw[lines[l]]) IN Of(l, line, Cut(line))])

\* How the kept sentences are put together again.
Separator(prev, cur) ==
  CASE prev.line = cur.line -> <<"sp">>
    [] prev.line # cur.line /\ cur.paragraphBreak -> <<"nl", "nl">>
    [] OTHER -> <<"nl">>

Rejoin(kept) ==
  FlattenSeq([n \in 1..Len(kept) |->
    (IF n = 1 THEN <<>> ELSE Separator(kept[n - 1], kept[n])) \o kept[n].text])
=============================================================================
