----------------------------- MODULE Normalize -----------------------------
(***************************************************************************)
(* What NormalizeStrategy does to the characters of a span                 *)
(* (ts/src/strategies.ts): line ends, terminal escapes, invisible          *)
(* characters, blank runs, white space of JSON.                            *)
(*                                                                         *)
(* A text is a sequence of characters; of a character only the classes     *)
(* that the scanners tell apart are kept, and each is named here by one    *)
(* representative.  "esc" is U+001B, "bel" U+0007, "bs" a backslash, "zw" a *)
(* zero-width space, "wj" a word joiner, "zwj" a zero-width joiner.        *)
(***************************************************************************)
EXTENDS Selection

Blanks == {"sp", "tab"}                        \* white space within a line
White == Blanks \cup {"nl", "cr"}
Params == {"0", "9", ":", ";", "?"}             \* U+0030..U+003F
Intermediates == {"sp", "!", "quote", ",", "-", "."} \* U+0020..U+002F
Finals == {"A", "[", "bs", "]", "a", "e", "g", "m", "{", "|", "}"}  \* U+0040..U+007E
Fe == {"A", "[", "bs", "]"}                      \* U+0040..U+005F
Invisible == {"zw", "wj"}

\* The first place at or after i whose character is not in S.
Skip(t, i, S) ==
  LET past[k \in i..(Len(t) + 1)] ==
        IF k <= Len(t) /\ t[k] \in S THEN past[k + 1] ELSE k
  IN  past[i]

At(t, i, S) == i <= Len(t) /\ t[i] \in S

Places(t, P(_)) == SelectSeq([i \in 1..Len(t) |-> i], P)

-----------------------------------------------------------------------------

\* Every \r becomes a line end, with the \n after it if there is one.
StripCrlf(t) ==
  Select([i \in 1..Len(t) |-> IF t[i] = "cr" THEN "nl" ELSE t[i]],
         {i \in 1..Len(t) : ~(t[i] = "nl" /\ i > 1 /\ t[i - 1] = "cr")})

\* The end of the control sequence whose "[" follows the ESC at i, or 0.
CsiEnd(t, i) ==
  LET last == Skip(t, Skip(t, i + 2, Params), Intermediates)
  IN  IF At(t, last, Finals) THEN last ELSE 0

\* (mutant) Any ESC ends the payload.
OscEndAtEsc(t, i) ==
  LET end[j \in (i + 1)..Len(t)] ==
        IF j = Len(t) \/ (j > i + 1 /\ t[j] \in {"bel", "esc"}) THEN j ELSE end[j + 1]
  IN  end[i + 1]

\* The end of the payload after the "]" at i + 1: BEL, ESC \ or the end of t.
OscEnd(t, i) ==
  LET end[j \in (i + 1)..Len(t)] ==
        IF \/ j = Len(t)
           \/ j > i + 1 /\ t[j] = "bel"
           \/ j > i + 2 /\ t[j] = "bs" /\ t[j - 1] = "esc"
        THEN j ELSE end[j + 1]
  IN  end[i + 1]

\* The last character of the escape at i; 0 if it is none.
EscapeEnd(t, i) ==
  CASE At(t, i + 1, {"["})             -> CsiEnd(t, i)
    [] At(t, i + 1, {"]"})             -> OscEnd(t, i)
    [] At(t, i + 1, Fe \ {"[", "]"})   -> i + 1
    [] OTHER                           -> 0

StripAnsi(t) ==
  LET from[i \in 1..(Len(t) + 1)] ==
        CASE i > Len(t)                               -> <<>>
          [] i <= Len(t) /\ t[i] = "esc" /\ EscapeEnd(t, i) # 0 -> from[EscapeEnd(t, i) + 1]
          [] OTHER                                    -> <<t[i]>> \o from[i + 1]
  IN  from[1]

\* ZWNJ and ZWJ stay: they are orthography.
StripInvisible(t) == Select(t, {i \in 1..Len(t) : t[i] \notin Invisible})

\* (mutant) A blank line is one without any characters.
NextBreakBare(t, i) == IF At(t, i + 1, {"nl"}) THEN i + 1 ELSE 0

\* The next line end after the one at i, if only blanks are between; else 0.
NextBreak(t, i) ==
  LET k == Skip(t, i + 1, Blanks) IN IF At(t, k, {"nl"}) THEN k ELSE 0

CollapseBlankRuns(t) ==
  LET last[i \in 1..Len(t)] == IF NextBreak(t, i) = 0 THEN i ELSE last[NextBreak(t, i)]
      from[i \in 1..(Len(t) + 1)] ==
        CASE i > Len(t)                   -> <<>>
          [] i <= Len(t) /\ t[i] # "nl"   -> <<t[i]>> \o from[i + 1]
          [] OTHER -> (IF last[i] = i THEN <<"nl">> ELSE <<"nl", "nl">>) \o from[last[i] + 1]
  IN  from[1]

-----------------------------------------------------------------------------
(* JSON's white space.                                                      *)

\* (mutant) A backslash before the closing quote is not looked at.
ScanStringNaive(s, c) ==
  [s EXCEPT !.out = Append(@, c), !.escaped = FALSE, !.inString = c # "quote"]

\* A character within a string.
ScanString(s, c) ==
  [s EXCEPT !.out = Append(@, c),
            !.escaped = ~s.escaped /\ c = "bs",
            !.inString = s.escaped \/ c # "quote"]

\* A character outside of strings; after the end of the value it is garbage.
ScanToken(s, c) ==
  LET depth == s.depth + (IF c \in {"{", "["} THEN 1 ELSE IF c \in {"}", "]"} THEN -1 ELSE 0)
  IN  [s EXCEPT !.out = Append(@, c), !.inString = c = "quote", !.depth = depth,
                !.ended = c \in {"}", "]"} /\ depth = 0,
                !.valid = @ /\ ~s.ended /\ depth >= 0]

Scan(s, c) ==
  CASE s.inString                   -> ScanString(s, c)
    [] ~s.inString /\ c \in White   -> s
    [] OTHER                        -> ScanToken(s, c)

MinifyJsonWhitespace(t) ==
  LET start == Skip(t, 1, White)
      upTo[i \in (start - 1)..Len(t)] ==
        IF i = start - 1
        THEN [out |-> <<>>, inString |-> FALSE, escaped |-> FALSE,
              depth |-> 0, ended |-> FALSE, valid |-> TRUE]
        ELSE Scan(upTo[i - 1], t[i])
      s == upTo[Len(t)]
  IN  IF At(t, start, {"{", "["}) /\ s.valid /\ ~s.inString /\ s.depth = 0 THEN s.out ELSE t

-----------------------------------------------------------------------------

\* (mutant) Blank runs are collapsed before the escapes between are gone.
NormalizeSpanEarly(t, class) ==
  CASE class = "prose"      -> StripAnsi(CollapseBlankRuns(StripInvisible(StripCrlf(t))))
    [] class = "structured" -> MinifyJsonWhitespace(StripAnsi(StripCrlf(t)))
    [] OTHER                -> StripAnsi(StripCrlf(t))

NormalizeSpan(t, class) ==
  LET plain == StripAnsi(StripCrlf(t))
  IN  CASE class = "prose"      -> CollapseBlankRuns(StripInvisible(plain))
        [] class = "structured" -> MinifyJsonWhitespace(plain)
        [] OTHER                -> plain
=============================================================================
