------------------------------- MODULE Texts -------------------------------
(***************************************************************************)
(* The algorithms on characters, against what they promise: a text of some *)
(* kind grows character by character, or as the tokens of a JSON value     *)
(* with white space between, and the promises are looked at at every       *)
(* length.                                                                 *)
(***************************************************************************)
EXTENDS Segment

CONSTANTS
  Alphabet,    \* Alphabet[k]: the characters that texts of kind k are written in
  MaxText,     \* MaxText[k]: bound of the model: characters of a text of kind k
  JsonTokens,  \* the tokens of JSON values, as texts
  MaxTokens,   \* bound of the model: tokens of a value
  Escapes      \* terminal escapes that may be strewn into a text

\* A string of JSON: only the quote that no backslash escapes ends it.
IsString(token) ==
  /\ Len(token) >= 2 /\ token[1] = "quote" /\ token[Len(token)] = "quote"
  /\ \E escaped \in [1..Len(token) -> BOOLEAN] :
       /\ ~escaped[2] /\ ~escaped[Len(token)]
       /\ \A i \in 2..(Len(token) - 1) :
            /\ escaped[i + 1] = (token[i] = "bs" /\ ~escaped[i])
            /\ token[i] = "quote" => escaped[i]

Brackets == {"{", "}", "[", "]"}

IsToken(token) ==
  \/ \E bracket \in Brackets : token = <<bracket>>
  \/ IsString(token)
  \/ \A i \in 1..Len(token) : token[i] \notin White \cup Brackets \cup {"quote"}

\* The grammar of ECMA-48, as the comment on stripAnsi has it.
IsEscape(e) ==
  \/ /\ Len(e) = 2 /\ e[1] = "esc" /\ e[2] \in Fe \ {"[", "]"}
  \/ /\ Len(e) >= 3 /\ e[1] = "esc" /\ e[2] = "[" /\ e[Len(e)] \in Finals
     /\ \E k \in 2..(Len(e) - 1) :
          /\ \A j \in 3..k : e[j] \in Params
          /\ \A j \in (k + 1)..(Len(e) - 1) : e[j] \in Intermediates
  \/ /\ Len(e) >= 3 /\ e[1] = "esc" /\ e[2] = "]"
     /\ \/ e[Len(e)] = "bel"
        \/ Len(e) >= 4 /\ e[Len(e) - 1] = "esc" /\ e[Len(e)] = "bs"
     /\ \A j \in 3..(Len(e) - 1) : e[j] # "bel"
     /\ \A j \in 3..(Len(e) - 2) : ~(e[j] = "esc" /\ e[j + 1] = "bs")

ASSUME TextsAssumption ==
  /\ JsonTokens \subseteq Seq(STRING) /\ \A token \in JsonTokens : IsToken(token)
  /\ Escapes \subseteq Seq(STRING) /\ \A e \in Escapes : IsEscape(e)

Kinds == DOMAIN Alphabet \cup {"json"}

VARIABLES
  kind,  \* what is being written
  text,  \* what has been written
  bare   \* JSON: its tokens, without the white space between

textVars == <<kind, text, bare>>

TextInit == kind \in Kinds /\ text = <<>> /\ bare = <<>>

Write(c) ==
  /\ kind # "json" /\ Len(text) < MaxText[kind]
  /\ text' = Append(text, c)
  /\ UNCHANGED <<kind, bare>>

Depth(tokens) ==
  Cardinality({n \in 1..Len(tokens) : tokens[n] \in {<<"{">>, <<"[">>}})
  - Cardinality({n \in 1..Len(tokens) : tokens[n] \in {<<"}">>, <<"]">>}})

\* A value is a bracket, closed at its end; two numbers never meet.
WriteToken(token, gap) ==
  /\ kind = "json" /\ Len(bare) < MaxTokens
  /\ IF bare = <<>> THEN token \in {<<"{">>, <<"[">>} ELSE Depth(bare) > 0
  /\ token = <<"9">> => Last(bare) # token
  /\ text' = text \o gap \o token
  /\ bare' = Append(bare, token)
  /\ UNCHANGED kind

TextNext ==
  \/ kind # "json" /\ \E c \in Alphabet[kind] : Write(c)
  \/ \E token \in JsonTokens, gap \in {<<>>, <<"sp">>} : WriteToken(token, gap)

TextSpec == TextInit /\ [][TextNext]_textVars

-----------------------------------------------------------------------------

Prefix(t, n) == SubSeq(t, 1, n)
Rest(t, n) == SubSeq(t, n + 1, Len(t))
Classes == {"prose", "structured", "code"}

\* The first ESC of a text goes with the escape it begins, if it begins one,
\* with all that follows if it opens a payload that never ends, and stays
\* otherwise; and so on with the rest.
EscapesGo ==
  kind = "terminal" => \A i \in 1..Len(text) :
    text[i] = "esc" /\ (\A j \in 1..(i - 1) : text[j] # "esc") =>
      LET before == Prefix(text, i - 1)
          ends   == {n \in (i + 1)..Len(text) : IsEscape(SubSeq(text, i, n))}
      IN  StripAnsi(text) =
            CASE ends # {} -> before \o StripAnsi(Rest(text, CHOOSE n \in ends : TRUE))
              [] ends = {} /\ At(text, i + 1, {"]"}) -> before
              [] OTHER -> Append(before, "esc") \o StripAnsi(Rest(text, i))

\* CRLF and ANSI variants of the same output normalize to the same text, so
\* that dedup sees the repeat: wherever an escape is strewn in, and whichever
\* line ends are used.
VariantsAgree ==
  LET crlf == FlattenSeq([i \in 1..Len(text) |->
                IF text[i] = "nl" THEN <<"cr", "nl">> ELSE <<text[i]>>])
      normal == [class \in Classes |-> NormalizeSpan(text, class)]
      Agrees(variant) == \A class \in Classes : NormalizeSpan(variant, class) = normal[class]
  IN  kind = "paragraphs" /\ (\A i \in 1..Len(text) : text[i] \notin {"cr", "esc"}) =>
        /\ Agrees(crlf)
        /\ \A i \in 0..Len(text), e \in Escapes : Agrees(Prefix(text, i) \o e \o Rest(text, i))

\* The lines of t with text, in the form given, and whether blank lines are
\* between each and the line before it.
Shape(t, Form(_)) ==
  LET raw   == RawLines(t)
      lines == Places(raw, LAMBDA n : Trim(raw[n]) # <<>>)
  IN  [l \in 1..Len(lines) |->
         <<Form(raw[lines[l]]), l > 1 /\ lines[l] > lines[l - 1] + 1>>]

\* Collapsing blank runs keeps every line with text, the white space at its
\* ends (markdown's hard breaks) and the paragraphs, and leaves no two blank
\* lines together between them.
BlankRunsOnly ==
  LET t    == StripCrlf(StripInvisible(text))
      out  == CollapseBlankRuns(t)
      raw  == RawLines(out)
      Same(line) == line
  IN  kind = "paragraphs" =>
        /\ Shape(out, Same) = Shape(t, Same)
        /\ \A n \in 2..(Len(raw) - 2) :
             Trim(raw[n]) = <<>> /\ Trim(raw[n + 1]) = <<>> =>
               \A m \in 1..n : Trim(raw[m]) = <<>>

\* JSON loses the white space between its tokens and nothing else; a value
\* that is not complete is left alone.
MinifyIsLossless ==
  kind = "json" =>
    MinifyJsonWhitespace(text) =
      IF bare # <<>> /\ Depth(bare) = 0 THEN FlattenSeq(bare) ELSE text

\* Whichever sentences of a text are kept, those of a line stay together in a
\* line of their own, and no visible character is lost, moved or doubled; when
\* all are kept, the paragraphs are as before, and so is the token count.
SentencesSurvive ==
  LET Ink(t)    == SelectSeq(t, LAMBDA c : c \notin White)
      sentences == SegmentSentences(text)
      Inked(s)  == Ink(s.text)
      Lines(s)  == LET of == {s[n].line : n \in DOMAIN s}
                   IN  {FlattenSeq([n \in DOMAIN s |-> IF s[n].line = l THEN Inked(s[n]) ELSE <<>>]) :
                          l \in of}
      Subsequence(K) == [n \in 1..Cardinality(K) |->
                           sentences[CHOOSE k \in K : Cardinality({j \in K : j <= k}) = n]]
      whole == Rejoin(sentences)
  IN  kind = "sentences" =>
        /\ \A K \in SUBSET DOMAIN sentences :
             LET kept == Subsequence(K)
                 shape == Shape(Rejoin(kept), Ink)
             IN  {shape[l][1] : l \in DOMAIN shape} = Lines(kept)
        /\ Shape(whole, Ink) = Shape(text, Ink)
        /\ whole # <<>> => CountTokens(whole) = CountTokens(text)

\* The estimate adds up: cutting a text in two between runs changes nothing,
\* cutting a run costs at most one token; and normalizing never costs any.
CountsAddUp ==
  LET Visible(t) == \E i \in 1..Len(t) : t[i] \notin Space
      Run(c)     == CASE c \in Dense -> "dense" [] c \in Word \ Dense -> "word" [] OTHER -> "none"
      Within(i)  == Run(text[i]) = Run(text[i + 1]) /\ text[i] \in Word
      cost       == CountTokens(text)
  IN  kind = "scripts" =>
        /\ \A i \in 1..(Len(text) - 1) :
             Visible(Prefix(text, i)) /\ Visible(Rest(text, i)) =>
               CountTokens(Prefix(text, i)) + CountTokens(Rest(text, i)) - cost
                 \in (IF Within(i) THEN {0, 1} ELSE {0})
        /\ \A class \in Classes : CountTokens(NormalizeSpan(text, class)) <= cost
=============================================================================
