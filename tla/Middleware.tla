---------------------------- MODULE Middleware ----------------------------
(***************************************************************************)
(* The compression pipeline (ts/src/middleware.ts): threshold gate,        *)
(* strategies (normalize, dedup, purge), protection, routing, statistics.  *)
(*                                                                         *)
(* A message is [role, blocks, call, at].  Its blocks are the leaves of    *)
(* its content, each [kind, of, text]: a "text" is a text block, a content *)
(* that is a string, or -- when `of` is the id of a tool_result -- text    *)
(* within that result; a "use" is a tool_use with the id `of`, and what is *)
(* neither (a document, an image) may have text or not.  `call` is the id   *)
(* of OpenAI's tool_calls and tool_call_id.  `at` is a message's place in  *)
(* the conversation: the code does not know it, the properties do.         *)
(*                                                                         *)
(* Texts are opaque; what the pipeline finds in the characters of a text,  *)
(* its rewritten forms and its token count are constant functions.         *)
(***************************************************************************)
EXTENDS SequencesExt, Selection

CONSTANTS
  Text,          \* the texts
  Blank,         \* those without anything but white space
  Erred,         \* those with an error marker
  CodeLines,     \* CodeLines[t]: lines of t that look like code; a fence counts as two
  Hundreds,      \* Hundreds[t]: length of t, in hundreds of characters
  Keys,          \* Keys[t]: JSON keys in t
  Plain,         \* Plain[t]: t without CRLF and ANSI codes
  Tidied,        \* Tidied[t]: t without invisible characters and blank runs
  Minified,      \* Minified[t]: t without JSON's white space
  Extracted,     \* Extracted[t]: t after the extractive compressor
  Tokens,        \* Tokens[t]: the token count of t
  EmptyText,     \* the text of a block without any
  Placeholder,   \* the text that replaces a purged error
  Threshold,     \* trigger.thresholdTokens
  LastTurns,     \* protect.lastTurns
  AfterTurns     \* strategies.purgeErrors.afterTurns

ASSUME MiddlewareAssumption ==
  /\ {Plain, Tidied, Minified, Extracted} \subseteq [Text -> Text]
  /\ {CodeLines, Hundreds, Keys, Tokens} \subseteq [Text -> Nat]
  /\ EmptyText \in Blank /\ Blank \subseteq Text
  /\ Tokens[EmptyText] = 0 /\ Plain[EmptyText] = EmptyText
  /\ Erred \subseteq Text \ Blank /\ Placeholder \in Text
  /\ Threshold \in Nat /\ LastTurns \in Nat /\ AfterTurns \in Nat

\* getTextContent: the texts that are joined, and a sum over them.
Said(m) ==
  Select([i \in 1..Len(m.blocks) |-> m.blocks[i].text],
         {i \in 1..Len(m.blocks) : m.blocks[i].text # EmptyText})
Total(f, texts) ==
  LET upTo[i \in 0..Len(texts)] == IF i = 0 THEN 0 ELSE upTo[i - 1] + f[texts[i]]
  IN  upTo[Len(texts)]

\* What classify finds in the joined text: marks add up over the blocks.
Marks(said) ==
  {c \in {"error", "code", "structured"} :
     CASE c = "error"      -> ToSet(said) \cap Erred # {}
       [] c = "code"       -> Total(CodeLines, said) >= 2
       [] c = "structured" -> /\ Total(Hundreds, said) >= 2
                              /\ Total(Keys, said) * 10 >= Total(Hundreds, said)}

\* The first class in the order of the checks.
Classify(m) ==
  LET marks == Marks(Said(m))
  IN  IF ToSet(Said(m)) \subseteq Blank THEN "unknown"
      ELSE IF "error" \in marks THEN "error"
      ELSE IF "code" \in marks THEN "code"
      ELSE IF "structured" \in marks THEN "structured" ELSE "prose"

\* hasToolLinkage: ids of calls start at 1, and blocks of a tool call, no
\* others, carry one.
Linked(m) ==
  \/ m.call # 0 \/ m.role = "tool"
  \/ \E i \in 1..Len(m.blocks) : m.blocks[i].of # 0

CountTokens(ms) ==
  LET upTo[i \in 0..Len(ms)] == IF i = 0 THEN 0 ELSE upTo[i - 1] + Total(Tokens, Said(ms[i]))
  IN  upTo[Len(ms)]

-----------------------------------------------------------------------------
(* The strategies.                                                          *)

\* The walk that normalize, purge and extract share: the text of text blocks
\* and of tool results is rewritten, all else is left alone.
Rewrite(m, Form(_)) ==
  LET New(b) == IF b.kind = "text" THEN [b EXCEPT !.text = Form(b.text)] ELSE b
  IN  [m EXCEPT !.blocks = [i \in DOMAIN m.blocks |-> New(m.blocks[i])]]

\* normalizeSpan.
NormalForm(t, class) ==
  CASE class = "prose"      -> Tidied[Plain[t]]
    [] class = "structured" -> Minified[Plain[t]]
    [] OTHER                -> Plain[t]

\* The class of the original decides how its blocks are rewritten.
Normalize(m) ==
  LET class == Classify(m)
  IN  IF m.role = "system" THEN m ELSE Rewrite(m, LAMBDA t : NormalForm(t, class))

\* (mutants) Linked messages have a key; the key is the text alone; messages
\* without text share a key.
KeyWithLinks(m) == IF m.role = "system" THEN {} ELSE {<<m.role, Said(m)>>}
KeyWithoutRole(m) == IF m.role = "system" \/ Linked(m) THEN {} ELSE {Said(m)}
KeyOfEmpty(m) == IF m.role = "system" \/ Linked(m) THEN {} ELSE {<<m.role, Said(m)>>}

\* RepeatTracker.key: at most one key; no key for tool linkage, system
\* messages and messages without text.
Key(m) ==
  IF m.role = "system" \/ Linked(m) \/ Said(m) = <<>> THEN {} ELSE {<<m.role, Said(m)>>}

\* (mutant) The last copy is kept.
IsRepeatedLater(ms, i) == \E j \in (i + 1)..Len(ms) : Key(ms[j]) \cap Key(ms[i]) # {}

IsRepeat(ms, i) == \E j \in 1..(i - 1) : Key(ms[j]) \cap Key(ms[i]) # {}

Dedup(ms) == Select(ms, {i \in 1..Len(ms) : ~IsRepeat(ms, i)})

\* Of an errored message only the blocks with the marker are purged.
PurgeBlocks(m) == Rewrite(m, LAMBDA t : IF t \in Erred THEN Placeholder ELSE t)

Purge(ms) ==
  LET Purged(i) == /\ i <= Len(ms) - AfterTurns
                   /\ ms[i].role # "system" /\ Classify(ms[i]) = "error"
  IN  [i \in 1..Len(ms) |-> IF Purged(i) THEN PurgeBlocks(ms[i]) ELSE ms[i]]

Strategies(ms) == Purge(Dedup([i \in 1..Len(ms) |-> Normalize(ms[i])]))

-----------------------------------------------------------------------------
(* Protection, routing and statistics.                                      *)

IsProtected(ms, i) == ms[i].role = "system" \/ i > Len(ms) - LastTurns

\* (mutant) Every class is routed to the extractive compressor.
RouteAll(class) == "extract"

\* The usual routing; a class without a route falls back to verbatim.
Route(class) == IF class = "prose" THEN "extract" ELSE "verbatim"

Pick(ms, i) == IF IsProtected(ms, i) THEN "verbatim" ELSE Route(Classify(ms[i]))

\* (mutant) Whatever has a text is condensed.
ExtractAll(m) == [m EXCEPT !.blocks = [i \in DOMAIN @ |-> [@[i] EXCEPT !.text = Extracted[@]]]]

\* Extract's walk over the blocks.
Extract(m) == Rewrite(m, LAMBDA t : Extracted[t])

Compress(compressor, m) == IF compressor = "extract" THEN Extract(m) ELSE m

Finish(ms, out) ==
  [messages |-> out, inputTokens |-> CountTokens(ms), outputTokens |-> CountTokens(out)]

CompressMessages(ms) ==
  LET kept == Strategies(ms)
  IN  IF CountTokens(ms) < Threshold
      THEN Finish(ms, ms)
      ELSE Finish(ms, [i \in 1..Len(kept) |-> Compress(Pick(kept, i), kept[i])])
=============================================================================
