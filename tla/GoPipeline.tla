----------------------------- MODULE GoPipeline -----------------------------
(***************************************************************************)
(* CompressMessages of the Go port (go/pipeline.go, go/classifier.go), as  *)
(* it is written there: indices from 0, loops with accumulators, and a     *)
(* configuration in which zero stands for the default.  What it finds in   *)
(* the characters of a text is taken to be what the reference finds.       *)
(***************************************************************************)
EXTENDS Middleware

\* NewMiddleware: zero stands for the default.
GoDefault(value, default) == IF value = 0 THEN default ELSE value
GoThreshold == GoDefault(Threshold, 2000)
GoLastTurns == LastTurns   \* zero by way of ProtectLastTurnsDisabled
GoAfterTurns == GoDefault(AfterTurns, 4)

\* The checks one after the other, each on the joined text.
GoClassify(m) ==
  LET said == Said(m)
  IN  IF \A i \in DOMAIN said : said[i] \in Blank THEN "unknown"
      ELSE IF \E i \in DOMAIN said : said[i] \in Erred THEN "error"
      ELSE IF Total(CodeLines, said) >= 2 THEN "code"
      ELSE IF Total(Hundreds, said) < 2 THEN "prose"
      ELSE IF Total(Keys, said) * 10 >= Total(Hundreds, said) THEN "structured" ELSE "prose"

GoNormalizeSpan(t, class) ==
  LET out == Plain[t]
  IN  CASE class = "prose"      -> Tidied[out]
        [] class = "structured" -> Minified[out]
        [] OTHER                -> out

\* normalizeBlock, and purgeBlock: a type without a case stays as it is.
GoNormalizeBlock(b, class) ==
  IF b.kind # "text" THEN b ELSE [b EXCEPT !.text = GoNormalizeSpan(@, class)]
GoPurgeBlock(b) ==
  IF b.text \notin Erred \/ b.kind # "text" THEN b ELSE [b EXCEPT !.text = Placeholder]

WithBlocks(m, Form(_)) == [m EXCEPT !.blocks = [i \in DOMAIN @ |-> Form(@[i])]]

GoNormalize(ms) ==
  [i \in 1..Len(ms) |->
     LET class == GoClassify(ms[i])
     IN  IF ms[i].role = "system" THEN ms[i]
         ELSE WithBlocks(ms[i], LAMBDA b : GoNormalizeBlock(b, class))]

\* repeatKey returns a key, and whether there is one.
GoRepeatKey(m) ==
  [key |-> <<m.role, Said(m)>>,
   ok  |-> ~Linked(m) /\ m.role # "system" /\ Said(m) # <<>>]

GoIsRepeat(seen, m) == GoRepeatKey(m).ok /\ GoRepeatKey(m).key \in seen

\* The tracker's `seen` travels along the messages.
GoDedup(ms) ==
  LET One(acc, m) ==
        [seen |-> IF GoRepeatKey(m).ok THEN acc.seen \cup {GoRepeatKey(m).key} ELSE acc.seen,
         out  |-> IF GoIsRepeat(acc.seen, m) THEN acc.out ELSE Append(acc.out, m)]
      after[i \in 0..Len(ms)] ==
        IF i = 0 THEN [seen |-> {}, out |-> <<>>] ELSE One(after[i - 1], ms[i])
  IN  after[Len(ms)].out

GoPurge(ms) ==
  LET cutoff == Len(ms) - GoAfterTurns
      Stays(i) == i - 1 >= cutoff \/ ms[i].role = "system" \/ GoClassify(ms[i]) # "error"
  IN  IF Len(ms) <= GoAfterTurns THEN ms
      ELSE [i \in 1..Len(ms) |-> IF Stays(i) THEN ms[i] ELSE WithBlocks(ms[i], GoPurgeBlock)]

GoIsProtected(index, total, m) == m.role = "system" \/ index >= total - GoLastTurns

GoRoute(class) == IF class = "prose" THEN "extract" ELSE "verbatim"

\* The loop over the messages left, with the sum of what the compressors count.
GoCompressMessages(ms) ==
  LET inputTokens == CountTokens(ms)
      left == GoPurge(GoDedup(GoNormalize(ms)))
      One(acc, i) ==
        LET compressor == IF GoIsProtected(i - 1, Len(left), left[i])
                          THEN "verbatim" ELSE GoRoute(GoClassify(left[i]))
            new == Compress(compressor, left[i])
        IN  [out |-> Append(acc.out, new), totalOut |-> acc.totalOut + Total(Tokens, Said(new))]
      after[i \in 0..Len(left)] ==
        IF i = 0 THEN [out |-> <<>>, totalOut |-> 0] ELSE One(after[i - 1], i)
      sum == after[Len(left)]
  IN  IF inputTokens < GoThreshold
      THEN [messages |-> ms, inputTokens |-> inputTokens, outputTokens |-> inputTokens]
      ELSE [messages |-> sum.out, inputTokens |-> inputTokens, outputTokens |-> sum.totalOut]
=============================================================================
