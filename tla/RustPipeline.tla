---------------------------- MODULE RustPipeline ----------------------------
(***************************************************************************)
(* compress_messages of the Rust port (rust/src/middleware.rs,             *)
(* strategies.rs, classifier.rs): lengths are unsigned, so every           *)
(* subtraction wraps unless it is guarded.  What it finds in the           *)
(* characters of a text is taken to be what the reference finds.           *)
(***************************************************************************)
EXTENDS Middleware

CONSTANT Usize   \* the range of usize

\* usize subtraction, as a release build does it.
Minus(a, b) == (a - b) % Usize

RustClassify(m) ==
  LET said == Said(m)
      IsStructured == /\ Total(Hundreds, said) >= 2
                      /\ Total(Keys, said) * 10 >= Total(Hundreds, said)
  IN  IF ToSet(said) \subseteq Blank THEN "unknown"
      ELSE IF ToSet(said) \cap Erred # {} THEN "error"
      ELSE IF Total(CodeLines, said) >= 2 THEN "code"
      ELSE IF IsStructured THEN "structured" ELSE "prose"

\* normalize_block: None, as an empty set, stands for "unchanged".
RustNormalizeBlock(b, class) ==
  LET clean == Plain[b.text]
      out == IF class = "prose" THEN Tidied[clean]
             ELSE IF class = "structured" THEN Minified[clean] ELSE clean
  IN  IF b.kind = "text" /\ out # b.text THEN {[b EXCEPT !.text = out]} ELSE {}

\* NormalizeStrategy: a message without a changed block is handed on.
RustNormalize(m) ==
  LET class == RustClassify(m)
      New(b) == RustNormalizeBlock(b, class)
      changed == \E i \in DOMAIN m.blocks : New(m.blocks[i]) # {}
      blocks == [i \in DOMAIN m.blocks |->
                   IF New(m.blocks[i]) = {} THEN m.blocks[i]
                   ELSE CHOOSE b \in New(m.blocks[i]) : TRUE]
  IN  IF m.role # "system" /\ changed THEN [m EXCEPT !.blocks = blocks] ELSE m

\* RepeatTracker::key.
RustKey(m) ==
  IF Linked(m) \/ m.role = "system" \/ Said(m) = <<>> THEN {} ELSE {<<m.role, Said(m)>>}

\* What the tracker has seen when it comes to message i.
RustSeen(ms, i) == UNION {RustKey(ms[j]) : j \in 1..(i - 1)}

\* A filter, in the order of the list, with what the tracker has seen so far.
RustDedup(ms) ==
  Select(ms, {i \in 1..Len(ms) : RustKey(ms[i]) \cap RustSeen(ms, i) = {}})

RustPurgeBlock(b) ==
  IF b.text \in Erred /\ b.kind = "text" THEN [b EXCEPT !.text = Placeholder] ELSE b

\* What is done with message i of ms, given the cutoff.
RustPurgeOne(ms, i, cutoff) ==
  IF i - 1 >= cutoff \/ ms[i].role = "system" \/ RustClassify(ms[i]) # "error" THEN ms[i]
  ELSE [ms[i] EXCEPT !.blocks = [n \in DOMAIN @ |-> RustPurgeBlock(@[n])]]

\* (mutant) The cutoff is computed without the test for short conversations.
RustPurgeUnguarded(ms) ==
  [i \in 1..Len(ms) |-> RustPurgeOne(ms, i, Minus(Len(ms), AfterTurns))]

RustPurge(ms) ==
  IF Len(ms) <= AfterTurns THEN ms
  ELSE [i \in 1..Len(ms) |-> RustPurgeOne(ms, i, Minus(Len(ms), AfterTurns))]

\* A sum on the left, so that nothing is subtracted.
RustIsProtected(index, total, m) == m.role = "system" \/ index + LastTurns >= total

RustRoute(class) == IF class = "prose" THEN "extract" ELSE "verbatim"

RustCompressMessages(ms) ==
  LET left == RustPurge(RustDedup([i \in 1..Len(ms) |-> RustNormalize(ms[i])]))
      Pick1(i) == IF RustIsProtected(i - 1, Len(left), left[i])
                  THEN "verbatim" ELSE RustRoute(RustClassify(left[i]))
      out == [i \in 1..Len(left) |-> Compress(Pick1(i), left[i])]
  IN  IF CountTokens(ms) < Threshold
      THEN [messages |-> ms, inputTokens |-> CountTokens(ms), outputTokens |-> CountTokens(ms)]
      ELSE [messages |-> out, inputTokens |-> CountTokens(ms), outputTokens |-> CountTokens(out)]
=============================================================================
