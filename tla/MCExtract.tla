------------------------------ MODULE MCExtract ------------------------------
(* Texts of up to four sentences: plain ones of three scores, a repeated one *)
(* and its variants (in a list, with another number), an anaphoric one, and  *)
(* prohibitions, one of them a repetition, one anaphoric.                    *)
EXTENDS ExtractPorts

Sentence(tokens, score, kind, shingles, digits) ==
  [tokens |-> tokens, score |-> score, prohibits |-> kind \in {"never", "soNever"},
   anaphoric |-> kind \in {"so", "soNever"}, listItem |-> kind = "item",
   shingles |-> shingles, digits |-> digits]

MCSentences ==
  {Sentence(2, 1, "plain", {"a", "b"}, {}),
   Sentence(1, 2, "plain", {"c"}, {}),
   Sentence(3, 3, "plain", {"d", "e", "f"}, {}),
   Sentence(3, 2, "plain", {"d", "e", "f"}, {"7"}),
   Sentence(2, 2, "item", {"d", "e", "f"}, {}),
   Sentence(2, 3, "so", {"g"}, {}),
   Sentence(1, 2, "so", {}, {}),
   Sentence(2, 1, "never", {"d", "e", "f"}, {}),
   Sentence(2, 2, "soNever", {"h"}, {})}

MCTexts == UNION {[1..n -> MCSentences] : n \in 1..4}
=============================================================================
