------------------------------- MODULE Tokens -------------------------------
(***************************************************************************)
(* The token estimate (ts/src/tokens.ts) over sequences of characters: a   *)
(* run of word characters costs a token for every four, a run of a dense   *)
(* script two for every three, and any other visible character one.        *)
(***************************************************************************)
EXTENDS Integers, Sequences

Space == {"sp", "tab", "nl", "cr", "zw"}
Dense == {"han"}
Letters == {"A", "a", "d", "e", "g", "m", "r"}
Digits == {"0", "9"}
\* The pinned rule: neither ASCII punctuation nor space nor in a block of
\* punctuation -- the invisible joiners are in none of these.
Word == Letters \cup Digits \cup Dense \cup {"wj", "zwj"}

CeilDiv(a, b) == (a + b - 1) \div b
WordCost(n) == CeilDiv(n, 4)
DenseCost(n) == CeilDiv(2 * n, 3)

\* The runs that end with a character outside of them are paid for.
Paid(s) == s.tokens + WordCost(s.wordRun) + DenseCost(s.denseRun)

\* (mutant) The dense run is not closed by a letter.
CountCharLeaky(s, c) ==
  CASE c \in Dense        -> [s EXCEPT !.tokens = @ + WordCost(s.wordRun), !.wordRun = 0, !.denseRun = @ + 1]
    [] c \in Word \ Dense -> [s EXCEPT !.wordRun = @ + 1]
    [] OTHER              -> [tokens |-> Paid(s) + (IF c \in Space THEN 0 ELSE 1), wordRun |-> 0, denseRun |-> 0]

CountChar(s, c) ==
  CASE c \in Dense        -> [s EXCEPT !.tokens = @ + WordCost(s.wordRun), !.wordRun = 0, !.denseRun = @ + 1]
    [] c \in Word \ Dense -> [s EXCEPT !.tokens = @ + DenseCost(s.denseRun), !.denseRun = 0, !.wordRun = @ + 1]
    [] OTHER              -> [tokens |-> Paid(s) + (IF c \in Space THEN 0 ELSE 1), wordRun |-> 0, denseRun |-> 0]

\* Any text that is not empty costs at least one token.
CountTokens(t) ==
  LET upTo[i \in 0..Len(t)] == IF i = 0 THEN [tokens |-> 0, wordRun |-> 0, denseRun |-> 0]
                               ELSE CountChar(upTo[i - 1], t[i])
      cost == Paid(upTo[Len(t)])
  IN  IF t = <<>> THEN 0 ELSE IF cost = 0 THEN 1 ELSE cost
=============================================================================
