------------------------------ MODULE Selection ------------------------------
(***************************************************************************)
(* The elements of a sequence that are kept: the loops of the code that     *)
(* push what they keep, with the kept places as a set.  A recursive         *)
(* function and no SelectSeq, so that it can be reasoned about.             *)
(***************************************************************************)
EXTENDS Integers, Sequences

\* The elements of s at some places, in their order: a loop that pushes.
Select(s, places) ==
  LET upTo[i \in 0..Len(s)] ==
        IF i = 0 THEN <<>>
        ELSE IF i \in places THEN Append(upTo[i - 1], s[i]) ELSE upTo[i - 1]
  IN  upTo[Len(s)]
=============================================================================
