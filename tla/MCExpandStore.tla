--------------------------- MODULE MCExpandStore ---------------------------
(* A store of at most two entries and five characters, with contents of     *)
(* one, two, four and seven characters: the entry cap, the byte cap and an  *)
(* entry that alone exceeds the byte cap are all met within four puts.      *)
EXTENDS ExpandStore

CONSTANTS c1, c2, c4, c7

MCSize == [c \in Content |->
             CASE c = c1 -> 1 [] c = c2 -> 2 [] c = c4 -> 4 [] c = c7 -> 7]
=============================================================================
