---------------------------- MODULE ExpandCache ----------------------------
(***************************************************************************)
(* What the store behind the leanprompt_expand tool promises, with no      *)
(* word about byte counts, caps or ref strings.  Every put is numbered;    *)
(* `recency` lists all puts ever made, least recently used first; exactly  *)
(* the last `kept` of them can still be fetched.  A put may let any number *)
(* of the least recently used ones go, never one that was used more        *)
(* recently than one it keeps; a get brings its entry to the recent end;   *)
(* what is gone stays gone; and a fetch returns what was put, or nothing.  *)
(***************************************************************************)
EXTENDS Naturals, Sequences

CONSTANT Content

VARIABLES
  given,    \* given[i] is the content of the i-th put
  recency,  \* the numbers of all puts, least recently used first
  kept,     \* how many entries at the end of recency are still held
  answer    \* what the last operation returned

cacheVars == <<given, recency, kept, answer>>

CacheInit ==
  /\ given = <<>>
  /\ recency = <<>>
  /\ kept = 0
  /\ answer = [kind |-> "none"]

\* A fetched entry becomes the most recently used one.
MoveToEnd(s, k) ==
  [i \in 1..Len(s) |->
     IF i < k THEN s[i] ELSE IF i < Len(s) THEN s[i + 1] ELSE s[k]]

CachePut(c) ==
  /\ given' = Append(given, c)
  /\ recency' = Append(recency, Len(given) + 1)
  /\ kept' \in 0..(kept + 1)
  /\ answer' = [kind |-> "ref", id |-> Len(given) + 1]

CacheHit(p) ==
  /\ p \in (Len(recency) - kept + 1)..Len(recency)
  /\ recency' = MoveToEnd(recency, p)
  /\ answer' = [kind |-> "hit", id |-> recency[p], content |-> given[recency[p]]]
  /\ UNCHANGED <<given, kept>>

CacheMiss ==
  /\ answer' = [kind |-> "miss"]
  /\ UNCHANGED <<given, recency, kept>>

CacheNext ==
  \/ \E c \in Content : CachePut(c)
  \/ \E p \in 1..Len(recency) : CacheHit(p)
  \/ CacheMiss

CacheSpec == CacheInit /\ [][CacheNext]_cacheVars
=============================================================================
