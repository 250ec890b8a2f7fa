---------------------------- MODULE Texts_proofs ----------------------------
(***************************************************************************)
(* Proofs about the algorithms on characters.                              *)
(*                                                                         *)
(* JSON (MinifyIsLossless).  The scan of minifyJsonWhitespace is a state   *)
(* that each character moves; what a text makes of it is stated by Yields, *)
(* which is shown to have exactly one result for each text and to go along *)
(* with concatenation.  Each token then moves the scan as it moves the     *)
(* list of tokens (TokenStands): it is put out as it is, a string ends     *)
(* with its own last quote and no other, a bracket moves the depth.  The   *)
(* inductive invariant JsonInv says that the scan of what is written so    *)
(* far stands where the tokens written so far do.                          *)
(*                                                                         *)
(* Terminals (EscapesGo).  StripAnsi reads a text from its end (Descends), *)
(* and what it makes of a rest of the text is what it makes of that rest   *)
(* alone (StripBehind): an escape ends as far behind its beginning         *)
(* wherever it stands.  The end that EscapeEnd finds is the one that the   *)
(* grammar knows, in each of the three forms (CsiIs, OscIs, EscapeIs).     *)
(*                                                                         *)
(* Variants (VariantsAgree).  Line ends of two texts in a row are those of *)
(* each, unless a CRLF is cut (CrlfThen), and an escape stays one when the *)
(* line ends within its payload are made the same (EscapeEnded): so the    *)
(* variants have become the text itself when StripAnsi is done with them   *)
(* (CrlfVariant, EscapeVariant), before the class of the span matters.     *)
(*                                                                         *)
(* Counts (CountsAddUp).  A count that is cheaper than another whatever    *)
(* the runs are continued with (Cheaper) stays so when both go over the    *)
(* same character, and when only the dearer one goes over one: so a text   *)
(* whose characters are drawn from another in order (Drawn) costs no more, *)
(* and each stage of normalizing draws what it leaves.  Where a text is    *)
(* cut, the counts of the two parts and of the whole stay Joined: all are  *)
(* in the run that was cut, or their runs are the same and the tokens      *)
(* differ by what the cut has cost.                                        *)
(***************************************************************************)
EXTENDS Texts, FiniteSetTheorems, SequenceTheorems, Induction, TLAPS

\* The characters that texts and their variants are written in.
Char == UNION ({{"sp", "nl", "cr"}}
                 \cup {Alphabet[k] : k \in DOMAIN Alphabet}
                 \cup {{token[i] : i \in DOMAIN token} : token \in JsonTokens}
                 \cup {{e[i] : i \in DOMAIN e} : e \in Escapes})

LEMMA WrittenInChars ==
  /\ \A token \in JsonTokens : token \in Seq(Char)
  /\ \A e \in Escapes : e \in Seq(Char)
<1>1. ASSUME NEW t, NEW S, t \in Seq(S), {t[j] : j \in DOMAIN t} \subseteq Char PROVE t \in Seq(Char)
  <2>1. Len(t) \in Nat /\ DOMAIN t = 1..Len(t) /\ t = [i \in 1..Len(t) |-> t[i]]
    BY <1>1
  <2>2. \A i \in 1..Len(t) : t[i] \in {t[j] : j \in DOMAIN t}
    BY <2>1
  <2>3. t \in [1..Len(t) -> Char]
    BY <1>1, <2>1, <2>2
  <2>4. QED
    BY <2>1, <2>3
<1>2. \A token \in JsonTokens : {token[j] : j \in DOMAIN token} \subseteq Char
  BY Zenon DEF Char
<1>3. \A e \in Escapes : {e[j] : j \in DOMAIN e} \subseteq Char
  BY Zenon DEF Char
<1>4. \A token \in JsonTokens : token \in Seq(STRING)
  BY TextsAssumption
<1>5. \A e \in Escapes : e \in Seq(STRING)
  BY TextsAssumption
<1>6. \A token \in JsonTokens : token \in Seq(Char)
  BY <1>1, <1>2, <1>4
<1>7. \A e \in Escapes : e \in Seq(Char)
  BY <1>1, <1>3, <1>5
<1>8. QED
  BY <1>6, <1>7

\* Induction from a bound down.
LEMMA InductionDownTo ==
  ASSUME NEW i \in Nat, NEW n \in Nat, NEW T, n \in T,
         \A k \in i..(n - 1) : k + 1 \in T => k \in T
  PROVE  \A k \in i..n : k \in T
<1> DEFINE U == {d \in 0..n : n - d >= i => n - d \in T}
<1>1. 0 \in U
  OBVIOUS
<1>2. ASSUME NEW d \in 1..n, d - 1 \in U PROVE d \in U
  <2> SUFFICES ASSUME n - d >= i PROVE n - d \in T
    OBVIOUS
  <2>1. PICK k : k = n - d
    OBVIOUS
  <2>2. k \in i..(n - 1) /\ n - (d - 1) = k + 1 /\ n - (d - 1) >= i
    BY <2>1
  <2>3. k + 1 \in T
    BY <1>2, <2>2
  <2>4. QED
    BY <2>1, <2>2, <2>3
<1> HIDE DEF U
<1>3. \A d \in 0..n : d \in U
  BY <1>1, <1>2, InductionUpTo
<1>4. ASSUME NEW k \in i..n PROVE k \in T
  <2>1. PICK d : d = n - k
    OBVIOUS
  <2>2. d \in 0..n /\ n - d = k /\ n - d >= i
    BY <2>1
  <2>3. QED
    BY <1>3, <2>2 DEF U
<1>5. QED
  BY <1>4

-----------------------------------------------------------------------------
(* Skip.                                                                    *)

\* What Skip has passed, and where it stands.
Skips(t, i, S, k) ==
  /\ k \in i..(Len(t) + 1)
  /\ \A j \in i..(k - 1) : t[j] \in S
  /\ k <= Len(t) => t[k] \notin S

LEMMA SkipIs ==
  ASSUME NEW t \in Seq(Char), NEW i \in 1..(Len(t) + 1), NEW S
  PROVE  Skips(t, i, S, Skip(t, i, S))
<1> DEFINE n == Len(t)
           Body(f) == [k \in i..(n + 1) |-> IF k <= n /\ t[k] \in S THEN f[k + 1] ELSE k]
           ends(k) == {j \in k..(n + 1) : j <= n => t[j] \notin S}
           least(k) == CHOOSE j \in ends(k) : \A l \in ends(k) : j <= l
           g == [k \in i..(n + 1) |-> least(k)]
           past == CHOOSE f : f = Body(f)
<1>1. n \in Nat /\ i \in Nat /\ i <= n + 1
  OBVIOUS
<1>2. Skip(t, i, S) = past[i]
  BY DEF Skip
<1> HIDE DEF n
<1>3. ASSUME NEW k \in i..(n + 1)
      PROVE  least(k) \in ends(k) /\ \A l \in ends(k) : least(k) <= l
  <2>1. n + 1 \in ends(k) /\ ends(k) \in SUBSET Nat
    BY <1>1
  <2> HIDE DEF ends
  <2>2. QED
    BY <2>1, LeastMember
<1>4. ASSUME NEW k \in i..(n + 1) PROVE g[k] = IF k <= n /\ t[k] \in S THEN g[k + 1] ELSE k
  <2>1. CASE k <= n /\ t[k] \in S
    <3>1. k + 1 \in i..(n + 1)
      BY <1>1, <2>1
    <3>2. ends(k) = ends(k + 1)
      BY <1>1, <2>1
    <3>3. g[k] = least(k) /\ g[k + 1] = least(k + 1)
      BY <3>1
    <3> HIDE DEF ends, g
    <3>4. QED
      BY <2>1, <3>2, <3>3
  <2>2. CASE ~(k <= n /\ t[k] \in S)
    <3>1. k \in ends(k) /\ \A l \in ends(k) : l \in Int /\ k <= l
      BY <1>1, <2>2
    <3>2. least(k) \in ends(k) /\ \A l \in ends(k) : least(k) <= l
      BY <1>3
    <3> HIDE DEF ends, least
    <3>3. least(k) = k
      BY <3>1, <3>2
    <3>4. QED
      BY <2>2, <3>3
  <2>3. QED
    BY <2>1, <2>2
<1> HIDE DEF least, ends
<1>5. g = Body(g)
  <2>1. DOMAIN g = i..(n + 1) /\ g = [k \in i..(n + 1) |-> g[k]]
    OBVIOUS
  <2> HIDE DEF g
  <2>2. QED
    BY <1>4, <2>1
<1> HIDE DEF Body, g
<1>6. past = Body(past)
  BY <1>5
<1> HIDE DEF past
<1>7. \A k \in i..(n + 1) : past[k] = IF k <= n /\ t[k] \in S THEN past[k + 1] ELSE k
  <2>1. \A k \in i..(n + 1) : Body(past)[k] = IF k <= n /\ t[k] \in S THEN past[k + 1] ELSE k
    BY DEF Body
  <2>2. QED
    BY <1>6, <2>1
<1> DEFINE T == {k \in i..(n + 1) : /\ past[k] \in k..(n + 1)
                                    /\ \A j \in k..(past[k] - 1) : t[j] \in S
                                    /\ past[k] <= n => t[past[k]] \notin S}
<1>8. n + 1 \in T
  <2>1. n + 1 \in i..(n + 1) /\ past[n + 1] = n + 1
    BY <1>1, <1>7
  <2>2. QED
    BY <1>1, <2>1
<1>9. ASSUME NEW k \in i..((n + 1) - 1), k + 1 \in T PROVE k \in T
  <2>1. k \in i..(n + 1) /\ k <= n /\ k \in Nat
    BY <1>1
  <2>2. CASE t[k] \in S
    <3>1. past[k] = past[k + 1]
      BY <1>7, <2>1, <2>2
    <3>2. PICK p : p = past[k + 1]
      OBVIOUS
    <3>3. /\ p \in (k + 1)..(n + 1) /\ \A j \in (k + 1)..(p - 1) : t[j] \in S
          /\ p <= n => t[p] \notin S
      BY <1>9, <3>2
    <3>4. p \in k..(n + 1) /\ \A j \in k..(p - 1) : t[j] \in S
      BY <1>1, <2>1, <2>2, <3>3
    <3>5. QED
      BY <2>1, <3>1, <3>2, <3>3, <3>4
  <2>3. CASE t[k] \notin S
    <3>1. past[k] = k
      BY <1>7, <2>1, <2>3
    <3>2. k \in k..(n + 1) /\ k..(k - 1) = {}
      BY <1>1, <2>1
    <3>3. QED
      BY <2>1, <2>3, <3>1, <3>2
  <2>4. QED
    BY <2>2, <2>3
<1> HIDE DEF T
<1>10. i \in T
  <2>1. n + 1 \in Nat /\ i \in i..(n + 1)
    BY <1>1
  <2>2. \A k \in i..(n + 1) : k \in T
    BY <1>1, <1>8, <1>9, <2>1, InductionDownTo
  <2>3. QED
    BY <2>1, <2>2
<1>11. QED
  BY <1>2, <1>10 DEF T, Skips, n

\* There is one such place.
LEMMA SkipsOnce ==
  ASSUME NEW t \in Seq(Char), NEW i \in 1..(Len(t) + 1), NEW S, NEW k, NEW l,
         Skips(t, i, S, k), Skips(t, i, S, l)
  PROVE  k = l
<1>1. Len(t) \in Nat /\ k \in Nat /\ l \in Nat /\ i \in Nat
  BY DEF Skips
<1>2. ~(k < l)
  <2> SUFFICES ASSUME k < l PROVE FALSE
    OBVIOUS
  <2>1. k \in i..(l - 1) /\ k <= Len(t)
    BY <1>1 DEF Skips
  <2>2. QED
    BY <2>1 DEF Skips
<1>3. ~(l < k)
  <2> SUFFICES ASSUME l < k PROVE FALSE
    OBVIOUS
  <2>1. l \in i..(k - 1) /\ l <= Len(t)
    BY <1>1 DEF Skips
  <2>2. QED
    BY <2>1 DEF Skips
<1>4. QED
  BY <1>1, <1>2, <1>3

-----------------------------------------------------------------------------
(* JSON.                                                                    *)

ScanState == [out : Seq(Char), inString : BOOLEAN, escaped : BOOLEAN,
              depth : Int, ended : BOOLEAN, valid : BOOLEAN]

Start == [out |-> <<>>, inString |-> FALSE, escaped |-> FALSE,
          depth |-> 0, ended |-> FALSE, valid |-> TRUE]

\* The scan of t from the state s, character by character, ends in r.
Scans(f, s, t) == f[0] = s /\ \A i \in 1..Len(t) : f[i] = Scan(f[i - 1], t[i])
Yields(s, t, r) == \E f \in [0..Len(t) -> ScanState] : Scans(f, s, t) /\ f[Len(t)] = r

\* What a character does to the state, field by field.
AfterString(s, c, r) ==
  /\ r \in ScanState /\ r.out = Append(s.out, c)
  /\ r.inString <=> (s.escaped \/ c # "quote")
  /\ r.escaped <=> (~s.escaped /\ c = "bs")
  /\ r.depth = s.depth /\ (r.ended <=> s.ended) /\ (r.valid <=> s.valid)

Weight(c) == IF c \in {"{", "["} THEN 1 ELSE IF c \in {"}", "]"} THEN -1 ELSE 0

AfterToken(s, c, r) ==
  /\ r \in ScanState /\ r.out = Append(s.out, c)
  /\ r.inString <=> c = "quote"
  /\ r.escaped <=> s.escaped
  /\ r.depth = s.depth + Weight(c)
  /\ r.ended <=> (c \in {"}", "]"} /\ r.depth = 0)
  /\ r.valid <=> (s.valid /\ ~s.ended /\ r.depth >= 0)

LEMMA ScanStringIs ==
  ASSUME NEW s \in ScanState, NEW c \in Char
  PROVE  AfterString(s, c, ScanString(s, c))
<1>0. PICK out : out = Append(s.out, c)
  OBVIOUS
<1>1. out \in Seq(Char)
  BY <1>0 DEF ScanState
<1>2. PICK a, b : a = (~s.escaped /\ c = "bs") /\ b = (s.escaped \/ c # "quote")
  OBVIOUS
<1>3. PICK r : r = ScanString(s, c)
  OBVIOUS
<1>4. r = [s EXCEPT !.out = out, !.escaped = a, !.inString = b]
  BY <1>0, <1>2, <1>3 DEF ScanString
<1>5. a \in BOOLEAN /\ b \in BOOLEAN
  BY <1>2
<1>6. /\ r \in ScanState /\ r.out = out /\ (r.escaped <=> a) /\ (r.inString <=> b)
      /\ r.depth = s.depth /\ (r.ended <=> s.ended) /\ (r.valid <=> s.valid)
  BY <1>1, <1>4, <1>5 DEF ScanState
<1>7. QED
  BY <1>0, <1>2, <1>3, <1>6 DEF AfterString

LEMMA ScanTokenIs ==
  ASSUME NEW s \in ScanState, NEW c \in Char
  PROVE  AfterToken(s, c, ScanToken(s, c))
<1>0. PICK out, w : out = Append(s.out, c) /\ w = Weight(c)
  OBVIOUS
<1>1. out \in Seq(Char)
  BY <1>0 DEF ScanState
<1>2. w \in {1, -1, 0}
  BY <1>0, Zenon DEF Weight
<1>3. PICK d \in Int : d = s.depth + w
  <2>1. s.depth \in Int /\ w \in Int
    BY <1>2 DEF ScanState
  <2>2. QED
    BY <2>1
<1>4. PICK a, b, v : /\ a = (c = "quote") /\ b = (c \in {"}", "]"} /\ d = 0)
                     /\ v = (s.valid /\ ~s.ended /\ d >= 0)
  OBVIOUS
<1>5. PICK r : r = ScanToken(s, c)
  OBVIOUS
<1>6. r = [s EXCEPT !.out = out, !.inString = a, !.depth = d, !.ended = b, !.valid = v]
  BY <1>0, <1>3, <1>4, <1>5 DEF ScanToken, Weight
<1>7. a \in BOOLEAN /\ b \in BOOLEAN /\ v \in BOOLEAN
  BY <1>4, Zenon
<1>8. /\ r \in ScanState /\ r.out = out /\ (r.inString <=> a) /\ (r.escaped <=> s.escaped)
      /\ r.depth = d /\ (r.ended <=> b) /\ (r.valid <=> v)
  <2>1. d \in Int
    OBVIOUS
  <2>2. QED
    BY <1>1, <1>6, <1>7, <2>1 DEF ScanState
<1>9. (a <=> c = "quote") /\ (b <=> (c \in {"}", "]"} /\ d = 0))
      /\ (v <=> (s.valid /\ ~s.ended /\ d >= 0))
  BY <1>4, Zenon
<1>10. QED
  BY <1>0, <1>3, <1>5, <1>8, <1>9 DEF AfterToken

LEMMA ScanType ==
  ASSUME NEW s \in ScanState, NEW c \in Char PROVE Scan(s, c) \in ScanState
<1>1. ScanString(s, c) \in ScanState /\ ScanToken(s, c) \in ScanState
  BY ScanStringIs, ScanTokenIs DEF AfterString, AfterToken
<1>2. QED
  BY <1>1 DEF Scan

LEMMA YieldsExists ==
  ASSUME NEW s \in ScanState, NEW t \in Seq(Char)
  PROVE  \E r \in ScanState : Yields(s, t, r)
<1> DEFINE n == Len(t)
           step == [i \in 1..n |-> [v \in ScanState |-> Scan(v, t[i])]]
<1>1. n \in Nat /\ step \in [1..n -> [ScanState -> ScanState]]
  BY ScanType
<1> HIDE DEF n, step
<1>2. PICK f \in [0..n -> ScanState] : Follows(f, s, n, step)
  BY <1>1, RecursionExists
<1>3. \A i \in 1..n : f[i] = Scan(f[i - 1], t[i])
  <2> SUFFICES ASSUME NEW i \in 1..n PROVE f[i] = Scan(f[i - 1], t[i])
    OBVIOUS
  <2>1. f[i - 1] \in ScanState /\ f[i] = step[i][f[i - 1]]
    BY <1>1, <1>2 DEF Follows
  <2>2. QED
    BY <2>1 DEF step
<1>4. Scans(f, s, t)
  BY <1>2, <1>3 DEF Scans, Follows, n
<1>5. n \in 0..n
  BY <1>1
<1>6. QED
  BY <1>4, <1>5 DEF Yields, n

\* There is one such state.
LEMMA YieldsOnce ==
  ASSUME NEW s, NEW t \in Seq(Char), NEW r, NEW q, Yields(s, t, r), Yields(s, t, q)
  PROVE  r = q
<1>1. PICK f, g : Scans(f, s, t) /\ f[Len(t)] = r /\ Scans(g, s, t) /\ g[Len(t)] = q
  BY DEF Yields
<1> DEFINE T == {i \in 0..Len(t) : f[i] = g[i]}
<1>2. 0 \in T /\ Len(t) \in Nat
  BY <1>1 DEF Scans
<1>3. ASSUME NEW i \in 1..Len(t), i - 1 \in T PROVE i \in T
  BY <1>1, <1>2, <1>3 DEF Scans
<1> HIDE DEF T
<1>4. \A i \in 0..Len(t) : i \in T
  BY <1>2, <1>3, InductionUpTo
<1>5. Len(t) \in T
  BY <1>2, <1>4
<1>6. QED
  BY <1>1, <1>5 DEF T

LEMMA YieldsNothing ==
  ASSUME NEW s \in ScanState PROVE Yields(s, <<>>, s)
<1> DEFINE f == [i \in 0..0 |-> s]
<1>1. f \in [0..Len(<<>>) -> ScanState] /\ f[Len(<<>>)] = s
  OBVIOUS
<1>2. Scans(f, s, <<>>)
  BY DEF Scans
<1> HIDE DEF f
<1>3. QED
  BY <1>1, <1>2 DEF Yields

\* One text after another.
LEMMA YieldsThen ==
  ASSUME NEW s \in ScanState, NEW t \in Seq(Char), NEW u \in Seq(Char), NEW r, NEW q,
         Yields(s, t, r), Yields(r, u, q)
  PROVE  Yields(s, t \o u, q)
<1>1. PICK f \in [0..Len(t) -> ScanState] : Scans(f, s, t) /\ f[Len(t)] = r
  BY DEF Yields
<1>2. PICK g \in [0..Len(u) -> ScanState] : Scans(g, r, u) /\ g[Len(u)] = q
  BY DEF Yields
<1>3. PICK n, m, w : n = Len(t) /\ m = Len(u) /\ w = t \o u
  OBVIOUS
<1>4. /\ n \in Nat /\ m \in Nat /\ Len(w) = n + m
      /\ \A i \in 1..n : w[i] = t[i]
      /\ \A i \in (n + 1)..(n + m) : w[i] = u[i - n]
  BY <1>3
<1> DEFINE h == [i \in 0..(n + m) |-> IF i <= n THEN f[i] ELSE g[i - n]]
<1>5. h \in [0..(n + m) -> ScanState]
  BY <1>1, <1>2, <1>3, <1>4
<1>6. \A i \in n..(n + m) : h[i] = g[i - n]
  <2>1. h[n] = r /\ g[n - n] = r
    BY <1>1, <1>2, <1>3, <1>4 DEF Scans
  <2>2. QED
    BY <1>4, <2>1
<1>7. ASSUME NEW i \in 1..(n + m) PROVE h[i] = Scan(h[i - 1], w[i])
  <2>1. CASE i <= n
    <3>1. i \in 1..n /\ h[i] = f[i] /\ h[i - 1] = f[i - 1]
      BY <1>4, <2>1
    <3>2. QED
      BY <1>1, <1>3, <1>4, <3>1 DEF Scans
  <2>2. CASE i > n
    <3>1. i - n \in 1..m /\ i - 1 \in n..(n + m) /\ (i - 1) - n = (i - n) - 1
      BY <1>4, <2>2
    <3>2. PICK j : j = i - 1
      OBVIOUS
    <3>3. j \in n..(n + m) /\ j - n = (i - n) - 1 /\ i \in n..(n + m)
      BY <1>4, <2>2, <3>1, <3>2
    <3>4. h[j] = g[j - n] /\ h[i] = g[i - n]
      BY <1>6, <3>3
    <3>5. h[i] = g[i - n] /\ h[i - 1] = g[(i - n) - 1]
      BY <3>2, <3>3, <3>4
    <3>6. g[i - n] = Scan(g[(i - n) - 1], u[i - n])
      BY <1>2, <1>3, <3>1 DEF Scans
    <3>7. w[i] = u[i - n]
      <4>1. i \in (n + 1)..(n + m)
        BY <1>4, <2>2
      <4>2. QED
        BY <1>4, <4>1
    <3>8. QED
      BY <3>5, <3>6, <3>7
  <2>3. QED
    BY <1>4, <2>1, <2>2
<1>8. h[0] = s /\ h[n + m] = q
  <2>1. h[0] = f[0] /\ n + m \in n..(n + m) /\ (n + m) - n = m
    BY <1>4
  <2>2. QED
    BY <1>1, <1>2, <1>3, <1>6, <2>1 DEF Scans
<1> HIDE DEF h
<1>9. Scans(h, s, w) /\ h[Len(w)] = q /\ h \in [0..Len(w) -> ScanState]
  BY <1>4, <1>5, <1>7, <1>8 DEF Scans
<1>10. QED
  BY <1>3, <1>9 DEF Yields

\* A text in two parts.
LEMMA YieldsSplit ==
  ASSUME NEW s \in ScanState, NEW t \in Seq(Char), NEW u \in Seq(Char), NEW r, Yields(s, t \o u, r)
  PROVE  \E m \in ScanState : Yields(s, t, m) /\ Yields(m, u, r)
<1>1. PICK m \in ScanState : Yields(s, t, m)
  BY YieldsExists
<1>2. PICK q \in ScanState : Yields(m, u, q)
  BY YieldsExists
<1>3. Yields(s, t \o u, q) /\ t \o u \in Seq(Char)
  BY <1>1, <1>2, YieldsThen
<1>4. q = r
  BY <1>3, YieldsOnce
<1>5. QED
  BY <1>1, <1>2, <1>4

LEMMA YieldsOne ==
  ASSUME NEW s, NEW c, NEW r, Yields(s, <<c>>, r)
  PROVE  r = Scan(s, c)
<1>1. PICK f : Scans(f, s, <<c>>) /\ f[Len(<<c>>)] = r
  BY DEF Yields
<1>2. Len(<<c>>) = 1 /\ <<c>>[1] = c /\ 1 \in 1..1 /\ 1 - 1 = 0
  OBVIOUS
<1>3. f[1] = Scan(f[1 - 1], <<c>>[1]) /\ f[0] = s /\ f[1] = r
  BY <1>1, <1>2 DEF Scans
<1>4. QED
  BY <1>2, <1>3

\* The scan does what minifyJsonWhitespace does, which starts behind the white
\* space in front.
LEMMA MinifyIs ==
  ASSUME NEW t \in Seq(Char), NEW r, Yields(Start, t, r)
  PROVE  MinifyJsonWhitespace(t) =
           IF At(t, Skip(t, 1, White), {"{", "["}) /\ r.valid /\ ~r.inString /\ r.depth = 0
           THEN r.out ELSE t
<1> DEFINE n == Len(t)
           start == Skip(t, 1, White)
           Body(f) == [i \in (start - 1)..n |->
                        IF i = start - 1 THEN Start ELSE Scan(f[i - 1], t[i])]
           upTo == CHOOSE f : f = Body(f)
<1>1. n \in Nat /\ 1 \in 1..(n + 1)
  OBVIOUS
<1>2. start \in 1..(n + 1) /\ \A j \in 1..(start - 1) : t[j] \in White
  BY <1>1, SkipIs DEF Skips
<1>3. MinifyJsonWhitespace(t) =
        LET s == upTo[n]
        IN  IF At(t, start, {"{", "["}) /\ s.valid /\ ~s.inString /\ s.depth = 0
            THEN s.out ELSE t
  BY DEF MinifyJsonWhitespace, Start
<1> HIDE DEF n, start
<1>4. PICK f \in [0..n -> ScanState] : Scans(f, Start, t) /\ f[n] = r
  BY DEF Yields, n
<1>5. \A i \in 0..(start - 1) : f[i] = Start
  <2> DEFINE T == {i \in 0..(start - 1) : f[i] = Start}
  <2>1. 0 \in T /\ start - 1 \in Nat
    BY <1>2, <1>4 DEF Scans
  <2>2. ASSUME NEW i \in 1..(start - 1), i - 1 \in T PROVE i \in T
    <3>1. i \in 1..n /\ t[i] \in White /\ f[i - 1] = Start
      BY <1>1, <1>2, <2>2
    <3>2. f[i] = Scan(Start, t[i])
      BY <1>4, <3>1 DEF Scans, n
    <3>3. QED
      BY <3>1, <3>2 DEF Scan, Start
  <2> HIDE DEF T
  <2>3. \A i \in 0..(start - 1) : i \in T
    BY <2>1, <2>2, InductionUpTo
  <2>4. QED
    BY <2>3 DEF T
<1> DEFINE g == [i \in (start - 1)..n |-> f[i]]
<1>6. g = Body(g)
  <2>1. ASSUME NEW i \in (start - 1)..n
        PROVE  g[i] = IF i = start - 1 THEN Start ELSE Scan(g[i - 1], t[i])
    <3>1. CASE i = start - 1
      BY <1>2, <1>5, <3>1
    <3>2. CASE i # start - 1
      <4>1. i \in 1..n /\ i - 1 \in (start - 1)..n
        BY <1>1, <1>2, <3>2
      <4>2. QED
        BY <1>4, <3>2, <4>1 DEF Scans, n
    <3>3. QED
      BY <3>1, <3>2
  <2>2. g = [i \in (start - 1)..n |-> g[i]]
    OBVIOUS
  <2> HIDE DEF g
  <2>3. QED
    BY <2>1, <2>2
<1> HIDE DEF g, Body
<1>7. upTo = Body(upTo)
  BY <1>6
<1> HIDE DEF upTo
<1>8. \A i \in (start - 1)..n :
        upTo[i] = IF i = start - 1 THEN Start ELSE Scan(upTo[i - 1], t[i])
  <2>1. \A i \in (start - 1)..n :
          Body(upTo)[i] = IF i = start - 1 THEN Start ELSE Scan(upTo[i - 1], t[i])
    BY DEF Body
  <2>2. QED
    BY <1>7, <2>1
<1>9. upTo[n] = r
  <2> DEFINE T == {i \in 0..n : i >= start - 1 => upTo[i] = f[i]}
  <2>1. 0 \in T
    BY <1>1, <1>2, <1>4, <1>8 DEF Scans
  <2>2. ASSUME NEW i \in 1..n, i - 1 \in T PROVE i \in T
    <3> SUFFICES ASSUME i >= start - 1 PROVE upTo[i] = f[i]
      BY <1>1
    <3>1. CASE i = start - 1
      BY <1>2, <1>5, <1>8, <3>1
    <3>2. CASE i # start - 1
      <4>1. i \in (start - 1)..n /\ i - 1 >= start - 1
        BY <1>1, <1>2, <3>2
      <4>2. upTo[i] = Scan(upTo[i - 1], t[i]) /\ upTo[i - 1] = f[i - 1]
        BY <1>8, <2>2, <3>2, <4>1
      <4>3. QED
        BY <1>4, <4>2 DEF Scans, n
    <3>3. QED
      BY <3>1, <3>2
  <2> HIDE DEF T
  <2>3. \A i \in 0..n : i \in T
    BY <1>1, <2>1, <2>2, InductionUpTo
  <2>4. n \in T /\ n >= start - 1
    BY <1>1, <1>2, <2>3
  <2>5. QED
    BY <1>4, <2>4 DEF T
<1>10. QED
  BY <1>3, <1>9 DEF start

-----------------------------------------------------------------------------
(* The tokens of JSON.                                                      *)

\* A scan that has found nothing wrong, has put out this much, and is this deep.
Scanned(s, out, depth) ==
  s \in ScanState /\ s.out = out /\ s.depth = depth /\ s.valid

\* Between the tokens, and with more to come.
Outside(s, out, depth) == Scanned(s, out, depth) /\ ~s.inString /\ ~s.escaped /\ ~s.ended

\* Within a string.
Inside(s, out, depth) == Scanned(s, out, depth) /\ s.inString /\ ~s.ended

LEMMA ScanIs ==
  ASSUME NEW s, NEW out \in Seq(Char), NEW d \in Nat, NEW c \in Char, Outside(s, out, d), c \notin White
  PROVE  AfterToken(s, c, Scan(s, c))
<1>1. s \in ScanState /\ Scan(s, c) = ScanToken(s, c)
  BY DEF Scan, Outside, Scanned
<1>2. QED
  BY <1>1, ScanTokenIs

LEMMA ScanPlain ==
  ASSUME NEW s, NEW out \in Seq(Char), NEW d \in Nat, Outside(s, out, d),
         NEW c \in Char, c \notin White \cup Brackets \cup {"quote"}
  PROVE  Outside(Scan(s, c), Append(out, c), d)
<1>1. c \notin {"{", "["} /\ c \notin {"}", "]"} /\ c \notin White /\ c # "quote"
  BY DEF Brackets
<1>2. Weight(c) = 0
  BY <1>1 DEF Weight
<1>3. PICK r : r = Scan(s, c)
  OBVIOUS
<1>4. AfterToken(s, c, r)
  BY <1>1, <1>3, ScanIs
<1>5. d + 0 = d /\ d >= 0 /\ d \in Int
  OBVIOUS
<1>6. Outside(r, Append(out, c), d)
  BY <1>1, <1>2, <1>4, <1>5 DEF AfterToken, Outside, Scanned
<1>7. QED
  BY <1>3, <1>6

LEMMA ScanQuote ==
  ASSUME NEW s, NEW out \in Seq(Char), NEW d \in Nat, Outside(s, out, d), NEW c \in Char, c = "quote"
  PROVE  Inside(Scan(s, c), Append(out, c), d) /\ ~Scan(s, c).escaped
<1>1. c \notin {"{", "["} /\ c \notin {"}", "]"} /\ c \notin White
  BY DEF White, Blanks
<1>2. Weight(c) = 0
  BY <1>1 DEF Weight
<1>3. PICK r : r = Scan(s, c)
  OBVIOUS
<1>4. AfterToken(s, c, r)
  BY <1>1, <1>3, ScanIs
<1>5. d + 0 = d /\ d >= 0 /\ d \in Int
  OBVIOUS
<1>6. Inside(r, Append(out, c), d) /\ ~r.escaped
  BY <1>1, <1>2, <1>4, <1>5 DEF AfterToken, Inside, Outside, Scanned
<1>7. QED
  BY <1>3, <1>6

LEMMA ScanInside ==
  ASSUME NEW s, NEW out \in Seq(Char), NEW d \in Nat, Inside(s, out, d), NEW c \in Char
  PROVE  /\ Scanned(Scan(s, c), Append(out, c), d) /\ ~Scan(s, c).ended
         /\ Scan(s, c).inString <=> (s.escaped \/ c # "quote")
         /\ Scan(s, c).escaped <=> (~s.escaped /\ c = "bs")
<1>1. s \in ScanState /\ Scan(s, c) = ScanString(s, c)
  BY DEF Scan, Inside, Scanned
<1>2. PICK r : r = Scan(s, c)
  OBVIOUS
<1>3. AfterString(s, c, r)
  BY <1>1, <1>2, ScanStringIs
<1>4. /\ Scanned(r, Append(out, c), d) /\ ~r.ended
      /\ r.inString <=> (s.escaped \/ c # "quote")
      /\ r.escaped <=> (~s.escaped /\ c = "bs")
  BY <1>3 DEF AfterString, Inside, Scanned
<1>5. QED
  BY <1>2, <1>4

\* One more and one less.
LEMMA OneMore == \A d \in Nat : d >= 0 /\ d + 1 \in Nat /\ d + 1 # 0 /\ (d > 0 => d - 1 \in Nat)
  OBVIOUS

\* A bracket goes one deeper or comes one back; back at the top, the value ends.
LEMMA ScanBracket ==
  ASSUME NEW s, NEW out \in Seq(Char), NEW d \in Nat, Outside(s, out, d),
         NEW c \in Char, c \in Brackets, c \in {"}", "]"} => d > 0
  PROVE  /\ Scanned(Scan(s, c), Append(out, c), d + Weight(c)) /\ d + Weight(c) \in Nat
         /\ ~Scan(s, c).inString /\ ~Scan(s, c).escaped
         /\ Scan(s, c).ended <=> d + Weight(c) = 0
<1>1. c \notin White /\ c # "quote"
  BY DEF White, Blanks, Brackets
<1>2. PICK r, w, e : r = Scan(s, c) /\ w = Weight(c) /\ e = d + w
  OBVIOUS
<1>3. AfterToken(s, c, r)
  BY <1>1, <1>2, ScanIs
<1>4. e \in Nat /\ (e = 0 => c \in {"}", "]"})
  <2>1. CASE c \in {"{", "["}
    <3>1. w = 1
      BY <1>2, <2>1 DEF Weight
    <3>2. e = d + 1
      BY <1>2, <3>1
    <3>3. e \in Nat /\ e # 0
      BY <3>2, OneMore
    <3>4. QED
      BY <3>3
  <2>2. CASE c \in {"}", "]"}
    <3>1. w = -1
      BY <1>2, <2>2 DEF Weight
    <3>2. e = d - 1 /\ d > 0
      BY <1>2, <2>2, <3>1
    <3>3. e \in Nat
      BY <3>2, OneMore
    <3>4. QED
      BY <2>2, <3>3
  <2>3. QED
    BY <2>1, <2>2 DEF Brackets
<1>5. r.depth = e
  <2>1. r.depth = s.depth + w
    BY <1>2, <1>3 DEF AfterToken
  <2>2. s.depth = d
    BY DEF Outside, Scanned
  <2>3. QED
    BY <1>2, <2>1, <2>2
<1>6. e >= 0
  BY <1>4, OneMore
<1>7. /\ Scanned(r, Append(out, c), e) /\ ~r.inString /\ ~r.escaped /\ (r.ended <=> e = 0)
  BY <1>1, <1>3, <1>4, <1>5, <1>6 DEF AfterToken, Outside, Scanned
<1>8. QED
  BY <1>2, <1>4, <1>7

\* Each character of a token that is no bracket is put out as it is.
LEMMA PutOut ==
  ASSUME NEW out \in Seq(Char), NEW token \in Seq(Char), NEW i \in 1..Len(token)
  PROVE  Append(out \o SubSeq(token, 1, i - 1), token[i]) = out \o SubSeq(token, 1, i)
<1>1. SubSeq(token, 1, i) = SubSeq(token, 1, i - 1) \o <<token[i]>>
  <2>1. 1 \in 1..Len(token) /\ i \in 1..Len(token)
    OBVIOUS
  <2>2. QED
    BY <2>1, SubSeqRecursiveSecond
<1>2. PICK a, c : a = SubSeq(token, 1, i - 1) /\ c = token[i]
  OBVIOUS
<1>3. a \in Seq(Char) /\ c \in Char /\ <<c>> \in Seq(Char)
  BY <1>2
<1>4. (out \o a) \o <<c>> = out \o (a \o <<c>>) /\ out \o a \in Seq(Char)
  BY <1>3, ConcatAssociative
<1>5. Append(out \o a, c) = (out \o a) \o <<c>>
  BY <1>3, <1>4
<1>6. QED
  BY <1>1, <1>2, <1>4, <1>5

LEMMA PlainToken ==
  ASSUME NEW s, NEW r, NEW out \in Seq(Char), NEW d \in Nat, NEW token \in Seq(Char),
         \A i \in 1..Len(token) : token[i] \notin White \cup Brackets \cup {"quote"},
         Outside(s, out, d), Yields(s, token, r)
  PROVE  Outside(r, out \o token, d)
<1> DEFINE n == Len(token)
           put(i) == out \o SubSeq(token, 1, i)
<1>1. n \in Nat /\ \A i \in 0..n : put(i) \in Seq(Char)
  OBVIOUS
<1>2. put(0) = out /\ put(n) = out \o token
  OBVIOUS
<1>3. \A i \in 1..n : Append(put(i - 1), token[i]) = put(i)
  BY PutOut
<1> HIDE DEF put
<1>4. PICK f : Scans(f, s, token) /\ f[n] = r
  BY DEF Yields
<1> DEFINE T == {i \in 0..n : Outside(f[i], put(i), d)}
<1>5. 0 \in T
  BY <1>1, <1>2, <1>4 DEF Scans
<1>6. ASSUME NEW i \in 1..n, i - 1 \in T PROVE i \in T
  <2>1. i - 1 \in 0..n /\ i \in 0..n /\ token[i] \in Char
    BY <1>1
  <2>2. Outside(Scan(f[i - 1], token[i]), Append(put(i - 1), token[i]), d)
    BY <1>1, <1>6, <2>1, ScanPlain
  <2>3. QED
    BY <1>3, <1>4, <2>1, <2>2 DEF Scans
<1> HIDE DEF T
<1>7. n \in T
  <2>1. \A i \in 0..n : i \in T
    BY <1>1, <1>5, <1>6, InductionUpTo
  <2>2. QED
    BY <1>1, <2>1
<1>8. QED
  BY <1>2, <1>4, <1>7 DEF T

LEMMA StringToken ==
  ASSUME NEW s, NEW r, NEW out \in Seq(Char), NEW d \in Nat, NEW token \in Seq(Char),
         IsString(token), Outside(s, out, d), Yields(s, token, r)
  PROVE  Outside(r, out \o token, d)
<1> DEFINE n == Len(token)
           put(i) == out \o SubSeq(token, 1, i)
<1>1. n \in Nat /\ n >= 2 /\ token[1] = "quote" /\ token[n] = "quote"
  BY DEF IsString
<1>2. PICK escaped \in [1..n -> BOOLEAN] :
        /\ ~escaped[2] /\ ~escaped[n]
        /\ \A i \in 2..(n - 1) :
             /\ escaped[i + 1] = (token[i] = "bs" /\ ~escaped[i])
             /\ token[i] = "quote" => escaped[i]
  BY DEF IsString
<1>3. \A i \in 0..n : put(i) \in Seq(Char)
  OBVIOUS
<1>4. put(0) = out /\ put(n) = out \o token
  OBVIOUS
<1>5. \A i \in 1..n : Append(put(i - 1), token[i]) = put(i)
  BY PutOut
<1>6. \A i \in 1..n : token[i] \in Char
  OBVIOUS
<1>7. PICK f : Scans(f, s, token) /\ f[n] = r
  BY DEF Yields
<1>8. f[0] = s /\ \A i \in 1..n : f[i] = Scan(f[i - 1], token[i])
  BY <1>7 DEF Scans
<1> HIDE DEF put, n
<1> DEFINE T == {i \in 0..(n - 1) : i > 0 =>
                   Inside(f[i], put(i), d) /\ (f[i].escaped <=> escaped[i + 1])}
<1>9. 0 \in T /\ n - 1 \in Nat
  BY <1>1
<1>10. ASSUME NEW i \in 1..(n - 1), i - 1 \in T PROVE i \in T
  <2>1. i \in 1..n /\ i - 1 \in 0..n /\ put(i - 1) \in Seq(Char) /\ token[i] \in Char
    BY <1>1, <1>3, <1>6
  <2>2. CASE i = 1
    <3>1. Outside(f[i - 1], put(i - 1), d)
      BY <1>4, <1>8, <2>2
    <3>2. Inside(Scan(f[i - 1], token[i]), Append(put(i - 1), token[i]), d) /\ ~Scan(f[i - 1], token[i]).escaped
      BY <1>1, <2>1, <2>2, <3>1, ScanQuote
    <3>3. Inside(f[i], put(i), d) /\ ~f[i].escaped
      BY <1>5, <1>8, <2>1, <3>2
    <3>4. i + 1 = 2
      BY <2>2
    <3>5. QED
      BY <1>2, <3>3, <3>4
  <2>3. CASE i # 1
    <3>1. i \in 2..(n - 1) /\ i - 1 > 0 /\ (i - 1) + 1 = i
      BY <1>1, <2>3
    <3>2. Inside(f[i - 1], put(i - 1), d) /\ (f[i - 1].escaped <=> escaped[i])
      BY <1>10, <3>1
    <3>3. /\ Scanned(f[i], put(i), d) /\ ~f[i].ended
          /\ f[i].inString <=> (f[i - 1].escaped \/ token[i] # "quote")
          /\ f[i].escaped <=> (~f[i - 1].escaped /\ token[i] = "bs")
      <4>1. /\ Scanned(Scan(f[i - 1], token[i]), Append(put(i - 1), token[i]), d)
            /\ ~Scan(f[i - 1], token[i]).ended
            /\ Scan(f[i - 1], token[i]).inString <=> (f[i - 1].escaped \/ token[i] # "quote")
            /\ Scan(f[i - 1], token[i]).escaped <=> (~f[i - 1].escaped /\ token[i] = "bs")
        BY <2>1, <3>2, ScanInside
      <4>2. f[i] = Scan(f[i - 1], token[i]) /\ Append(put(i - 1), token[i]) = put(i)
        BY <1>5, <1>8, <2>1
      <4>3. QED
        BY <4>1, <4>2
    <3>4. (escaped[i + 1] <=> (token[i] = "bs" /\ ~escaped[i])) /\ (token[i] = "quote" => escaped[i])
      BY <1>2, <3>1
    <3>5. f[i].inString /\ (f[i].escaped <=> escaped[i + 1])
      BY <3>2, <3>3, <3>4
    <3>6. QED
      BY <3>3, <3>5 DEF Inside
  <2>4. QED
    BY <2>2, <2>3
<1> HIDE DEF T
<1>11. n - 1 \in T
  <2>1. \A i \in 0..(n - 1) : i \in T
    BY <1>9, <1>10, InductionUpTo
  <2>2. QED
    BY <1>9, <2>1
<1>12. PICK m : m = n - 1
  OBVIOUS
<1>13. Inside(f[m], put(m), d) /\ ~f[m].escaped
  <2>1. m > 0 /\ m + 1 = n
    BY <1>1, <1>12
  <2>2. QED
    BY <1>2, <1>11, <1>12, <2>1 DEF T
<1>14. /\ Scanned(Scan(f[m], token[n]), Append(put(m), token[n]), d)
       /\ ~Scan(f[m], token[n]).ended
       /\ Scan(f[m], token[n]).inString <=> (f[m].escaped \/ token[n] # "quote")
       /\ Scan(f[m], token[n]).escaped <=> (~f[m].escaped /\ token[n] = "bs")
  <2>1. m \in 0..n /\ n \in 1..n
    BY <1>1, <1>12
  <2>2. QED
    BY <1>3, <1>6, <1>13, <2>1, ScanInside
<1>15. r = Scan(f[m], token[n]) /\ Append(put(m), token[n]) = out \o token
  <2>1. n \in 1..n /\ n - 1 = m
    BY <1>1, <1>12
  <2>2. QED
    BY <1>4, <1>5, <1>7, <1>8, <2>1
<1>16. token[n] # "bs"
  BY <1>1
<1>17. QED
  BY <1>1, <1>13, <1>14, <1>15, <1>16 DEF Outside

-----------------------------------------------------------------------------
(* The tokens of a value, one after another.                                *)

\* FlattenSeq, as a function of the number of texts.
Flattens(f, s) ==
  /\ f[0] = <<>> /\ FlattenSeq(s) = f[Len(s)]
  /\ \A i \in 1..Len(s) : f[i] = f[i - 1] \o s[i]

LEMMA FlattenRec ==
  ASSUME NEW s \in Seq(Seq(Char))
  PROVE  \E f \in [0..Len(s) -> Seq(Char)] : Flattens(f, s)
<1> DEFINE n == Len(s)
           V == Seq(Char)
           step == [i \in 1..n |-> [v \in V |-> v \o s[i]]]
           Body(f) == [i \in 1..n |-> IF i = 1 THEN s[i] ELSE f[i - 1] \o s[i]]
           flatten == CHOOSE f : f = Body(f)
<1>1. n \in Nat /\ <<>> \in V /\ step \in [1..n -> [V -> V]]
  OBVIOUS
<1>2. FlattenSeq(s) = IF n = 0 THEN s ELSE flatten[n]
  BY DEF FlattenSeq
<1>3. \A i \in 1..n : s[i] \in V
  OBVIOUS
<1>4. n = 0 => s = <<>>
  OBVIOUS
<1> HIDE DEF n, step, V
<1>5. PICK f \in [0..n -> V] : Follows(f, <<>>, n, step)
  BY <1>1, RecursionExists
<1>6. f[0] = <<>> /\ \A i \in 1..n : f[i] = f[i - 1] \o s[i]
  <2> SUFFICES ASSUME NEW i \in 1..n PROVE f[i] = f[i - 1] \o s[i]
    BY <1>5 DEF Follows
  <2>1. f[i - 1] \in V /\ f[i] = step[i][f[i - 1]]
    BY <1>1, <1>5 DEF Follows
  <2>2. QED
    BY <2>1 DEF step
<1>first. \A i \in 1..n : i = 1 => f[i] = s[i]
  <2> SUFFICES ASSUME NEW i \in 1..n, i = 1 PROVE f[i] = s[i]
    OBVIOUS
  <2>1. s[i] \in V /\ f[i] = f[i - 1] \o s[i]
    BY <1>3, <1>6
  <2>2. f[i - 1] = <<>>
    <3>1. i - 1 = 0
      OBVIOUS
    <3>2. QED
      BY <1>6, <3>1
  <2>3. <<>> \o s[i] = s[i]
    BY <2>1 DEF V
  <2>4. QED
    BY <2>1, <2>2, <2>3
<1> DEFINE g == [i \in 1..n |-> f[i]]
<1>7. g = Body(g)
  <2>1. ASSUME NEW i \in 1..n PROVE g[i] = IF i = 1 THEN s[i] ELSE g[i - 1] \o s[i]
    <3>1. CASE i = 1
      BY <1>first, <3>1
    <3>2. CASE i # 1
      <4>1. i - 1 \in 1..n
        BY <1>1, <3>2
      <4>2. QED
        BY <1>6, <3>2, <4>1
    <3>3. QED
      BY <3>1, <3>2
  <2>2. g = [i \in 1..n |-> g[i]]
    OBVIOUS
  <2> HIDE DEF g
  <2>3. QED
    BY <2>1, <2>2
<1> HIDE DEF g, Body
<1>8. flatten = Body(flatten)
  BY <1>7
<1> HIDE DEF flatten
<1>9. \A i \in 1..n : flatten[i] = IF i = 1 THEN s[i] ELSE flatten[i - 1] \o s[i]
  <2>1. \A i \in 1..n : Body(flatten)[i] = IF i = 1 THEN s[i] ELSE flatten[i - 1] \o s[i]
    BY DEF Body
  <2>2. QED
    BY <1>8, <2>1
<1>10. \A i \in 0..n : i > 0 => flatten[i] = f[i]
  <2> DEFINE T == {i \in 0..n : i > 0 => flatten[i] = f[i]}
  <2>1. 0 \in T
    BY <1>1
  <2>2. ASSUME NEW i \in 1..n, i - 1 \in T PROVE i \in T
    <3>1. CASE i = 1
      BY <1>1, <1>first, <1>9, <3>1
    <3>2. CASE i # 1
      <4>1. i - 1 > 0 /\ i \in 0..n
        BY <1>1, <3>2
      <4>2. QED
        BY <1>6, <1>9, <2>2, <3>2, <4>1
    <3>3. QED
      BY <3>1, <3>2
  <2> HIDE DEF T
  <2>3. \A i \in 0..n : i \in T
    BY <1>1, <2>1, <2>2, InductionUpTo
  <2>4. QED
    BY <2>3 DEF T
<1>11. FlattenSeq(s) = f[n]
  <2>1. CASE n = 0
    BY <1>2, <1>4, <1>6, <2>1
  <2>2. CASE n # 0
    <3>1. n \in 0..n /\ n > 0
      BY <1>1, <2>2
    <3>2. QED
      BY <1>2, <1>10, <2>2, <3>1
  <2>3. QED
    BY <2>1, <2>2
<1>12. QED
  BY <1>5, <1>6, <1>11 DEF Flattens, n, V

LEMMA FlattenAppend ==
  ASSUME NEW s \in Seq(Seq(Char)), NEW t \in Seq(Char)
  PROVE  /\ FlattenSeq(s) \in Seq(Char)
         /\ FlattenSeq(Append(s, t)) = FlattenSeq(s) \o t
<1>1. PICK f \in [0..Len(s) -> Seq(Char)] : Flattens(f, s)
  BY FlattenRec
<1>2. PICK w, n, m : w = Append(s, t) /\ n = Len(s) /\ m = Len(w)
  OBVIOUS
<1>3. /\ w \in Seq(Seq(Char)) /\ n \in Nat /\ m = n + 1
      /\ \A i \in 1..n : w[i] = s[i]
      /\ w[m] = t
  BY <1>2
<1>4. PICK g \in [0..Len(w) -> Seq(Char)] : Flattens(g, w)
  BY <1>3, FlattenRec
<1> DEFINE T == {i \in 0..n : f[i] = g[i]}
<1>5. 0 \in T
  BY <1>1, <1>3, <1>4 DEF Flattens
<1>6. ASSUME NEW i \in 1..n, i - 1 \in T PROVE i \in T
  <2>1. i \in 1..Len(w) /\ i \in 0..n /\ i \in 1..Len(s)
    BY <1>2, <1>3
  <2>2. f[i] = f[i - 1] \o s[i] /\ g[i] = g[i - 1] \o w[i]
    BY <1>1, <1>4, <2>1 DEF Flattens
  <2>3. QED
    BY <1>3, <1>6, <2>1, <2>2
<1> HIDE DEF T
<1>7. n \in T
  <2>1. \A i \in 0..n : i \in T
    BY <1>3, <1>5, <1>6, InductionUpTo
  <2>2. QED
    BY <1>3, <2>1
<1>8. f[n] = g[n]
  BY <1>7 DEF T
<1>9. g[m] = g[m - 1] \o w[m]
  <2>1. m \in 1..Len(w)
    BY <1>2, <1>3
  <2>2. QED
    BY <1>4, <2>1 DEF Flattens
<1>10. m - 1 = n /\ n \in 0..Len(s)
  BY <1>2, <1>3
<1>11. FlattenSeq(s) = f[n] /\ FlattenSeq(w) = g[m]
  BY <1>1, <1>2, <1>4 DEF Flattens
<1>12. QED
  BY <1>1, <1>2, <1>3, <1>8, <1>9, <1>10, <1>11

\* How many members of a list are of a kind, when one is added to it.
Count(w, K) == Cardinality({n \in 1..Len(w) : w[n] \in K})

LEMMA CountAppend ==
  ASSUME NEW V, NEW s \in Seq(V), NEW t \in V, NEW K
  PROVE  /\ Count(s, K) \in Nat
         /\ Count(Append(s, t), K) = Count(s, K) + (IF t \in K THEN 1 ELSE 0)
<1> DEFINE Of(w) == {n \in 1..Len(w) : w[n] \in K}
<1>1. PICK w, n : w = Append(s, t) /\ n = Len(s)
  OBVIOUS
<1>2. n \in Nat /\ Len(w) = n + 1 /\ (\A i \in 1..n : w[i] = s[i]) /\ w[n + 1] = t
  BY <1>1
<1>3. Of(w) = IF t \in K THEN Of(s) \cup {n + 1} ELSE Of(s)
  <2>1. \A i : i \in 1..(n + 1) <=> i \in 1..n \/ i = n + 1
    BY <1>2
  <2>2. \A i : i \in Of(w) <=> i \in 1..(n + 1) /\ w[i] \in K
    BY <1>2
  <2>3. \A i : i \in Of(s) <=> i \in 1..n /\ s[i] \in K
    BY <1>1
  <2> HIDE DEF Of
  <2>4. QED
    BY <1>2, <2>1, <2>2, <2>3
<1>4. IsFiniteSet(Of(s)) /\ n + 1 \notin Of(s)
  <2>1. IsFiniteSet(1..n) /\ Of(s) \subseteq 1..n
    BY <1>1, <1>2, FS_Interval
  <2>2. n + 1 \notin 1..n
    BY <1>2
  <2> HIDE DEF Of
  <2>3. QED
    BY <2>1, <2>2, FS_Subset
<1> HIDE DEF Of
<1>5. Cardinality(Of(s)) \in Nat /\ Cardinality(Of(s) \cup {n + 1}) = Cardinality(Of(s)) + 1
  BY <1>4, FS_CardinalityType, FS_AddElement
<1>6. Cardinality(Of(w)) = Cardinality(Of(s)) + (IF t \in K THEN 1 ELSE 0)
  BY <1>3, <1>5
<1>7. QED
  BY <1>1, <1>5, <1>6 DEF Of, Count

-----------------------------------------------------------------------------
(* The invariant of a JSON value.                                           *)

Openers == {<<"{">>, <<"[">>}
Closers == {<<"}">>, <<"]">>}

Opening == {"{", "["}

\* The text begins with a bracket, behind white space.
Opens(t) == \E k \in 1..Len(t) : t[k] \in Opening /\ \A j \in 1..(k - 1) : t[j] \in White

\* The scan of a text stands where the tokens do: it has put them out, and it
\* has ended exactly when the last bracket is closed.
Stands(r, tokens) ==
  /\ Scanned(r, FlattenSeq(tokens), Depth(tokens))
  /\ ~r.inString /\ ~r.escaped
  /\ r.ended <=> tokens # <<>> /\ Depth(tokens) = 0

JsonInv ==
  /\ kind \in Kinds /\ bare \in Seq(JsonTokens) /\ text \in Seq(Char)
  /\ kind = "json" =>
       /\ Depth(bare) \in Nat
       /\ \A r : Yields(Start, text, r) => Stands(r, bare)
       /\ IF bare = <<>> THEN text = <<>> ELSE Opens(text)

LEMMA BracketTokens ==
  /\ \A t \in Openers : \E c \in {"{", "["} : t = <<c>>
  /\ \A t \in Closers : \E c \in {"}", "]"} : t = <<c>>
  /\ \A t : ~(t \in Openers /\ t \in Closers)
<1>1. \A t \in Openers : \E c \in {"{", "["} : t = <<c>>
  BY DEF Openers
<1>2. \A t \in Closers : \E c \in {"}", "]"} : t = <<c>>
  BY DEF Closers
<1>3. ASSUME NEW t, t \in Openers, t \in Closers PROVE FALSE
  <2>1. PICK c : c \in {"{", "["} /\ t = <<c>>
    BY <1>1, <1>3
  <2>2. PICK d : d \in {"}", "]"} /\ t = <<d>>
    BY <1>2, <1>3
  <2>3. c = d
    <3>1. <<c>>[1] = c /\ <<d>>[1] = d
      OBVIOUS
    <3>2. QED
      BY <2>1, <2>2, <3>1
  <2>4. QED
    BY <2>1, <2>2, <2>3
<1>4. QED
  BY <1>1, <1>2, <1>3

\* The depth goes by the tokens.
LEMMA DepthAppend ==
  ASSUME NEW V, NEW s \in Seq(V), NEW t \in V
  PROVE  /\ Depth(s) \in Int
         /\ t \in Openers => Depth(Append(s, t)) = Depth(s) + 1
         /\ t \in Closers => Depth(Append(s, t)) = Depth(s) - 1
         /\ t \notin Openers \cup Closers => Depth(Append(s, t)) = Depth(s)
<1>1. PICK w : w = Append(s, t)
  OBVIOUS
<1>2. \A K : Count(s, K) \in Nat /\ Count(w, K) = Count(s, K) + (IF t \in K THEN 1 ELSE 0)
  BY <1>1, CountAppend
<1>3. Depth(s) = Count(s, Openers) - Count(s, Closers) /\ Depth(w) = Count(w, Openers) - Count(w, Closers)
  BY DEF Depth, Openers, Closers, Count
<1>4. PICK a, b : a = Count(s, Openers) /\ b = Count(s, Closers)
  OBVIOUS
<1>5. a \in Nat /\ b \in Nat
  BY <1>2, <1>4
<1>6. Depth(s) = a - b /\ Depth(s) \in Int
  BY <1>3, <1>4, <1>5
<1>7. ~(t \in Openers /\ t \in Closers)
  BY BracketTokens
<1>8. CASE t \in Openers
  <2>1. Count(w, Openers) = a + 1 /\ Count(w, Closers) = b + 0
    BY <1>2, <1>4, <1>7, <1>8
  <2>2. Depth(w) = Depth(s) + 1
    BY <1>3, <1>5, <1>6, <2>1
  <2>3. QED
    BY <1>1, <1>6, <1>7, <1>8, <2>2
<1>9. CASE t \in Closers
  <2>1. Count(w, Openers) = a + 0 /\ Count(w, Closers) = b + 1
    BY <1>2, <1>4, <1>7, <1>9
  <2>2. Depth(w) = Depth(s) - 1
    BY <1>3, <1>5, <1>6, <2>1
  <2>3. QED
    BY <1>1, <1>6, <1>7, <1>9, <2>2
<1>10. CASE t \notin Openers \cup Closers
  <2>1. Count(w, Openers) = a + 0 /\ Count(w, Closers) = b + 0
    BY <1>2, <1>4, <1>10
  <2>2. Depth(w) = Depth(s)
    BY <1>3, <1>5, <1>6, <2>1
  <2>3. QED
    BY <1>1, <1>6, <1>10, <2>2
<1>11. QED
  BY <1>8, <1>9, <1>10

LEMMA DepthNone == Depth(<<>>) = 0 /\ FlattenSeq(<<>>) = <<>>
<1>1. Len(<<>>) = 0 /\ 1..0 = {}
  OBVIOUS
<1>2. \A K : {n \in 1..Len(<<>>) : <<>>[n] \in K} = {}
  BY <1>1
<1>3. Depth(<<>>) = Cardinality({}) - Cardinality({})
  BY <1>2 DEF Depth
<1>4. Depth(<<>>) = 0
  BY <1>3, FS_EmptySet
<1>5. FlattenSeq(<<>>) = <<>>
  BY <1>1 DEF FlattenSeq
<1>6. QED
  BY <1>4, <1>5

\* A token moves the scan as it moves the tokens.
LEMMA TokenStands ==
  ASSUME NEW tokens \in Seq(JsonTokens), NEW token \in JsonTokens, NEW s, NEW r,
         Outside(s, FlattenSeq(tokens), Depth(tokens)), Depth(tokens) \in Nat,
         token \in Closers => Depth(tokens) > 0,
         token \in Openers \/ Depth(tokens) > 0,
         Yields(s, token, r)
  PROVE  Stands(r, Append(tokens, token)) /\ Depth(Append(tokens, token)) \in Nat
<1>1. PICK out, d, more : out = FlattenSeq(tokens) /\ d = Depth(tokens) /\ more = Append(tokens, token)
  OBVIOUS
<1>2. JsonTokens \subseteq Seq(Char) /\ token \in Seq(Char)
  BY WrittenInChars
<1>3. tokens \in Seq(Seq(Char))
  BY <1>2, SeqMonotonic
<1>4. out \in Seq(Char) /\ FlattenSeq(more) = out \o token
  BY <1>1, <1>2, <1>3, FlattenAppend
<1>5. /\ token \in Openers => Depth(more) = d + 1
      /\ token \in Closers => Depth(more) = d - 1
      /\ token \notin Openers \cup Closers => Depth(more) = d
  BY <1>1, DepthAppend
<1>6. more # <<>>
  BY <1>1
<1>7. d \in Nat /\ Outside(s, out, d) /\ (token \in Closers => d > 0) /\ (token \in Openers \/ d > 0)
  BY <1>1
<1>8. CASE \E bracket \in Brackets : token = <<bracket>>
  <2>1. PICK c \in Brackets : token = <<c>>
    BY <1>8
  <2>2. c \in Char /\ out \o token = Append(out, c)
    BY <1>2, <1>4, <2>1
  <2>3. r = Scan(s, c)
    BY <2>1, YieldsOne
  <2>4. (token \in Openers <=> c \in {"{", "["}) /\ (token \in Closers <=> c \in {"}", "]"})
    BY <2>1 DEF Openers, Closers
  <2>5. c \in {"}", "]"} => d > 0
    BY <1>7, <2>4
  <2>6. /\ Scanned(Scan(s, c), Append(out, c), d + Weight(c)) /\ d + Weight(c) \in Nat
        /\ ~Scan(s, c).inString /\ ~Scan(s, c).escaped
        /\ Scan(s, c).ended <=> d + Weight(c) = 0
    BY <1>4, <1>7, <2>2, <2>5, ScanBracket
  <2>7. Depth(more) = d + Weight(c)
    <3>1. CASE c \in {"{", "["}
      <4>1. Weight(c) = 1
        BY <3>1 DEF Weight
      <4>2. QED
        BY <1>5, <2>4, <3>1, <4>1
    <3>2. CASE c \in {"}", "]"}
      <4>1. Weight(c) = -1
        BY <3>2 DEF Weight
      <4>2. d - 1 = d + (-1)
        BY <1>7
      <4>3. QED
        BY <1>5, <2>4, <3>2, <4>1, <4>2
    <3>3. QED
      BY <3>1, <3>2 DEF Brackets
  <2>8. Stands(r, more) /\ Depth(more) \in Nat
    BY <1>4, <1>6, <2>2, <2>3, <2>6, <2>7 DEF Stands
  <2>9. QED
    BY <1>1, <2>8
<1>9. CASE ~\E bracket \in Brackets : token = <<bracket>>
  <2>1. token \notin Openers \cup Closers
    BY <1>9 DEF Openers, Closers, Brackets
  <2>2. Outside(r, out \o token, d)
    <3>1. CASE IsString(token)
      BY <1>2, <1>4, <1>7, <3>1, StringToken
    <3>2. CASE \A i \in 1..Len(token) : token[i] \notin White \cup Brackets \cup {"quote"}
      BY <1>2, <1>4, <1>7, <3>2, PlainToken
    <3>3. IsToken(token)
      BY TextsAssumption
    <3>4. QED
      BY <1>9, <3>1, <3>2, <3>3 DEF IsToken
  <2>3. Depth(more) = d /\ d # 0
    BY <1>5, <1>7, <2>1
  <2>4. Stands(r, more) /\ Depth(more) \in Nat
    BY <1>4, <1>7, <2>2, <2>3 DEF Stands, Outside
  <2>5. QED
    BY <1>1, <2>4
<1>10. QED
  BY <1>8, <1>9

\* What the text was, and the gap before the token, leave the scan outside.
LEMMA GapStands ==
  ASSUME NEW s, NEW out \in Seq(Char), NEW d \in Nat, Outside(s, out, d),
         NEW gap \in {<<>>, <<"sp">>}, NEW r, Yields(s, gap, r)
  PROVE  Outside(r, out, d)
<1>1. s \in ScanState
  BY DEF Outside, Scanned
<1>2. CASE gap = <<>>
  <2>1. Yields(s, gap, s) /\ gap \in Seq(Char)
    BY <1>1, <1>2, YieldsNothing
  <2>2. r = s
    BY <2>1, YieldsOnce
  <2>3. QED
    BY <2>2
<1>3. CASE gap = <<"sp">>
  <2>1. r = Scan(s, "sp")
    BY <1>3, YieldsOne
  <2>2. Scan(s, "sp") = s
    BY DEF Scan, Outside, White, Blanks
  <2>3. QED
    BY <2>1, <2>2
<1>4. QED
  BY <1>2, <1>3

LEMMA JsonInitInv == TextInit => JsonInv
<1> SUFFICES ASSUME TextInit PROVE JsonInv
  OBVIOUS
<1>1. kind \in Kinds /\ text = <<>> /\ bare = <<>> /\ bare \in Seq(JsonTokens) /\ text \in Seq(Char)
  BY DEF TextInit
<1>2. Depth(bare) = 0 /\ FlattenSeq(bare) = <<>>
  BY <1>1, DepthNone
<1>3. Start \in ScanState /\ Yields(Start, text, Start)
  <2>1. Start \in ScanState
    BY DEF Start, ScanState
  <2>2. QED
    BY <1>1, <2>1, YieldsNothing
<1>4. Stands(Start, bare)
  BY <1>1, <1>2, <1>3 DEF Stands, Scanned, Start
<1>5. \A r : Yields(Start, text, r) => Stands(r, bare)
  BY <1>1, <1>3, <1>4, YieldsOnce
<1>6. QED
  BY <1>1, <1>2, <1>5 DEF JsonInv

\* A text that opens does so whatever follows.
LEMMA OpensThen ==
  ASSUME NEW t \in Seq(Char), NEW u \in Seq(Char), Opens(t)
  PROVE  Opens(t \o u)
<1>1. PICK k \in 1..Len(t) : t[k] \in Opening /\ \A j \in 1..(k - 1) : t[j] \in White
  BY DEF Opens
<1>2. PICK w : w = t \o u
  OBVIOUS
<1>3. Len(t) \in Nat /\ Len(w) \in Nat /\ Len(t) <= Len(w) /\ \A j \in 1..Len(t) : w[j] = t[j]
  BY <1>2
<1>4. k \in 1..Len(w) /\ k \in Nat /\ \A j \in 1..(k - 1) : j \in 1..Len(t)
  BY <1>3
<1>5. w[k] \in Opening /\ \A j \in 1..(k - 1) : w[j] \in White
  BY <1>1, <1>3, <1>4
<1>6. QED
  BY <1>2, <1>4, <1>5 DEF Opens

LEMMA OpensFirst ==
  ASSUME NEW gap \in Seq(Char), \A i \in 1..Len(gap) : gap[i] \in White, NEW token \in Openers,
         token \in Seq(Char)
  PROVE  Opens(gap \o token)
<1>1. PICK c \in Opening : token = <<c>>
  BY BracketTokens DEF Opening
<1>2. PICK t, n : t = gap \o <<c>> /\ n = Len(gap)
  OBVIOUS
<1>3. <<c>> \in Seq(Char) /\ Len(<<c>>) = 1 /\ <<c>>[1] = c
  BY <1>1
<1>4. n \in Nat /\ Len(t) = n + 1 /\ (\A i \in 1..n : t[i] = gap[i]) /\ t[n + 1] = c
  BY <1>2, <1>3
<1>5. n + 1 \in 1..Len(t) /\ (n + 1) - 1 = n
  BY <1>4
<1>6. t[n + 1] \in Opening /\ \A j \in 1..((n + 1) - 1) : t[j] \in White
  BY <1>2, <1>4, <1>5
<1>7. QED
  BY <1>1, <1>2, <1>5, <1>6 DEF Opens

\* The white space between tokens.
LEMMA Gaps ==
  ASSUME NEW gap \in {<<>>, <<"sp">>}
  PROVE  gap \in Seq(Char) /\ \A i \in 1..Len(gap) : gap[i] \in White
<1>1. CASE gap = <<>>
  BY <1>1
<1>2. CASE gap = <<"sp">>
  <2>1. PICK c : c = "sp"
    OBVIOUS
  <2>2. c \in Char
    BY <2>1, Zenon DEF Char
  <2>3. c \in White
    BY <2>1 DEF White, Blanks
  <2>4. <<c>> \in Seq(Char) /\ \A i \in 1..Len(<<c>>) : <<c>>[i] = c
    BY <2>2
  <2>5. QED
    BY <1>2, <2>1, <2>3, <2>4
<1>3. QED
  BY <1>1, <1>2

LEMMA JsonNextInv == JsonInv /\ [TextNext]_textVars => JsonInv'
<1> SUFFICES ASSUME JsonInv, [TextNext]_textVars PROVE JsonInv'
  OBVIOUS
<1>0. kind \in Kinds /\ bare \in Seq(JsonTokens) /\ text \in Seq(Char)
  BY DEF JsonInv
<1>1. CASE UNCHANGED textVars
  <2>1. kind' = kind /\ text' = text /\ bare' = bare
    BY <1>1 DEF textVars
  <2>2. QED
    BY <2>1 DEF JsonInv
<1>2. ASSUME kind # "json", NEW c \in Alphabet[kind], Write(c) PROVE JsonInv'
  <2>1. kind' = kind /\ bare' = bare /\ text' = Append(text, c)
    BY <1>2 DEF Write
  <2>2. c \in Char
    <3>1. kind \in DOMAIN Alphabet
      BY <1>0, <1>2 DEF Kinds
    <3>2. QED
      BY <1>2, <3>1, Zenon DEF Char
  <2>3. text' \in Seq(Char)
    BY <1>0, <2>1, <2>2
  <2>4. QED
    BY <1>0, <1>2, <2>1, <2>3 DEF JsonInv
<1>3. ASSUME NEW token \in JsonTokens, NEW gap \in {<<>>, <<"sp">>}, WriteToken(token, gap)
      PROVE  JsonInv'
  <2>1. /\ kind = "json" /\ kind' = kind
        /\ IF bare = <<>> THEN token \in Openers ELSE Depth(bare) > 0
        /\ text' = text \o gap \o token /\ bare' = Append(bare, token)
    BY <1>3 DEF WriteToken, Openers
  <2>2. /\ Depth(bare) \in Nat
        /\ \A r : Yields(Start, text, r) => Stands(r, bare)
        /\ IF bare = <<>> THEN text = <<>> ELSE Opens(text)
    BY <2>1 DEF JsonInv
  <2>3. token \in Seq(Char) /\ gap \in Seq(Char)
    BY WrittenInChars, Gaps
  <2>4. text \o gap \in Seq(Char) /\ text' \in Seq(Char) /\ bare' \in Seq(JsonTokens)
    BY <1>0, <2>1, <2>3
  <2>5. ~(token \in Openers /\ token \in Closers)
    BY BracketTokens
  <2>6. (token \in Closers => Depth(bare) > 0) /\ (token \in Openers \/ Depth(bare) > 0)
    BY <2>1, <2>5
  <2>7. FlattenSeq(bare) \in Seq(Char)
    <3>1. bare \in Seq(Seq(Char))
      BY <1>0, WrittenInChars, SeqMonotonic
    <3>2. QED
      BY <2>3, <3>1, FlattenAppend
  <2>8. Start \in ScanState
    BY DEF Start, ScanState
  <2>9. ASSUME NEW r, Yields(Start, text', r)
        PROVE  Stands(r, bare') /\ Depth(bare') \in Nat
    <3>1. PICK m \in ScanState : Yields(Start, text \o gap, m) /\ Yields(m, token, r)
      BY <2>1, <2>3, <2>4, <2>8, <2>9, YieldsSplit
    <3>2. PICK s \in ScanState : Yields(Start, text, s) /\ Yields(s, gap, m)
      BY <1>0, <2>3, <2>8, <3>1, YieldsSplit
    <3>3. Stands(s, bare)
      BY <2>2, <3>2
    <3>4. ~(bare # <<>> /\ Depth(bare) = 0)
      BY <2>1, <2>2
    <3>5. Outside(s, FlattenSeq(bare), Depth(bare))
      BY <3>3, <3>4 DEF Stands, Outside
    <3>6. Outside(m, FlattenSeq(bare), Depth(bare))
      BY <2>2, <2>7, <3>2, <3>5, GapStands
    <3>7. Stands(r, Append(bare, token)) /\ Depth(Append(bare, token)) \in Nat
      BY <1>0, <2>2, <2>6, <3>1, <3>6, TokenStands
    <3>8. QED
      BY <2>1, <3>7
  <2>10. Depth(bare') \in Nat
    <3>1. PICK r : Yields(Start, text', r)
      BY <2>4, <2>8, YieldsExists
    <3>2. QED
      BY <2>9, <3>1
  <2>11. Opens(text')
    <3>1. CASE bare = <<>>
      <4>1. text' = gap \o token
        <5>1. <<>> \o gap = gap
          BY <2>3
        <5>2. QED
          BY <2>1, <2>2, <3>1, <5>1
      <4>2. Opens(gap \o token)
        BY <2>1, <2>3, <3>1, Gaps, OpensFirst
      <4>3. QED
        BY <4>1, <4>2
    <3>2. CASE bare # <<>>
      <4>1. Opens(text)
        BY <2>2, <3>2
      <4>2. Opens(text \o gap)
        BY <1>0, <2>3, <4>1, OpensThen
      <4>3. QED
        BY <2>1, <2>3, <2>4, <4>2, OpensThen
    <3>3. QED
      BY <3>1, <3>2
  <2>12. bare' # <<>>
    BY <1>0, <2>1
  <2>13. QED
    BY <1>0, <2>1, <2>4, <2>9, <2>10, <2>11, <2>12 DEF JsonInv, Kinds
<1>4. QED
  BY <1>1, <1>2, <1>3, Zenon DEF TextNext

LEMMA JsonInvariant == TextSpec => []JsonInv
<1>1. TextInit => JsonInv
  BY JsonInitInv
<1>2. JsonInv /\ [TextNext]_textVars => JsonInv'
  BY JsonNextInv
<1>3. QED
  BY <1>1, <1>2, PTL DEF TextSpec

\* Where a text opens, the scan begins.
LEMMA OpensAt ==
  ASSUME NEW t \in Seq(Char), Opens(t)
  PROVE  At(t, Skip(t, 1, White), {"{", "["})
<1>1. PICK k \in 1..Len(t) : t[k] \in Opening /\ \A j \in 1..(k - 1) : t[j] \in White
  BY DEF Opens
<1>2. PICK n : n = Len(t)
  OBVIOUS
<1>3. n \in Nat /\ k \in 1..n /\ k \in 1..(n + 1) /\ 1 \in 1..(n + 1) /\ k <= n
  BY <1>2
<1>4. t[k] \notin White
  BY <1>1 DEF Opening, White, Blanks
<1>5. Skips(t, 1, White, k)
  BY <1>1, <1>2, <1>3, <1>4 DEF Skips
<1>6. Skips(t, 1, White, Skip(t, 1, White))
  BY <1>2, <1>3, SkipIs
<1>7. Skip(t, 1, White) = k
  BY <1>2, <1>3, <1>5, <1>6, SkipsOnce
<1>8. QED
  BY <1>1, <1>2, <1>3, <1>7 DEF At, Opening

LEMMA NothingAt == ~At(<<>>, Skip(<<>>, 1, White), {"{", "["})
<1>1. PICK t : t = <<>>
  OBVIOUS
<1>2. t \in Seq(Char) /\ Len(t) = 0 /\ 1 \in 1..(0 + 1)
  BY <1>1
<1>3. Skips(t, 1, White, Skip(t, 1, White))
  BY <1>2, SkipIs
<1>4. ~(Skip(t, 1, White) <= Len(t))
  BY <1>2, <1>3 DEF Skips
<1>5. QED
  BY <1>1, <1>4 DEF At

THEOREM JsonIsMinified == TextSpec => []MinifyIsLossless
<1>1. JsonInv => MinifyIsLossless
  <2> SUFFICES ASSUME JsonInv, kind = "json"
               PROVE  MinifyJsonWhitespace(text) =
                        IF bare # <<>> /\ Depth(bare) = 0 THEN FlattenSeq(bare) ELSE text
    BY DEF MinifyIsLossless
  <2>1. /\ text \in Seq(Char) /\ Depth(bare) \in Nat
        /\ \A r : Yields(Start, text, r) => Stands(r, bare)
        /\ IF bare = <<>> THEN text = <<>> ELSE Opens(text)
    BY DEF JsonInv
  <2>2. PICK r : Yields(Start, text, r)
    <3>1. Start \in ScanState
      BY DEF Start, ScanState
    <3>2. QED
      BY <2>1, <3>1, YieldsExists
  <2>3. Stands(r, bare)
    BY <2>1, <2>2
  <2>4. r.out = FlattenSeq(bare) /\ r.depth = Depth(bare) /\ r.valid /\ ~r.inString
    BY <2>3 DEF Stands, Scanned
  <2>5. MinifyJsonWhitespace(text) =
          IF At(text, Skip(text, 1, White), {"{", "["}) /\ r.valid /\ ~r.inString /\ r.depth = 0
          THEN r.out ELSE text
    BY <2>1, <2>2, MinifyIs
  <2>6. CASE bare = <<>>
    <3>1. ~At(text, Skip(text, 1, White), {"{", "["})
      BY <2>1, <2>6, NothingAt
    <3>2. QED
      BY <2>5, <2>6, <3>1
  <2>7. CASE bare # <<>>
    <3>1. At(text, Skip(text, 1, White), {"{", "["})
      BY <2>1, <2>7, OpensAt
    <3>2. QED
      BY <2>4, <2>5, <2>7, <3>1
  <2>8. QED
    BY <2>6, <2>7
<1>2. QED
  BY <1>1, JsonInvariant, PTL

-----------------------------------------------------------------------------
(* Recursion from the end of a text.                                        *)

\* Each value comes from one further behind.
Descends(f, base, n, next, add) ==
  f[n + 1] = base /\ \A i \in 1..n : f[i] = add[i][f[next[i]]]

Ahead(next, n) == \A i \in 1..n : next[i] \in (i + 1)..(n + 1)

LEMMA DescentExists ==
  ASSUME NEW V, NEW base \in V, NEW n \in Nat, NEW next, Ahead(next, n),
         NEW add \in [1..n -> [V -> V]]
  PROVE  \E f \in [1..(n + 1) -> V] : Descends(f, base, n, next, add)
<1> DEFINE Good(f, m) == /\ f \in [m..(n + 1) -> V] /\ f[n + 1] = base
                         /\ \A i \in m..n : f[i] = add[i][f[next[i]]]
           T == {m \in 1..(n + 1) : \E f : Good(f, m)}
<1>1. n + 1 \in T
  <2> DEFINE f == [i \in (n + 1)..(n + 1) |-> base]
  <2>1. Good(f, n + 1)
    OBVIOUS
  <2> HIDE DEF Good, f
  <2>2. n + 1 \in 1..(n + 1)
    OBVIOUS
  <2>3. QED
    BY <2>1, <2>2
<1>2. ASSUME NEW m \in 1..((n + 1) - 1), m + 1 \in T PROVE m \in T
  <2> HIDE DEF Good
  <2>1. PICK f : Good(f, m + 1)
    BY <1>2
  <2>2. m \in 1..n /\ m \in Nat /\ m + 1 \in Nat /\ next[m] \in (m + 1)..(n + 1)
    BY DEF Ahead
  <2>3. /\ f \in [(m + 1)..(n + 1) -> V] /\ f[n + 1] = base
        /\ \A i \in (m + 1)..n : f[i] = add[i][f[next[i]]]
    BY <2>1 DEF Good
  <2>4. PICK v \in V : v = add[m][f[next[m]]]
    BY <2>2, <2>3
  <2> DEFINE g == [i \in m..(n + 1) |-> IF i = m THEN v ELSE f[i]]
  <2>5. g \in [m..(n + 1) -> V]
    BY <2>2, <2>3, <2>4
  <2>6. g[n + 1] = base
    BY <2>2, <2>3
  <2>7. g[m] = v /\ \A i \in (m + 1)..(n + 1) : g[i] = f[i]
    BY <2>2
  <2> HIDE DEF g
  <2>8. ASSUME NEW i \in m..n PROVE g[i] = add[i][g[next[i]]]
    <3>1. i \in 1..n /\ next[i] \in (i + 1)..(n + 1)
      BY <2>2 DEF Ahead
    <3>2. g[next[i]] = f[next[i]]
      BY <2>2, <2>7, <3>1
    <3>3. CASE i = m
      BY <2>4, <2>7, <3>2, <3>3
    <3>4. CASE i # m
      <4>1. i \in (m + 1)..n /\ i \in (m + 1)..(n + 1)
        BY <2>2, <3>4
      <4>2. QED
        BY <2>3, <2>7, <3>2, <4>1
    <3>5. QED
      BY <3>3, <3>4
  <2>9. Good(g, m)
    BY <2>5, <2>6, <2>8 DEF Good
  <2>10. m \in 1..(n + 1)
    BY <2>2
  <2>11. QED
    BY <2>9, <2>10
<1> HIDE DEF T
<1>3. 1 \in T
  <2>1. n + 1 \in Nat /\ 1 \in 1..(n + 1)
    OBVIOUS
  <2>2. \A m \in 1..(n + 1) : m \in T
    BY <1>1, <1>2, <2>1, InductionDownTo
  <2>3. QED
    BY <2>1, <2>2
<1>4. PICK f : Good(f, 1)
  BY <1>3 DEF T
<1>5. QED
  BY <1>4 DEF Descends

\* There is one such function.
LEMMA DescentOnce ==
  ASSUME NEW n \in Nat, NEW next, Ahead(next, n), NEW base, NEW add, NEW f, NEW g,
         Descends(f, base, n, next, add), Descends(g, base, n, next, add)
  PROVE  \A i \in 1..(n + 1) : f[i] = g[i]
<1> DEFINE T == {m \in 1..(n + 1) : \A i \in m..(n + 1) : f[i] = g[i]}
<1>1. n + 1 \in T
  BY DEF Descends
<1>2. ASSUME NEW m \in 1..((n + 1) - 1), m + 1 \in T PROVE m \in T
  <2>1. m \in 1..n /\ m \in Nat /\ next[m] \in (m + 1)..(n + 1)
    BY DEF Ahead
  <2>2. f[next[m]] = g[next[m]]
    BY <1>2, <2>1
  <2>3. f[m] = g[m]
    BY <2>1, <2>2 DEF Descends
  <2>4. QED
    BY <1>2, <2>1, <2>3
<1> HIDE DEF T
<1>3. 1 \in T
  <2>1. n + 1 \in Nat /\ 1 \in Nat /\ 1 \in 1..(n + 1)
    OBVIOUS
  <2>2. \A m \in 1..(n + 1) : m \in T
    BY <1>1, <1>2, <2>1, InductionDownTo
  <2>3. QED
    BY <2>1, <2>2
<1>4. QED
  BY <1>3 DEF T

-----------------------------------------------------------------------------
(* Terminal escapes.                                                        *)

\* Where the payload that begins at i ends, if it does.
Closes(t, i, j) ==
  \/ j > i + 1 /\ t[j] = "bel"
  \/ j > i + 2 /\ t[j] = "bs" /\ t[j - 1] = "esc"

\* What OscEnd finds.
OscEnds(t, i, k) ==
  /\ k \in (i + 1)..Len(t) /\ (k = Len(t) \/ Closes(t, i, k))
  /\ \A j \in (i + 1)..(k - 1) : ~Closes(t, i, j)

LEMMA OscEndIs ==
  ASSUME NEW t \in Seq(Char), NEW i \in 1..(Len(t) - 1)
  PROVE  OscEnds(t, i, OscEnd(t, i))
<1> DEFINE n == Len(t)
           stops(k) == k = n \/ Closes(t, i, k)
           Body(f) == [k \in (i + 1)..n |-> IF stops(k) THEN k ELSE f[k + 1]]
           ends(k) == {j \in k..n : stops(j)}
           least(k) == CHOOSE j \in ends(k) : \A l \in ends(k) : j <= l
           g == [k \in (i + 1)..n |-> least(k)]
           end == CHOOSE f : f = Body(f)
<1>1. n \in Nat /\ i \in Nat /\ i + 1 <= n
  OBVIOUS
<1>2. OscEnd(t, i) = end[i + 1]
  BY DEF OscEnd, Closes
<1>3. stops(n)
  OBVIOUS
<1> HIDE DEF n, stops
<1>4. ASSUME NEW k \in (i + 1)..n
      PROVE  least(k) \in ends(k) /\ \A l \in ends(k) : least(k) <= l
  <2>1. n \in ends(k) /\ ends(k) \in SUBSET Nat
    BY <1>1, <1>3
  <2> HIDE DEF ends
  <2>2. QED
    BY <2>1, LeastMember
<1>5. ASSUME NEW k \in (i + 1)..n PROVE g[k] = IF stops(k) THEN k ELSE g[k + 1]
  <2>1. CASE ~stops(k)
    <3>1. k + 1 \in (i + 1)..n
      BY <1>1, <1>3, <2>1
    <3>2. ends(k) = ends(k + 1)
      BY <1>1, <2>1
    <3>3. g[k] = least(k) /\ g[k + 1] = least(k + 1)
      BY <3>1
    <3> HIDE DEF ends, g
    <3>4. QED
      BY <2>1, <3>2, <3>3
  <2>2. CASE stops(k)
    <3>1. k \in ends(k) /\ \A l \in ends(k) : l \in Int /\ k <= l
      BY <1>1, <2>2
    <3>2. least(k) \in ends(k) /\ \A l \in ends(k) : least(k) <= l
      BY <1>4
    <3> HIDE DEF ends, least
    <3>3. least(k) = k
      BY <3>1, <3>2
    <3>4. QED
      BY <2>2, <3>3
  <2>3. QED
    BY <2>1, <2>2
<1> HIDE DEF least, ends
<1>6. g = Body(g)
  <2>1. g = [k \in (i + 1)..n |-> g[k]]
    OBVIOUS
  <2> HIDE DEF g
  <2>2. QED
    BY <1>5, <2>1
<1> HIDE DEF Body, g
<1>7. end = Body(end)
  BY <1>6
<1> HIDE DEF end
<1>8. \A k \in (i + 1)..n : end[k] = IF stops(k) THEN k ELSE end[k + 1]
  <2>1. \A k \in (i + 1)..n : Body(end)[k] = IF stops(k) THEN k ELSE end[k + 1]
    BY DEF Body
  <2>2. QED
    BY <1>7, <2>1
<1> DEFINE T == {k \in (i + 1)..n : /\ end[k] \in k..n /\ stops(end[k])
                                    /\ \A j \in k..(end[k] - 1) : ~stops(j)}
<1>9. n \in T
  <2>1. n \in (i + 1)..n /\ end[n] = n
    BY <1>1, <1>3, <1>8
  <2>2. QED
    BY <1>1, <1>3, <2>1
<1>10. ASSUME NEW k \in (i + 1)..(n - 1), k + 1 \in T PROVE k \in T
  <2>1. k \in (i + 1)..n /\ k \in Nat
    BY <1>1
  <2>2. CASE ~stops(k)
    <3>1. PICK p : p = end[k + 1]
      OBVIOUS
    <3>2. end[k] = p
      BY <1>8, <2>1, <2>2, <3>1
    <3>3. p \in (k + 1)..n /\ stops(p) /\ \A j \in (k + 1)..(p - 1) : ~stops(j)
      BY <1>10, <3>1
    <3>4. p \in k..n /\ \A j \in k..(p - 1) : ~stops(j)
      BY <1>1, <2>1, <2>2, <3>3
    <3>5. QED
      BY <2>1, <3>2, <3>3, <3>4
  <2>3. CASE stops(k)
    <3>1. end[k] = k
      BY <1>8, <2>1, <2>3
    <3>2. k \in k..n /\ k..(k - 1) = {}
      BY <1>1, <2>1
    <3>3. QED
      BY <2>1, <2>3, <3>1, <3>2
  <2>4. QED
    BY <2>2, <2>3
<1> HIDE DEF T
<1>11. i + 1 \in T
  <2>1. i + 1 \in Nat /\ i + 1 \in (i + 1)..n
    BY <1>1
  <2>2. \A k \in (i + 1)..n : k \in T
    BY <1>1, <1>9, <1>10, <2>1, InductionDownTo
  <2>3. QED
    BY <2>1, <2>2
<1>12. /\ end[i + 1] \in (i + 1)..n /\ stops(end[i + 1])
       /\ \A j \in (i + 1)..(end[i + 1] - 1) : ~stops(j)
  BY <1>11 DEF T
<1>13. QED
  BY <1>2, <1>12 DEF OscEnds, stops, n

LEMMA OscEndsOnce ==
  ASSUME NEW t \in Seq(Char), NEW i \in Nat, NEW k, NEW l, OscEnds(t, i, k), OscEnds(t, i, l)
  PROVE  k = l
<1>1. Len(t) \in Nat /\ k \in Nat /\ l \in Nat /\ k <= Len(t) /\ l <= Len(t) /\ k >= i + 1 /\ l >= i + 1
  BY DEF OscEnds
<1>2. ~(k < l)
  <2> SUFFICES ASSUME k < l PROVE FALSE
    OBVIOUS
  <2>1. k \in (i + 1)..(l - 1) /\ k # Len(t)
    BY <1>1
  <2>2. QED
    BY <2>1 DEF OscEnds
<1>3. ~(l < k)
  <2> SUFFICES ASSUME l < k PROVE FALSE
    OBVIOUS
  <2>1. l \in (i + 1)..(k - 1) /\ l # Len(t)
    BY <1>1
  <2>2. QED
    BY <2>1 DEF OscEnds
<1>4. QED
  BY <1>1, <1>2, <1>3

\* The rest of a text, place by place.
LEMMA RestIs ==
  ASSUME NEW t \in Seq(Char), NEW k \in 0..Len(t)
  PROVE  /\ Rest(t, k) \in Seq(Char) /\ Len(Rest(t, k)) = Len(t) - k
         /\ \A j \in 1..(Len(t) - k) : Rest(t, k)[j] = t[k + j]
<1>1. PICK n, u : n = Len(t) /\ u = Rest(t, k)
  OBVIOUS
<1>2. n \in Nat /\ k \in Nat /\ k <= n /\ k + 1 \in Int
  BY <1>1
<1>3. \A i \in (k + 1)..n : t[i] \in Char
  BY <1>1, <1>2
<1>4. u = SubSeq(t, k + 1, n)
  BY <1>1 DEF Rest
<1>5. /\ u \in Seq(Char) /\ Len(u) = IF k + 1 <= n THEN n - (k + 1) + 1 ELSE 0
      /\ \A i \in 1..(n - (k + 1) + 1) : u[i] = t[(k + 1) + i - 1]
  BY <1>2, <1>3, <1>4, SubSeqProperties
<1>6. Len(u) = n - k /\ n - (k + 1) + 1 = n - k
  BY <1>2, <1>5
<1>7. ASSUME NEW j \in 1..(n - k) PROVE u[j] = t[k + j]
  <2>1. (k + 1) + j - 1 = k + j
    BY <1>2
  <2>2. QED
    BY <1>5, <1>6, <2>1
<1>8. QED
  BY <1>1, <1>5, <1>6, <1>7

\* What begins further behind is found in the rest as in the whole.
LEMMA SkipBehind ==
  ASSUME NEW t \in Seq(Char), NEW k \in 0..Len(t), NEW i \in 1..(Len(t) - k + 1), NEW S
  PROVE  Skip(t, k + i, S) = k + Skip(Rest(t, k), i, S)
<1>1. PICK n, u, m, e : n = Len(t) /\ u = Rest(t, k) /\ m = n - k /\ e = Skip(u, i, S)
  OBVIOUS
<1>2. n \in Nat /\ k \in Nat /\ m \in Nat /\ n = k + m /\ i \in 1..(m + 1) /\ k + i \in 1..(n + 1)
  BY <1>1
<1>3. u \in Seq(Char) /\ Len(u) = m /\ \A j \in 1..m : u[j] = t[k + j]
  BY <1>1, RestIs
<1>4. Skips(u, i, S, e)
  BY <1>1, <1>2, <1>3, SkipIs
<1>5. /\ e \in i..(m + 1) /\ (\A j \in i..(e - 1) : u[j] \in S) /\ (e <= m => u[e] \notin S)
  BY <1>3, <1>4 DEF Skips
<1>6. \A j \in (k + i)..((k + e) - 1) : t[j] \in S
  <2> SUFFICES ASSUME NEW j \in (k + i)..((k + e) - 1) PROVE t[j] \in S
    OBVIOUS
  <2>1. PICK l : l = j - k
    OBVIOUS
  <2>2. l \in i..(e - 1) /\ l \in 1..m /\ k + l = j
    BY <1>2, <1>5, <2>1
  <2>3. QED
    BY <1>3, <1>5, <2>2
<1>7. k + e \in (k + i)..(n + 1) /\ (k + e <= n => e <= m /\ e \in 1..m)
  BY <1>2, <1>5
<1>8. k + e <= n => t[k + e] \notin S
  BY <1>3, <1>5, <1>7
<1>9. Skips(t, k + i, S, k + e)
  BY <1>1, <1>6, <1>7, <1>8 DEF Skips
<1>10. Skips(t, k + i, S, Skip(t, k + i, S))
  BY <1>1, <1>2, SkipIs
<1>11. Skip(t, k + i, S) = k + e
  BY <1>1, <1>2, <1>9, <1>10, SkipsOnce
<1>12. QED
  BY <1>1, <1>11

LEMMA OscEndBehind ==
  ASSUME NEW t \in Seq(Char), NEW k \in 0..Len(t), NEW i \in 1..(Len(t) - k - 1)
  PROVE  OscEnd(t, k + i) = k + OscEnd(Rest(t, k), i)
<1>1. PICK n, u, m, e : n = Len(t) /\ u = Rest(t, k) /\ m = n - k /\ e = OscEnd(u, i)
  OBVIOUS
<1>2. n \in Nat /\ k \in Nat /\ m \in Nat /\ n = k + m /\ i \in 1..(m - 1) /\ k + i \in 1..(n - 1) /\ k + i \in Nat
  BY <1>1
<1>3. u \in Seq(Char) /\ Len(u) = m /\ \A j \in 1..m : u[j] = t[k + j]
  BY <1>1, RestIs
<1>4. OscEnds(u, i, e)
  BY <1>1, <1>2, <1>3, OscEndIs
<1>5. /\ e \in (i + 1)..m /\ (e = m \/ Closes(u, i, e)) /\ \A j \in (i + 1)..(e - 1) : ~Closes(u, i, j)
  BY <1>3, <1>4 DEF OscEnds
<1>6. ASSUME NEW j \in (i + 1)..m PROVE Closes(t, k + i, k + j) <=> Closes(u, i, j)
  <2>1. j \in 1..m /\ j - 1 \in 1..m /\ (k + j) - 1 = k + (j - 1)
    BY <1>2
  <2>2. u[j] = t[k + j] /\ u[j - 1] = t[(k + j) - 1]
    BY <1>3, <2>1
  <2>3. (k + j > (k + i) + 1 <=> j > i + 1) /\ (k + j > (k + i) + 2 <=> j > i + 2)
    BY <1>2
  <2>4. QED
    BY <2>2, <2>3 DEF Closes
<1>7. \A j \in ((k + i) + 1)..((k + e) - 1) : ~Closes(t, k + i, j)
  <2> SUFFICES ASSUME NEW j \in ((k + i) + 1)..((k + e) - 1) PROVE ~Closes(t, k + i, j)
    OBVIOUS
  <2>1. PICK l : l = j - k
    OBVIOUS
  <2>2. l \in (i + 1)..(e - 1) /\ l \in (i + 1)..m /\ k + l = j
    BY <1>2, <1>5, <2>1
  <2>3. ~Closes(t, k + i, k + l)
    BY <1>5, <1>6, <2>2
  <2>4. QED
    BY <2>2, <2>3
<1>8. k + e \in ((k + i) + 1)..n /\ (e = m => k + e = n)
  BY <1>2, <1>5
<1>9. k + e = n \/ Closes(t, k + i, k + e)
  BY <1>5, <1>6, <1>8
<1>10. OscEnds(t, k + i, k + e)
  BY <1>1, <1>7, <1>8, <1>9 DEF OscEnds
<1>11. OscEnds(t, k + i, OscEnd(t, k + i))
  BY <1>1, <1>2, OscEndIs
<1>12. OscEnd(t, k + i) = k + e
  BY <1>2, <1>10, <1>11, OscEndsOnce
<1>13. QED
  BY <1>1, <1>12

\* Which character follows the ESC decides.
LEMMA EscapeEndCases ==
  ASSUME NEW t, NEW i
  PROVE  LET Csi == At(t, i + 1, {"["})
             Osc == At(t, i + 1, {"]"})
             Two == At(t, i + 1, Fe \ {"[", "]"})
         IN  /\ ~(Csi /\ Osc) /\ ~(Csi /\ Two) /\ ~(Osc /\ Two)
             /\ Csi => EscapeEnd(t, i) = CsiEnd(t, i)
             /\ Osc => EscapeEnd(t, i) = OscEnd(t, i)
             /\ Two => EscapeEnd(t, i) = i + 1
             /\ ~Csi /\ ~Osc /\ ~Two => EscapeEnd(t, i) = 0
<1> DEFINE Csi == At(t, i + 1, {"["})
           Osc == At(t, i + 1, {"]"})
           Two == At(t, i + 1, Fe \ {"[", "]"})
<1>1. ~(Csi /\ Osc) /\ ~(Csi /\ Two) /\ ~(Osc /\ Two)
  BY DEF At
<1>2. EscapeEnd(t, i) = CASE Csi -> CsiEnd(t, i) [] Osc -> OscEnd(t, i) [] Two -> i + 1 [] OTHER -> 0
  BY DEF EscapeEnd
<1> HIDE DEF Csi, Osc, Two
<1>3. /\ Csi => EscapeEnd(t, i) = CsiEnd(t, i)
      /\ Osc => EscapeEnd(t, i) = OscEnd(t, i)
      /\ Two => EscapeEnd(t, i) = i + 1
      /\ ~Csi /\ ~Osc /\ ~Two => EscapeEnd(t, i) = 0
  BY <1>1, <1>2
<1>4. QED
  BY <1>1, <1>3 DEF Csi, Osc, Two

\* An escape ends behind its beginning.
LEMMA EscapeEndType ==
  ASSUME NEW t \in Seq(Char), NEW i \in 1..Len(t), EscapeEnd(t, i) # 0
  PROVE  EscapeEnd(t, i) \in (i + 1)..Len(t)
<1>1. PICK n : n = Len(t)
  OBVIOUS
<1>2. n \in Nat /\ i \in 1..n /\ i \in Nat
  BY <1>1
<1>3. CASE At(t, i + 1, {"["})
  <2>1. i + 1 <= n
    BY <1>1, <1>3 DEF At
  <2>2. PICK a, b : a = Skip(t, i + 2, Params) /\ b = Skip(t, a, Intermediates)
    OBVIOUS
  <2>3. i + 2 \in 1..(n + 1)
    BY <1>2, <2>1
  <2>4. a \in (i + 2)..(n + 1)
    BY <1>1, <2>2, <2>3, SkipIs DEF Skips
  <2>5. a \in 1..(n + 1)
    BY <1>2, <2>4
  <2>6. b \in a..(n + 1)
    BY <1>1, <2>2, <2>5, SkipIs DEF Skips
  <2>7. CsiEnd(t, i) = IF At(t, b, Finals) THEN b ELSE 0
    BY <2>2 DEF CsiEnd
  <2>8. EscapeEnd(t, i) = CsiEnd(t, i)
    BY <1>3, EscapeEndCases
  <2>9. EscapeEnd(t, i) = b /\ b <= n
    BY <1>1, <2>7, <2>8 DEF At
  <2>10. b \in (i + 1)..n
    BY <1>2, <2>4, <2>6, <2>9
  <2>11. QED
    BY <1>1, <2>9, <2>10
<1>4. CASE ~At(t, i + 1, {"["}) /\ At(t, i + 1, {"]"})
  <2>1. i + 1 <= n
    BY <1>1, <1>4 DEF At
  <2>2. i \in 1..(Len(t) - 1)
    BY <1>1, <1>2, <2>1
  <2>3. EscapeEnd(t, i) = OscEnd(t, i)
    BY <1>4, EscapeEndCases
  <2>4. QED
    BY <2>2, <2>3, OscEndIs DEF OscEnds
<1>5. CASE ~At(t, i + 1, {"["}) /\ ~At(t, i + 1, {"]"})
  <2>1. EscapeEnd(t, i) = i + 1 /\ At(t, i + 1, Fe \ {"[", "]"})
    BY <1>5, EscapeEndCases
  <2>2. i + 1 <= n
    BY <1>1, <2>1 DEF At
  <2>3. i + 1 \in (i + 1)..n
    BY <1>2, <2>2
  <2>4. QED
    BY <1>1, <2>1, <2>3
<1>6. QED
  BY <1>3, <1>4, <1>5

LEMMA EscapeEndBehind ==
  ASSUME NEW t \in Seq(Char), NEW k \in 0..Len(t), NEW i \in 1..(Len(t) - k)
  PROVE  EscapeEnd(t, k + i) =
           IF EscapeEnd(Rest(t, k), i) = 0 THEN 0 ELSE k + EscapeEnd(Rest(t, k), i)
<1>1. PICK n, u, m : n = Len(t) /\ u = Rest(t, k) /\ m = n - k
  OBVIOUS
<1>2. n \in Nat /\ k \in Nat /\ m \in Nat /\ n = k + m /\ i \in 1..m /\ k + i \in 1..n /\ i \in Nat
  BY <1>1
<1>3. u \in Seq(Char) /\ Len(u) = m /\ \A j \in 1..m : u[j] = t[k + j]
  BY <1>1, RestIs
<1>4. ASSUME NEW j \in Nat, j >= 1, NEW S PROVE At(t, k + j, S) <=> At(u, j, S)
  <2>1. k + j <= n <=> j <= m
    BY <1>2
  <2>2. j <= m => t[k + j] = u[j]
    BY <1>3, <1>4
  <2>3. QED
    BY <1>1, <1>3, <2>1, <2>2 DEF At
<1>5. (k + i) + 1 = k + (i + 1) /\ (k + i) + 2 = k + (i + 2) /\ i + 1 \in Nat /\ i + 1 >= 1
  BY <1>2
<1>6. \A S : At(t, (k + i) + 1, S) <=> At(u, i + 1, S)
  BY <1>4, <1>5
<1>7. CASE At(u, i + 1, {"["})
  <2>1. i + 1 <= m
    BY <1>3, <1>7 DEF At
  <2>2. PICK a, b : a = Skip(u, i + 2, Params) /\ b = Skip(u, a, Intermediates)
    OBVIOUS
  <2>3. i + 2 \in 1..(m + 1)
    BY <1>2, <2>1
  <2>4. a \in (i + 2)..(m + 1)
    BY <1>3, <2>2, <2>3, SkipIs DEF Skips
  <2>5. a \in 1..(m + 1)
    BY <1>2, <2>4
  <2>6. b \in a..(m + 1)
    BY <1>3, <2>2, <2>5, SkipIs DEF Skips
  <2>7. Skip(t, (k + i) + 2, Params) = k + a
    BY <1>1, <1>5, <2>2, <2>3, SkipBehind
  <2>8. Skip(t, k + a, Intermediates) = k + b
    BY <1>1, <2>2, <2>5, SkipBehind
  <2>9. CsiEnd(t, k + i) = IF At(t, k + b, Finals) THEN k + b ELSE 0
    BY <2>7, <2>8 DEF CsiEnd
  <2>10. CsiEnd(u, i) = IF At(u, b, Finals) THEN b ELSE 0
    BY <2>2 DEF CsiEnd
  <2>11. b \in Nat /\ b >= 1 /\ b # 0
    BY <1>2, <2>4, <2>6
  <2>12. At(t, k + b, Finals) <=> At(u, b, Finals)
    BY <1>4, <2>11
  <2>13. EscapeEnd(t, k + i) = CsiEnd(t, k + i) /\ EscapeEnd(u, i) = CsiEnd(u, i)
    BY <1>6, <1>7, EscapeEndCases
  <2>14. QED
    BY <1>1, <2>9, <2>10, <2>11, <2>12, <2>13
<1>8. CASE At(u, i + 1, {"]"})
  <2>1. i + 1 <= m
    BY <1>3, <1>8 DEF At
  <2>2. i \in 1..(m - 1)
    BY <1>2, <2>1
  <2>3. OscEnd(t, k + i) = k + OscEnd(u, i)
    BY <1>1, <2>2, OscEndBehind
  <2>4. OscEnd(u, i) \in (i + 1)..m
    BY <1>3, <2>2, OscEndIs DEF OscEnds
  <2>5. OscEnd(u, i) # 0
    BY <1>2, <2>4
  <2>6. EscapeEnd(t, k + i) = OscEnd(t, k + i) /\ EscapeEnd(u, i) = OscEnd(u, i)
    BY <1>6, <1>8, EscapeEndCases
  <2>7. QED
    BY <1>1, <2>3, <2>5, <2>6
<1>9. CASE At(u, i + 1, Fe \ {"[", "]"})
  <2>1. EscapeEnd(t, k + i) = (k + i) + 1 /\ EscapeEnd(u, i) = i + 1
    BY <1>6, <1>9, EscapeEndCases
  <2>2. i + 1 # 0
    BY <1>2
  <2>3. QED
    BY <1>1, <1>5, <2>1, <2>2
<1>10. CASE ~At(u, i + 1, {"["}) /\ ~At(u, i + 1, {"]"}) /\ ~At(u, i + 1, Fe \ {"[", "]"})
  <2>1. EscapeEnd(t, k + i) = 0 /\ EscapeEnd(u, i) = 0
    BY <1>6, <1>10, EscapeEndCases
  <2>2. QED
    BY <1>1, <2>1
<1>11. QED
  BY <1>7, <1>8, <1>9, <1>10

\* StripAnsi, as a function of the place from which the text is read.
AfterAnsi(t) ==
  [i \in 1..Len(t) |-> IF t[i] = "esc" /\ EscapeEnd(t, i) # 0 THEN EscapeEnd(t, i) + 1 ELSE i + 1]

Strips(f, t) ==
  /\ f[Len(t) + 1] = <<>> /\ StripAnsi(t) = f[1]
  /\ \A i \in 1..Len(t) :
       f[i] = IF t[i] = "esc" /\ EscapeEnd(t, i) # 0 THEN f[EscapeEnd(t, i) + 1]
              ELSE <<t[i]>> \o f[i + 1]

LEMMA AnsiAhead == ASSUME NEW t \in Seq(Char) PROVE Ahead(AfterAnsi(t), Len(t))
<1>1. PICK n : n = Len(t)
  OBVIOUS
<1>2. n \in Nat
  BY <1>1
<1>3. ASSUME NEW i \in 1..n PROVE AfterAnsi(t)[i] \in (i + 1)..(n + 1)
  <2>1. CASE EscapeEnd(t, i) # 0
    <3>1. PICK e : e = EscapeEnd(t, i)
      OBVIOUS
    <3>2. e \in (i + 1)..n
      BY <1>1, <2>1, <3>1, EscapeEndType
    <3>3. e + 1 \in (i + 1)..(n + 1) /\ i + 1 \in (i + 1)..(n + 1)
      BY <1>2, <3>2
    <3>4. QED
      BY <1>1, <3>1, <3>3 DEF AfterAnsi
  <2>2. CASE EscapeEnd(t, i) = 0
    <3>1. i + 1 \in (i + 1)..(n + 1)
      BY <1>2
    <3>2. QED
      BY <1>1, <2>2, <3>1 DEF AfterAnsi
  <2>3. QED
    BY <2>1, <2>2
<1>4. QED
  BY <1>1, <1>3 DEF Ahead

AddAnsi(t) ==
  [i \in 1..Len(t) |-> [v \in Seq(Char) |->
     IF t[i] = "esc" /\ EscapeEnd(t, i) # 0 THEN v ELSE <<t[i]>> \o v]]

\* The recursion of StripAnsi is one from the end.
LEMMA StripsDescends ==
  ASSUME NEW t \in Seq(Char), NEW f \in [1..(Len(t) + 1) -> Seq(Char)], NEW i \in 1..Len(t)
  PROVE  AddAnsi(t)[i][f[AfterAnsi(t)[i]]] =
           IF t[i] = "esc" /\ EscapeEnd(t, i) # 0 THEN f[EscapeEnd(t, i) + 1]
           ELSE <<t[i]>> \o f[i + 1]
<1>1. PICK j : j = AfterAnsi(t)[i]
  OBVIOUS
<1>2. j \in 1..(Len(t) + 1)
  <2>1. j \in (i + 1)..(Len(t) + 1)
    BY <1>1, AnsiAhead DEF Ahead
  <2>2. Len(t) \in Nat
    OBVIOUS
  <2>3. QED
    BY <2>1, <2>2
<1>3. f[j] \in Seq(Char)
  BY <1>2
<1>4. AddAnsi(t)[i][f[j]] = IF t[i] = "esc" /\ EscapeEnd(t, i) # 0 THEN f[j] ELSE <<t[i]>> \o f[j]
  BY <1>3 DEF AddAnsi
<1>5. j = IF t[i] = "esc" /\ EscapeEnd(t, i) # 0 THEN EscapeEnd(t, i) + 1 ELSE i + 1
  BY <1>1 DEF AfterAnsi
<1>6. QED
  BY <1>1, <1>4, <1>5

LEMMA StripsExists ==
  ASSUME NEW t \in Seq(Char)
  PROVE  \E f \in [1..(Len(t) + 1) -> Seq(Char)] : Strips(f, t)
<1> DEFINE n == Len(t)
           V == Seq(Char)
           gone(i) == t[i] = "esc" /\ EscapeEnd(t, i) # 0
           Body(f) == [i \in 1..(n + 1) |->
                        CASE i > n             -> <<>>
                          [] i <= n /\ gone(i) -> f[EscapeEnd(t, i) + 1]
                          [] OTHER             -> <<t[i]>> \o f[i + 1]]
           from == CHOOSE f : f = Body(f)
<1>1. n \in Nat /\ <<>> \in V /\ \A i \in 1..n : t[i] \in Char
  OBVIOUS
<1>2. StripAnsi(t) = from[1]
  <2>1. StripAnsi(t) = (CHOOSE f : f = [i \in 1..(Len(t) + 1) |->
          CASE i > Len(t)                               -> <<>>
          [] i <= Len(t) /\ t[i] = "esc" /\ EscapeEnd(t, i) # 0 -> f[EscapeEnd(t, i) + 1]
          [] OTHER                                    -> <<t[i]>> \o f[i + 1]])[1]
    BY DEF StripAnsi
  <2>2. QED
    BY <2>1
<1>3. AddAnsi(t) \in [1..n -> [V -> V]]
  <2>1. \A i \in 1..n : \A v \in V : <<t[i]>> \o v \in V
    BY <1>1
  <2>2. QED
    BY <2>1 DEF AddAnsi
<1>4. PICK f \in [1..(n + 1) -> V] : Descends(f, <<>>, n, AfterAnsi(t), AddAnsi(t))
  BY <1>1, <1>3, AnsiAhead, DescentExists
<1>5. /\ f[n + 1] = <<>>
      /\ \A i \in 1..n : f[i] = IF gone(i) THEN f[EscapeEnd(t, i) + 1] ELSE <<t[i]>> \o f[i + 1]
  BY <1>4, StripsDescends DEF Descends
<1> HIDE DEF n, gone, V
<1>6. f = Body(f)
  <2>1. ASSUME NEW i \in 1..(n + 1)
        PROVE  f[i] = CASE i > n             -> <<>>
                        [] i <= n /\ gone(i) -> f[EscapeEnd(t, i) + 1]
                        [] OTHER             -> <<t[i]>> \o f[i + 1]
    <3>1. CASE i > n
      <4>1. i = n + 1 /\ ~(i <= n)
        BY <1>1, <3>1
      <4>2. QED
        BY <1>5, <3>1, <4>1
    <3>2. CASE ~(i > n)
      <4>1. i \in 1..n /\ i <= n
        BY <1>1, <3>2
      <4>2. QED
        BY <1>5, <3>2, <4>1
    <3>3. QED
      BY <3>1, <3>2
  <2>2. f = [i \in 1..(n + 1) |-> f[i]]
    BY <1>4
  <2>3. QED
    BY <2>1, <2>2
<1> HIDE DEF Body
<1>7. from = Body(from)
  BY <1>6
<1> HIDE DEF from
<1>8. /\ from[n + 1] = <<>>
      /\ \A i \in 1..n : from[i] = IF gone(i) THEN from[EscapeEnd(t, i) + 1] ELSE <<t[i]>> \o from[i + 1]
  <2>1. \A i \in 1..(n + 1) : Body(from)[i] =
          CASE i > n             -> <<>>
            [] i <= n /\ gone(i) -> from[EscapeEnd(t, i) + 1]
            [] OTHER             -> <<t[i]>> \o from[i + 1]
    BY DEF Body
  <2>2. n + 1 \in 1..(n + 1) /\ n + 1 > n
    BY <1>1
  <2>3. from[n + 1] = <<>>
    <3>1. PICK i : i = n + 1
      OBVIOUS
    <3>2. i \in 1..(n + 1) /\ i > n /\ ~(i <= n)
      BY <1>1, <3>1
    <3>3. from[i] = Body(from)[i]
      BY <1>7
    <3>4. Body(from)[i] = <<>>
      BY <2>1, <3>2
    <3>5. QED
      BY <3>1, <3>3, <3>4
  <2>4. ASSUME NEW i \in 1..n
        PROVE  from[i] = IF gone(i) THEN from[EscapeEnd(t, i) + 1] ELSE <<t[i]>> \o from[i + 1]
    <3>1. i \in 1..(n + 1) /\ ~(i > n) /\ i <= n
      BY <1>1
    <3>2. from[i] = Body(from)[i]
      BY <1>7
    <3>3. QED
      BY <2>1, <3>1, <3>2
  <2>5. QED
    BY <2>3, <2>4
<1>9. from[1] = f[1]
  <2> DEFINE T == {m \in 1..(n + 1) : \A i \in m..(n + 1) : from[i] = f[i]}
  <2>1. n + 1 \in T
    BY <1>1, <1>5, <1>8
  <2>2. ASSUME NEW m \in 1..((n + 1) - 1), m + 1 \in T PROVE m \in T
    <3>1. m \in 1..n /\ m \in Nat /\ m + 1 \in (m + 1)..(n + 1)
      BY <1>1
    <3>2. gone(m) => EscapeEnd(t, m) + 1 \in (m + 1)..(n + 1)
      <4>1. SUFFICES ASSUME gone(m) PROVE EscapeEnd(t, m) + 1 \in (m + 1)..(n + 1)
        OBVIOUS
      <4>2. PICK e : e = EscapeEnd(t, m)
        OBVIOUS
      <4>3. e \in (m + 1)..n
        BY <3>1, <4>1, <4>2, EscapeEndType DEF gone, n
      <4>4. e + 1 \in (m + 1)..(n + 1)
        BY <1>1, <3>1, <4>3
      <4>5. QED
        BY <4>2, <4>4
    <3>3. from[m] = f[m]
      BY <1>5, <1>8, <2>2, <3>1, <3>2
    <3>4. \A i \in m..(n + 1) : i = m \/ i \in (m + 1)..(n + 1)
      BY <3>1
    <3>5. m \in 1..(n + 1)
      BY <1>1, <3>1
    <3>6. QED
      BY <2>2, <3>3, <3>4, <3>5
  <2> HIDE DEF T
  <2>3. n + 1 \in Nat /\ 1 \in Nat /\ 1 \in 1..(n + 1)
    BY <1>1
  <2>4. \A m \in 1..(n + 1) : m \in T
    BY <2>1, <2>2, <2>3, InductionDownTo
  <2>5. QED
    BY <2>3, <2>4 DEF T
<1>10. Strips(f, t)
  BY <1>2, <1>5, <1>9 DEF Strips, n, gone
<1>11. QED
  BY <1>4, <1>10 DEF V, n

\* What is left of a text from some place on is what is left of the rest.
LEMMA StripBehind ==
  ASSUME NEW t \in Seq(Char), NEW f, Strips(f, t), NEW k \in 0..Len(t)
  PROVE  StripAnsi(Rest(t, k)) = f[k + 1]
<1>1. PICK n, u, m : n = Len(t) /\ u = Rest(t, k) /\ m = n - k
  OBVIOUS
<1>2. n \in Nat /\ k \in Nat /\ m \in Nat /\ n = k + m
  BY <1>1
<1>3. u \in Seq(Char) /\ Len(u) = m /\ \A j \in 1..m : u[j] = t[k + j]
  BY <1>1, RestIs
<1>4. PICK g : Strips(g, u)
  BY <1>3, StripsExists
<1> DEFINE T == {i \in 1..(m + 1) : \A j \in i..(m + 1) : g[j] = f[k + j]}
<1>5. m + 1 \in T
  <2>1. g[m + 1] = <<>> /\ f[n + 1] = <<>> /\ k + (m + 1) = n + 1
    BY <1>1, <1>2, <1>3, <1>4 DEF Strips
  <2>2. \A j \in (m + 1)..(m + 1) : j = m + 1
    BY <1>2
  <2>3. QED
    BY <1>2, <2>1, <2>2
<1>6. ASSUME NEW i \in 1..((m + 1) - 1), i + 1 \in T PROVE i \in T
  <2>1. i \in 1..m /\ i \in Nat /\ k + i \in 1..n /\ i \in 1..(m + 1) /\ i + 1 \in (i + 1)..(m + 1)
        /\ k + (i + 1) = (k + i) + 1
    BY <1>2
  <2>2. PICK e : e = EscapeEnd(u, i)
    OBVIOUS
  <2>3. EscapeEnd(t, k + i) = IF e = 0 THEN 0 ELSE k + e
    BY <1>1, <2>1, <2>2, EscapeEndBehind
  <2>4. u[i] = t[k + i]
    BY <1>3, <2>1
  <2>5. g[i] = IF u[i] = "esc" /\ e # 0 THEN g[e + 1] ELSE <<u[i]>> \o g[i + 1]
    BY <1>3, <1>4, <2>1, <2>2 DEF Strips
  <2>6. f[k + i] = IF t[k + i] = "esc" /\ EscapeEnd(t, k + i) # 0 THEN f[EscapeEnd(t, k + i) + 1]
                   ELSE <<t[k + i]>> \o f[(k + i) + 1]
    BY <1>1, <2>1 DEF Strips
  <2>7. g[i + 1] = f[(k + i) + 1]
    BY <1>6, <2>1
  <2>8. e # 0 => /\ EscapeEnd(t, k + i) # 0
                 /\ g[e + 1] = f[EscapeEnd(t, k + i) + 1]
    <3> SUFFICES ASSUME e # 0 PROVE EscapeEnd(t, k + i) # 0 /\ g[e + 1] = f[EscapeEnd(t, k + i) + 1]
      OBVIOUS
    <3>1. e \in (i + 1)..m
      BY <1>3, <2>1, <2>2, EscapeEndType
    <3>2. e + 1 \in (i + 1)..(m + 1) /\ k + (e + 1) = (k + e) + 1 /\ k + e # 0
      BY <1>2, <2>1, <3>1
    <3>3. g[e + 1] = f[k + (e + 1)]
      BY <1>6, <3>2
    <3>4. QED
      BY <2>3, <3>2, <3>3
  <2>9. e = 0 => EscapeEnd(t, k + i) = 0
    BY <2>3
  <2>10. g[i] = f[k + i]
    BY <2>4, <2>5, <2>6, <2>7, <2>8, <2>9
  <2>11. \A j \in i..(m + 1) : j = i \/ j \in (i + 1)..(m + 1)
    BY <2>1
  <2>12. QED
    BY <1>6, <2>1, <2>10, <2>11
<1> HIDE DEF T
<1>7. 1 \in T
  <2>1. m + 1 \in Nat /\ 1 \in Nat /\ 1 \in 1..(m + 1)
    BY <1>2
  <2>2. \A i \in 1..(m + 1) : i \in T
    BY <1>5, <1>6, <2>1, InductionDownTo
  <2>3. QED
    BY <2>1, <2>2
<1>8. g[1] = f[k + 1]
  <2>1. 1 \in 1..(m + 1)
    BY <1>2
  <2>2. QED
    BY <1>7, <2>1 DEF T
<1>9. QED
  BY <1>1, <1>4, <1>8 DEF Strips

-----------------------------------------------------------------------------
(* The grammar of escapes, and what EscapeEnd finds.                        *)

Csi(e) ==
  /\ Len(e) >= 3 /\ e[Len(e)] \in Finals
  /\ \E k \in 2..(Len(e) - 1) :
       /\ \A j \in 3..k : e[j] \in Params
       /\ \A j \in (k + 1)..(Len(e) - 1) : e[j] \in Intermediates

Osc(e) ==
  /\ Len(e) >= 3
  /\ \/ e[Len(e)] = "bel"
     \/ Len(e) >= 4 /\ e[Len(e) - 1] = "esc" /\ e[Len(e)] = "bs"
  /\ \A j \in 3..(Len(e) - 1) : e[j] # "bel"
  /\ \A j \in 3..(Len(e) - 2) : ~(e[j] = "esc" /\ e[j + 1] = "bs")

\* A piece of a text, place by place.
LEMMA PieceIs ==
  ASSUME NEW t \in Seq(Char), NEW i \in 1..Len(t), NEW n \in (i + 1)..Len(t)
  PROVE  LET e == SubSeq(t, i, n)
         IN  Len(e) = (n - i) + 1 /\ \A j \in 1..((n - i) + 1) : e[j] = t[(i - 1) + j]
<1>1. PICK m, e : m = Len(t) /\ e = SubSeq(t, i, n)
  OBVIOUS
<1>2. m \in Nat /\ i \in Int /\ n \in Int /\ i >= 1 /\ i <= n /\ n <= m
  BY <1>1
<1>3. \A j \in i..n : t[j] \in Char
  BY <1>1, <1>2
<1>4. /\ Len(e) = IF i <= n THEN n - i + 1 ELSE 0
      /\ \A j \in 1..(n - i + 1) : e[j] = t[i + j - 1]
  BY <1>1, <1>2, <1>3, SubSeqProperties
<1>5. ASSUME NEW j \in 1..((n - i) + 1) PROVE e[j] = t[(i - 1) + j]
  <2>1. i + j - 1 = (i - 1) + j
    BY <1>2
  <2>2. QED
    BY <1>4, <2>1
<1>6. Len(e) = (n - i) + 1
  BY <1>2, <1>4
<1>7. QED
  BY <1>1, <1>5, <1>6

\* Which character is the second decides here as well.
LEMMA EscapeKinds ==
  ASSUME NEW e, Len(e) \in Nat, Len(e) >= 2, e[1] = "esc"
  PROVE  /\ e[2] = "[" => (IsEscape(e) <=> Csi(e))
         /\ e[2] = "]" => (IsEscape(e) <=> Osc(e))
         /\ e[2] \in Fe \ {"[", "]"} => (IsEscape(e) <=> Len(e) = 2)
         /\ e[2] \notin Fe \cup {"[", "]"} => ~IsEscape(e)
<1>1. IsEscape(e) <=> \/ Len(e) = 2 /\ e[1] = "esc" /\ e[2] \in Fe \ {"[", "]"}
                      \/ e[1] = "esc" /\ e[2] = "[" /\ Csi(e)
                      \/ e[1] = "esc" /\ e[2] = "]" /\ Osc(e)
  BY Zenon DEF IsEscape, Csi, Osc
<1>2. "[" # "]"
  OBVIOUS
<1>3. QED
  BY <1>1, <1>2

\* A control sequence is read as the grammar has it.
LEMMA CsiIs ==
  ASSUME NEW t \in Seq(Char), NEW i \in 1..Len(t), NEW n \in (i + 1)..Len(t)
  PROVE  Csi(SubSeq(t, i, n)) <=> CsiEnd(t, i) = n
<1>1. PICK m, e, a, b : /\ m = Len(t) /\ e = SubSeq(t, i, n)
                        /\ a = Skip(t, i + 2, Params) /\ b = Skip(t, a, Intermediates)
  OBVIOUS
<1>2. m \in Nat /\ i \in Nat /\ n \in Nat /\ i >= 1 /\ i + 1 <= n /\ n <= m
  BY <1>1
<1>3. PICK l : l = (n - i) + 1
  OBVIOUS
<1>4. Len(e) = l /\ l \in Nat /\ \A j \in 1..l : e[j] = t[(i - 1) + j]
  BY <1>1, <1>2, <1>3, PieceIs
<1>5. i + 2 \in 1..(m + 1)
  BY <1>2
<1>6. Skips(t, i + 2, Params, a)
  BY <1>1, <1>5, SkipIs
<1>7. a \in (i + 2)..(m + 1) /\ \A j \in (i + 2)..(a - 1) : t[j] \in Params
  BY <1>1, <1>6 DEF Skips
<1>8. a \in 1..(m + 1)
  BY <1>2, <1>7
<1>9. Skips(t, a, Intermediates, b)
  BY <1>1, <1>8, SkipIs
<1>10. b \in a..(m + 1) /\ \A j \in a..(b - 1) : t[j] \in Intermediates
  BY <1>1, <1>9 DEF Skips
<1>11. CsiEnd(t, i) = IF At(t, b, Finals) THEN b ELSE 0
  BY <1>1 DEF CsiEnd
<1>12. \A c : /\ c \in Intermediates => c \notin Params
              /\ c \in Finals => c \notin Params /\ c \notin Intermediates
  BY DEF Params, Intermediates, Finals
<1>13. ASSUME CsiEnd(t, i) = n PROVE Csi(e)
  <2>1. n # 0
    BY <1>2
  <2>2. b = n /\ t[n] \in Finals
    BY <1>11, <1>13, <2>1 DEF At
  <2>3. l >= 3 /\ l \in 1..l /\ (i - 1) + l = n
    BY <1>2, <1>3, <1>7, <1>10, <2>2
  <2>4. e[l] \in Finals
    BY <1>4, <2>2, <2>3
  <2>5. PICK k : k = a - i
    OBVIOUS
  <2>6. k \in 2..(l - 1) /\ (i - 1) + (k + 1) = a
    BY <1>2, <1>3, <1>7, <1>10, <2>2, <2>5
  <2>7. ASSUME NEW j \in 3..k PROVE e[j] \in Params
    <3>1. j \in 1..l /\ (i - 1) + j \in (i + 2)..(a - 1)
      BY <1>2, <2>3, <2>6
    <3>2. QED
      BY <1>4, <1>7, <3>1
  <2>8. ASSUME NEW j \in (k + 1)..(l - 1) PROVE e[j] \in Intermediates
    <3>1. j \in 1..l /\ (i - 1) + j \in a..(b - 1)
      BY <1>2, <2>2, <2>3, <2>6
    <3>2. QED
      BY <1>4, <1>10, <3>1
  <2>9. QED
    BY <1>4, <2>3, <2>4, <2>6, <2>7, <2>8 DEF Csi
<1>14. ASSUME Csi(e) PROVE CsiEnd(t, i) = n
  <2>1. l >= 3 /\ e[l] \in Finals
    BY <1>4, <1>14 DEF Csi
  <2>2. PICK k \in 2..(l - 1) : /\ \A j \in 3..k : e[j] \in Params
                                /\ \A j \in (k + 1)..(l - 1) : e[j] \in Intermediates
    BY <1>4, <1>14 DEF Csi
  <2>3. PICK p : p = i + k
    OBVIOUS
  <2>4. /\ k \in Nat /\ p \in (i + 2)..n /\ p \in (i + 2)..(m + 1) /\ p \in 1..(m + 1)
        /\ n \in p..(m + 1) /\ (i - 1) + l = n /\ l \in 1..l
    BY <1>2, <1>3, <2>1, <2>2, <2>3
  <2>5. t[n] \in Finals
    BY <1>4, <2>1, <2>4
  <2>6. ASSUME NEW q \in (i + 2)..(p - 1) PROVE t[q] \in Params
    <3>1. PICK j : j = q - (i - 1)
      OBVIOUS
    <3>2. j \in 3..k /\ j \in 1..l /\ (i - 1) + j = q
      BY <1>2, <1>3, <2>2, <2>3, <3>1
    <3>3. QED
      BY <1>4, <2>2, <3>2
  <2>7. ASSUME NEW q \in p..(n - 1) PROVE t[q] \in Intermediates
    <3>1. PICK j : j = q - (i - 1)
      OBVIOUS
    <3>2. j \in (k + 1)..(l - 1) /\ j \in 1..l /\ (i - 1) + j = q
      BY <1>2, <1>3, <2>2, <2>3, <3>1
    <3>3. QED
      BY <1>4, <2>2, <3>2
  <2>8. t[p] \notin Params
    <3>1. CASE p = n
      BY <1>12, <2>5, <3>1
    <3>2. CASE p # n
      <4>1. p \in p..(n - 1)
        BY <1>2, <2>4, <3>2
      <4>2. QED
        BY <1>12, <2>7, <4>1
    <3>3. QED
      BY <3>1, <3>2
  <2>9. Skips(t, i + 2, Params, p)
    BY <1>1, <2>4, <2>6, <2>8 DEF Skips
  <2>10. p = a
    BY <1>1, <1>5, <1>6, <2>9, SkipsOnce
  <2>11. t[n] \notin Intermediates
    BY <1>12, <2>5
  <2>12. Skips(t, a, Intermediates, n)
    BY <1>1, <2>4, <2>7, <2>10, <2>11 DEF Skips
  <2>13. n = b
    BY <1>1, <1>8, <1>9, <2>12, SkipsOnce
  <2>14. At(t, b, Finals)
    BY <1>1, <1>2, <2>5, <2>13 DEF At
  <2>15. QED
    BY <1>11, <2>13, <2>14
<1>15. QED
  BY <1>1, <1>13, <1>14

\* The end of a payload is looked for as the grammar has it.
LEMMA OscIs ==
  ASSUME NEW t \in Seq(Char), NEW i \in 1..Len(t), NEW n \in (i + 1)..Len(t)
  PROVE  Osc(SubSeq(t, i, n)) <=> OscEnd(t, i) = n /\ Closes(t, i, n)
<1>1. PICK m, e, d, l : m = Len(t) /\ e = SubSeq(t, i, n) /\ d = i - 1 /\ l = (n - i) + 1
  OBVIOUS
<1>2. /\ m \in Nat /\ i \in Nat /\ n \in Nat /\ i >= 1 /\ i + 1 <= n /\ n <= m
      /\ d \in Nat /\ l \in Nat /\ l >= 2 /\ d + l = n /\ i = d + 1
  BY <1>1
<1>3. Len(e) = l /\ \A j \in 1..l : e[j] = t[d + j]
  BY <1>1, PieceIs
<1>4. i \in 1..(m - 1)
  BY <1>2
<1>5. OscEnds(t, i, OscEnd(t, i))
  BY <1>1, <1>4, OscEndIs
<1> DEFINE Bel(j) == e[j] = "bel"
           Esc(j) == e[j] = "esc"
           Bs(j) == e[j] = "bs"
<1>6. ASSUME NEW j \in 2..l
      PROVE  Closes(t, i, d + j) <=> (j >= 3 /\ Bel(j)) \/ (j >= 4 /\ Bs(j) /\ Esc(j - 1))
  <2>1. j \in 1..l /\ j - 1 \in 1..l /\ d + (j - 1) = (d + j) - 1
        /\ (d + j > i + 1 <=> j >= 3) /\ (d + j > i + 2 <=> j >= 4)
    BY <1>2
  <2>2. e[j] = t[d + j] /\ e[j - 1] = t[(d + j) - 1]
    BY <1>3, <2>1
  <2>3. QED
    BY <2>1, <2>2 DEF Closes
<1>7. \A j \in Int : Bel(j) => ~Bs(j)
  OBVIOUS
<1>8. Osc(e) <=> /\ l >= 3 /\ (Bel(l) \/ (l >= 4 /\ Esc(l - 1) /\ Bs(l)))
                 /\ \A j \in 3..(l - 1) : ~Bel(j)
                 /\ \A j \in 3..(l - 2) : ~(Esc(j) /\ Bs(j + 1))
  <2>1. Len(e) = l
    BY <1>3
  <2>2. QED
    BY <2>1, Zenon DEF Osc
<1> HIDE DEF Bel, Esc, Bs
<1>9. ASSUME Osc(e) PROVE OscEnd(t, i) = n /\ Closes(t, i, n)
  <2>1. Closes(t, i, n)
    BY <1>2, <1>6, <1>8, <1>9
  <2>2. ASSUME NEW q \in (i + 1)..(n - 1) PROVE ~Closes(t, i, q)
    <3>1. PICK j : j = q - d
      OBVIOUS
    <3>2. j \in 2..(l - 1) /\ j \in 2..l /\ d + j = q /\ (j >= 3 => j \in 3..(l - 1))
          /\ (j >= 4 => j - 1 \in 3..(l - 2) /\ (j - 1) + 1 = j)
      BY <1>2, <3>1
    <3>3. Closes(t, i, q) <=> (j >= 3 /\ Bel(j)) \/ (j >= 4 /\ Bs(j) /\ Esc(j - 1))
      BY <1>6, <3>2
    <3>4. j >= 3 => ~Bel(j)
      BY <1>8, <1>9, <3>2
    <3>5. j >= 4 => ~(Esc(j - 1) /\ Bs((j - 1) + 1))
      BY <1>8, <1>9, <3>2
    <3>6. QED
      BY <3>2, <3>3, <3>4, <3>5
  <2>3. OscEnds(t, i, n)
    BY <1>1, <1>2, <2>1, <2>2 DEF OscEnds
  <2>4. QED
    BY <1>2, <1>5, <2>1, <2>3, OscEndsOnce
<1>10. ASSUME OscEnd(t, i) = n, Closes(t, i, n) PROVE Osc(e)
  <2>1. l >= 3 /\ (Bel(l) \/ (l >= 4 /\ Esc(l - 1) /\ Bs(l)))
    <3>1. l \in 2..l
      BY <1>2
    <3>2. Closes(t, i, d + l) <=> (l >= 3 /\ Bel(l)) \/ (l >= 4 /\ Bs(l) /\ Esc(l - 1))
      BY <1>6, <3>1
    <3>3. l >= 4 => l >= 3
      BY <1>2
    <3>4. QED
      BY <1>2, <1>10, <3>2, <3>3
  <2>2. \A q \in (i + 1)..(n - 1) : ~Closes(t, i, q)
    BY <1>5, <1>10 DEF OscEnds
  <2>3. ASSUME NEW j \in 3..(l - 1) PROVE ~Bel(j)
    <3>1. d + j \in (i + 1)..(n - 1) /\ j \in 2..l /\ j >= 3
      BY <1>2
    <3>2. QED
      BY <1>6, <2>2, <3>1
  <2>4. ASSUME NEW j \in 3..(l - 2) PROVE ~(Esc(j) /\ Bs(j + 1))
    <3>1. PICK k : k = j + 1
      OBVIOUS
    <3>2. d + k \in (i + 1)..(n - 1) /\ k \in 2..l /\ k >= 4 /\ k - 1 = j
      BY <1>2, <3>1
    <3>3. ~(k >= 4 /\ Bs(k) /\ Esc(k - 1))
      BY <1>6, <2>2, <3>2
    <3>4. QED
      BY <3>1, <3>2, <3>3
  <2>5. QED
    BY <1>8, <2>1, <2>3, <2>4
<1>11. QED
  BY <1>1, <1>9, <1>10

\* What an ESC begins is an escape of the grammar exactly if EscapeEnd finds
\* its end, and a payload is closed there.
LEMMA EscapeIs ==
  ASSUME NEW t \in Seq(Char), NEW i \in 1..Len(t), t[i] = "esc", NEW n \in (i + 1)..Len(t)
  PROVE  IsEscape(SubSeq(t, i, n)) <=>
           EscapeEnd(t, i) = n /\ (At(t, i + 1, {"]"}) => Closes(t, i, n))
<1>1. PICK m, e : m = Len(t) /\ e = SubSeq(t, i, n)
  OBVIOUS
<1>2. m \in Nat /\ i \in Nat /\ n \in Nat /\ i + 1 <= m /\ i + 1 <= n /\ n # 0
  BY <1>1
<1>3. /\ Len(e) = (n - i) + 1 /\ Len(e) \in Nat /\ Len(e) >= 2
      /\ e[1] = t[i] /\ e[2] = t[i + 1]
  <2>1. Len(e) = (n - i) + 1 /\ \A j \in 1..((n - i) + 1) : e[j] = t[(i - 1) + j]
    BY <1>1, PieceIs
  <2>2. /\ (n - i) + 1 \in Nat /\ (n - i) + 1 >= 2 /\ 1 \in 1..((n - i) + 1) /\ 2 \in 1..((n - i) + 1)
        /\ (i - 1) + 1 = i /\ (i - 1) + 2 = i + 1
    BY <1>2
  <2>3. QED
    BY <2>1, <2>2
<1>4. \A S : At(t, i + 1, S) <=> e[2] \in S
  BY <1>1, <1>2, <1>3 DEF At
<1>5. CASE e[2] = "["
  <2>1. At(t, i + 1, {"["}) /\ ~At(t, i + 1, {"]"})
    BY <1>4, <1>5
  <2>2. IsEscape(e) <=> Csi(e)
    BY <1>3, <1>5, EscapeKinds
  <2>3. Csi(e) <=> CsiEnd(t, i) = n
    BY <1>1, CsiIs
  <2>4. EscapeEnd(t, i) = CsiEnd(t, i)
    BY <2>1, EscapeEndCases
  <2>5. QED
    BY <1>1, <2>1, <2>2, <2>3, <2>4
<1>6. CASE e[2] = "]"
  <2>1. At(t, i + 1, {"]"})
    BY <1>4, <1>6
  <2>2. IsEscape(e) <=> Osc(e)
    BY <1>3, <1>6, EscapeKinds
  <2>3. Osc(e) <=> OscEnd(t, i) = n /\ Closes(t, i, n)
    BY <1>1, OscIs
  <2>4. EscapeEnd(t, i) = OscEnd(t, i)
    BY <2>1, EscapeEndCases
  <2>5. QED
    BY <1>1, <2>1, <2>2, <2>3, <2>4
<1>7. CASE e[2] \in Fe \ {"[", "]"}
  <2>1. At(t, i + 1, Fe \ {"[", "]"}) /\ ~At(t, i + 1, {"]"})
    BY <1>4, <1>7
  <2>2. IsEscape(e) <=> Len(e) = 2
    BY <1>3, <1>7, EscapeKinds
  <2>3. EscapeEnd(t, i) = i + 1
    BY <2>1, EscapeEndCases
  <2>4. Len(e) = 2 <=> i + 1 = n
    BY <1>2, <1>3
  <2>5. QED
    BY <1>1, <2>1, <2>2, <2>3, <2>4
<1>8. CASE e[2] \notin Fe \cup {"[", "]"}
  <2>1. /\ ~At(t, i + 1, {"["}) /\ ~At(t, i + 1, {"]"}) /\ ~At(t, i + 1, Fe \ {"[", "]"})
    BY <1>4, <1>8
  <2>2. ~IsEscape(e)
    BY <1>3, <1>8, EscapeKinds
  <2>3. EscapeEnd(t, i) = 0
    BY <2>1, EscapeEndCases
  <2>4. QED
    BY <1>1, <1>2, <2>2, <2>3
<1>9. QED
  BY <1>5, <1>6, <1>7, <1>8

LEMMA Associates ==
  ASSUME NEW u \in Seq(Char), NEW v \in Seq(Char), NEW w \in Seq(Char)
  PROVE  u \o (v \o w) = (u \o v) \o w
  BY ConcatAssociative

\* What stands before the first ESC stays.
LEMMA PrefixStays ==
  ASSUME NEW t \in Seq(Char), NEW f \in [1..(Len(t) + 1) -> Seq(Char)], Strips(f, t),
         NEW i \in 1..(Len(t) + 1), \A j \in 1..(i - 1) : t[j] # "esc"
  PROVE  Prefix(t, i - 1) \in Seq(Char) /\ f[1] = Prefix(t, i - 1) \o f[i]
<1>1. PICK n, d : n = Len(t) /\ d = i - 1
  OBVIOUS
<1>2. n \in Nat /\ d \in 0..n /\ i = d + 1
  BY <1>1
<1> DEFINE T == {k \in 0..d : Prefix(t, k) \in Seq(Char) /\ f[1] = Prefix(t, k) \o f[k + 1]}
<1>3. 0 \in T
  <2>1. Prefix(t, 0) = <<>>
    BY SubSeqEmpty DEF Prefix
  <2>2. PICK v : v = f[1]
    OBVIOUS
  <2>3. v \in Seq(Char) /\ <<>> \in Seq(Char)
    BY <1>1, <1>2, <2>2
  <2>4. v = <<>> \o v
    BY <2>3, ConcatEmptySeq
  <2>5. 0 \in 0..d /\ 0 + 1 = 1
    BY <1>2
  <2>6. QED
    BY <2>1, <2>2, <2>3, <2>4, <2>5
<1>4. ASSUME NEW k \in 1..d, k - 1 \in T PROVE k \in T
  <2>1. /\ k \in 1..n /\ k \in 1..(n + 1) /\ k + 1 \in 1..(n + 1) /\ (k - 1) + 1 = k
        /\ k \in 1..(i - 1) /\ k \in 0..d
    BY <1>1, <1>2
  <2>2. PICK u, v, c : u = Prefix(t, k - 1) /\ v = f[k + 1] /\ c = <<t[k]>>
    OBVIOUS
  <2>3. u \in Seq(Char) /\ v \in Seq(Char) /\ c \in Seq(Char)
    <3>1. t[k] \in Char
      BY <1>1, <2>1
    <3>2. u \in Seq(Char)
      BY <1>4, <2>2
    <3>3. v \in Seq(Char)
      BY <1>1, <2>1, <2>2
    <3>4. PICK x : x = t[k]
      OBVIOUS
    <3>5. c \in Seq(Char)
      BY <2>2, <3>1, <3>4
    <3>6. QED
      BY <3>2, <3>3, <3>5
  <2>4. f[1] = u \o f[k]
    BY <1>4, <2>1, <2>2
  <2>5. f[k] = c \o v
    <3>1. t[k] # "esc"
      BY <2>1
    <3>2. QED
      BY <1>1, <2>1, <2>2, <3>1 DEF Strips
  <2>6. Prefix(t, k) = u \o c
    BY <1>1, <2>1, <2>2, SubSeqRecursiveSecond DEF Prefix
  <2>7. u \o c \in Seq(Char) /\ u \o (c \o v) = (u \o c) \o v
    <3>1. u \o c \in Seq(Char)
      BY <2>3
    <3>2. QED
      BY <2>3, <3>1, Associates
  <2>8. QED
    BY <2>1, <2>2, <2>4, <2>5, <2>6, <2>7
<1>5. d \in T
  <2> HIDE DEF T
  <2>1. d \in Nat
    BY <1>2
  <2>2. \A k \in 0..d : k \in T
    BY <1>3, <1>4, <2>1, InductionUpTo
  <2>3. QED
    BY <2>1, <2>2
<1> HIDE DEF T
<1>6. QED
  BY <1>1, <1>2, <1>5 DEF T

\* The first ESC of a text.
Ends(t, i) == {n \in (i + 1)..Len(t) : IsEscape(SubSeq(t, i, n))}

LEMMA FirstEscape ==
  ASSUME NEW t \in Seq(Char), NEW i \in 1..Len(t), t[i] = "esc",
         \A j \in 1..(i - 1) : t[j] # "esc"
  PROVE  /\ Ends(t, i) # {} =>
              StripAnsi(t) = Prefix(t, i - 1) \o StripAnsi(Rest(t, CHOOSE n \in Ends(t, i) : TRUE))
         /\ Ends(t, i) = {} /\ At(t, i + 1, {"]"}) => StripAnsi(t) = Prefix(t, i - 1)
         /\ Ends(t, i) = {} /\ ~At(t, i + 1, {"]"}) =>
              StripAnsi(t) = Append(Prefix(t, i - 1), "esc") \o StripAnsi(Rest(t, i))
<1>1. PICK m, end, before : m = Len(t) /\ end = EscapeEnd(t, i) /\ before = Prefix(t, i - 1)
  OBVIOUS
<1>2. m \in Nat /\ i \in Nat /\ i >= 1 /\ i <= m
  BY <1>1
<1>3. PICK f \in [1..(Len(t) + 1) -> Seq(Char)] : Strips(f, t)
  BY StripsExists
<1>4. before \in Seq(Char) /\ StripAnsi(t) = before \o f[i]
  <2>1. Prefix(t, i - 1) \in Seq(Char) /\ f[1] = Prefix(t, i - 1) \o f[i]
    <3>1. i \in 1..(Len(t) + 1)
      BY <1>1, <1>2
    <3>2. QED
      BY <1>3, <3>1, PrefixStays
  <2>2. StripAnsi(t) = f[1]
    BY <1>3 DEF Strips
  <2>3. QED
    BY <1>1, <2>1, <2>2
<1>5. f[i] = IF end # 0 THEN f[end + 1] ELSE <<"esc">> \o f[i + 1]
  BY <1>1, <1>2, <1>3 DEF Strips
<1>6. end # 0 => end \in (i + 1)..m
  BY <1>1, EscapeEndType
<1>7. \A n : n \in Ends(t, i) <=>
        n \in (i + 1)..m /\ end = n /\ (At(t, i + 1, {"]"}) => Closes(t, i, n))
  <2>1. \A n : n \in Ends(t, i) <=> n \in (i + 1)..m /\ IsEscape(SubSeq(t, i, n))
    BY <1>1 DEF Ends
  <2>2. \A n \in (i + 1)..m : IsEscape(SubSeq(t, i, n)) <=>
          end = n /\ (At(t, i + 1, {"]"}) => Closes(t, i, n))
    BY <1>1, EscapeIs
  <2>3. QED
    BY <2>1, <2>2, Zenon
<1>8. ASSUME Ends(t, i) # {}
      PROVE  StripAnsi(t) = before \o StripAnsi(Rest(t, CHOOSE n \in Ends(t, i) : TRUE))
  <2>1. PICK n : n = CHOOSE x \in Ends(t, i) : TRUE
    OBVIOUS
  <2>2. n \in Ends(t, i)
    BY <1>8, <2>1
  <2>3. n = end /\ n \in (i + 1)..m
    BY <1>7, <2>2
  <2>4. n \in 0..m /\ n # 0
    BY <1>2, <2>3
  <2>5. StripAnsi(Rest(t, n)) = f[n + 1]
    BY <1>1, <1>3, <2>4, StripBehind
  <2>6. StripAnsi(t) = before \o StripAnsi(Rest(t, n))
    BY <1>4, <1>5, <2>3, <2>4, <2>5
  <2>7. QED
    BY <2>1, <2>6
<1>9. ASSUME Ends(t, i) = {}, At(t, i + 1, {"]"}) PROVE StripAnsi(t) = before
  <2>1. i + 1 <= m
    BY <1>1, <1>9 DEF At
  <2>2. i \in 1..(m - 1)
    BY <1>2, <2>1
  <2>3. OscEnds(t, i, OscEnd(t, i))
    BY <1>1, <2>2, OscEndIs
  <2>4. end = OscEnd(t, i)
    BY <1>1, <1>9, EscapeEndCases
  <2>5. end \in (i + 1)..m /\ (end = m \/ Closes(t, i, end))
    BY <1>1, <2>3, <2>4 DEF OscEnds
  <2>6. end = m /\ end # 0
    BY <1>2, <1>7, <1>9, <2>5
  <2>7. f[i] = <<>>
    BY <1>1, <1>3, <1>5, <2>6 DEF Strips
  <2>8. QED
    BY <1>4, <2>7, ConcatEmptySeq
<1>10. ASSUME Ends(t, i) = {}, ~At(t, i + 1, {"]"})
       PROVE  StripAnsi(t) = Append(before, "esc") \o StripAnsi(Rest(t, i))
  <2>1. end = 0
    BY <1>6, <1>7, <1>10
  <2>2. PICK c : c = t[i]
    OBVIOUS
  <2>3. c \in Char /\ <<c>> \in Seq(Char) /\ c = "esc"
    BY <2>2
  <2>4. PICK v : v = f[i + 1]
    OBVIOUS
  <2>5. v \in Seq(Char)
    <3>1. i + 1 \in 1..(Len(t) + 1)
      BY <1>1, <1>2
    <3>2. QED
      BY <2>4, <3>1
  <2>6. StripAnsi(Rest(t, i)) = v
    <3>1. i \in 0..Len(t)
      BY <1>1, <1>2
    <3>2. QED
      BY <1>3, <2>4, <3>1, StripBehind
  <2>7. StripAnsi(t) = before \o (<<c>> \o v)
    BY <1>4, <1>5, <2>1, <2>3, <2>4
  <2>8. before \o (<<c>> \o v) = (before \o <<c>>) \o v
    BY <1>4, <2>3, <2>5, Associates
  <2>9. Append(before, c) = before \o <<c>>
    BY <1>4, <2>3, AppendIsConcat
  <2>10. QED
    BY <2>3, <2>6, <2>7, <2>8, <2>9
<1>11. QED
  BY <1>1, <1>8, <1>9, <1>10

THEOREM TerminalEscapesGo == TextSpec => []EscapesGo
<1>1. JsonInv => EscapesGo
  <2> SUFFICES ASSUME JsonInv, NEW i \in 1..Len(text), text[i] = "esc",
                      \A j \in 1..(i - 1) : text[j] # "esc"
               PROVE  LET before == Prefix(text, i - 1)
                          ends   == {n \in (i + 1)..Len(text) : IsEscape(SubSeq(text, i, n))}
                      IN  StripAnsi(text) =
                            CASE ends # {} -> before \o StripAnsi(Rest(text, CHOOSE n \in ends : TRUE))
                              [] ends = {} /\ At(text, i + 1, {"]"}) -> before
                              [] OTHER -> Append(before, "esc") \o StripAnsi(Rest(text, i))
    BY DEF EscapesGo
  <2>1. text \in Seq(Char)
    BY DEF JsonInv
  <2> DEFINE open == At(text, i + 1, {"]"})
             before == Prefix(text, i - 1)
             after(n) == StripAnsi(Rest(text, n))
  <2>2. /\ Ends(text, i) # {} => StripAnsi(text) = before \o after(CHOOSE n \in Ends(text, i) : TRUE)
        /\ Ends(text, i) = {} /\ open => StripAnsi(text) = before
        /\ Ends(text, i) = {} /\ ~open => StripAnsi(text) = Append(before, "esc") \o after(i)
    BY <2>1, FirstEscape
  <2> HIDE DEF open, before, after
  <2>3. StripAnsi(text) =
          CASE Ends(text, i) # {} -> before \o after(CHOOSE n \in Ends(text, i) : TRUE)
            [] Ends(text, i) = {} /\ open -> before
            [] OTHER -> Append(before, "esc") \o after(i)
    <3>1. CASE Ends(text, i) # {}
      BY <2>2, <3>1
    <3>2. CASE Ends(text, i) = {} /\ open
      BY <2>2, <3>2
    <3>3. CASE Ends(text, i) = {} /\ ~open
      BY <2>2, <3>3
    <3>4. QED
      BY <3>1, <3>2, <3>3
  <2>4. QED
    BY <2>3 DEF Ends, open, before, after
<1>2. QED
  BY <1>1, JsonInvariant, PTL

-----------------------------------------------------------------------------
(* Variants of a text.                                                      *)

LEMMA SeqsAssociate ==
  ASSUME NEW S, NEW u \in Seq(S), NEW v \in Seq(S), NEW w \in Seq(S)
  PROVE  (u \o v) \o w = u \o (v \o w)
  BY ConcatAssociative

\* Two texts in a row, place by place.
LEMMA InARow ==
  ASSUME NEW S, NEW s \in Seq(S), NEW t \in Seq(S)
  PROVE  /\ s \o t \in Seq(S) /\ Len(s \o t) = Len(s) + Len(t)
         /\ \A i \in 1..Len(s) : (s \o t)[i] = s[i]
         /\ \A j \in 1..Len(t) : (s \o t)[Len(s) + j] = t[j]
<1>1. /\ s \o t \in Seq(S) /\ Len(s \o t) = Len(s) + Len(t)
      /\ \A i \in 1..(Len(s) + Len(t)) :
           (s \o t)[i] = IF i <= Len(s) THEN s[i] ELSE t[i - Len(s)]
  BY ConcatProperties
<1>2. PICK n, m, w : n = Len(s) /\ m = Len(t) /\ w = s \o t
  OBVIOUS
<1>3. n \in Nat /\ m \in Nat
  BY <1>2
<1>4. \A i \in 1..(n + m) : w[i] = IF i <= n THEN s[i] ELSE t[i - n]
  BY <1>1, <1>2
<1>5. \A i \in 1..n : w[i] = s[i]
  BY <1>3, <1>4
<1>6. ASSUME NEW j \in 1..m PROVE w[n + j] = t[j]
  <2>1. PICK i : i = n + j
    OBVIOUS
  <2>2. i \in 1..(n + m) /\ ~(i <= n) /\ i - n = j
    BY <1>3, <2>1
  <2>3. QED
    BY <1>4, <2>1, <2>2
<1>7. QED
  BY <1>1, <1>2, <1>5, <1>6

\* What is selected from two texts in a row.
LEMMA SelectConcat ==
  ASSUME NEW S, NEW s \in Seq(S), NEW t \in Seq(S), NEW P, NEW Q, NEW R,
         \A i \in 1..Len(s) : i \in R <=> i \in P,
         \A j \in 1..Len(t) : Len(s) + j \in R <=> j \in Q
  PROVE  /\ Select(s \o t, R) = Select(s, P) \o Select(t, Q)
         /\ Select(s, P) \in Seq(S) /\ Select(t, Q) \in Seq(S)
<1>1. PICK n, m, w : n = Len(s) /\ m = Len(t) /\ w = s \o t
  OBVIOUS
<1>2. /\ n \in Nat /\ m \in Nat /\ w \in Seq(S) /\ Len(w) = n + m
      /\ \A i \in 1..n : w[i] = s[i]
      /\ \A j \in 1..m : w[n + j] = t[j]
  BY <1>1, InARow
<1>3. PICK f \in [0..n -> Seq(S)] : Selects(f, s, P)
  BY <1>1, SelectRec
<1>4. PICK g \in [0..m -> Seq(S)] : Selects(g, t, Q)
  BY <1>1, SelectRec
<1>5. PICK h \in [0..(n + m) -> Seq(S)] : Selects(h, w, R)
  BY <1>2, SelectRec
<1>6. /\ f[0] = <<>> /\ Select(s, P) = f[n]
      /\ \A i \in 1..n : f[i] = IF i \in P THEN Append(f[i - 1], s[i]) ELSE f[i - 1]
  BY <1>1, <1>3 DEF Selects
<1>7. /\ g[0] = <<>> /\ Select(t, Q) = g[m]
      /\ \A j \in 1..m : g[j] = IF j \in Q THEN Append(g[j - 1], t[j]) ELSE g[j - 1]
  BY <1>1, <1>4 DEF Selects
<1>8. /\ h[0] = <<>> /\ Select(w, R) = h[n + m]
      /\ \A i \in 1..(n + m) : h[i] = IF i \in R THEN Append(h[i - 1], w[i]) ELSE h[i - 1]
  BY <1>2, <1>5 DEF Selects
<1>9. \A i \in 0..n : h[i] = f[i]
  <2> DEFINE T == {i \in 0..n : h[i] = f[i]}
  <2>1. 0 \in T
    BY <1>2, <1>6, <1>8
  <2>2. ASSUME NEW i \in 1..n, i - 1 \in T PROVE i \in T
    <3>1. i \in 1..(n + m) /\ i \in 0..n /\ (i \in R <=> i \in P) /\ w[i] = s[i]
      BY <1>1, <1>2
    <3>2. h[i - 1] = f[i - 1]
      BY <2>2
    <3>3. h[i] = f[i]
      BY <1>6, <1>8, <3>1, <3>2
    <3>4. QED
      BY <3>1, <3>3
  <2> HIDE DEF T
  <2>3. \A i \in 0..n : i \in T
    BY <1>2, <2>1, <2>2, InductionUpTo
  <2>4. QED
    BY <2>3 DEF T
<1>10. \A j \in 0..m : h[n + j] = f[n] \o g[j]
  <2> DEFINE T == {j \in 0..m : h[n + j] = f[n] \o g[j]}
  <2>1. 0 \in T
    <3>1. f[n] \in Seq(S) /\ h[n + 0] = f[n] /\ 0 \in 0..m
      BY <1>2, <1>9
    <3>2. f[n] \o <<>> = f[n]
      BY <3>1, ConcatEmptySeq
    <3>3. QED
      BY <1>7, <3>1, <3>2
  <2>2. ASSUME NEW j \in 1..m, j - 1 \in T PROVE j \in T
    <3>1. PICK i : i = n + j
      OBVIOUS
    <3>2. /\ i \in 1..(n + m) /\ i - 1 = n + (j - 1) /\ (i \in R <=> j \in Q) /\ w[i] = t[j]
          /\ j \in 0..m /\ j - 1 \in 0..m /\ t[j] \in S /\ n \in 0..n
      BY <1>1, <1>2, <3>1
    <3>3. PICK a, b, c : a = f[n] /\ b = g[j - 1] /\ c = t[j]
      OBVIOUS
    <3>4. a \in Seq(S) /\ b \in Seq(S) /\ c \in S /\ h[i - 1] = a \o b
      BY <2>2, <3>2, <3>3
    <3>5. PICK x : x = <<c>>
      OBVIOUS
    <3>6. x \in Seq(S) /\ a \o b \in Seq(S)
      BY <3>4, <3>5
    <3>7. Append(a \o b, c) = (a \o b) \o x /\ Append(b, c) = b \o x
      BY <3>4, <3>5, <3>6, AppendIsConcat
    <3>typed. a \in Seq(S) /\ b \in Seq(S) /\ x \in Seq(S)
      BY <3>4, <3>6
    <3>8. (a \o b) \o x = a \o (b \o x)
      <4> HIDE DEF T
      <4>1. QED
        BY <3>typed, SeqsAssociate, SMTT(60)
    <3>9. h[i] = IF j \in Q THEN (a \o b) \o x ELSE a \o b
      BY <1>8, <3>2, <3>3, <3>4, <3>7
    <3>10. g[j] = IF j \in Q THEN b \o x ELSE b
      BY <1>7, <3>2, <3>3, <3>7
    <3>11. h[i] = a \o g[j]
      BY <3>8, <3>9, <3>10
    <3>12. QED
      BY <3>1, <3>2, <3>3, <3>11
  <2> HIDE DEF T
  <2>3. \A j \in 0..m : j \in T
    BY <1>2, <2>1, <2>2, InductionUpTo
  <2>4. QED
    BY <2>3 DEF T
<1>11. h[n + m] = f[n] \o g[m] /\ f[n] \in Seq(S) /\ g[m] \in Seq(S)
  <2>1. n \in 0..n /\ m \in 0..m
    BY <1>2
  <2>2. h[n + m] = f[n] \o g[m]
    BY <1>10, <2>1
  <2>3. f[n] \in Seq(S) /\ g[m] \in Seq(S)
    BY <2>1
  <2>4. QED
    BY <2>2, <2>3
<1>12. QED
  BY <1>1, <1>6, <1>7, <1>8, <1>11

\* StripCrlf, in two halves: what becomes of a character, and which go.
Ended(t) == [i \in 1..Len(t) |-> IF t[i] = "cr" THEN "nl" ELSE t[i]]
Stay(t) == {i \in 1..Len(t) : ~(t[i] = "nl" /\ i > 1 /\ t[i - 1] = "cr")}

LEMMA CharsOfLines == "nl" \in Char /\ "cr" \in Char /\ "sp" \in Char
<1>1. {"sp", "nl", "cr"} \subseteq Char
  BY Zenon DEF Char
<1>2. QED
  BY <1>1

LEMMA EndedIs ==
  ASSUME NEW t \in Seq(Char)
  PROVE  Ended(t) \in Seq(Char) /\ Len(Ended(t)) = Len(t)
<1>1. \A i \in 1..Len(t) : t[i] \in Char
  OBVIOUS
<1>2. \A i \in 1..Len(t) : (IF t[i] = "cr" THEN "nl" ELSE t[i]) \in Char
  BY <1>1, CharsOfLines
<1>3. Len(t) \in Nat
  OBVIOUS
<1>4. QED
  BY <1>2, <1>3 DEF Ended

LEMMA CrlfIs == \A t : StripCrlf(t) = Select(Ended(t), Stay(t))
  BY DEF StripCrlf, Ended, Stay

\* A text without CR stays as it is.
LEMMA CrlfNothing ==
  ASSUME NEW t \in Seq(Char), \A i \in 1..Len(t) : t[i] # "cr"
  PROVE  StripCrlf(t) = t
<1>1. PICK n : n = Len(t)
  OBVIOUS
<1>2. n \in Nat /\ t = [i \in 1..n |-> t[i]]
  BY <1>1
<1>3. Ended(t) = t
  BY <1>1, <1>2 DEF Ended
<1>4. 1..Len(t) \subseteq Stay(t)
  <2>1. \A i \in 1..n : i > 1 => i - 1 \in 1..n
    BY <1>2
  <2>2. \A i \in 1..n : ~(t[i] = "nl" /\ i > 1 /\ t[i - 1] = "cr")
    BY <1>1, <2>1
  <2>3. QED
    BY <1>1, <2>2 DEF Stay
<1>5. QED
  BY <1>3, <1>4, CrlfIs, SelectAll

\* Line ends within two texts are those of the two in a row, if none is cut.
LEMMA CrlfThen ==
  ASSUME NEW s \in Seq(Char), NEW t \in Seq(Char),
         s = <<>> \/ s[Len(s)] # "cr" \/ t = <<>> \/ t[1] # "nl"
  PROVE  /\ StripCrlf(s \o t) = StripCrlf(s) \o StripCrlf(t)
         /\ StripCrlf(s) \in Seq(Char) /\ StripCrlf(t) \in Seq(Char)
<1>1. PICK n, m, w : n = Len(s) /\ m = Len(t) /\ w = s \o t
  OBVIOUS
<1>2. /\ n \in Nat /\ m \in Nat /\ w \in Seq(Char) /\ Len(w) = n + m
      /\ \A i \in 1..n : w[i] = s[i]
      /\ \A j \in 1..m : w[n + j] = t[j]
  BY <1>1, InARow
<1>3. PICK a, b, c : a = Ended(s) /\ b = Ended(t) /\ c = Ended(w)
  OBVIOUS
<1>4. a \in Seq(Char) /\ Len(a) = n /\ b \in Seq(Char) /\ Len(b) = m /\ c \in Seq(Char) /\ Len(c) = n + m
  BY <1>1, <1>2, <1>3, EndedIs
<1>5. c = a \o b
  <2>1. PICK d : d = a \o b
    OBVIOUS
  <2>2. /\ d \in Seq(Char) /\ Len(d) = n + m
        /\ \A i \in 1..n : d[i] = a[i]
        /\ \A j \in 1..m : d[n + j] = b[j]
    <3>1. a \in Seq(Char) /\ b \in Seq(Char)
      BY <1>4
    <3>2. /\ a \o b \in Seq(Char) /\ Len(a \o b) = Len(a) + Len(b)
          /\ \A i \in 1..Len(a) : (a \o b)[i] = a[i]
          /\ \A j \in 1..Len(b) : (a \o b)[Len(a) + j] = b[j]
      BY <3>1, InARow
    <3>3. QED
      BY <1>4, <2>1, <3>2
  <2>3. ASSUME NEW i \in 1..(n + m) PROVE c[i] = d[i]
    <3>1. c[i] = IF w[i] = "cr" THEN "nl" ELSE w[i]
      BY <1>2, <1>3 DEF Ended
    <3>2. CASE i \in 1..n
      <4>1. d[i] = a[i] /\ a[i] = IF s[i] = "cr" THEN "nl" ELSE s[i]
        <5>1. d[i] = a[i]
          BY <2>2, <3>2
        <5>2. QED
          BY <1>1, <1>3, <3>2, <5>1 DEF Ended
      <4>2. QED
        BY <1>2, <3>1, <3>2, <4>1
    <3>3. CASE i \notin 1..n
      <4>1. PICK j : j = i - n
        OBVIOUS
      <4>2. j \in 1..m /\ i = n + j
        BY <1>2, <3>3, <4>1
      <4>3. d[n + j] = b[j]
        BY <2>2, <4>2
      <4>4. b[j] = IF t[j] = "cr" THEN "nl" ELSE t[j]
        BY <1>1, <1>3, <4>2 DEF Ended
      <4>5. QED
        BY <1>2, <3>1, <4>2, <4>3, <4>4
    <3>4. QED
      BY <3>2, <3>3
  <2>4. QED
    <3>1. c = d
      BY <1>4, <2>2, <2>3
    <3>2. QED
      BY <2>1, <3>1
<1>6. \A i \in 1..n : i \in Stay(w) <=> i \in Stay(s)
  <2> SUFFICES ASSUME NEW i \in 1..n PROVE i \in Stay(w) <=> i \in Stay(s)
    OBVIOUS
  <2>1. i \in 1..(n + m) /\ (i > 1 => i - 1 \in 1..n)
    BY <1>2
  <2>2. w[i] = s[i] /\ (i > 1 => w[i - 1] = s[i - 1])
    BY <1>2, <2>1
  <2>3. QED
    BY <1>1, <1>2, <2>1, <2>2 DEF Stay
<1>7. \A j \in 1..m : n + j \in Stay(w) <=> j \in Stay(t)
  <2> SUFFICES ASSUME NEW j \in 1..m PROVE n + j \in Stay(w) <=> j \in Stay(t)
    OBVIOUS
  <2>1. PICK i : i = n + j
    OBVIOUS
  <2>2. /\ i \in 1..(n + m) /\ w[i] = t[j]
        /\ i \in Stay(w) <=> ~(w[i] = "nl" /\ i > 1 /\ w[i - 1] = "cr")
        /\ j \in Stay(t) <=> ~(t[j] = "nl" /\ j > 1 /\ t[j - 1] = "cr")
    BY <1>1, <1>2, <2>1 DEF Stay
  <2>3. CASE j > 1
    <3>1. j - 1 \in 1..m /\ i - 1 = n + (j - 1) /\ i > 1
      BY <1>2, <2>1, <2>3
    <3>2. w[i - 1] = t[j - 1]
      BY <1>2, <3>1
    <3>3. QED
      BY <2>1, <2>2, <2>3, <3>1, <3>2
  <2>4. CASE ~(j > 1)
    <3>1. j = 1 /\ t # <<>>
      BY <1>1, <1>2, <2>4
    <3>2. i > 1 => i - 1 = n /\ n \in 1..n
      BY <1>2, <2>1, <3>1
    <3>3. i > 1 => w[i - 1] = s[n] /\ s # <<>>
      BY <1>1, <1>2, <3>2
    <3>4. ~(w[i] = "nl" /\ i > 1 /\ w[i - 1] = "cr")
      BY <1>1, <2>2, <3>1, <3>3
    <3>5. QED
      BY <2>1, <2>2, <2>4, <3>4
  <2>5. QED
    BY <2>3, <2>4
<1>8. /\ Select(a \o b, Stay(w)) = Select(a, Stay(s)) \o Select(b, Stay(t))
      /\ Select(a, Stay(s)) \in Seq(Char) /\ Select(b, Stay(t)) \in Seq(Char)
  BY <1>4, <1>6, <1>7, SelectConcat
<1>9. QED
  BY <1>1, <1>3, <1>5, <1>8, CrlfIs

\* The characters of an escape that tell where it begins and ends.
LEMMA EscapeFrame ==
  ASSUME NEW e \in Seq(Char), IsEscape(e)
  PROVE  /\ Len(e) >= 2 /\ e[1] = "esc" /\ e[Len(e)] # "cr"
         /\ e[2] = "]" \/ \A i \in 1..Len(e) : e[i] # "cr"
<1>1. PICK l : l = Len(e)
  OBVIOUS
<1>2. l \in Nat
  BY <1>1
<1>3. \/ l = 2 /\ e[1] = "esc" /\ e[2] \in Fe \ {"[", "]"}
      \/ e[1] = "esc" /\ e[2] = "[" /\ Csi(e)
      \/ e[1] = "esc" /\ e[2] = "]" /\ Osc(e)
  BY <1>1, Zenon DEF IsEscape, Csi, Osc
<1>4. \A c : c = "cr" => c \notin Fe /\ c \notin Finals /\ c \notin Params /\ c \notin Intermediates
  BY DEF Fe, Finals, Params, Intermediates
<1>5. CASE l = 2 /\ e[1] = "esc" /\ e[2] \in Fe \ {"[", "]"}
  <2>1. \A i \in 1..2 : i = 1 \/ i = 2
    OBVIOUS
  <2>2. e[1] # "cr" /\ e[2] # "cr" /\ l >= 2
    BY <1>4, <1>5
  <2>3. QED
    BY <1>1, <1>5, <2>1, <2>2
<1>6. CASE e[1] = "esc" /\ e[2] = "[" /\ Csi(e)
  <2>1. l >= 3 /\ e[l] \in Finals
    BY <1>1, <1>6 DEF Csi
  <2>2. PICK k \in 2..(l - 1) : /\ \A j \in 3..k : e[j] \in Params
                                /\ \A j \in (k + 1)..(l - 1) : e[j] \in Intermediates
    BY <1>1, <1>6 DEF Csi
  <2>3. ASSUME NEW i \in 1..l PROVE e[i] # "cr"
    <3>1. i = 1 \/ i = 2 \/ i \in 3..k \/ i \in (k + 1)..(l - 1) \/ i = l
      BY <1>2, <2>1, <2>2
    <3>2. QED
      BY <1>4, <1>6, <2>1, <2>2, <3>1
  <2>4. l >= 2 /\ l \in 1..l
    BY <1>2, <2>1
  <2>5. QED
    BY <1>1, <1>6, <2>3, <2>4
<1>7. CASE e[1] = "esc" /\ e[2] = "]" /\ Osc(e)
  <2>1. l >= 3 /\ (e[l] = "bel" \/ e[l] = "bs")
    BY <1>1, <1>7 DEF Osc
  <2>2. l >= 2
    BY <1>2, <2>1
  <2>3. QED
    BY <1>1, <1>7, <2>1, <2>2
<1>8. QED
  BY <1>3, <1>5, <1>6, <1>7

\* A payload stays one when its line ends are made the same.
LEMMA OscEnded ==
  ASSUME NEW e \in Seq(Char), e[1] = "esc", e[2] = "]", Osc(e)
  PROVE  LET v == StripCrlf(e)
         IN  v \in Seq(Char) /\ v[1] = "esc" /\ v[2] = "]" /\ Osc(v)
<1>1. PICK l, u, v, m : l = Len(e) /\ u = Ended(e) /\ v = StripCrlf(e) /\ m = Len(v)
  OBVIOUS
<1>2. l \in Nat /\ u \in Seq(Char) /\ Len(u) = l /\ \A i \in 1..l : i \in 1..l /\ i - 1 \in 0..l
  BY <1>1, EndedIs
<1>3. v = Select(u, Stay(e))
  BY <1>1, CrlfIs
<1>4. /\ v \in Seq(Char)
      /\ \E place \in [1..m -> 1..l] : Picks(place, u, Stay(e))
  BY <1>1, <1>2, <1>3, SelectShape
<1>5. PICK place \in [1..m -> 1..l] : Picks(place, u, Stay(e))
  BY <1>4
<1>6. /\ \A k \in 1..m : place[k] \in Stay(e) /\ v[k] = u[place[k]]
      /\ \A k, n \in 1..m : k < n => place[k] < place[n]
      /\ \A i \in 1..l : i \in Stay(e) => \E k \in 1..m : place[k] = i
  BY <1>1, <1>2, <1>3, <1>5 DEF Picks
<1>7. m \in Nat
  BY <1>1, <1>4
<1> DEFINE Bel(i) == e[i] = "bel"
           Esc(i) == e[i] = "esc"
           Bs(i) == e[i] = "bs"
<1>8. ASSUME NEW k \in 1..m
      PROVE  /\ (v[k] = "bel" <=> Bel(place[k])) /\ (v[k] = "esc" <=> Esc(place[k]))
             /\ (v[k] = "bs" <=> Bs(place[k])) /\ (v[k] = "]" <=> e[place[k]] = "]")
  <2>1. PICK i \in 1..l : i = place[k]
    BY <1>5
  <2>2. u[i] = IF e[i] = "cr" THEN "nl" ELSE e[i]
    BY <1>1 DEF Ended
  <2>3. v[k] = u[i]
    BY <1>6, <2>1
  <2>4. QED
    BY <2>1, <2>2, <2>3
<1>9. ASSUME NEW i \in 1..l, e[i] # "nl" \/ (i > 1 /\ e[i - 1] # "cr") PROVE \E k \in 1..m : place[k] = i
  <2>1. i \in Stay(e)
    BY <1>1, <1>9 DEF Stay
  <2>2. QED
    BY <1>6, <2>1
<1>10. /\ l >= 3 /\ (Bel(l) \/ (l >= 4 /\ Esc(l - 1) /\ Bs(l)))
       /\ \A j \in 3..(l - 1) : ~Bel(j)
       /\ \A j \in 3..(l - 2) : ~(Esc(j) /\ Bs(j + 1))
  <2>1. Len(e) = l
    BY <1>1
  <2>2. QED
    BY <2>1, Zenon DEF Osc
<1>11. (\A i : Bel(i) \/ Esc(i) \/ Bs(i) => e[i] # "nl" /\ e[i] # "cr") /\ Esc(1) /\ e[1] # "nl" /\ e[2] # "nl"
  OBVIOUS
<1> HIDE DEF Bel, Esc, Bs
<1>12. 1 \in 1..m /\ place[1] = 1
  <2>1. 1 \in 1..l
    BY <1>2, <1>10
  <2>2. PICK k \in 1..m : place[k] = 1
    BY <1>9, <1>11, <2>1
  <2>3. 1 \in 1..m
    BY <1>7
  <2>4. 1 < k => place[1] < 1
    BY <1>6, <2>2, <2>3
  <2>5. place[1] \in 1..l
    BY <1>5, <2>3
  <2>6. k = 1
    BY <1>7, <2>4, <2>5
  <2>7. QED
    BY <2>2, <2>6
<1>13. 2 \in 1..m /\ place[2] = 2
  <2>1. 2 \in 1..l
    BY <1>2, <1>10
  <2>2. PICK k \in 1..m : place[k] = 2
    BY <1>9, <1>11, <2>1
  <2>3. k # 1 /\ 2 \in 1..m
    BY <1>7, <1>12, <2>2
  <2>4. 2 < k => place[2] < 2
    BY <1>6, <2>2, <2>3
  <2>5. place[1] < place[2]
    BY <1>6, <1>12, <2>3
  <2>6. place[2] \in 1..l
    BY <1>5, <2>3
  <2>7. k = 2
    BY <1>7, <1>12, <2>3, <2>4, <2>5, <2>6
  <2>8. QED
    BY <2>2, <2>3, <2>7
<1>14. m \in 1..m /\ place[m] = l
  <2>1. l \in 1..l
    BY <1>2, <1>10
  <2>2. e[l] # "nl"
    BY <1>10, <1>11
  <2>3. PICK k \in 1..m : place[k] = l
    BY <1>9, <2>1, <2>2
  <2>4. m \in 1..m
    BY <1>7
  <2>5. k < m => l < place[m]
    BY <1>6, <2>3, <2>4
  <2>6. place[m] \in 1..l
    BY <1>5, <2>4
  <2>7. k = m
    BY <1>2, <1>7, <2>5, <2>6
  <2>8. QED
    BY <2>3, <2>4, <2>7
<1>15. m >= 3
  BY <1>7, <1>10, <1>12, <1>13, <1>14
<1>16. \A k \in 1..m : place[k] \in 1..l
  BY <1>5
<1>17. ASSUME NEW k \in 3..(m - 1) PROVE k \in 1..m /\ place[k] \in 3..(l - 1)
  <2>1. k \in 1..m /\ 2 < k /\ k < m
    BY <1>7
  <2>2. place[2] < place[k] /\ place[k] < place[m]
    BY <1>6, <1>13, <1>14, <2>1
  <2>3. QED
    BY <1>2, <1>13, <1>14, <1>16, <2>1, <2>2
<1>18. ASSUME NEW k \in 3..(m - 1) PROVE v[k] # "bel"
  BY <1>8, <1>10, <1>17
<1>19. ASSUME NEW k \in 3..(m - 2) PROVE ~(v[k] = "esc" /\ v[k + 1] = "bs")
  <2> SUFFICES ASSUME v[k] = "esc", v[k + 1] = "bs" PROVE FALSE
    OBVIOUS
  <2>1. PICK p, q : p = place[k] /\ q = place[k + 1]
    OBVIOUS
  <2>2. k \in 3..(m - 1) /\ k + 1 \in 3..(m - 1) /\ k \in 1..m /\ k + 1 \in 1..m /\ k < k + 1
    BY <1>7
  <2>3. p \in 3..(l - 1) /\ q \in 3..(l - 1) /\ p < q
    BY <1>6, <1>17, <2>1, <2>2
  <2>4. Esc(p) /\ Bs(q)
    BY <1>8, <2>1, <2>2
  <2>5. PICK i : i = p + 1
    OBVIOUS
  <2>6. i \in 1..l /\ i > 1 /\ i - 1 = p
    BY <1>2, <2>3, <2>5
  <2>7. e[i - 1] # "cr"
    BY <1>11, <2>4, <2>6
  <2>8. PICK n \in 1..m : place[n] = i
    BY <1>9, <2>6, <2>7
  <2>9. k + 1 < n => q < i
    BY <1>6, <2>1, <2>2, <2>8
  <2>10. n < k => i < p
    BY <1>6, <2>1, <2>2, <2>8
  <2>11. n # k
    BY <2>1, <2>3, <2>5, <2>8
  <2>12. n = k + 1
    BY <1>7, <2>2, <2>3, <2>5, <2>9, <2>10, <2>11
  <2>13. q = p + 1
    BY <2>1, <2>5, <2>8, <2>12
  <2>14. p \in 3..(l - 2)
    BY <1>2, <2>3, <2>13
  <2>15. QED
    BY <1>10, <2>4, <2>13, <2>14
<1>20. v[m] = "bel" \/ (m >= 4 /\ v[m - 1] = "esc" /\ v[m] = "bs")
  <2>1. CASE Bel(l)
    BY <1>8, <1>14, <2>1
  <2>2. CASE l >= 4 /\ Esc(l - 1) /\ Bs(l)
    <3>1. PICK i : i = l - 1
      OBVIOUS
    <3>2. i \in 1..l /\ i >= 3 /\ e[i] # "nl" /\ Esc(i)
      BY <1>2, <1>11, <2>2, <3>1
    <3>3. PICK k \in 1..m : place[k] = i
      BY <1>9, <3>2
    <3>4. k # m /\ k # 1 /\ k # 2
      BY <1>2, <1>12, <1>13, <1>14, <3>1, <3>2, <3>3
    <3>5. m - 1 \in 1..m /\ m - 1 < m
      BY <1>7, <1>15
    <3>6. k < m - 1 => i < place[m - 1]
      BY <1>6, <3>3, <3>5
    <3>7. place[m - 1] < l /\ place[m - 1] \in 1..l
      BY <1>6, <1>14, <1>16, <3>5
    <3>8. k = m - 1 /\ m >= 4
      BY <1>2, <1>7, <3>1, <3>4, <3>6, <3>7
    <3>9. v[m - 1] = "esc"
      BY <1>8, <3>2, <3>3, <3>5, <3>8
    <3>10. v[m] = "bs"
      BY <1>8, <1>14, <2>2
    <3>11. QED
      BY <3>8, <3>9, <3>10
  <2>3. QED
    BY <1>10, <2>1, <2>2
<1>21. v[1] = "esc" /\ v[2] = "]"
  BY <1>8, <1>11, <1>12, <1>13
<1>22. Osc(v)
  BY <1>1, <1>15, <1>18, <1>19, <1>20, Zenon DEF Osc
<1>23. QED
  BY <1>1, <1>4, <1>21, <1>22

LEMMA EscapeEnded ==
  ASSUME NEW e \in Seq(Char), IsEscape(e)
  PROVE  StripCrlf(e) \in Seq(Char) /\ IsEscape(StripCrlf(e))
<1>1. CASE \A i \in 1..Len(e) : e[i] # "cr"
  <2>1. StripCrlf(e) = e
    BY <1>1, CrlfNothing
  <2>2. QED
    BY <2>1
<1>2. CASE ~\A i \in 1..Len(e) : e[i] # "cr"
  <2>1. Len(e) >= 2 /\ e[1] = "esc" /\ e[2] = "]"
    BY <1>2, EscapeFrame
  <2>2. Osc(e)
    <3>1. Len(e) \in Nat
      OBVIOUS
    <3>2. QED
      BY <2>1, <3>1, EscapeKinds
  <2>3. PICK v : v = StripCrlf(e)
    OBVIOUS
  <2>4. v \in Seq(Char) /\ v[1] = "esc" /\ v[2] = "]" /\ Osc(v)
    BY <2>1, <2>2, <2>3, OscEnded
  <2>5. Len(v) \in Nat /\ Len(v) >= 2
    <3>1. Len(v) \in Nat /\ Len(v) >= 3
      BY <2>4 DEF Osc
    <3>2. QED
      BY <3>1
  <2>6. IsEscape(v)
    BY <2>4, <2>5, EscapeKinds
  <2>7. QED
    BY <2>3, <2>4, <2>6
<1>3. QED
  BY <1>1, <1>2

\* A text without ESC stays as it is.
LEMMA AnsiNothing ==
  ASSUME NEW t \in Seq(Char), \A i \in 1..Len(t) : t[i] # "esc"
  PROVE  StripAnsi(t) = t
<1>1. PICK n : n = Len(t)
  OBVIOUS
<1>2. n \in Nat /\ n + 1 \in 1..(n + 1) /\ (n + 1) - 1 = n
  BY <1>1
<1>3. PICK f \in [1..(Len(t) + 1) -> Seq(Char)] : Strips(f, t)
  BY StripsExists
<1>4. PICK i : i = n + 1
  OBVIOUS
<1>5. i \in 1..(Len(t) + 1) /\ \A j \in 1..(i - 1) : t[j] # "esc"
  BY <1>1, <1>2, <1>4
<1>6. f[1] = Prefix(t, i - 1) \o f[i] /\ Prefix(t, i - 1) \in Seq(Char)
  BY <1>3, <1>5, PrefixStays
<1>7. f[i] = <<>> /\ StripAnsi(t) = f[1]
  BY <1>1, <1>3, <1>4 DEF Strips
<1>8. Prefix(t, i - 1) = t
  BY <1>1, <1>2, <1>4, SubSeqFull DEF Prefix
<1>9. QED
  BY <1>6, <1>7, <1>8, ConcatEmptySeq

LEMMA SameTexts ==
  ASSUME NEW s \in Seq(Char), NEW t \in Seq(Char), Len(s) = Len(t),
         \A i \in 1..Len(s) : s[i] = t[i]
  PROVE  s = t
  OBVIOUS

\* The first k characters of a text.
LEMMA FirstOnes ==
  ASSUME NEW t \in Seq(Char), NEW k \in 0..Len(t)
  PROVE  /\ Prefix(t, k) \in Seq(Char) /\ Len(Prefix(t, k)) = k
         /\ \A j \in 1..k : Prefix(t, k)[j] = t[j]
<1>1. PICK q : q = Prefix(t, k)
  OBVIOUS
<1>2. k \in Nat /\ \A j \in 1..k : j \in 1..Len(t)
  OBVIOUS
<1>3. \A j \in 1..k : t[j] \in Char
  BY <1>2
<1>4. /\ q \in Seq(Char) /\ Len(q) = IF 1 <= k THEN k - 1 + 1 ELSE 0
      /\ \A j \in 1..(k - 1 + 1) : q[j] = t[1 + j - 1]
  BY <1>1, <1>2, <1>3, SubSeqProperties DEF Prefix
<1>5. \A j \in 1..k : j \in 1..(k - 1 + 1) /\ 1 + j - 1 = j
  BY <1>2
<1>6. Len(q) = k /\ \A j \in 1..k : q[j] = t[j]
  BY <1>2, <1>4, <1>5
<1>7. QED
  BY <1>1, <1>4, <1>6

\* The place of an escape that stands between two texts, and the pieces.
LEMMA Strewn ==
  ASSUME NEW p \in Seq(Char), NEW e \in Seq(Char), Len(e) >= 2, NEW r \in Seq(Char)
  PROVE  LET w == (p \o e) \o r
             i == Len(p) + 1
             n == Len(p) + Len(e)
         IN  /\ w \in Seq(Char) /\ i \in 1..Len(w) /\ n \in (i + 1)..Len(w) /\ w[i] = e[1]
             /\ \A j \in 1..(i - 1) : w[j] = p[j]
             /\ Prefix(w, i - 1) = p /\ SubSeq(w, i, n) = e /\ Rest(w, n) = r
<1>1. PICK a, b, c : a = Len(p) /\ b = Len(e) /\ c = Len(r)
  OBVIOUS
<1>2. PICK u, w, i, n : u = p \o e /\ w = u \o r /\ i = a + 1 /\ n = a + b
  OBVIOUS
<1>3. a \in Nat /\ b \in Nat /\ c \in Nat /\ b >= 2
  BY <1>1
<1>4. /\ u \in Seq(Char) /\ Len(u) = n /\ (\A j \in 1..a : u[j] = p[j])
      /\ \A j \in 1..b : u[a + j] = e[j]
  <2>1. /\ p \o e \in Seq(Char) /\ Len(p \o e) = Len(p) + Len(e)
        /\ \A j \in 1..Len(p) : (p \o e)[j] = p[j]
        /\ \A j \in 1..Len(e) : (p \o e)[Len(p) + j] = e[j]
    BY InARow
  <2>2. QED
    BY <1>1, <1>2, <2>1
<1>5. /\ w \in Seq(Char) /\ Len(w) = n + c /\ (\A j \in 1..n : w[j] = u[j])
      /\ \A j \in 1..c : w[n + j] = r[j]
  <2>0. u \in Seq(Char)
    BY <1>4
  <2>1. /\ u \o r \in Seq(Char) /\ Len(u \o r) = Len(u) + Len(r)
        /\ \A j \in 1..Len(u) : (u \o r)[j] = u[j]
        /\ \A j \in 1..Len(r) : (u \o r)[Len(u) + j] = r[j]
    BY <2>0, InARow
  <2>2. QED
    BY <1>1, <1>2, <1>4, <2>1
<1>6. PICK m : m = n + c
  OBVIOUS
<1>7. /\ i \in 1..m /\ n \in (i + 1)..m /\ i - 1 = a /\ (n - i) + 1 = b
      /\ n \in 0..m /\ m - n = c /\ a \in 0..m /\ n \in 1..m
  BY <1>2, <1>3, <1>6
<1>8. ASSUME NEW j \in 1..a PROVE w[j] = p[j]
  <2>1. j \in 1..n
    BY <1>2, <1>3
  <2>2. QED
    BY <1>4, <1>5, <2>1
<1>9. ASSUME NEW j \in 1..b PROVE w[a + j] = e[j]
  <2>1. PICK k : k = a + j
    OBVIOUS
  <2>2. k \in 1..n
    BY <1>2, <1>3, <2>1
  <2>3. w[k] = u[k] /\ u[a + j] = e[j]
    BY <1>4, <1>5, <2>2
  <2>4. QED
    BY <2>1, <2>3
<1>10. w[i] = e[1]
  <2>1. 1 \in 1..b
    BY <1>3
  <2>2. QED
    BY <1>2, <1>9, <2>1
<1>11. Prefix(w, a) = p
  <2>1. PICK q : q = Prefix(w, a)
    OBVIOUS
  <2>2. q \in Seq(Char) /\ Len(q) = a /\ \A j \in 1..a : q[j] = w[j]
    <3>1. a \in 0..Len(w)
      BY <1>5, <1>6, <1>7
    <3>2. QED
      BY <1>5, <2>1, <3>1, FirstOnes
  <2>3. \A j \in 1..a : q[j] = p[j]
    BY <1>8, <2>2
  <2>4. q = p
    BY <1>1, <2>2, <2>3, SameTexts
  <2>5. QED
    BY <2>1, <2>4
<1>12. SubSeq(w, i, n) = e
  <2>1. PICK q : q = SubSeq(w, i, n)
    OBVIOUS
  <2>2. Len(q) = b /\ \A j \in 1..b : q[j] = w[a + j]
    <3>1. i \in 1..Len(w) /\ n \in (i + 1)..Len(w)
      BY <1>5, <1>6, <1>7
    <3>2. /\ Len(SubSeq(w, i, n)) = (n - i) + 1
          /\ \A j \in 1..((n - i) + 1) : SubSeq(w, i, n)[j] = w[(i - 1) + j]
      BY <1>5, <3>1, PieceIs
    <3>3. QED
      BY <1>7, <2>1, <3>2
  <2>3. \A j \in 1..b : q[j] = e[j]
    BY <1>9, <2>2
  <2>4. q \in Seq(Char)
    <3>1. \A j \in i..n : w[j] \in Char
      BY <1>5, <1>6, <1>7
    <3>2. i \in Int /\ n \in Int
      BY <1>2, <1>3
    <3>3. QED
      BY <2>1, <3>1, <3>2, SubSeqProperties
  <2>5. q = e
    BY <1>1, <2>2, <2>3, <2>4, SameTexts
  <2>6. QED
    BY <2>1, <2>5
<1>13. Rest(w, n) = r
  <2>1. PICK q : q = Rest(w, n)
    OBVIOUS
  <2>2. q \in Seq(Char) /\ Len(q) = c /\ \A j \in 1..c : q[j] = w[n + j]
    <3>1. n \in 0..Len(w)
      BY <1>5, <1>6, <1>7
    <3>2. /\ Rest(w, n) \in Seq(Char) /\ Len(Rest(w, n)) = Len(w) - n
          /\ \A j \in 1..(Len(w) - n) : Rest(w, n)[j] = w[n + j]
      BY <1>5, <3>1, RestIs
    <3>3. Len(w) - n = c
      BY <1>5, <1>6, <1>7
    <3>4. QED
      BY <2>1, <3>2, <3>3
  <2>3. \A j \in 1..c : q[j] = r[j]
    BY <1>5, <2>2
  <2>4. q = r
    BY <1>1, <2>2, <2>3, SameTexts
  <2>5. QED
    BY <2>1, <2>4
<1>14. QED
  BY <1>1, <1>2, <1>5, <1>6, <1>7, <1>8, <1>10, <1>11, <1>12, <1>13

\* An escape that stands in a text without any goes, and nothing else.
LEMMA StrewnGoes ==
  ASSUME NEW p \in Seq(Char), NEW e \in Seq(Char), IsEscape(e), NEW r \in Seq(Char),
         \A i \in 1..Len(p) : p[i] # "esc", \A i \in 1..Len(r) : r[i] # "esc"
  PROVE  StripAnsi((p \o e) \o r) = p \o r
<1>1. PICK w, i, n : w = (p \o e) \o r /\ i = Len(p) + 1 /\ n = Len(p) + Len(e)
  OBVIOUS
<1>2. Len(e) >= 2 /\ e[1] = "esc"
  BY EscapeFrame
<1>3. /\ w \in Seq(Char) /\ i \in 1..Len(w) /\ n \in (i + 1)..Len(w) /\ w[i] = e[1]
      /\ \A j \in 1..(i - 1) : w[j] = p[j]
      /\ Prefix(w, i - 1) = p /\ SubSeq(w, i, n) = e /\ Rest(w, n) = r
  BY <1>1, <1>2, Strewn
<1>4. Len(p) \in Nat /\ i - 1 = Len(p)
  BY <1>1
<1>5. \A j \in 1..(i - 1) : w[j] # "esc"
  BY <1>3, <1>4
<1>6. n \in Ends(w, i)
  BY <1>3 DEF Ends
<1>7. \A k \in Ends(w, i) : k = n
  <2> SUFFICES ASSUME NEW k \in Ends(w, i) PROVE k = n
    OBVIOUS
  <2>1. k \in (i + 1)..Len(w) /\ IsEscape(SubSeq(w, i, k))
    BY DEF Ends
  <2>2. EscapeEnd(w, i) = k
    BY <1>2, <1>3, <2>1, EscapeIs
  <2>3. EscapeEnd(w, i) = n
    BY <1>2, <1>3, EscapeIs
  <2>4. QED
    BY <2>2, <2>3
<1>8. PICK k : k = CHOOSE x \in Ends(w, i) : TRUE
  OBVIOUS
<1>9. k = n
  BY <1>6, <1>7, <1>8
<1>10. StripAnsi(w) = Prefix(w, i - 1) \o StripAnsi(Rest(w, k))
  <2>1. Ends(w, i) # {}
    BY <1>6
  <2>2. QED
    BY <1>2, <1>3, <1>5, <1>8, <2>1, FirstEscape
<1>11. StripAnsi(r) = r
  BY AnsiNothing
<1>12. QED
  BY <1>1, <1>3, <1>9, <1>10, <1>11

\* The variant of a text whose line ends are CRLF.
AsCrlf(t) == [i \in 1..Len(t) |-> IF t[i] = "nl" THEN <<"cr", "nl">> ELSE <<t[i]>>]

LEMMA CrlfOfOne == StripCrlf(<<"cr", "nl">>) = <<"nl">>
<1>1. PICK w : w = <<"cr", "nl">>
  OBVIOUS
<1>2. w \in Seq(Char) /\ Len(w) = 2 /\ w[1] = "cr" /\ w[2] = "nl"
  BY <1>1, CharsOfLines
<1>3. PICK u : u = Ended(w)
  OBVIOUS
<1>4. u \in Seq(Char) /\ Len(u) = 2
  BY <1>2, <1>3, EndedIs
<1>5. u[1] = "nl"
  BY <1>2, <1>3 DEF Ended
<1>6. 1 \in Stay(w) /\ 2 \notin Stay(w)
  BY <1>2 DEF Stay
<1>7. PICK f \in [0..Len(u) -> Seq(Char)] : Selects(f, u, Stay(w))
  BY <1>4, SelectRec
<1>8. /\ f[0] = <<>> /\ Select(u, Stay(w)) = f[2]
      /\ \A i \in 1..2 : f[i] = IF i \in Stay(w) THEN Append(f[i - 1], u[i]) ELSE f[i - 1]
  BY <1>4, <1>7 DEF Selects
<1>9. f[1] = Append(f[0], u[1]) /\ f[2] = f[1]
  <2>1. 1 \in 1..2 /\ 2 \in 1..2 /\ 1 - 1 = 0 /\ 2 - 1 = 1
    OBVIOUS
  <2>2. QED
    BY <1>6, <1>8, <2>1
<1>10. Append(<<>>, "nl") = <<"nl">>
  OBVIOUS
<1>11. QED
  BY <1>1, <1>3, <1>5, <1>8, <1>9, <1>10, CrlfIs

LEMMA CrlfVariant ==
  ASSUME NEW t \in Seq(Char), \A i \in 1..Len(t) : t[i] # "cr"
  PROVE  FlattenSeq(AsCrlf(t)) \in Seq(Char) /\ StripCrlf(FlattenSeq(AsCrlf(t))) = t
<1>1. PICK n, s : n = Len(t) /\ s = AsCrlf(t)
  OBVIOUS
<1>2. n \in Nat /\ \A i \in 1..n : t[i] \in Char
  BY <1>1
<1>3. Len(s) = n /\ \A i \in 1..n : s[i] = IF t[i] = "nl" THEN <<"cr", "nl">> ELSE <<t[i]>>
  BY <1>1, <1>2 DEF AsCrlf
<1>4. ASSUME NEW i \in 1..n
      PROVE  s[i] \in Seq(Char) /\ s[i][1] # "nl" /\ StripCrlf(s[i]) = <<t[i]>>
  <2>1. CASE t[i] = "nl"
    <3>1. s[i] = <<"cr", "nl">>
      BY <1>3, <2>1
    <3>2. <<"cr", "nl">> \in Seq(Char)
      BY CharsOfLines
    <3>3. s[i] \in Seq(Char) /\ s[i][1] # "nl"
      BY <3>1, <3>2
    <3>4. QED
      BY <2>1, <3>1, <3>3, CrlfOfOne
  <2>2. CASE t[i] # "nl"
    <3>1. PICK c : c = t[i]
      OBVIOUS
    <3>2. c \in Char /\ c # "nl" /\ c # "cr" /\ s[i] = <<c>>
      BY <1>1, <1>2, <1>3, <2>2, <3>1
    <3>3. PICK v : v = <<c>>
      OBVIOUS
    <3>4. v \in Seq(Char) /\ v[1] = c /\ \A j \in 1..Len(v) : v[j] # "cr"
      BY <3>2, <3>3
    <3>5. StripCrlf(v) = v
      BY <3>4, CrlfNothing
    <3>6. QED
      BY <3>1, <3>2, <3>3, <3>4, <3>5
  <2>3. QED
    BY <2>1, <2>2
<1>5. s \in Seq(Seq(Char))
  <2>1. s = [i \in 1..n |-> s[i]]
    BY <1>1 DEF AsCrlf
  <2>2. \A i \in 1..n : s[i] \in Seq(Char)
    BY <1>4
  <2>3. s \in [1..n -> Seq(Char)]
    BY <2>1, <2>2
  <2>4. QED
    BY <1>2, <2>3
<1>6. PICK f \in [0..Len(s) -> Seq(Char)] : Flattens(f, s)
  BY <1>5, FlattenRec
<1>7. /\ f[0] = <<>> /\ FlattenSeq(s) = f[n]
      /\ \A i \in 1..n : f[i] = f[i - 1] \o s[i]
  BY <1>3, <1>6 DEF Flattens
<1>8. \A i \in 0..n : f[i] \in Seq(Char)
  BY <1>3, <1>6
<1> DEFINE T == {k \in 0..n : StripCrlf(f[k]) = Prefix(t, k)}
<1>9. 0 \in T
  <2>1. PICK v : v = <<>>
    OBVIOUS
  <2>2. v \in Seq(Char) /\ \A j \in 1..Len(v) : v[j] # "cr"
    BY <2>1
  <2>3. StripCrlf(v) = v
    BY <2>2, CrlfNothing
  <2>4. Prefix(t, 0) = <<>>
    BY SubSeqEmpty DEF Prefix
  <2>5. 0 \in 0..n
    BY <1>2
  <2>6. QED
    BY <1>7, <2>1, <2>3, <2>4, <2>5
<1>10. ASSUME NEW k \in 1..n, k - 1 \in T PROVE k \in T
  <2>1. k \in 0..n /\ k - 1 \in 0..n
    BY <1>2
  <2>2. PICK u, v : u = f[k - 1] /\ v = s[k]
    OBVIOUS
  <2>3. u \in Seq(Char) /\ v \in Seq(Char) /\ v[1] # "nl"
    BY <1>4, <1>8, <2>1, <2>2
  <2>4. StripCrlf(u \o v) = StripCrlf(u) \o StripCrlf(v)
    BY <2>3, CrlfThen
  <2>5. StripCrlf(u) = Prefix(t, k - 1) /\ StripCrlf(v) = <<t[k]>> /\ f[k] = u \o v
    BY <1>4, <1>7, <1>10, <2>2
  <2>6. Prefix(t, k) = Prefix(t, k - 1) \o <<t[k]>>
    BY <1>1, SubSeqRecursiveSecond DEF Prefix
  <2>7. QED
    BY <2>1, <2>4, <2>5, <2>6
<1> HIDE DEF T
<1>11. \A k \in 0..n : k \in T
  BY <1>2, <1>9, <1>10, InductionUpTo
<1>12. n \in T /\ n \in 0..n
  BY <1>2, <1>11
<1>13. Prefix(t, n) = t
  BY <1>1, SubSeqFull DEF Prefix
<1>14. QED
  BY <1>1, <1>7, <1>8, <1>12, <1>13 DEF T

\* The variant of a text with an escape behind its first i characters.
LEMMA EscapeVariant ==
  ASSUME NEW t \in Seq(Char), \A j \in 1..Len(t) : t[j] \notin {"cr", "esc"},
         NEW i \in 0..Len(t), NEW e \in Seq(Char), IsEscape(e)
  PROVE  StripAnsi(StripCrlf((Prefix(t, i) \o e) \o Rest(t, i))) = t
<1>1. PICK m, p, r, v : m = Len(t) /\ p = Prefix(t, i) /\ r = Rest(t, i) /\ v = StripCrlf(e)
  OBVIOUS
<1>2. m \in Nat /\ i \in Nat /\ i <= m
  BY <1>1
<1>3. p \in Seq(Char) /\ Len(p) = i /\ \A j \in 1..i : p[j] = t[j]
  BY <1>1, FirstOnes
<1>4. r \in Seq(Char) /\ Len(r) = m - i /\ \A j \in 1..(m - i) : r[j] = t[i + j]
  BY <1>1, RestIs
<1>5. (\A j \in 1..i : j \in 1..m) /\ (\A j \in 1..(m - i) : i + j \in 1..m)
  BY <1>2
<1>6. /\ \A j \in 1..Len(p) : p[j] # "cr" /\ p[j] # "esc"
      /\ \A j \in 1..Len(r) : r[j] # "cr" /\ r[j] # "esc"
  BY <1>1, <1>3, <1>4, <1>5
<1>7. Len(e) >= 2 /\ e[1] = "esc" /\ e[Len(e)] # "cr"
  BY EscapeFrame
<1>8. v \in Seq(Char) /\ IsEscape(v)
  BY <1>1, EscapeEnded
<1>9. StripCrlf(p) = p /\ StripCrlf(r) = r
  BY <1>3, <1>4, <1>6, CrlfNothing
<1>10. StripCrlf(p \o e) = p \o v
  <2>1. e[1] # "nl"
    BY <1>7
  <2>2. StripCrlf(p \o e) = StripCrlf(p) \o StripCrlf(e)
    BY <1>3, <2>1, CrlfThen
  <2>3. QED
    BY <1>1, <1>9, <2>2
<1>11. PICK u : u = p \o e
  OBVIOUS
<1>12. u \in Seq(Char) /\ u[Len(u)] # "cr"
  <2>1. p \in Seq(Char)
    BY <1>3
  <2>2. /\ p \o e \in Seq(Char) /\ Len(p \o e) = Len(p) + Len(e)
        /\ \A j \in 1..Len(e) : (p \o e)[Len(p) + j] = e[j]
    BY <2>1, InARow
  <2>3. Len(e) \in 1..Len(e)
    BY <1>7
  <2>4. QED
    BY <1>7, <1>11, <2>2, <2>3
<1>13. StripCrlf(u \o r) = StripCrlf(u) \o StripCrlf(r)
  BY <1>4, <1>12, CrlfThen
<1>14. StripCrlf(u \o r) = (p \o v) \o r
  BY <1>9, <1>10, <1>11, <1>13
<1>15. StripAnsi((p \o v) \o r) = p \o r
  BY <1>3, <1>4, <1>6, <1>8, StrewnGoes
<1>16. p \o r = t
  <2>1. PICK w : w = p \o r
    OBVIOUS
  <2>2. p \in Seq(Char) /\ r \in Seq(Char)
    BY <1>3, <1>4
  <2>3. /\ p \o r \in Seq(Char) /\ Len(p \o r) = Len(p) + Len(r)
        /\ \A j \in 1..Len(p) : (p \o r)[j] = p[j]
        /\ \A j \in 1..Len(r) : (p \o r)[Len(p) + j] = r[j]
    BY <2>2, InARow
  <2>4. /\ w \in Seq(Char) /\ Len(w) = i + (m - i) /\ (\A j \in 1..i : w[j] = p[j])
        /\ \A j \in 1..(m - i) : w[i + j] = r[j]
    BY <1>3, <1>4, <2>1, <2>3
  <2>5. i + (m - i) = m
    BY <1>2
  <2>6. ASSUME NEW k \in 1..m PROVE w[k] = t[k]
    <3>1. CASE k \in 1..i
      BY <1>3, <2>4, <3>1
    <3>2. CASE k \notin 1..i
      <4>1. PICK j : j = k - i
        OBVIOUS
      <4>2. j \in 1..(m - i) /\ i + j = k
        BY <1>2, <3>2, <4>1
      <4>3. w[i + j] = r[j] /\ r[j] = t[i + j]
        BY <1>4, <2>4, <4>2
      <4>4. QED
        BY <4>2, <4>3
    <3>3. QED
      BY <3>1, <3>2
  <2>7. w = t
    BY <1>1, <2>4, <2>5, <2>6, SameTexts
  <2>8. QED
    BY <2>1, <2>7
<1>17. QED
  BY <1>1, <1>11, <1>14, <1>15, <1>16

LEMMA PlainAgrees ==
  ASSUME NEW t, NEW u, StripAnsi(StripCrlf(u)) = StripAnsi(StripCrlf(t)), NEW class
  PROVE  NormalizeSpan(u, class) = NormalizeSpan(t, class)
<1> DEFINE plain(x) == StripAnsi(StripCrlf(x))
<1>1. \A x : NormalizeSpan(x, class) =
               CASE class = "prose"      -> CollapseBlankRuns(StripInvisible(plain(x)))
                 [] class = "structured" -> MinifyJsonWhitespace(plain(x))
                 [] OTHER                -> plain(x)
  BY DEF NormalizeSpan
<1>2. plain(u) = plain(t)
  OBVIOUS
<1> HIDE DEF plain
<1>3. QED
  BY <1>1, <1>2

\* Line ends and escapes do not tell two outputs apart (NormalizeStrategy,
\* normalizeSpan): CRLF for every line end, or an escape put anywhere into a
\* text, of any length, leaves what it normalizes to as it was.
THEOREM VariantsNormalizeAlike == TextSpec => []VariantsAgree
<1>1. JsonInv => VariantsAgree
  <2> DEFINE Agrees(variant) ==
               \A class \in Classes :
                 NormalizeSpan(variant, class) = [k \in Classes |-> NormalizeSpan(text, k)][class]
             crlf == FlattenSeq(AsCrlf(text))
  <2> SUFFICES ASSUME JsonInv, kind = "paragraphs", \A i \in 1..Len(text) : text[i] \notin {"cr", "esc"}
               PROVE  /\ Agrees(crlf)
                      /\ \A i \in 0..Len(text), e \in Escapes :
                           Agrees(Prefix(text, i) \o e \o Rest(text, i))
    BY DEF VariantsAgree, AsCrlf
  <2>1. text \in Seq(Char) /\ \A i \in 1..Len(text) : text[i] # "cr" /\ text[i] # "esc"
    BY DEF JsonInv
  <2>2. StripAnsi(StripCrlf(text)) = text
    BY <2>1, CrlfNothing, AnsiNothing
  <2>3. ASSUME NEW variant, StripAnsi(StripCrlf(variant)) = text PROVE Agrees(variant)
    <3>1. \A class \in Classes : NormalizeSpan(variant, class) = NormalizeSpan(text, class)
      BY <2>2, <2>3, PlainAgrees
    <3>2. QED
      BY <3>1
  <2> HIDE DEF Agrees
  <2>4. Agrees(crlf)
    <3>1. StripAnsi(StripCrlf(crlf)) = text
      <4>1. StripCrlf(crlf) = text
        BY <2>1, CrlfVariant
      <4>2. StripAnsi(text) = text
        BY <2>1, AnsiNothing
      <4>3. QED
        BY <4>1, <4>2
    <3>2. QED
      BY <2>3, <3>1
  <2>5. ASSUME NEW i \in 0..Len(text), NEW e \in Escapes
        PROVE  Agrees(Prefix(text, i) \o e \o Rest(text, i))
    <3>1. e \in Seq(Char) /\ IsEscape(e)
      BY WrittenInChars, TextsAssumption
    <3>2. StripAnsi(StripCrlf((Prefix(text, i) \o e) \o Rest(text, i))) = text
      BY <2>1, <3>1, EscapeVariant
    <3>3. QED
      BY <2>3, <3>2
  <2>6. QED
    BY <2>4, <2>5
<1>2. QED
  BY <1>1, JsonInvariant, PTL

-----------------------------------------------------------------------------
(* The token estimate.                                                      *)

\* What the proofs need to know of the two rounded costs.
LEMMA WordCosts ==
  /\ WordCost(0) = 0
  /\ \A a \in Nat : WordCost(a) \in Nat /\ (a > 0 => WordCost(a) > 0)
  /\ \A a, b \in Nat : /\ WordCost(a) <= WordCost(a + b)
                       /\ WordCost(a) + WordCost(b) - WordCost(a + b) \in {0, 1}
<1>1. \A a \in Nat : WordCost(a) \in Nat /\ 4 * WordCost(a) >= a /\ 4 * WordCost(a) <= a + 3
  BY DEF WordCost, CeilDiv
<1> DEFINE W(a) == WordCost(a)
<1>2. \A a \in Nat : W(a) \in Nat /\ 4 * W(a) >= a /\ 4 * W(a) <= a + 3
  BY <1>1
<1> HIDE DEF W
<1>3. W(0) = 0 /\ \A a \in Nat : a > 0 => W(a) > 0
  BY <1>2
<1>4. ASSUME NEW a \in Nat, NEW b \in Nat PROVE W(a) <= W(a + b) /\ W(a) + W(b) - W(a + b) \in {0, 1}
  <2>0. PICK c : c = a + b
    OBVIOUS
  <2>c. c \in Nat
    BY <2>0
  <2>1. PICK x, y, z : x = W(a) /\ y = W(b) /\ z = W(c)
    OBVIOUS
  <2>2. /\ x \in Nat /\ 4 * x >= a /\ 4 * x <= a + 3
        /\ y \in Nat /\ 4 * y >= b /\ 4 * y <= b + 3
        /\ z \in Nat /\ 4 * z >= c /\ 4 * z <= c + 3
    BY <1>2, <2>c, <2>1
  <2>3. x <= z /\ (x + y - z = 0 \/ x + y - z = 1)
    BY <2>0, <2>2
  <2>4. QED
    BY <2>0, <2>1, <2>3
<1>5. QED
  BY <1>2, <1>3, <1>4 DEF W

LEMMA DenseCosts ==
  /\ DenseCost(0) = 0
  /\ \A a \in Nat : DenseCost(a) \in Nat /\ (a > 0 => DenseCost(a) > 0)
  /\ \A a, b \in Nat : /\ DenseCost(a) <= DenseCost(a + b)
                       /\ DenseCost(a) + DenseCost(b) - DenseCost(a + b) \in {0, 1}
<1>1. \A a \in Nat : DenseCost(a) \in Nat /\ 3 * DenseCost(a) >= 2 * a /\ 3 * DenseCost(a) <= 2 * a + 2
  BY DEF DenseCost, CeilDiv
<1> DEFINE W(a) == DenseCost(a)
<1>2. \A a \in Nat : W(a) \in Nat /\ 3 * W(a) >= 2 * a /\ 3 * W(a) <= 2 * a + 2
  BY <1>1
<1> HIDE DEF W
<1>3. W(0) = 0 /\ \A a \in Nat : a > 0 => W(a) > 0
  BY <1>2
<1>4. ASSUME NEW a \in Nat, NEW b \in Nat PROVE W(a) <= W(a + b) /\ W(a) + W(b) - W(a + b) \in {0, 1}
  <2>0. PICK c : c = a + b
    OBVIOUS
  <2>c. c \in Nat
    BY <2>0
  <2>1. PICK x, y, z : x = W(a) /\ y = W(b) /\ z = W(c)
    OBVIOUS
  <2>2. /\ x \in Nat /\ 3 * x >= 2 * a /\ 3 * x <= 2 * a + 2
        /\ y \in Nat /\ 3 * y >= 2 * b /\ 3 * y <= 2 * b + 2
        /\ z \in Nat /\ 3 * z >= 2 * c /\ 3 * z <= 2 * c + 2
    BY <1>2, <2>c, <2>1
  <2>3. x <= z /\ (x + y - z = 0 \/ x + y - z = 1)
    BY <2>0, <2>2
  <2>4. QED
    BY <2>0, <2>1, <2>3
<1>5. QED
  BY <1>2, <1>3, <1>4 DEF W

\* The characters by what they do to the count.
LEMMA CharKinds ==
  /\ \A c : c \in Dense => c \in Word /\ c \notin Space
  /\ \A c : c \in Word => c \notin Space
  BY DEF Dense, Word, Space, Letters, Digits

CountState == [tokens : Nat, wordRun : Nat, denseRun : Nat]
None == [tokens |-> 0, wordRun |-> 0, denseRun |-> 0]

\* What a character does to the count, field by field.
LEMMA CountCharIs ==
  ASSUME NEW s \in CountState, NEW c
  PROVE  LET r == CountChar(s, c)
         IN  /\ r \in CountState
             /\ c \in Dense => /\ r.tokens = s.tokens + WordCost(s.wordRun)
                               /\ r.wordRun = 0 /\ r.denseRun = s.denseRun + 1
             /\ c \in Word \ Dense => /\ r.tokens = s.tokens + DenseCost(s.denseRun)
                                      /\ r.wordRun = s.wordRun + 1 /\ r.denseRun = 0
             /\ c \notin Word => /\ r.tokens = Paid(s) + (IF c \in Space THEN 0 ELSE 1)
                                 /\ r.wordRun = 0 /\ r.denseRun = 0
<1>1. PICK w, d, p, r : /\ w = WordCost(s.wordRun) /\ d = DenseCost(s.denseRun)
                        /\ p = Paid(s) /\ r = CountChar(s, c)
  OBVIOUS
<1>2. s.tokens \in Nat /\ s.wordRun \in Nat /\ s.denseRun \in Nat
  BY DEF CountState
<1>3. w \in Nat /\ d \in Nat /\ p \in Nat
  <2>1. w \in Nat /\ d \in Nat
    BY <1>1, <1>2, WordCosts, DenseCosts
  <2>2. p = s.tokens + w + d
    BY <1>1 DEF Paid
  <2>3. QED
    BY <1>2, <2>1, <2>2
<1>4. ASSUME c \in Dense
      PROVE  r \in CountState /\ r.tokens = s.tokens + w /\ r.wordRun = 0 /\ r.denseRun = s.denseRun + 1
  <2>1. PICK x, y : x = s.tokens + w /\ y = s.denseRun + 1
    OBVIOUS
  <2>2. x \in Nat /\ y \in Nat /\ 0 \in Nat
    BY <1>2, <1>3, <2>1
  <2>3. r = [s EXCEPT !.tokens = x, !.wordRun = 0, !.denseRun = y]
    BY <1>1, <1>4, <2>1 DEF CountChar
  <2>4. r \in CountState /\ r.tokens = x /\ r.wordRun = 0 /\ r.denseRun = y
    BY <2>2, <2>3 DEF CountState
  <2>5. QED
    BY <2>1, <2>4
<1>5. ASSUME c \in Word \ Dense
      PROVE  r \in CountState /\ r.tokens = s.tokens + d /\ r.wordRun = s.wordRun + 1 /\ r.denseRun = 0
  <2>1. PICK x, y : x = s.tokens + d /\ y = s.wordRun + 1
    OBVIOUS
  <2>2. x \in Nat /\ y \in Nat /\ 0 \in Nat
    BY <1>2, <1>3, <2>1
  <2>3. r = [s EXCEPT !.tokens = x, !.denseRun = 0, !.wordRun = y]
    BY <1>1, <1>5, <2>1 DEF CountChar
  <2>4. r \in CountState /\ r.tokens = x /\ r.wordRun = y /\ r.denseRun = 0
    BY <2>2, <2>3 DEF CountState
  <2>5. QED
    BY <2>1, <2>4
<1>6. ASSUME c \notin Word
      PROVE  /\ r \in CountState /\ r.tokens = p + (IF c \in Space THEN 0 ELSE 1)
             /\ r.wordRun = 0 /\ r.denseRun = 0
  <2>1. c \notin Dense
    BY <1>6, CharKinds
  <2>2. r = [tokens |-> p + (IF c \in Space THEN 0 ELSE 1), wordRun |-> 0, denseRun |-> 0]
    BY <1>1, <1>6, <2>1 DEF CountChar
  <2>3. QED
    BY <1>3, <2>2 DEF CountState
<1>7. r \in CountState
  BY <1>4, <1>5, <1>6
<1>8. QED
  BY <1>1, <1>4, <1>5, <1>6, <1>7

\* The counts of the beginnings of a text.
Counts(f, t) == f[0] = None /\ \A i \in 1..Len(t) : f[i] = CountChar(f[i - 1], t[i])
AtLeastOne(t, cost) == IF t = <<>> THEN 0 ELSE IF cost = 0 THEN 1 ELSE cost

LEMMA CountExists ==
  ASSUME NEW t \in Seq(Char)
  PROVE  \E f \in [0..Len(t) -> CountState] :
           Counts(f, t) /\ CountTokens(t) = AtLeastOne(t, Paid(f[Len(t)]))
<1> DEFINE n == Len(t)
           step == [i \in 1..n |-> [s \in CountState |-> CountChar(s, t[i])]]
           Body(f) == [i \in 0..n |-> IF i = 0 THEN None ELSE CountChar(f[i - 1], t[i])]
           upTo == CHOOSE f : f = Body(f)
<1>1. n \in Nat
  OBVIOUS
<1>2. CountTokens(t) = AtLeastOne(t, Paid(upTo[n]))
  BY DEF CountTokens, AtLeastOne, None
<1>3. step \in [1..n -> [CountState -> CountState]]
  BY CountCharIs
<1>4. None \in CountState
  BY DEF None, CountState
<1> HIDE DEF n, step
<1>5. PICK f \in [0..n -> CountState] : Follows(f, None, n, step)
  BY <1>1, <1>3, <1>4, RecursionExists
<1>6. f[0] = None /\ \A i \in 1..n : f[i] = CountChar(f[i - 1], t[i])
  <2> SUFFICES ASSUME NEW i \in 1..n PROVE f[i] = CountChar(f[i - 1], t[i])
    BY <1>5 DEF Follows
  <2>1. i - 1 \in 0..n
    BY <1>1
  <2>2. f[i] = step[i][f[i - 1]] /\ f[i - 1] \in CountState
    BY <1>5, <2>1 DEF Follows
  <2>3. QED
    BY <2>2 DEF step
<1>7. f = Body(f)
  <2>1. f = [i \in 0..n |-> f[i]]
    OBVIOUS
  <2>2. \A i \in 0..n : f[i] = IF i = 0 THEN None ELSE CountChar(f[i - 1], t[i])
    <3>1. \A i \in 0..n : i = 0 \/ i \in 1..n
      BY <1>1
    <3>2. QED
      BY <1>6, <3>1
  <2>3. QED
    BY <2>1, <2>2
<1> HIDE DEF Body
<1>8. upTo = Body(upTo)
  BY <1>7
<1> HIDE DEF upTo
<1>9. \A i \in 0..n : upTo[i] = IF i = 0 THEN None ELSE CountChar(upTo[i - 1], t[i])
  <2>1. \A i \in 0..n : Body(upTo)[i] = IF i = 0 THEN None ELSE CountChar(upTo[i - 1], t[i])
    BY DEF Body
  <2>2. QED
    BY <1>8, <2>1
<1> DEFINE T == {i \in 0..n : upTo[i] = f[i]}
<1>10. 0 \in T
  BY <1>1, <1>6, <1>9
<1>11. ASSUME NEW i \in 1..n, i - 1 \in T PROVE i \in T
  <2>1. i \in 0..n /\ i # 0
    BY <1>1
  <2>2. upTo[i - 1] = f[i - 1]
    BY <1>11
  <2>3. upTo[i] = f[i]
    BY <1>6, <1>9, <2>1, <2>2
  <2>4. QED
    BY <2>1, <2>3
<1> HIDE DEF T
<1>12. n \in T
  <2>1. \A i \in 0..n : i \in T
    BY <1>1, <1>10, <1>11, InductionUpTo
  <2>2. n \in 0..n
    BY <1>1
  <2>3. QED
    BY <2>1, <2>2
<1>13. upTo[n] = f[n]
  BY <1>12 DEF T
<1>14. QED
  BY <1>2, <1>5, <1>6, <1>13 DEF Counts, n

\* The count s costs no more than r, whichever runs are continued.
Cheaper(s, r) ==
  \A k \in Nat :
    /\ s.tokens + WordCost(s.wordRun + k) + DenseCost(s.denseRun)
         <= r.tokens + WordCost(r.wordRun + k) + DenseCost(r.denseRun)
    /\ s.tokens + WordCost(s.wordRun) + DenseCost(s.denseRun + k)
         <= r.tokens + WordCost(r.wordRun) + DenseCost(r.denseRun + k)

LEMMA CheaperPaid ==
  ASSUME NEW s \in CountState, NEW r \in CountState, Cheaper(s, r)
  PROVE  Paid(s) \in Nat /\ Paid(r) \in Nat /\ Paid(s) <= Paid(r)
<1>1. /\ s.tokens \in Nat /\ s.wordRun \in Nat /\ s.denseRun \in Nat
      /\ r.tokens \in Nat /\ r.wordRun \in Nat /\ r.denseRun \in Nat
  BY DEF CountState
<1>2. /\ WordCost(s.wordRun) \in Nat /\ DenseCost(s.denseRun) \in Nat
      /\ WordCost(r.wordRun) \in Nat /\ DenseCost(r.denseRun) \in Nat
  BY <1>1, WordCosts, DenseCosts
<1>3. s.wordRun + 0 = s.wordRun /\ r.wordRun + 0 = r.wordRun /\ 0 \in Nat
  BY <1>1
<1>4. s.tokens + WordCost(s.wordRun) + DenseCost(s.denseRun)
        <= r.tokens + WordCost(r.wordRun) + DenseCost(r.denseRun)
  BY <1>3 DEF Cheaper
<1>5. QED
  BY <1>1, <1>2, <1>4 DEF Paid

LEMMA CheaperSame ==
  ASSUME NEW s \in CountState
  PROVE  Cheaper(s, s)
<1> SUFFICES ASSUME NEW k \in Nat
             PROVE  /\ s.tokens + WordCost(s.wordRun + k) + DenseCost(s.denseRun) \in Nat
                    /\ s.tokens + WordCost(s.wordRun) + DenseCost(s.denseRun + k) \in Nat
  BY DEF Cheaper
<1>1. /\ s.tokens \in Nat /\ s.wordRun \in Nat /\ s.denseRun \in Nat
      /\ s.wordRun + k \in Nat /\ s.denseRun + k \in Nat
  BY DEF CountState
<1>2. /\ WordCost(s.wordRun) \in Nat /\ WordCost(s.wordRun + k) \in Nat
      /\ DenseCost(s.denseRun) \in Nat /\ DenseCost(s.denseRun + k) \in Nat
  BY <1>1, WordCosts, DenseCosts
<1>3. QED
  BY <1>1, <1>2

LEMMA CheaperTrans ==
  ASSUME NEW s \in CountState, NEW r \in CountState, NEW q \in CountState, Cheaper(s, r), Cheaper(r, q)
  PROVE  Cheaper(s, q)
<1> SUFFICES ASSUME NEW k \in Nat
             PROVE  /\ s.tokens + WordCost(s.wordRun + k) + DenseCost(s.denseRun)
                         <= q.tokens + WordCost(q.wordRun + k) + DenseCost(q.denseRun)
                    /\ s.tokens + WordCost(s.wordRun) + DenseCost(s.denseRun + k)
                         <= q.tokens + WordCost(q.wordRun) + DenseCost(q.denseRun + k)
  BY DEF Cheaper
<1>1. ASSUME NEW x \in CountState
      PROVE  /\ x.tokens + WordCost(x.wordRun + k) + DenseCost(x.denseRun) \in Nat
             /\ x.tokens + WordCost(x.wordRun) + DenseCost(x.denseRun + k) \in Nat
  <2>1. /\ x.tokens \in Nat /\ x.wordRun \in Nat /\ x.denseRun \in Nat
        /\ x.wordRun + k \in Nat /\ x.denseRun + k \in Nat
    BY DEF CountState
  <2>2. /\ WordCost(x.wordRun) \in Nat /\ WordCost(x.wordRun + k) \in Nat
        /\ DenseCost(x.denseRun) \in Nat /\ DenseCost(x.denseRun + k) \in Nat
    BY <2>1, WordCosts, DenseCosts
  <2>3. QED
    BY <2>1, <2>2
<1> DEFINE F(x) == x.tokens + WordCost(x.wordRun + k) + DenseCost(x.denseRun)
           G(x) == x.tokens + WordCost(x.wordRun) + DenseCost(x.denseRun + k)
<1>2. /\ F(s) \in Nat /\ F(r) \in Nat /\ F(q) \in Nat /\ G(s) \in Nat /\ G(r) \in Nat /\ G(q) \in Nat
  BY <1>1
<1>3. F(s) <= F(r) /\ F(r) <= F(q) /\ G(s) <= G(r) /\ G(r) <= G(q)
  BY DEF Cheaper
<1> HIDE DEF F, G
<1>4. F(s) <= F(q) /\ G(s) <= G(q)
  BY <1>2, <1>3
<1>5. QED
  BY <1>4 DEF F, G

\* A character that is left out makes nothing dearer.
LEMMA CheaperWithout ==
  ASSUME NEW s \in CountState, NEW c
  PROVE  Cheaper(s, CountChar(s, c))
<1>1. PICK r : r = CountChar(s, c)
  OBVIOUS
<1>2. PICK t, w, d : t = s.tokens /\ w = s.wordRun /\ d = s.denseRun
  OBVIOUS
<1>3. t \in Nat /\ w \in Nat /\ d \in Nat
  BY <1>2 DEF CountState
<1> SUFFICES ASSUME NEW k \in Nat
             PROVE  /\ t + WordCost(w + k) + DenseCost(d)
                         <= r.tokens + WordCost(r.wordRun + k) + DenseCost(r.denseRun)
                    /\ t + WordCost(w) + DenseCost(d + k)
                         <= r.tokens + WordCost(r.wordRun) + DenseCost(r.denseRun + k)
  BY <1>1, <1>2 DEF Cheaper
<1>4. w + k \in Nat /\ d + k \in Nat /\ w + 1 \in Nat /\ d + 1 \in Nat
      /\ (w + 1) + k = (w + k) + 1 /\ (d + 1) + k = (d + k) + 1 /\ 0 + k = k
  BY <1>3
<1> DEFINE W(a) == WordCost(a)
           D(a) == DenseCost(a)
<1>5. /\ W(w) \in Nat /\ W(k) \in Nat /\ W(w + k) \in Nat /\ W(w + 1) \in Nat /\ W((w + k) + 1) \in Nat
      /\ W(w) <= W(w + 1) /\ W(w + k) <= W((w + k) + 1) /\ W(w + k) <= W(w) + W(k) /\ W(0) = 0
  <2>0. \A i \in Nat : W(i) \in Nat
    BY WordCosts
  <2>n. (w + k) + 1 \in Nat
    BY <1>3
  <2>1. W(w) \in Nat /\ W(k) \in Nat /\ W(w + k) \in Nat /\ W(w + 1) \in Nat /\ W((w + k) + 1) \in Nat
    <3> HIDE DEF W
    <3>1. QED
      BY <1>3, <1>4, <2>0, <2>n
  <2>2. W(w) <= W(w + 1) /\ W(w + k) <= W((w + k) + 1) /\ W(0) = 0
    BY <1>3, <1>4, WordCosts
  <2>3. W(w) + W(k) - W(w + k) \in {0, 1}
    BY <1>3, WordCosts
  <2> HIDE DEF W
  <2>4. QED
    BY <2>1, <2>2, <2>3
<1>6. /\ D(d) \in Nat /\ D(k) \in Nat /\ D(d + k) \in Nat /\ D(d + 1) \in Nat /\ D((d + k) + 1) \in Nat
      /\ D(d) <= D(d + 1) /\ D(d + k) <= D((d + k) + 1) /\ D(d + k) <= D(d) + D(k) /\ D(0) = 0
  <2>0. \A i \in Nat : D(i) \in Nat
    BY DenseCosts
  <2>n. (d + k) + 1 \in Nat
    BY <1>3
  <2>1. D(d) \in Nat /\ D(k) \in Nat /\ D(d + k) \in Nat /\ D(d + 1) \in Nat /\ D((d + k) + 1) \in Nat
    <3> HIDE DEF D
    <3>1. QED
      BY <1>3, <1>4, <2>0, <2>n
  <2>2. D(d) <= D(d + 1) /\ D(d + k) <= D((d + k) + 1) /\ D(0) = 0
    BY <1>3, <1>4, DenseCosts
  <2>3. D(d) + D(k) - D(d + k) \in {0, 1}
    BY <1>3, DenseCosts
  <2> HIDE DEF D
  <2>4. QED
    BY <2>1, <2>2, <2>3
<1>7. /\ c \in Dense => r.tokens = t + W(w) /\ r.wordRun = 0 /\ r.denseRun = d + 1
      /\ c \in Word \ Dense => r.tokens = t + D(d) /\ r.wordRun = w + 1 /\ r.denseRun = 0
      /\ c \notin Word => /\ r.tokens = t + W(w) + D(d) + (IF c \in Space THEN 0 ELSE 1)
                          /\ r.wordRun = 0 /\ r.denseRun = 0
  BY <1>1, <1>2, CountCharIs DEF Paid
<1> HIDE DEF W, D
<1>8. /\ t + W(w + k) + D(d) <= r.tokens + W(r.wordRun + k) + D(r.denseRun)
      /\ t + W(w) + D(d + k) <= r.tokens + W(r.wordRun) + D(r.denseRun + k)
  <2>1. CASE c \in Dense
    <3>1. /\ W(r.wordRun + k) = W(k) /\ D(r.denseRun) = D(d + 1) /\ W(r.wordRun) = 0
          /\ D(r.denseRun + k) = D((d + k) + 1) /\ r.tokens = t + W(w)
      BY <1>4, <1>5, <1>7, <2>1
    <3>2. QED
      BY <1>3, <1>5, <1>6, <3>1
  <2>2. CASE c \in Word \ Dense
    <3>1. /\ W(r.wordRun + k) = W((w + k) + 1) /\ D(r.denseRun) = 0 /\ W(r.wordRun) = W(w + 1)
          /\ D(r.denseRun + k) = D(k) /\ r.tokens = t + D(d)
      BY <1>4, <1>6, <1>7, <2>2
    <3>2. QED
      BY <1>3, <1>5, <1>6, <3>1
  <2>3. CASE c \notin Word
    <3>1. PICK x : x = (IF c \in Space THEN 0 ELSE 1)
      OBVIOUS
    <3>2. x \in Nat
      BY <3>1
    <3>3. /\ W(r.wordRun + k) = W(k) /\ D(r.denseRun) = 0 /\ W(r.wordRun) = 0
          /\ D(r.denseRun + k) = D(k) /\ r.tokens = t + W(w) + D(d) + x
      BY <1>4, <1>5, <1>6, <1>7, <2>3, <3>1
    <3>4. QED
      BY <1>3, <1>5, <1>6, <3>2, <3>3
  <2>4. QED
    BY <2>1, <2>2, <2>3, CharKinds
<1>9. QED
  BY <1>8 DEF W, D

\* Neither does a character that both counts go over, nor one space for another.
Kin(c, d) == c = d \/ (c \in Space /\ d \in Space)

LEMMA CheaperWith ==
  ASSUME NEW s \in CountState, NEW q \in CountState, Cheaper(s, q), NEW c, NEW e, Kin(c, e)
  PROVE  Cheaper(CountChar(s, c), CountChar(q, e))
<1>1. PICK a, b : a = CountChar(s, c) /\ b = CountChar(q, e)
  OBVIOUS
<1> SUFFICES ASSUME NEW k \in Nat
             PROVE  /\ a.tokens + WordCost(a.wordRun + k) + DenseCost(a.denseRun)
                         <= b.tokens + WordCost(b.wordRun + k) + DenseCost(b.denseRun)
                    /\ a.tokens + WordCost(a.wordRun) + DenseCost(a.denseRun + k)
                         <= b.tokens + WordCost(b.wordRun) + DenseCost(b.denseRun + k)
  BY <1>1 DEF Cheaper
<1>2. PICK t, w, d, u, x, y : /\ t = s.tokens /\ w = s.wordRun /\ d = s.denseRun
                              /\ u = q.tokens /\ x = q.wordRun /\ y = q.denseRun
  OBVIOUS
<1>3. t \in Nat /\ w \in Nat /\ d \in Nat /\ u \in Nat /\ x \in Nat /\ y \in Nat
  BY <1>2 DEF CountState
<1> DEFINE W(i) == WordCost(i)
           D(i) == DenseCost(i)
<1>4. (\A i \in Nat : W(i) \in Nat /\ D(i) \in Nat) /\ W(0) = 0 /\ D(0) = 0
  BY WordCosts, DenseCosts
<1>5. \A i \in Nat : /\ t + W(w + i) + D(d) <= u + W(x + i) + D(y)
                     /\ t + W(w) + D(d + i) <= u + W(x) + D(y + i)
  BY <1>2 DEF Cheaper
<1>6. /\ c \in Dense => a.tokens = t + W(w) /\ a.wordRun = 0 /\ a.denseRun = d + 1
      /\ c \in Word \ Dense => a.tokens = t + D(d) /\ a.wordRun = w + 1 /\ a.denseRun = 0
      /\ c \notin Word => /\ a.tokens = t + W(w) + D(d) + (IF c \in Space THEN 0 ELSE 1)
                          /\ a.wordRun = 0 /\ a.denseRun = 0
  BY <1>1, <1>2, CountCharIs DEF Paid
<1>7. /\ e \in Dense => b.tokens = u + W(x) /\ b.wordRun = 0 /\ b.denseRun = y + 1
      /\ e \in Word \ Dense => b.tokens = u + D(y) /\ b.wordRun = x + 1 /\ b.denseRun = 0
      /\ e \notin Word => /\ b.tokens = u + W(x) + D(y) + (IF e \in Space THEN 0 ELSE 1)
                          /\ b.wordRun = 0 /\ b.denseRun = 0
  BY <1>1, <1>2, CountCharIs DEF Paid
<1>8. (c \in Dense <=> e \in Dense) /\ (c \in Word <=> e \in Word) /\ (c \in Space <=> e \in Space)
  BY CharKinds DEF Kin
<1> HIDE DEF W, D
<1>9. k + 1 \in Nat /\ 1 \in Nat /\ 0 \in Nat /\ w + 0 = w /\ x + 0 = x /\ (w + 1) + k = w + (k + 1)
      /\ (x + 1) + k = x + (k + 1) /\ (d + 1) + k = d + (k + 1) /\ (y + 1) + k = y + (k + 1) /\ 0 + k = k
  BY <1>3
<1>10. /\ a.tokens + W(a.wordRun + k) + D(a.denseRun) <= b.tokens + W(b.wordRun + k) + D(b.denseRun)
       /\ a.tokens + W(a.wordRun) + D(a.denseRun + k) <= b.tokens + W(b.wordRun) + D(b.denseRun + k)
  <2>1. CASE c \in Dense
    <3>1. /\ t + W(w) + D(d + 1) <= u + W(x) + D(y + 1)
          /\ t + W(w) + D(d + (k + 1)) <= u + W(x) + D(y + (k + 1))
      BY <1>5, <1>9
    <3>2. /\ a.tokens = t + W(w) /\ W(a.wordRun + k) = W(k) /\ D(a.denseRun) = D(d + 1)
          /\ W(a.wordRun) = 0 /\ D(a.denseRun + k) = D(d + (k + 1))
      BY <1>4, <1>6, <1>9, <2>1
    <3>3. /\ b.tokens = u + W(x) /\ W(b.wordRun + k) = W(k) /\ D(b.denseRun) = D(y + 1)
          /\ W(b.wordRun) = 0 /\ D(b.denseRun + k) = D(y + (k + 1))
      BY <1>4, <1>7, <1>8, <1>9, <2>1
    <3>4. /\ W(w) \in Nat /\ W(x) \in Nat /\ W(k) \in Nat /\ D(d + 1) \in Nat /\ D(y + 1) \in Nat
          /\ D(d + (k + 1)) \in Nat /\ D(y + (k + 1)) \in Nat
      BY <1>3, <1>4, <1>9
    <3>5. QED
      BY <1>3, <3>1, <3>2, <3>3, <3>4
  <2>2. CASE c \in Word \ Dense
    <3>1. /\ t + W(w + 1) + D(d) <= u + W(x + 1) + D(y)
          /\ t + W(w + (k + 1)) + D(d) <= u + W(x + (k + 1)) + D(y)
      BY <1>5, <1>9
    <3>2. /\ a.tokens = t + D(d) /\ W(a.wordRun + k) = W(w + (k + 1)) /\ D(a.denseRun) = 0
          /\ W(a.wordRun) = W(w + 1) /\ D(a.denseRun + k) = D(k)
      BY <1>4, <1>6, <1>9, <2>2
    <3>3. /\ b.tokens = u + D(y) /\ W(b.wordRun + k) = W(x + (k + 1)) /\ D(b.denseRun) = 0
          /\ W(b.wordRun) = W(x + 1) /\ D(b.denseRun + k) = D(k)
      BY <1>4, <1>7, <1>8, <1>9, <2>2
    <3>4. /\ D(d) \in Nat /\ D(y) \in Nat /\ D(k) \in Nat /\ W(w + 1) \in Nat /\ W(x + 1) \in Nat
          /\ W(w + (k + 1)) \in Nat /\ W(x + (k + 1)) \in Nat
      BY <1>3, <1>4, <1>9
    <3>5. QED
      BY <1>3, <3>1, <3>2, <3>3, <3>4
  <2>3. CASE c \notin Word
    <3>1. t + W(w) + D(d) <= u + W(x) + D(y)
      BY <1>5, <1>9
    <3>2. PICK z : z = (IF c \in Space THEN 0 ELSE 1)
      OBVIOUS
    <3>3. /\ a.tokens = t + W(w) + D(d) + z /\ W(a.wordRun + k) = W(k) /\ D(a.denseRun) = 0
          /\ W(a.wordRun) = 0 /\ D(a.denseRun + k) = D(k)
      BY <1>4, <1>6, <1>9, <2>3, <3>2
    <3>4. /\ b.tokens = u + W(x) + D(y) + z /\ W(b.wordRun + k) = W(k) /\ D(b.denseRun) = 0
          /\ W(b.wordRun) = 0 /\ D(b.denseRun + k) = D(k)
      BY <1>4, <1>7, <1>8, <1>9, <2>3, <3>2
    <3>5. /\ z \in Nat /\ D(d) \in Nat /\ D(y) \in Nat /\ D(k) \in Nat /\ W(w) \in Nat /\ W(x) \in Nat
          /\ W(k) \in Nat
      BY <1>3, <1>4, <3>2
    <3>6. QED
      BY <1>3, <3>1, <3>3, <3>4, <3>5
  <2>4. QED
    BY <2>1, <2>2, <2>3, CharKinds
<1>11. QED
  BY <1>10 DEF W, D

\* u is drawn from the characters of t between two places, in their order.
Draws(place, u, t) ==
  /\ \A k \in 1..Len(u) : Kin(u[k], t[place[k]])
  /\ \A j, k \in 1..Len(u) : j < k => place[j] < place[k]

Drawn(u, t, lo, hi) == \E place \in [1..Len(u) -> lo..hi] : Draws(place, u, t)

\* What is drawn from a text costs no more than the text.
LEMMA DrawnCosts ==
  ASSUME NEW t \in Seq(Char), NEW u \in Seq(Char), Drawn(u, t, 1, Len(t))
  PROVE  CountTokens(u) \in Nat /\ CountTokens(t) \in Nat /\ CountTokens(u) <= CountTokens(t)
<1>1. PICK m, n : m = Len(u) /\ n = Len(t)
  OBVIOUS
<1>2. m \in Nat /\ n \in Nat
  BY <1>1
<1>3. PICK place \in [1..m -> 1..n] : Draws(place, u, t)
  BY <1>1 DEF Drawn
<1>4. /\ \A k \in 1..m : place[k] \in 1..n /\ Kin(u[k], t[place[k]])
      /\ \A j, k \in 1..m : j < k => place[j] < place[k]
  BY <1>1, <1>3 DEF Draws
<1>5. PICK f \in [0..m -> CountState] : Counts(f, u) /\ CountTokens(u) = AtLeastOne(u, Paid(f[m]))
  BY <1>1, CountExists
<1>6. PICK g \in [0..n -> CountState] : Counts(g, t) /\ CountTokens(t) = AtLeastOne(t, Paid(g[n]))
  BY <1>1, CountExists
<1>7. f[0] = None /\ \A i \in 1..m : f[i] = CountChar(f[i - 1], u[i])
  BY <1>1, <1>5 DEF Counts
<1>8. g[0] = None /\ \A i \in 1..n : g[i] = CountChar(g[i - 1], t[i])
  BY <1>1, <1>6 DEF Counts
<1>9. (\A i \in 0..m : f[i] \in CountState) /\ (\A i \in 0..n : g[i] \in CountState)
  BY <1>5, <1>6
<1> DEFINE Reached(i, j) == /\ i > 0 => place[i] <= j
                            /\ i < m => place[i + 1] > j
           T == {j \in 0..n : \A i \in 0..m : Reached(i, j) => Cheaper(f[i], g[j])}
<1>10. 0 \in T
  <2>1. ASSUME NEW i \in 0..m, Reached(i, 0) PROVE i = 0
    <3>1. i > 0 => i \in 1..m /\ place[i] <= 0
      BY <1>2, <2>1
    <3>2. i > 0 => place[i] \in 1..n
      BY <1>4, <3>1
    <3>3. QED
      BY <1>2, <3>1, <3>2
  <2>2. Cheaper(f[0], g[0])
    <3>1. 0 \in 0..m
      BY <1>2
    <3>2. f[0] \in CountState /\ g[0] = f[0]
      BY <1>7, <1>8, <1>9, <3>1
    <3>3. QED
      BY <3>2, CheaperSame
  <2>3. 0 \in 0..n
    BY <1>2
  <2> HIDE DEF Reached
  <2>4. QED
    BY <2>1, <2>2, <2>3
<1>11. ASSUME NEW j \in 1..n, j - 1 \in T PROVE j \in T
  <2>1. j \in 0..n /\ j - 1 \in 0..n /\ g[j] = CountChar(g[j - 1], t[j])
    BY <1>2, <1>8
  <2>2. \A i \in 0..m : Reached(i, j - 1) => Cheaper(f[i], g[j - 1])
    BY <1>11
  <2>3. ASSUME NEW i \in 0..m, Reached(i, j) PROVE Cheaper(f[i], g[j])
    <3>1. CASE i > 0 /\ place[i] = j
      <4>1. i \in 1..m /\ i - 1 \in 0..m /\ (i - 1) + 1 = i
        BY <1>2, <3>1
      <4>2. i - 1 > 0 => place[i - 1] < place[i]
        <5>1. i - 1 > 0 => i - 1 \in 1..m /\ i - 1 < i
          BY <1>2, <4>1
        <5>2. QED
          BY <1>4, <4>1, <5>1
      <4>3. i - 1 > 0 => place[i - 1] \in 1..n
        <5>1. i - 1 > 0 => i - 1 \in 1..m
          BY <1>2, <4>1
        <5>2. QED
          BY <1>4, <5>1
      <4>4. Reached(i - 1, j - 1)
        <5>1. place[(i - 1) + 1] > j - 1
          BY <1>2, <3>1, <4>1
        <5>2. i - 1 > 0 => place[i - 1] <= j - 1
          BY <1>2, <3>1, <4>2, <4>3
        <5>3. QED
          BY <5>1, <5>2
      <4>5. Cheaper(f[i - 1], g[j - 1])
        BY <2>2, <4>1, <4>4
      <4>6. Kin(u[i], t[j]) /\ f[i] = CountChar(f[i - 1], u[i])
        BY <1>4, <1>7, <3>1, <4>1
      <4>7. f[i - 1] \in CountState /\ g[j - 1] \in CountState
        BY <1>9, <2>1, <4>1
      <4>8. Cheaper(CountChar(f[i - 1], u[i]), CountChar(g[j - 1], t[j]))
        BY <4>5, <4>6, <4>7, CheaperWith
      <4>9. QED
        BY <2>1, <4>6, <4>8
    <3>2. CASE ~(i > 0 /\ place[i] = j)
      <4>1. Reached(i, j - 1)
        <5>1. i > 0 => i \in 1..m /\ place[i] \in 1..n /\ place[i] <= j /\ place[i] # j
          <6>1. i > 0 => i \in 1..m
            BY <1>2
          <6>2. QED
            BY <1>4, <2>3, <3>2, <6>1
        <5>2. i < m => i + 1 \in 1..m /\ place[i + 1] \in 1..n /\ place[i + 1] > j
          <6>1. i < m => i + 1 \in 1..m
            BY <1>2
          <6>2. QED
            BY <1>4, <2>3, <6>1
        <5>3. i > 0 => place[i] <= j - 1
          BY <1>2, <5>1
        <5>4. i < m => place[i + 1] > j - 1
          BY <1>2, <5>2
        <5>5. QED
          BY <5>3, <5>4
      <4>2. Cheaper(f[i], g[j - 1])
        BY <2>2, <4>1
      <4>3. f[i] \in CountState /\ g[j - 1] \in CountState /\ g[j] \in CountState
        BY <1>9, <2>1
      <4>4. Cheaper(g[j - 1], g[j])
        BY <2>1, <4>3, CheaperWithout
      <4>5. QED
        BY <4>2, <4>3, <4>4, CheaperTrans
    <3>3. QED
      BY <3>1, <3>2
  <2> HIDE DEF Reached
  <2>4. QED
    BY <2>1, <2>3
<1>12. n \in T
  <2> HIDE DEF T
  <2>1. \A j \in 0..n : j \in T
    BY <1>2, <1>10, <1>11, InductionUpTo
  <2>2. n \in 0..n
    BY <1>2
  <2>3. QED
    BY <2>1, <2>2
<1>13. Reached(m, n)
  <2>1. m > 0 => m \in 1..m
    BY <1>2
  <2>2. m > 0 => place[m] \in 1..n
    BY <1>4, <2>1
  <2>3. QED
    BY <1>2, <2>2
<1>14. Cheaper(f[m], g[n])
  <2>1. m \in 0..m
    BY <1>2
  <2> HIDE DEF Reached
  <2>2. QED
    BY <1>12, <1>13, <2>1
<1>15. Paid(f[m]) \in Nat /\ Paid(g[n]) \in Nat /\ Paid(f[m]) <= Paid(g[n])
  <2>1. f[m] \in CountState /\ g[n] \in CountState
    BY <1>2, <1>9
  <2>2. QED
    BY <1>14, <2>1, CheaperPaid
<1>16. u # <<>> => t # <<>>
  <2>1. u # <<>> => 1 \in 1..m
    BY <1>1, <1>2
  <2>2. u # <<>> => n >= 1
    BY <1>2, <1>4, <2>1
  <2>3. QED
    BY <1>1, <2>2
<1> HIDE DEF T, Reached
<1>17. QED
  BY <1>5, <1>6, <1>15, <1>16 DEF AtLeastOne

\* Drawing from a part of the text, and one character more.
LEMMA DrawnWider ==
  ASSUME NEW u, NEW t, NEW lo \in Nat, NEW hi \in Nat, NEW a \in Nat, NEW b \in Nat,
         a <= lo, hi <= b, Drawn(u, t, lo, hi)
  PROVE  Drawn(u, t, a, b)
<1>1. PICK place \in [1..Len(u) -> lo..hi] : Draws(place, u, t)
  BY DEF Drawn
<1>2. lo..hi \subseteq a..b
  OBVIOUS
<1>3. place \in [1..Len(u) -> a..b]
  BY <1>2
<1>4. QED
  BY <1>1, <1>3 DEF Drawn

LEMMA DrawnNothing == \A t, lo, hi : Drawn(<<>>, t, lo, hi)
<1> TAKE t, lo, hi
<1>1. PICK u : u = <<>>
  OBVIOUS
<1>2. Len(u) = 0 /\ 1..0 = {}
  BY <1>1
<1> DEFINE place == [k \in {} |-> 0]
<1>3. place \in [1..Len(u) -> lo..hi]
  BY <1>2
<1>4. Draws(place, u, t)
  BY <1>2 DEF Draws
<1>5. Drawn(u, t, lo, hi)
  BY <1>3, <1>4 DEF Drawn
<1>6. QED
  BY <1>1, <1>5

LEMMA DrawnBefore ==
  ASSUME NEW u \in Seq(Char), NEW t, NEW i \in Nat, NEW hi \in Nat, i <= hi, NEW c \in Char,
         Kin(c, t[i]), Drawn(u, t, i + 1, hi)
  PROVE  <<c>> \o u \in Seq(Char) /\ Drawn(<<c>> \o u, t, i, hi)
<1>1. PICK place \in [1..Len(u) -> (i + 1)..hi] : Draws(place, u, t)
  BY DEF Drawn
<1>2. PICK m, x, v : m = Len(u) /\ x = <<c>> /\ v = x \o u
  OBVIOUS
<1>3. m \in Nat /\ x \in Seq(Char) /\ Len(x) = 1 /\ x[1] = c
  BY <1>2
<1>4. v \in Seq(Char) /\ Len(v) = 1 + m /\ v[1] = c /\ \A k \in 1..m : v[1 + k] = u[k]
  <2>1. /\ x \o u \in Seq(Char) /\ Len(x \o u) = Len(x) + Len(u)
        /\ \A k \in 1..Len(x) : (x \o u)[k] = x[k]
        /\ \A k \in 1..Len(u) : (x \o u)[Len(x) + k] = u[k]
    <3>1. x \in Seq(Char)
      BY <1>3
    <3>2. QED
      BY <3>1, InARow
  <2>2. 1 \in 1..1
    OBVIOUS
  <2>3. QED
    BY <1>2, <1>3, <2>1, <2>2
<1> DEFINE q == [k \in 1..(1 + m) |-> IF k = 1 THEN i ELSE place[k - 1]]
<1>5. ASSUME NEW k \in 1..(1 + m), k # 1 PROVE k - 1 \in 1..m /\ 1 + (k - 1) = k
  BY <1>3, <1>5
<1>6. /\ \A k \in 1..m : place[k] \in (i + 1)..hi /\ Kin(u[k], t[place[k]])
      /\ \A j, k \in 1..m : j < k => place[j] < place[k]
  BY <1>1, <1>2 DEF Draws
<1>7. q \in [1..(1 + m) -> i..hi]
  <2>1. \A k \in 1..(1 + m) : (IF k = 1 THEN i ELSE place[k - 1]) \in i..hi
    BY <1>5, <1>6
  <2>2. QED
    BY <2>1
<1>8. q[1] = i /\ \A k \in 1..(1 + m) : k # 1 => q[k] = place[k - 1]
  <2>1. 1 \in 1..(1 + m)
    BY <1>3
  <2>2. QED
    BY <2>1
<1> HIDE DEF q
<1>9. \A k \in 1..(1 + m) : Kin(v[k], t[q[k]])
  <2> SUFFICES ASSUME NEW k \in 1..(1 + m) PROVE Kin(v[k], t[q[k]])
    OBVIOUS
  <2>1. CASE k = 1
    BY <1>4, <1>8, <2>1
  <2>2. CASE k # 1
    <3>1. v[1 + (k - 1)] = u[k - 1] /\ Kin(u[k - 1], t[place[k - 1]])
      BY <1>4, <1>5, <1>6, <2>2
    <3>2. QED
      BY <1>5, <1>8, <2>2, <3>1
  <2>3. QED
    BY <2>1, <2>2
<1>10. \A j, k \in 1..(1 + m) : j < k => q[j] < q[k]
  <2> SUFFICES ASSUME NEW j \in 1..(1 + m), NEW k \in 1..(1 + m), j < k PROVE q[j] < q[k]
    OBVIOUS
  <2>1. k # 1 /\ k - 1 \in 1..m
    BY <1>3
  <2>2. q[k] = place[k - 1] /\ place[k - 1] \in (i + 1)..hi
    BY <1>6, <1>8, <2>1
  <2>3. CASE j = 1
    BY <1>8, <2>2, <2>3
  <2>4. CASE j # 1
    <3>1. j - 1 \in 1..m /\ j - 1 < k - 1
      BY <1>3, <2>4
    <3>2. place[j - 1] < place[k - 1]
      BY <1>6, <2>1, <3>1
    <3>3. QED
      BY <1>8, <2>2, <2>4, <3>2
  <2>5. QED
    BY <2>3, <2>4
<1>11. Drawn(v, t, i, hi)
  BY <1>4, <1>7, <1>9, <1>10 DEF Drawn, Draws
<1>12. QED
  BY <1>2, <1>4, <1>11

LEMMA DrawnBehind ==
  ASSUME NEW u \in Seq(Char), NEW t, NEW i \in Nat, NEW lo \in Nat, lo <= i, NEW c \in Char,
         Kin(c, t[i]), Drawn(u, t, lo, i - 1)
  PROVE  Append(u, c) \in Seq(Char) /\ Drawn(Append(u, c), t, lo, i)
<1>1. PICK place \in [1..Len(u) -> lo..(i - 1)] : Draws(place, u, t)
  BY DEF Drawn
<1>2. PICK m, v : m = Len(u) /\ v = Append(u, c)
  OBVIOUS
<1>3. /\ m \in Nat /\ v \in Seq(Char) /\ Len(v) = m + 1 /\ v[m + 1] = c
      /\ \A k \in 1..m : v[k] = u[k]
  BY <1>2
<1> DEFINE q == [k \in 1..(m + 1) |-> IF k = m + 1 THEN i ELSE place[k]]
<1>4. \A k \in 1..(m + 1) : k # m + 1 => k \in 1..m
  BY <1>3
<1>5. /\ \A k \in 1..m : place[k] \in lo..(i - 1) /\ Kin(u[k], t[place[k]])
      /\ \A j, k \in 1..m : j < k => place[j] < place[k]
  BY <1>1, <1>2 DEF Draws
<1>6. q \in [1..(m + 1) -> lo..i]
  <2>1. \A k \in 1..(m + 1) : (IF k = m + 1 THEN i ELSE place[k]) \in lo..i
    BY <1>4, <1>5
  <2>2. QED
    BY <2>1
<1>7. q[m + 1] = i /\ \A k \in 1..(m + 1) : k # m + 1 => q[k] = place[k]
  <2>1. m + 1 \in 1..(m + 1)
    BY <1>3
  <2>2. QED
    BY <2>1
<1> HIDE DEF q
<1>8. \A k \in 1..(m + 1) : Kin(v[k], t[q[k]])
  BY <1>3, <1>4, <1>5, <1>7
<1>9. \A j, k \in 1..(m + 1) : j < k => q[j] < q[k]
  <2> SUFFICES ASSUME NEW j \in 1..(m + 1), NEW k \in 1..(m + 1), j < k PROVE q[j] < q[k]
    OBVIOUS
  <2>1. j # m + 1 /\ j \in 1..m
    BY <1>3
  <2>2. q[j] = place[j] /\ place[j] \in lo..(i - 1)
    BY <1>5, <1>7, <2>1
  <2>3. CASE k = m + 1
    BY <1>7, <2>2, <2>3
  <2>4. CASE k # m + 1
    BY <1>4, <1>5, <1>7, <2>1, <2>2, <2>4
  <2>5. QED
    BY <2>3, <2>4
<1>10. Drawn(v, t, lo, i)
  BY <1>3, <1>6, <1>8, <1>9 DEF Drawn, Draws
<1>11. QED
  BY <1>2, <1>3, <1>10

\* Each rewriting of normalizeSpan draws from its text.
LEMMA DrawnSelf ==
  ASSUME NEW t \in Seq(Char)
  PROVE  Drawn(t, t, 1, Len(t))
<1> DEFINE q == [k \in 1..Len(t) |-> k]
<1>1. q \in [1..Len(t) -> 1..Len(t)] /\ \A k \in 1..Len(t) : q[k] = k
  OBVIOUS
<1> HIDE DEF q
<1>2. Draws(q, t, t)
  BY <1>1 DEF Draws, Kin
<1>3. QED
  BY <1>1, <1>2 DEF Drawn

LEMMA CrlfDraws ==
  ASSUME NEW t \in Seq(Char)
  PROVE  StripCrlf(t) \in Seq(Char) /\ Drawn(StripCrlf(t), t, 1, Len(t))
<1>1. PICK u, v, n : u = Ended(t) /\ v = StripCrlf(t) /\ n = Len(t)
  OBVIOUS
<1>2. u \in Seq(Char) /\ Len(u) = n /\ v = Select(u, Stay(t))
  BY <1>1, EndedIs, CrlfIs
<1>3. /\ Select(u, Stay(t)) \in Seq(Char)
      /\ \E place \in [1..Len(Select(u, Stay(t))) -> 1..Len(u)] : Picks(place, u, Stay(t))
  BY <1>2, SelectShape
<1>4. PICK place \in [1..Len(v) -> 1..n] : Picks(place, u, Stay(t))
  BY <1>2, <1>3
<1>5. /\ \A k \in 1..Len(v) : v[k] = u[place[k]] /\ place[k] \in 1..n
      /\ \A j, k \in 1..Len(v) : j < k => place[j] < place[k]
  BY <1>2, <1>4 DEF Picks
<1>6. \A i \in 1..n : Kin(u[i], t[i])
  <2>1. \A i \in 1..n : u[i] = IF t[i] = "cr" THEN "nl" ELSE t[i]
    BY <1>1 DEF Ended
  <2>2. "nl" \in Space /\ "cr" \in Space
    BY DEF Space
  <2>3. QED
    BY <2>1, <2>2 DEF Kin
<1>7. Draws(place, v, t)
  BY <1>5, <1>6 DEF Draws
<1>8. QED
  BY <1>1, <1>2, <1>3, <1>4, <1>7 DEF Drawn

LEMMA InvisibleDraws ==
  ASSUME NEW t \in Seq(Char)
  PROVE  StripInvisible(t) \in Seq(Char) /\ Drawn(StripInvisible(t), t, 1, Len(t))
<1>1. PICK v, n, P : v = StripInvisible(t) /\ n = Len(t) /\ P = {i \in 1..Len(t) : t[i] \notin Invisible}
  OBVIOUS
<1>2. v = Select(t, P)
  BY <1>1 DEF StripInvisible
<1>3. /\ Select(t, P) \in Seq(Char)
      /\ \E place \in [1..Len(Select(t, P)) -> 1..Len(t)] : Picks(place, t, P)
  BY SelectShape
<1>4. PICK place \in [1..Len(v) -> 1..n] : Picks(place, t, P)
  BY <1>1, <1>2, <1>3
<1>5. /\ \A k \in 1..Len(v) : v[k] = t[place[k]]
      /\ \A j, k \in 1..Len(v) : j < k => place[j] < place[k]
  BY <1>2, <1>4 DEF Picks
<1>6. Draws(place, v, t)
  BY <1>5 DEF Draws, Kin
<1>7. QED
  BY <1>1, <1>2, <1>3, <1>4, <1>6 DEF Drawn

LEMMA AnsiDraws ==
  ASSUME NEW t \in Seq(Char)
  PROVE  StripAnsi(t) \in Seq(Char) /\ Drawn(StripAnsi(t), t, 1, Len(t))
<1>1. PICK n : n = Len(t)
  OBVIOUS
<1>2. n \in Nat
  BY <1>1
<1>3. PICK f \in [1..(n + 1) -> Seq(Char)] : Strips(f, t)
  BY <1>1, StripsExists
<1>4. /\ f[n + 1] = <<>> /\ StripAnsi(t) = f[1]
      /\ \A i \in 1..n : f[i] = IF t[i] = "esc" /\ EscapeEnd(t, i) # 0 THEN f[EscapeEnd(t, i) + 1]
                                ELSE <<t[i]>> \o f[i + 1]
  BY <1>1, <1>3 DEF Strips
<1> DEFINE T == {i \in 1..(n + 1) : \A j \in i..(n + 1) : Drawn(f[j], t, j, n)}
<1>5. n + 1 \in T
  <2>1. \A j \in (n + 1)..(n + 1) : j = n + 1
    BY <1>2
  <2>2. Drawn(f[n + 1], t, n + 1, n)
    BY <1>4, DrawnNothing
  <2>3. n + 1 \in 1..(n + 1)
    BY <1>2
  <2>4. QED
    BY <2>1, <2>2, <2>3
<1>6. ASSUME NEW i \in 1..((n + 1) - 1), i + 1 \in T PROVE i \in T
  <2>1. i \in 1..n /\ i \in Nat /\ i + 1 \in 1..(n + 1) /\ i <= n /\ i \in 1..(n + 1)
    BY <1>2
  <2>2. \A j \in (i + 1)..(n + 1) : Drawn(f[j], t, j, n)
    BY <1>6
  <2>3. Drawn(f[i], t, i, n)
    <3>1. CASE t[i] = "esc" /\ EscapeEnd(t, i) # 0
      <4>1. PICK e : e = EscapeEnd(t, i) + 1
        OBVIOUS
      <4>2. EscapeEnd(t, i) \in (i + 1)..n
        BY <1>1, <2>1, <3>1, EscapeEndType
      <4>3. e \in (i + 1)..(n + 1) /\ e \in Nat /\ i <= e
        BY <1>2, <2>1, <4>1, <4>2
      <4>4. f[i] = f[e] /\ Drawn(f[e], t, e, n)
        BY <1>4, <2>1, <2>2, <3>1, <4>1, <4>3
      <4>5. n <= n
        BY <1>2
      <4>6. Drawn(f[e], t, i, n)
        BY <1>2, <2>1, <4>3, <4>4, <4>5, DrawnWider
      <4>7. QED
        BY <4>4, <4>6
    <3>2. CASE ~(t[i] = "esc" /\ EscapeEnd(t, i) # 0)
      <4>1. PICK u, c : u = f[i + 1] /\ c = t[i]
        OBVIOUS
      <4>2. u \in Seq(Char) /\ c \in Char /\ Kin(c, t[i])
        BY <1>1, <1>3, <2>1, <4>1 DEF Kin
      <4>3. i + 1 \in (i + 1)..(n + 1)
        BY <2>1
      <4>4. Drawn(u, t, i + 1, n) /\ f[i] = <<c>> \o u
        BY <1>4, <2>1, <2>2, <3>2, <4>1, <4>3
      <4>5. Drawn(<<c>> \o u, t, i, n)
        BY <1>2, <2>1, <4>2, <4>4, DrawnBefore
      <4>6. QED
        BY <4>4, <4>5
    <3>3. QED
      BY <3>1, <3>2
  <2>4. \A j \in i..(n + 1) : j = i \/ j \in (i + 1)..(n + 1)
    BY <2>1
  <2>5. QED
    BY <2>1, <2>2, <2>3, <2>4
<1>7. Drawn(f[1], t, 1, n)
  <2> HIDE DEF T
  <2>1. 1 \in Nat /\ n + 1 \in Nat /\ 1 \in 1..(n + 1)
    BY <1>2
  <2>2. \A i \in 1..(n + 1) : i \in T
    BY <1>5, <1>6, <2>1, InductionDownTo
  <2>3. QED
    BY <2>1, <2>2 DEF T
<1>8. f[1] \in Seq(Char)
  <2>1. 1 \in 1..(n + 1)
    BY <1>2
  <2>2. QED
    BY <2>1
<1>9. QED
  BY <1>1, <1>4, <1>7, <1>8

LEMMA ScanOut ==
  ASSUME NEW s \in ScanState, NEW c \in Char
  PROVE  Scan(s, c) \in ScanState /\ (Scan(s, c).out = s.out \/ Scan(s, c).out = Append(s.out, c))
<1>1. CASE s.inString
  BY <1>1, ScanStringIs DEF Scan, AfterString
<1>2. CASE ~s.inString /\ c \in White
  BY <1>2 DEF Scan
<1>3. CASE ~s.inString /\ c \notin White
  BY <1>3, ScanTokenIs DEF Scan, AfterToken
<1>4. QED
  BY <1>1, <1>2, <1>3

LEMMA MinifyDraws ==
  ASSUME NEW t \in Seq(Char)
  PROVE  MinifyJsonWhitespace(t) \in Seq(Char) /\ Drawn(MinifyJsonWhitespace(t), t, 1, Len(t))
<1>1. PICK n : n = Len(t)
  OBVIOUS
<1>2. n \in Nat
  BY <1>1
<1>3. Start \in ScanState
  BY DEF Start, ScanState
<1>4. PICK r \in ScanState : Yields(Start, t, r)
  BY <1>3, YieldsExists
<1>5. PICK f \in [0..n -> ScanState] : Scans(f, Start, t) /\ f[n] = r
  BY <1>1, <1>4 DEF Yields
<1>6. f[0] = Start /\ \A i \in 1..n : f[i] = Scan(f[i - 1], t[i])
  BY <1>1, <1>5 DEF Scans
<1> DEFINE T == {i \in 0..n : Drawn(f[i].out, t, 1, i)}
<1>7. 0 \in T
  <2>1. f[0].out = <<>>
    BY <1>6 DEF Start
  <2>2. 0 \in 0..n
    BY <1>2
  <2>3. QED
    BY <2>1, <2>2, DrawnNothing
<1>8. ASSUME NEW i \in 1..n, i - 1 \in T PROVE i \in T
  <2>1. i \in Nat /\ 1 <= i /\ i - 1 \in Nat /\ i - 1 \in 0..n /\ i \in 0..n /\ 1 \in Nat /\ 1 <= 1 /\ i - 1 <= i
    BY <1>2
  <2>2. PICK s, c : s = f[i - 1] /\ c = t[i]
    OBVIOUS
  <2>3. s \in ScanState /\ c \in Char /\ Kin(c, t[i]) /\ f[i] = Scan(s, c)
    BY <1>1, <1>5, <1>6, <2>1, <2>2 DEF Kin
  <2>4. PICK u : u = s.out
    OBVIOUS
  <2>5. u \in Seq(Char)
    BY <2>3, <2>4 DEF ScanState
  <2>6. Drawn(u, t, 1, i - 1)
    BY <1>8, <2>2, <2>4
  <2>7. f[i].out = u \/ f[i].out = Append(u, c)
    BY <2>3, <2>4, ScanOut
  <2>8. Drawn(u, t, 1, i)
    BY <2>1, <2>6, DrawnWider
  <2>9. Drawn(Append(u, c), t, 1, i)
    BY <2>1, <2>3, <2>5, <2>6, DrawnBehind
  <2>10. Drawn(f[i].out, t, 1, i)
    BY <2>7, <2>8, <2>9
  <2>11. QED
    BY <2>1, <2>10
<1>9. Drawn(r.out, t, 1, n)
  <2> HIDE DEF T
  <2>1. \A i \in 0..n : i \in T
    BY <1>2, <1>7, <1>8, InductionUpTo
  <2>2. n \in 0..n
    BY <1>2
  <2>3. QED
    BY <1>5, <2>1, <2>2 DEF T
<1>10. r.out \in Seq(Char)
  BY DEF ScanState
<1>11. MinifyJsonWhitespace(t) = r.out \/ MinifyJsonWhitespace(t) = t
  BY <1>4, MinifyIs
<1>12. QED
  BY <1>1, <1>9, <1>10, <1>11, DrawnSelf

LEMMA NextBreakIs ==
  ASSUME NEW t \in Seq(Char), NEW i \in 1..Len(t)
  PROVE  NextBreak(t, i) # 0 => NextBreak(t, i) \in (i + 1)..Len(t) /\ t[NextBreak(t, i)] = "nl"
<1>1. PICK n, k : n = Len(t) /\ k = Skip(t, i + 1, Blanks)
  OBVIOUS
<1>2. n \in Nat /\ i \in Nat /\ i + 1 \in 1..(n + 1)
  BY <1>1
<1>3. k \in (i + 1)..(n + 1)
  <2>1. i + 1 \in 1..(Len(t) + 1)
    BY <1>1, <1>2
  <2>2. Skips(t, i + 1, Blanks, Skip(t, i + 1, Blanks))
    BY <2>1, SkipIs
  <2>3. QED
    BY <1>1, <2>2 DEF Skips
<1>4. NextBreak(t, i) = IF k <= n /\ t[k] \in {"nl"} THEN k ELSE 0
  BY <1>1 DEF NextBreak, At
<1>5. QED
  BY <1>1, <1>2, <1>3, <1>4

\* The last line end of the blank run that begins at i.
LastBreaks(last, t) ==
  \A i \in 1..Len(t) : last[i] = IF NextBreak(t, i) = 0 THEN i ELSE last[NextBreak(t, i)]

LastBreak(t) ==
  LET last[i \in 1..Len(t)] == IF NextBreak(t, i) = 0 THEN i ELSE last[NextBreak(t, i)]
  IN  last

LEMMA LastBreakIs ==
  ASSUME NEW t \in Seq(Char)
  PROVE  \A i \in 1..Len(t) :
           LastBreak(t)[i] \in i..Len(t) /\ (t[i] = "nl" => t[LastBreak(t)[i]] = "nl")
<1> DEFINE n == Len(t)
           Body(f) == [i \in 1..n |-> IF NextBreak(t, i) = 0 THEN i ELSE f[NextBreak(t, i)]]
           last == CHOOSE f : f = Body(f)
           next == [i \in 1..n |-> IF NextBreak(t, i) = 0 THEN n + 1 ELSE NextBreak(t, i)]
           add == [i \in 1..n |-> [v \in 1..(n + 1) |-> IF NextBreak(t, i) = 0 THEN i ELSE v]]
<1>1. n \in Nat
  OBVIOUS
<1>2. LastBreak(t) = last
  BY DEF LastBreak
<1>3. \A i \in 1..n : NextBreak(t, i) # 0 => NextBreak(t, i) \in (i + 1)..n /\ t[NextBreak(t, i)] = "nl"
  BY NextBreakIs
<1> HIDE DEF n
<1>4. Ahead(next, n) /\ add \in [1..n -> [1..(n + 1) -> 1..(n + 1)]] /\ n + 1 \in 1..(n + 1)
  <2>1. ASSUME NEW i \in 1..n PROVE next[i] \in (i + 1)..(n + 1)
    <3>1. NextBreak(t, i) # 0 => NextBreak(t, i) \in (i + 1)..(n + 1)
      BY <1>1, <1>3
    <3>2. n + 1 \in (i + 1)..(n + 1)
      BY <1>1
    <3>3. QED
      BY <3>1, <3>2
  <2>2. Ahead(next, n)
    BY <2>1 DEF Ahead
  <2>3. \A i \in 1..n : i \in 1..(n + 1)
    BY <1>1
  <2>4. add \in [1..n -> [1..(n + 1) -> 1..(n + 1)]]
    BY <2>3
  <2>5. QED
    BY <1>1, <2>2, <2>4
<1>5. PICK f \in [1..(n + 1) -> 1..(n + 1)] : Descends(f, n + 1, n, next, add)
  <2> HIDE DEF next, add
  <2>1. QED
    BY <1>1, <1>4, DescentExists
<1>6. ASSUME NEW i \in 1..n PROVE f[i] = IF NextBreak(t, i) = 0 THEN i ELSE f[NextBreak(t, i)]
  <2>1. f[i] = add[i][f[next[i]]]
    BY <1>5 DEF Descends
  <2>2. next[i] \in 1..(n + 1)
    <3>1. next[i] \in (i + 1)..(n + 1)
      BY <1>4 DEF Ahead
    <3>2. PICK k : k = next[i]
      OBVIOUS
    <3>3. k \in (i + 1)..(n + 1)
      BY <3>1, <3>2
    <3>4. k \in 1..(n + 1)
      BY <1>1, <3>3
    <3>5. QED
      BY <3>2, <3>4
  <2>3. f[next[i]] \in 1..(n + 1)
    BY <2>2
  <2>4. add[i][f[next[i]]] = IF NextBreak(t, i) = 0 THEN i ELSE f[next[i]]
    BY <2>3
  <2>5. QED
    BY <2>1, <2>4
<1> DEFINE g == [i \in 1..n |-> f[i]]
<1>7. g = Body(g)
  <2>1. ASSUME NEW i \in 1..n PROVE g[i] = IF NextBreak(t, i) = 0 THEN i ELSE g[NextBreak(t, i)]
    <3>1. NextBreak(t, i) # 0 => NextBreak(t, i) \in 1..n
      BY <1>1, <1>3
    <3>2. QED
      BY <1>6, <3>1
  <2>2. g = [i \in 1..n |-> g[i]]
    OBVIOUS
  <2> HIDE DEF g
  <2>3. QED
    BY <2>1, <2>2
<1> HIDE DEF g, Body
<1>8. last = Body(last)
  BY <1>7
<1> HIDE DEF last
<1>9. \A i \in 1..n : last[i] = IF NextBreak(t, i) = 0 THEN i ELSE last[NextBreak(t, i)]
  <2>1. \A i \in 1..n : Body(last)[i] = IF NextBreak(t, i) = 0 THEN i ELSE last[NextBreak(t, i)]
    BY DEF Body
  <2>2. QED
    BY <1>8, <2>1
<1> DEFINE Good(i) == last[i] \in i..n /\ (t[i] = "nl" => t[last[i]] = "nl")
           T == {i \in 1..(n + 1) : \A j \in i..n : Good(j)}
<1>10. n + 1 \in T
  BY <1>1
<1>11. ASSUME NEW i \in 1..((n + 1) - 1), i + 1 \in T PROVE i \in T
  <2>1. i \in 1..n /\ i \in Nat /\ i \in 1..(n + 1)
    BY <1>1
  <2>2. \A j \in (i + 1)..n : Good(j)
    BY <1>11
  <2>3. Good(i)
    <3>1. CASE NextBreak(t, i) = 0
      <4>1. last[i] = i /\ i \in i..n
        BY <1>1, <1>9, <2>1, <3>1
      <4>2. QED
        BY <4>1
    <3>2. CASE NextBreak(t, i) # 0
      <4>1. PICK k : k = NextBreak(t, i)
        OBVIOUS
      <4>2. k \in (i + 1)..n /\ t[k] = "nl" /\ last[i] = last[k]
        BY <1>3, <1>9, <2>1, <3>2, <4>1
      <4>3. last[k] \in k..n /\ t[last[k]] = "nl"
        BY <2>2, <4>2
      <4>p. PICK p : p = last[k]
        OBVIOUS
      <4>q. p \in k..n
        BY <4>3, <4>p
      <4>r. p \in i..n
        BY <1>1, <2>1, <4>2, <4>q
      <4>4. last[k] \in i..n
        BY <4>p, <4>r
      <4>5. QED
        BY <4>2, <4>3, <4>4
    <3>3. QED
      BY <3>1, <3>2
  <2>4. \A j \in i..n : j = i \/ j \in (i + 1)..n
    BY <1>1, <2>1
  <2> HIDE DEF Good
  <2>5. QED
    BY <2>1, <2>2, <2>3, <2>4
<1>12. 1 \in T
  <2> HIDE DEF T
  <2>1. 1 \in Nat /\ n + 1 \in Nat /\ 1 \in 1..(n + 1)
    BY <1>1
  <2>2. \A i \in 1..(n + 1) : i \in T
    BY <1>10, <1>11, <2>1, InductionDownTo
  <2>3. QED
    BY <2>1, <2>2
<1>13. \A j \in 1..n : Good(j)
  <2> HIDE DEF Good
  <2>1. QED
    BY <1>12
<1>14. QED
  BY <1>2, <1>13 DEF n

\* What CollapseBlankRuns makes of each rest of the text.
Collapses(f, t) ==
  /\ f[Len(t) + 1] = <<>> /\ CollapseBlankRuns(t) = f[1]
  /\ \A i \in 1..Len(t) :
       f[i] = IF t[i] # "nl" THEN <<t[i]>> \o f[i + 1]
              ELSE (IF LastBreak(t)[i] = i THEN <<"nl">> ELSE <<"nl", "nl">>) \o f[LastBreak(t)[i] + 1]

LEMMA CollapsesExists ==
  ASSUME NEW t \in Seq(Char)
  PROVE  \E f \in [1..(Len(t) + 1) -> Seq(Char)] : Collapses(f, t)
<1> DEFINE n == Len(t)
           V == Seq(Char)
           last == LastBreak(t)
           head(i) == IF t[i] # "nl" THEN <<t[i]>> ELSE IF last[i] = i THEN <<"nl">> ELSE <<"nl", "nl">>
           then(i) == IF t[i] # "nl" THEN i + 1 ELSE last[i] + 1
           next == [i \in 1..n |-> then(i)]
           add == [i \in 1..n |-> [v \in V |-> head(i) \o v]]
           Body(f) == [i \in 1..(n + 1) |->
                        CASE i > n                -> <<>>
                          [] i <= n /\ t[i] # "nl" -> <<t[i]>> \o f[i + 1]
                          [] OTHER -> (IF last[i] = i THEN <<"nl">> ELSE <<"nl", "nl">>) \o f[last[i] + 1]]
           from == CHOOSE f : f = Body(f)
<1>1. n \in Nat /\ <<>> \in V /\ \A i \in 1..n : t[i] \in Char
  OBVIOUS
<1>2. CollapseBlankRuns(t) = from[1]
  BY DEF CollapseBlankRuns, LastBreak
<1>3. \A i \in 1..n : last[i] \in i..n
  BY LastBreakIs
<1>4. <<"nl">> \in V /\ <<"nl", "nl">> \in V
  BY CharsOfLines
<1>5. \A i \in 1..n : head(i) \in V
  <2>1. \A c \in Char : <<c>> \in V
    OBVIOUS
  <2>2. QED
    BY <1>1, <1>4, <2>1
<1>6. \A u, v \in V : u \o v \in V
  OBVIOUS
<1> HIDE DEF n, V, last
<1>7. Ahead(next, n)
  <2>1. ASSUME NEW i \in 1..n PROVE then(i) \in (i + 1)..(n + 1)
    <3>1. last[i] + 1 \in (i + 1)..(n + 1) /\ i + 1 \in (i + 1)..(n + 1)
      BY <1>1, <1>3
    <3>2. QED
      BY <3>1
  <2> HIDE DEF then
  <2>2. QED
    BY <2>1 DEF Ahead
<1>8. add \in [1..n -> [V -> V]]
  <2> HIDE DEF head
  <2>1. \A i \in 1..n : \A v \in V : head(i) \o v \in V
    BY <1>5, <1>6
  <2>2. QED
    BY <2>1
<1>9. PICK f \in [1..(n + 1) -> V] : Descends(f, <<>>, n, next, add)
  <2> HIDE DEF next, add
  <2>1. QED
    BY <1>1, <1>7, <1>8, DescentExists
<1>10. f[n + 1] = <<>> /\ \A i \in 1..n : f[i] = head(i) \o f[then(i)]
  <2> SUFFICES ASSUME NEW i \in 1..n PROVE f[i] = head(i) \o f[then(i)]
    BY <1>9 DEF Descends
  <2>1. f[i] = add[i][f[next[i]]] /\ next[i] \in (i + 1)..(n + 1)
    BY <1>7, <1>9 DEF Descends, Ahead
  <2> HIDE DEF head, then
  <2>2. next[i] = then(i)
    OBVIOUS
  <2>3. f[then(i)] \in V
    <3>1. then(i) \in 1..(n + 1)
      BY <1>1, <2>1, <2>2
    <3>2. QED
      BY <3>1
  <2>4. QED
    BY <2>1, <2>2, <2>3
<1>11. f = Body(f)
  <2>1. ASSUME NEW i \in 1..(n + 1)
        PROVE  f[i] = CASE i > n                -> <<>>
                        [] i <= n /\ t[i] # "nl" -> <<t[i]>> \o f[i + 1]
                        [] OTHER -> (IF last[i] = i THEN <<"nl">> ELSE <<"nl", "nl">>) \o f[last[i] + 1]
    <3>1. CASE i > n
      <4>1. i = n + 1 /\ ~(i <= n)
        BY <1>1, <3>1
      <4>2. QED
        BY <1>10, <3>1, <4>1
    <3>2. CASE ~(i > n)
      <4>1. i \in 1..n /\ i <= n
        BY <1>1, <3>2
      <4>2. f[i] = head(i) \o f[then(i)]
        BY <1>10, <4>1
      <4>3. QED
        BY <3>2, <4>1, <4>2
    <3>3. QED
      BY <3>1, <3>2
  <2>2. f = [i \in 1..(n + 1) |-> f[i]]
    BY <1>9
  <2>3. QED
    BY <2>1, <2>2
<1> HIDE DEF Body
<1>12. from = Body(from)
  BY <1>11
<1> HIDE DEF from
<1>13. /\ from[n + 1] = <<>>
       /\ \A i \in 1..n : from[i] = head(i) \o from[then(i)]
  <2>1. \A i \in 1..(n + 1) : from[i] =
          CASE i > n                -> <<>>
            [] i <= n /\ t[i] # "nl" -> <<t[i]>> \o from[i + 1]
            [] OTHER -> (IF last[i] = i THEN <<"nl">> ELSE <<"nl", "nl">>) \o from[last[i] + 1]
    <3>1. \A i \in 1..(n + 1) : Body(from)[i] =
            CASE i > n                -> <<>>
              [] i <= n /\ t[i] # "nl" -> <<t[i]>> \o from[i + 1]
              [] OTHER -> (IF last[i] = i THEN <<"nl">> ELSE <<"nl", "nl">>) \o from[last[i] + 1]
      BY DEF Body
    <3>2. QED
      BY <1>12, <3>1
  <2>2. n + 1 \in 1..(n + 1) /\ n + 1 > n
    BY <1>1
  <2>3. from[n + 1] = <<>>
    <3>1. PICK i : i = n + 1
      OBVIOUS
    <3>2. i \in 1..(n + 1) /\ i > n /\ ~(i <= n)
      BY <1>1, <3>1
    <3>3. from[i] = <<>>
      BY <2>1, <3>2
    <3>4. QED
      BY <3>1, <3>3
  <2>4. ASSUME NEW i \in 1..n PROVE from[i] = head(i) \o from[then(i)]
    <3>1. i \in 1..(n + 1) /\ i <= n /\ ~(i > n)
      BY <1>1
    <3>2. QED
      BY <2>1, <3>1
  <2>5. QED
    BY <2>3, <2>4
<1>14. from[1] = f[1]
  <2> HIDE DEF head
  <2> DEFINE T == {m \in 1..(n + 1) : \A i \in m..(n + 1) : from[i] = f[i]}
  <2>1. n + 1 \in T
    BY <1>1, <1>10, <1>13
  <2>2. ASSUME NEW m \in 1..((n + 1) - 1), m + 1 \in T PROVE m \in T
    <3>1. m \in 1..n /\ m \in Nat /\ m \in 1..(n + 1)
      BY <1>1
    <3>2. then(m) \in (m + 1)..(n + 1)
      BY <1>1, <1>3, <3>1
    <3>3. from[then(m)] = f[then(m)]
      BY <2>2, <3>2
    <3>4. from[m] = head(m) \o from[then(m)] /\ f[m] = head(m) \o f[then(m)]
      BY <1>10, <1>13, <3>1
    <3>5. from[m] = f[m]
      BY <3>3, <3>4
    <3>6. \A i \in m..(n + 1) : i = m \/ i \in (m + 1)..(n + 1)
      BY <3>1
    <3>7. QED
      BY <2>2, <3>1, <3>5, <3>6
  <2> HIDE DEF T
  <2>3. n + 1 \in Nat /\ 1 \in Nat /\ 1 \in 1..(n + 1)
    BY <1>1
  <2>4. \A m \in 1..(n + 1) : m \in T
    BY <2>1, <2>2, <2>3, InductionDownTo
  <2>5. \A i \in 1..(n + 1) : from[i] = f[i]
    BY <2>3, <2>4 DEF T
  <2>6. QED
    BY <2>3, <2>5
<1>15. \A i \in 1..n : f[i] = IF t[i] # "nl" THEN <<t[i]>> \o f[i + 1]
                       ELSE (IF last[i] = i THEN <<"nl">> ELSE <<"nl", "nl">>) \o f[last[i] + 1]
  BY <1>10
<1>16. Collapses(f, t)
  BY <1>2, <1>10, <1>14, <1>15 DEF Collapses, n, last
<1>17. QED
  BY <1>9, <1>16 DEF n, V

LEMMA CollapseDraws ==
  ASSUME NEW t \in Seq(Char)
  PROVE  CollapseBlankRuns(t) \in Seq(Char) /\ Drawn(CollapseBlankRuns(t), t, 1, Len(t))
<1>1. PICK n : n = Len(t)
  OBVIOUS
<1>2. n \in Nat
  BY <1>1
<1>3. PICK f \in [1..(n + 1) -> Seq(Char)] : Collapses(f, t)
  BY <1>1, CollapsesExists
<1>4. PICK last : last = LastBreak(t)
  OBVIOUS
<1>5. \A i \in 1..n : last[i] \in i..n /\ (t[i] = "nl" => t[last[i]] = "nl")
  BY <1>1, <1>4, LastBreakIs
<1>6. /\ f[n + 1] = <<>> /\ CollapseBlankRuns(t) = f[1]
      /\ \A i \in 1..n :
           f[i] = IF t[i] # "nl" THEN <<t[i]>> \o f[i + 1]
                  ELSE (IF last[i] = i THEN <<"nl">> ELSE <<"nl", "nl">>) \o f[last[i] + 1]
  BY <1>1, <1>3, <1>4 DEF Collapses
<1> DEFINE T == {i \in 1..(n + 1) : \A j \in i..(n + 1) : Drawn(f[j], t, j, n)}
<1>7. n + 1 \in T
  <2>1. \A j \in (n + 1)..(n + 1) : j = n + 1
    BY <1>2
  <2>2. Drawn(f[n + 1], t, n + 1, n)
    BY <1>6, DrawnNothing
  <2>3. n + 1 \in 1..(n + 1)
    BY <1>2
  <2>4. QED
    BY <2>1, <2>2, <2>3
<1>8. ASSUME NEW i \in 1..((n + 1) - 1), i + 1 \in T PROVE i \in T
  <2>1. i \in 1..n /\ i \in Nat /\ i + 1 \in 1..(n + 1) /\ i <= n /\ i \in 1..(n + 1) /\ n <= n
    BY <1>2
  <2>2. \A j \in (i + 1)..(n + 1) : Drawn(f[j], t, j, n)
    BY <1>8
  <2>3. Drawn(f[i], t, i, n)
    <3>1. CASE t[i] # "nl"
      <4>1. PICK u, c : u = f[i + 1] /\ c = t[i]
        OBVIOUS
      <4>2. u \in Seq(Char) /\ c \in Char /\ Kin(c, t[i])
        BY <1>1, <1>3, <2>1, <4>1 DEF Kin
      <4>3. i + 1 \in (i + 1)..(n + 1)
        BY <2>1
      <4>4. Drawn(u, t, i + 1, n) /\ f[i] = <<c>> \o u
        BY <1>6, <2>1, <2>2, <3>1, <4>1, <4>3
      <4>5. Drawn(<<c>> \o u, t, i, n)
        BY <1>2, <2>1, <4>2, <4>4, DrawnBefore
      <4>6. QED
        BY <4>4, <4>5
    <3>2. CASE t[i] = "nl"
      <4>1. PICK l, e, u, c, x : l = last[i] /\ e = l + 1 /\ u = f[e] /\ c = "nl" /\ x = <<c>>
        OBVIOUS
      <4>2. l \in i..n /\ t[l] = "nl"
        BY <1>5, <2>1, <3>2, <4>1
      <4>3. l \in Nat /\ e \in (i + 1)..(n + 1) /\ e \in 1..(n + 1) /\ l <= n /\ e = l + 1
        <5>1. l \in i..n
          BY <4>2
        <5>2. e = l + 1
          BY <4>1
        <5>3. l \in Nat /\ e \in (i + 1)..(n + 1) /\ e \in 1..(n + 1) /\ l <= n
          BY <1>2, <2>1, <5>1, <5>2
        <5>4. QED
          BY <5>2, <5>3
      <4>4. u \in Seq(Char) /\ Drawn(u, t, l + 1, n)
        BY <1>3, <2>2, <4>1, <4>3
      <4>5. c \in Char /\ Kin(c, t[i]) /\ Kin(c, t[l]) /\ x \in Seq(Char)
        BY <3>2, <4>1, <4>2, CharsOfLines DEF Kin
      <4>6. <<c>> \o u \in Seq(Char) /\ Drawn(<<c>> \o u, t, l, n)
        BY <1>2, <4>3, <4>4, <4>5, DrawnBefore
      <4>7. PICK v : v = x \o u
        OBVIOUS
      <4>8. v \in Seq(Char) /\ Drawn(v, t, l, n)
        BY <4>1, <4>6, <4>7
      <4>9. CASE l = i
        <5>1. f[i] = v
          BY <1>6, <2>1, <3>2, <4>1, <4>7, <4>9
        <5>2. QED
          BY <4>8, <4>9, <5>1
      <4>10. CASE l # i
        <5>1. <<"nl", "nl">> = x \o x
          BY <4>1
        <5>2. f[i] = (x \o x) \o u
          BY <1>6, <2>1, <3>2, <4>1, <4>10, <5>1
        <5>3. x \o (x \o u) = (x \o x) \o u
          BY <4>4, <4>5, Associates
        <5>4. f[i] = x \o v
          BY <4>7, <5>2, <5>3
        <5>5. i + 1 <= l /\ i + 1 \in Nat
          BY <2>1, <4>2, <4>10
        <5>6. Drawn(v, t, i + 1, n)
          BY <1>2, <2>1, <4>3, <4>8, <5>5, DrawnWider
        <5>7. Drawn(<<c>> \o v, t, i, n)
          BY <1>2, <2>1, <4>5, <4>8, <5>6, DrawnBefore
        <5>8. QED
          BY <4>1, <5>4, <5>7
      <4>11. QED
        BY <4>9, <4>10
    <3>3. QED
      BY <3>1, <3>2
  <2>4. \A j \in i..(n + 1) : j = i \/ j \in (i + 1)..(n + 1)
    BY <2>1
  <2>5. QED
    BY <2>1, <2>2, <2>3, <2>4
<1>9. Drawn(f[1], t, 1, n)
  <2> HIDE DEF T
  <2>1. 1 \in Nat /\ n + 1 \in Nat /\ 1 \in 1..(n + 1)
    BY <1>2
  <2>2. \A i \in 1..(n + 1) : i \in T
    BY <1>7, <1>8, <2>1, InductionDownTo
  <2>3. QED
    BY <2>1, <2>2 DEF T
<1>10. f[1] \in Seq(Char)
  <2>1. 1 \in 1..(n + 1)
    BY <1>2
  <2>2. QED
    BY <2>1
<1>11. QED
  BY <1>1, <1>6, <1>9, <1>10

\* Normalizing costs no tokens.
LEMMA NormalCostsLess ==
  ASSUME NEW t \in Seq(Char), NEW class
  PROVE  CountTokens(NormalizeSpan(t, class)) <= CountTokens(t)
<1>1. PICK a, b, c, d, e : /\ a = StripCrlf(t) /\ b = StripAnsi(a) /\ c = StripInvisible(b)
                           /\ d = CollapseBlankRuns(c) /\ e = MinifyJsonWhitespace(b)
  OBVIOUS
<1>2. a \in Seq(Char) /\ Drawn(a, t, 1, Len(t))
  BY <1>1, CrlfDraws
<1>3. b \in Seq(Char) /\ Drawn(b, a, 1, Len(a))
  BY <1>1, <1>2, AnsiDraws
<1>4. c \in Seq(Char) /\ Drawn(c, b, 1, Len(b))
  BY <1>1, <1>3, InvisibleDraws
<1>5. d \in Seq(Char) /\ Drawn(d, c, 1, Len(c))
  BY <1>1, <1>4, CollapseDraws
<1>6. e \in Seq(Char) /\ Drawn(e, b, 1, Len(b))
  BY <1>1, <1>3, MinifyDraws
<1>7. /\ CountTokens(a) \in Nat /\ CountTokens(t) \in Nat /\ CountTokens(a) <= CountTokens(t)
  BY <1>2, DrawnCosts
<1>8. /\ CountTokens(b) \in Nat /\ CountTokens(b) <= CountTokens(a)
  BY <1>2, <1>3, DrawnCosts
<1>9. /\ CountTokens(c) \in Nat /\ CountTokens(c) <= CountTokens(b)
  BY <1>3, <1>4, DrawnCosts
<1>10. /\ CountTokens(d) \in Nat /\ CountTokens(d) <= CountTokens(c)
  BY <1>4, <1>5, DrawnCosts
<1>11. /\ CountTokens(e) \in Nat /\ CountTokens(e) <= CountTokens(b)
  BY <1>3, <1>6, DrawnCosts
<1>12. NormalizeSpan(t, class) = d \/ NormalizeSpan(t, class) = e \/ NormalizeSpan(t, class) = b
  BY <1>1 DEF NormalizeSpan
<1>13. QED
  BY <1>7, <1>8, <1>9, <1>10, <1>11, <1>12

\* The counts of two texts, s of one and z of the other, and y of both in a
\* row: the runs are the same, or all are still in the run that was cut.
Joined(s, z, y, E) ==
  \/ /\ y.wordRun = z.wordRun /\ y.denseRun = z.denseRun
     /\ Paid(s) + z.tokens - y.tokens \in E
  \/ /\ E = {0, 1} /\ z.tokens = 0 /\ y.tokens = s.tokens
     /\ s.denseRun = 0 /\ z.denseRun = 0 /\ y.denseRun = 0
     /\ y.wordRun = s.wordRun + z.wordRun
  \/ /\ E = {0, 1} /\ z.tokens = 0 /\ y.tokens = s.tokens
     /\ s.wordRun = 0 /\ z.wordRun = 0 /\ y.wordRun = 0
     /\ y.denseRun = s.denseRun + z.denseRun

LEMMA PaidIs ==
  ASSUME NEW s \in CountState
  PROVE  /\ s.tokens \in Nat /\ s.wordRun \in Nat /\ s.denseRun \in Nat /\ Paid(s) \in Nat
         /\ WordCost(s.wordRun) \in Nat /\ DenseCost(s.denseRun) \in Nat
         /\ Paid(s) = s.tokens + WordCost(s.wordRun) + DenseCost(s.denseRun)
<1>1. s.tokens \in Nat /\ s.wordRun \in Nat /\ s.denseRun \in Nat
  BY DEF CountState
<1>2. WordCost(s.wordRun) \in Nat /\ DenseCost(s.denseRun) \in Nat
  BY <1>1, WordCosts, DenseCosts
<1>3. Paid(s) = s.tokens + WordCost(s.wordRun) + DenseCost(s.denseRun)
  BY DEF Paid
<1>4. Paid(s) \in Nat
  BY <1>1, <1>2, <1>3
<1>5. QED
  BY <1>1, <1>2, <1>3, <1>4

LEMMA JoinedCosts ==
  ASSUME NEW s \in CountState, NEW z \in CountState, NEW y \in CountState, NEW E,
         Joined(s, z, y, E)
  PROVE  Paid(s) + Paid(z) - Paid(y) \in E
<1> DEFINE W(a) == WordCost(a)
           D(a) == DenseCost(a)
<1>1. PICK p, q, r : p = Paid(s) /\ q = Paid(z) /\ r = Paid(y)
  OBVIOUS
<1>2. /\ s.tokens \in Nat /\ p \in Nat /\ W(s.wordRun) \in Nat /\ D(s.denseRun) \in Nat
      /\ p = s.tokens + W(s.wordRun) + D(s.denseRun) /\ s.wordRun \in Nat /\ s.denseRun \in Nat
  BY <1>1, PaidIs
<1>3. /\ z.tokens \in Nat /\ q \in Nat /\ W(z.wordRun) \in Nat /\ D(z.denseRun) \in Nat
      /\ q = z.tokens + W(z.wordRun) + D(z.denseRun) /\ z.wordRun \in Nat /\ z.denseRun \in Nat
  BY <1>1, PaidIs
<1>4. /\ y.tokens \in Nat /\ r \in Nat /\ W(y.wordRun) \in Nat /\ D(y.denseRun) \in Nat
      /\ r = y.tokens + W(y.wordRun) + D(y.denseRun) /\ y.wordRun \in Nat /\ y.denseRun \in Nat
  BY <1>1, PaidIs
<1>5. W(0) = 0 /\ D(0) = 0
  BY WordCosts, DenseCosts
<1>6. /\ W(s.wordRun) + W(z.wordRun) - W(s.wordRun + z.wordRun) \in {0, 1}
      /\ D(s.denseRun) + D(z.denseRun) - D(s.denseRun + z.denseRun) \in {0, 1}
  BY <1>2, <1>3, WordCosts, DenseCosts
<1> HIDE DEF W, D
<1>7. CASE /\ y.wordRun = z.wordRun /\ y.denseRun = z.denseRun
           /\ p + z.tokens - y.tokens \in E
  <2>1. p + q - r = p + z.tokens - y.tokens
    <3>1. PICK a, b, m, n : a = W(z.wordRun) /\ b = D(z.denseRun) /\ m = z.tokens /\ n = y.tokens
      OBVIOUS
    <3>2. a \in Nat /\ b \in Nat /\ m \in Nat /\ q = m + a + b
      BY <1>3, <3>1
    <3>3. n \in Nat /\ r = n + a + b
      BY <1>4, <1>7, <3>1
    <3>4. p \in Nat
      BY <1>2
    <3>5. p + q - r = p + m - n
      BY <3>2, <3>3, <3>4
    <3>6. QED
      BY <3>1, <3>5
  <2>2. QED
    BY <1>1, <1>7, <2>1
<1>8. CASE /\ E = {0, 1} /\ z.tokens = 0 /\ y.tokens = s.tokens
           /\ s.denseRun = 0 /\ z.denseRun = 0 /\ y.denseRun = 0
           /\ y.wordRun = s.wordRun + z.wordRun
  <2>1. PICK a, b, c, m : /\ a = W(s.wordRun) /\ b = W(z.wordRun) /\ c = W(y.wordRun)
                          /\ m = s.tokens
    OBVIOUS
  <2>2. D(s.denseRun) = 0 /\ D(z.denseRun) = 0 /\ D(y.denseRun) = 0 /\ z.tokens = 0 /\ y.tokens = m
    BY <1>5, <1>8, <2>1
  <2>3. a \in Nat /\ m \in Nat /\ p = m + a + 0
    BY <1>2, <2>1, <2>2
  <2>4. b \in Nat /\ q = 0 + b + 0
    BY <1>3, <2>1, <2>2
  <2>5. c \in Nat /\ r = m + c + 0
    BY <1>4, <2>1, <2>2
  <2>6. a + b - c \in {0, 1}
    <3>1. W(y.wordRun) = W(s.wordRun + z.wordRun)
      BY <1>8
    <3>2. QED
      BY <1>6, <2>1, <3>1
  <2>7. p + q - r = a + b - c
    BY <2>3, <2>4, <2>5
  <2>8. QED
    BY <1>1, <1>8, <2>6, <2>7
<1>9. CASE /\ E = {0, 1} /\ z.tokens = 0 /\ y.tokens = s.tokens
           /\ s.wordRun = 0 /\ z.wordRun = 0 /\ y.wordRun = 0
           /\ y.denseRun = s.denseRun + z.denseRun
  <2>1. PICK a, b, c, m : /\ a = D(s.denseRun) /\ b = D(z.denseRun) /\ c = D(y.denseRun)
                          /\ m = s.tokens
    OBVIOUS
  <2>2. W(s.wordRun) = 0 /\ W(z.wordRun) = 0 /\ W(y.wordRun) = 0 /\ z.tokens = 0 /\ y.tokens = m
    BY <1>5, <1>9, <2>1
  <2>3. a \in Nat /\ m \in Nat /\ p = m + 0 + a
    BY <1>2, <2>1, <2>2
  <2>4. b \in Nat /\ q = 0 + 0 + b
    BY <1>3, <2>1, <2>2
  <2>5. c \in Nat /\ r = m + 0 + c
    BY <1>4, <2>1, <2>2
  <2>6. a + b - c \in {0, 1}
    <3>1. D(y.denseRun) = D(s.denseRun + z.denseRun)
      BY <1>9
    <3>2. QED
      BY <1>6, <2>1, <3>1
  <2>7. p + q - r = a + b - c
    BY <2>3, <2>4, <2>5
  <2>8. QED
    BY <1>1, <1>9, <2>6, <2>7
<1>10. QED
  BY <1>1, <1>7, <1>8, <1>9 DEF Joined

\* Every character keeps them joined.
LEMMA JoinedStep ==
  ASSUME NEW s \in CountState, NEW z \in CountState, NEW y \in CountState, NEW E,
         Joined(s, z, y, E), NEW c
  PROVE  Joined(s, CountChar(z, c), CountChar(y, c), E)
<1> DEFINE W(a) == WordCost(a)
           D(a) == DenseCost(a)
<1>1. PICK p, q, r, a, b : /\ p = Paid(s) /\ q = Paid(z) /\ r = Paid(y)
                           /\ a = CountChar(z, c) /\ b = CountChar(y, c)
  OBVIOUS
<1>2. p \in Nat /\ s.wordRun \in Nat /\ s.denseRun \in Nat
  BY <1>1, PaidIs
<1>3. /\ z.tokens \in Nat /\ q \in Nat /\ W(z.wordRun) \in Nat /\ D(z.denseRun) \in Nat
      /\ q = z.tokens + W(z.wordRun) + D(z.denseRun) /\ z.wordRun \in Nat /\ z.denseRun \in Nat
  BY <1>1, PaidIs
<1>4. /\ y.tokens \in Nat /\ r \in Nat /\ W(y.wordRun) \in Nat /\ D(y.denseRun) \in Nat
      /\ r = y.tokens + W(y.wordRun) + D(y.denseRun) /\ y.wordRun \in Nat /\ y.denseRun \in Nat
  BY <1>1, PaidIs
<1>5. W(0) = 0 /\ D(0) = 0
  BY WordCosts, DenseCosts
<1>6. p + q - r \in E
  BY <1>1, JoinedCosts
<1>7. /\ c \in Dense => a.tokens = z.tokens + W(z.wordRun) /\ a.wordRun = 0 /\ a.denseRun = z.denseRun + 1
      /\ c \in Word \ Dense => a.tokens = z.tokens + D(z.denseRun) /\ a.wordRun = z.wordRun + 1 /\ a.denseRun = 0
      /\ c \notin Word => /\ a.tokens = q + (IF c \in Space THEN 0 ELSE 1)
                          /\ a.wordRun = 0 /\ a.denseRun = 0
  BY <1>1, CountCharIs
<1>8. /\ c \in Dense => b.tokens = y.tokens + W(y.wordRun) /\ b.wordRun = 0 /\ b.denseRun = y.denseRun + 1
      /\ c \in Word \ Dense => b.tokens = y.tokens + D(y.denseRun) /\ b.wordRun = y.wordRun + 1 /\ b.denseRun = 0
      /\ c \notin Word => /\ b.tokens = r + (IF c \in Space THEN 0 ELSE 1)
                          /\ b.wordRun = 0 /\ b.denseRun = 0
  BY <1>1, CountCharIs
<1> HIDE DEF W, D
<1>9. CASE c \notin Word
  <2>1. PICK x : x = (IF c \in Space THEN 0 ELSE 1)
    OBVIOUS
  <2>2. x \in Nat /\ a.tokens = q + x /\ b.tokens = r + x
    BY <1>7, <1>8, <1>9, <2>1
  <2>3. p + a.tokens - b.tokens = p + q - r
    BY <1>2, <1>3, <1>4, <2>2
  <2>4. QED
    BY <1>1, <1>6, <1>7, <1>8, <1>9, <2>3 DEF Joined
<1>10. CASE /\ y.wordRun = z.wordRun /\ y.denseRun = z.denseRun /\ p + z.tokens - y.tokens \in E
            /\ c \in Word
  <2>1. a.wordRun = b.wordRun /\ a.denseRun = b.denseRun
    BY <1>7, <1>8, <1>10
  <2>2. PICK x : x = (IF c \in Dense THEN W(z.wordRun) ELSE D(z.denseRun))
    OBVIOUS
  <2>3. x \in Nat /\ a.tokens = z.tokens + x /\ b.tokens = y.tokens + x
    BY <1>3, <1>7, <1>8, <1>10, <2>2
  <2>4. p + a.tokens - b.tokens = p + z.tokens - y.tokens
    BY <1>2, <1>3, <1>4, <2>3
  <2>5. QED
    BY <1>1, <1>10, <2>1, <2>4 DEF Joined
<1>11. CASE /\ E = {0, 1} /\ z.tokens = 0 /\ y.tokens = s.tokens
            /\ s.denseRun = 0 /\ z.denseRun = 0 /\ y.denseRun = 0
            /\ y.wordRun = s.wordRun + z.wordRun /\ c \in Word
  <2>1. CASE c \in Dense
    <3>1. a.wordRun = b.wordRun /\ a.denseRun = b.denseRun
      BY <1>7, <1>8, <1>11, <2>1
    <3>2. a.tokens = q /\ b.tokens = r
      BY <1>3, <1>4, <1>5, <1>7, <1>8, <1>11, <2>1
    <3>3. QED
      BY <1>1, <1>6, <3>1, <3>2 DEF Joined
  <2>2. CASE c \notin Dense
    <3>1. a.tokens = 0 /\ b.tokens = s.tokens /\ a.denseRun = 0 /\ b.denseRun = 0
      BY <1>4, <1>5, <1>7, <1>8, <1>11, <2>2
    <3>2. b.wordRun = s.wordRun + a.wordRun
      BY <1>2, <1>3, <1>7, <1>8, <1>11, <2>2
    <3>3. QED
      BY <1>1, <1>11, <3>1, <3>2 DEF Joined
  <2>3. QED
    BY <2>1, <2>2
<1>12. CASE /\ E = {0, 1} /\ z.tokens = 0 /\ y.tokens = s.tokens
            /\ s.wordRun = 0 /\ z.wordRun = 0 /\ y.wordRun = 0
            /\ y.denseRun = s.denseRun + z.denseRun /\ c \in Word
  <2>1. CASE c \notin Dense
    <3>1. a.wordRun = b.wordRun /\ a.denseRun = b.denseRun
      BY <1>7, <1>8, <1>12, <2>1
    <3>2. a.tokens = q /\ b.tokens = r
      BY <1>3, <1>4, <1>5, <1>7, <1>8, <1>12, <2>1
    <3>3. QED
      BY <1>1, <1>6, <3>1, <3>2 DEF Joined
  <2>2. CASE c \in Dense
    <3>1. a.tokens = 0 /\ b.tokens = s.tokens /\ a.wordRun = 0 /\ b.wordRun = 0
      BY <1>4, <1>5, <1>7, <1>8, <1>12, <2>2
    <3>2. b.denseRun = s.denseRun + a.denseRun
      BY <1>2, <1>3, <1>7, <1>8, <1>12, <2>2
    <3>3. QED
      BY <1>1, <1>12, <3>1, <3>2 DEF Joined
  <2>3. QED
    BY <2>1, <2>2
<1>13. QED
  BY <1>1, <1>9, <1>10, <1>11, <1>12 DEF Joined

\* What kind of run a character is in.
RunOf(c) == CASE c \in Dense -> "dense" [] c \in Word \ Dense -> "word" [] OTHER -> "none"
Slack(c, d) == IF RunOf(c) = RunOf(d) /\ c \in Word THEN {0, 1} ELSE {0}

\* The first character behind a cut: s ends with c, and d is next.
LEMMA JoinedFirst ==
  ASSUME NEW q \in CountState, NEW c, NEW d
  PROVE  LET s == CountChar(q, c)
         IN  Joined(s, CountChar(None, d), CountChar(s, d), Slack(c, d))
<1>1. PICK s, p, a, b, E : /\ s = CountChar(q, c) /\ p = Paid(s) /\ E = Slack(c, d)
                           /\ a = CountChar(None, d) /\ b = CountChar(s, d)
  OBVIOUS
<1>2. None \in CountState /\ None.tokens = 0 /\ None.wordRun = 0 /\ None.denseRun = 0
  BY DEF None, CountState
<1>3. s \in CountState
  BY <1>1, CountCharIs
<1>4. /\ c \in Dense => s.wordRun = 0
      /\ c \in Word \ Dense => s.denseRun = 0
      /\ c \notin Word => s.wordRun = 0 /\ s.denseRun = 0
  BY <1>1, CountCharIs
<1>5. CASE E = {0, 1}
  <2>1. s.tokens \in Nat /\ s.wordRun \in Nat /\ s.denseRun \in Nat
    BY <1>3, PaidIs
  <2>2. s.wordRun = s.wordRun + None.wordRun /\ s.denseRun = s.denseRun + None.denseRun
    BY <1>2, <2>1
  <2>3. s.wordRun = 0 \/ s.denseRun = 0
    BY <1>4
  <2>4. Joined(s, None, s, E)
    BY <1>2, <1>5, <2>2, <2>3 DEF Joined
  <2>5. Joined(s, CountChar(None, d), CountChar(s, d), E)
    BY <1>2, <1>3, <2>4, JoinedStep
  <2>6. QED
    BY <1>1, <2>5
<1>6. CASE E # {0, 1}
  <2>1. E = {0} /\ ~(RunOf(c) = RunOf(d) /\ c \in Word)
    BY <1>1, <1>6 DEF Slack
  <2>2. /\ d \in Dense => c \notin Dense
        /\ d \in Word \ Dense => c \notin Word \ Dense
    BY <2>1, CharKinds DEF RunOf
  <2>3. PICK w, e : w = WordCost(s.wordRun) /\ e = DenseCost(s.denseRun)
    OBVIOUS
  <2>4. p \in Nat /\ s.tokens \in Nat /\ w \in Nat /\ e \in Nat /\ p = s.tokens + w + e
    BY <1>1, <1>3, <2>3, PaidIs
  <2>5. WordCost(0) = 0 /\ DenseCost(0) = 0
    BY WordCosts, DenseCosts
  <2>6. /\ d \in Dense => a.tokens = 0 /\ a.wordRun = 0 /\ a.denseRun = 1
        /\ d \in Word \ Dense => a.tokens = 0 /\ a.wordRun = 1 /\ a.denseRun = 0
        /\ d \notin Word => a.tokens = (IF d \in Space THEN 0 ELSE 1) /\ a.wordRun = 0 /\ a.denseRun = 0
    <3>1. Paid(None) = 0
      BY <1>2, <2>5 DEF Paid
    <3>2. QED
      BY <1>1, <1>2, <2>5, <3>1, CountCharIs
  <2>7. /\ d \in Dense => b.tokens = s.tokens + w /\ b.wordRun = 0 /\ b.denseRun = s.denseRun + 1
        /\ d \in Word \ Dense => b.tokens = s.tokens + e /\ b.wordRun = s.wordRun + 1 /\ b.denseRun = 0
        /\ d \notin Word => b.tokens = p + (IF d \in Space THEN 0 ELSE 1) /\ b.wordRun = 0 /\ b.denseRun = 0
    BY <1>1, <1>3, <2>3, CountCharIs
  <2>8. CASE d \in Dense
    <3>1. s.denseRun = 0 /\ e = 0
      BY <1>4, <2>2, <2>3, <2>5, <2>8
    <3>2. a.wordRun = b.wordRun /\ a.denseRun = b.denseRun /\ p + a.tokens - b.tokens = 0
      BY <2>4, <2>6, <2>7, <2>8, <3>1
    <3>3. QED
      BY <1>1, <2>1, <3>2 DEF Joined
  <2>9. CASE d \in Word \ Dense
    <3>1. s.wordRun = 0 /\ w = 0
      BY <1>4, <2>2, <2>3, <2>5, <2>9
    <3>2. /\ a.tokens = 0 /\ a.wordRun = 1 /\ a.denseRun = 0
          /\ b.tokens = s.tokens + e /\ b.wordRun = s.wordRun + 1 /\ b.denseRun = 0
      BY <2>6, <2>7, <2>9
    <3>3. a.wordRun = b.wordRun /\ a.denseRun = b.denseRun /\ p + a.tokens - b.tokens = 0
      BY <2>4, <3>1, <3>2
    <3>4. QED
      BY <1>1, <2>1, <3>3 DEF Joined
  <2>10. CASE d \notin Word
    <3>1. PICK x : x = (IF d \in Space THEN 0 ELSE 1)
      OBVIOUS
    <3>2. x \in Nat /\ a.tokens = x /\ b.tokens = p + x
      BY <2>6, <2>7, <2>10, <3>1
    <3>3. a.wordRun = b.wordRun /\ a.denseRun = b.denseRun /\ p + a.tokens - b.tokens = 0
      BY <2>4, <2>6, <2>7, <2>10, <3>2
    <3>4. QED
      BY <1>1, <2>1, <3>3 DEF Joined
  <2>11. QED
    BY <2>8, <2>9, <2>10
<1>7. QED
  BY <1>5, <1>6

\* A text counts as far as it is the same.
LEMMA CountsAgree ==
  ASSUME NEW t \in Seq(Char), NEW u \in Seq(Char), Len(u) <= Len(t), \A j \in 1..Len(u) : u[j] = t[j],
         NEW f, Counts(f, t), NEW g, Counts(g, u)
  PROVE  g[Len(u)] = f[Len(u)]
<1>1. PICK m : m = Len(u)
  OBVIOUS
<1>2. m \in Nat /\ m <= Len(t)
  BY <1>1
<1> DEFINE T == {j \in 0..m : g[j] = f[j]}
<1>3. 0 \in T
  BY <1>2 DEF Counts
<1>4. ASSUME NEW j \in 1..m, j - 1 \in T PROVE j \in T
  <2>1. j \in 0..m /\ j \in 1..Len(u) /\ j \in 1..Len(t)
    BY <1>1, <1>2
  <2>2. g[j - 1] = f[j - 1]
    BY <1>4
  <2>3. g[j] = CountChar(g[j - 1], u[j]) /\ f[j] = CountChar(f[j - 1], t[j]) /\ u[j] = t[j]
    BY <2>1 DEF Counts
  <2>4. QED
    BY <2>1, <2>2, <2>3
<1> HIDE DEF T
<1>5. m \in T
  <2>1. \A j \in 0..m : j \in T
    BY <1>2, <1>3, <1>4, InductionUpTo
  <2>2. m \in 0..m
    BY <1>2
  <2>3. QED
    BY <2>1, <2>2
<1>6. QED
  BY <1>1, <1>5 DEF T

\* A character to be seen is paid for.
LEMMA VisibleCosts ==
  ASSUME NEW t \in Seq(Char), NEW f \in [0..Len(t) -> CountState], Counts(f, t),
         NEW k \in 1..Len(t), t[k] \notin Space
  PROVE  Paid(f[Len(t)]) > 0
<1>1. PICK n : n = Len(t)
  OBVIOUS
<1>2. n \in Nat /\ k \in 1..n
  BY <1>1
<1>3. f \in [0..n -> CountState] /\ \A j \in 1..n : f[j] = CountChar(f[j - 1], t[j])
  BY <1>1 DEF Counts
<1>4. \A j \in 1..n : j - 1 \in 0..n /\ j \in 0..n /\ j \in Nat
  BY <1>2
<1>5. Paid(f[k]) > 0
  <2>1. PICK s, r, c : s = f[k - 1] /\ r = f[k] /\ c = t[k]
    OBVIOUS
  <2>2. s \in CountState /\ r \in CountState /\ r = CountChar(s, c) /\ c \notin Space
    BY <1>2, <1>3, <1>4, <2>1
  <2>3. PICK w, d : w = WordCost(r.wordRun) /\ d = DenseCost(r.denseRun)
    OBVIOUS
  <2>4. w \in Nat /\ d \in Nat /\ r.tokens \in Nat /\ Paid(r) = r.tokens + w + d
    BY <2>2, <2>3, PaidIs
  <2>5. s.wordRun \in Nat /\ s.denseRun \in Nat /\ Paid(s) \in Nat
    BY <2>2, PaidIs
  <2>6. CASE c \in Dense
    <3>1. r.denseRun = s.denseRun + 1
      BY <2>2, <2>6, CountCharIs
    <3>2. r.denseRun \in Nat /\ r.denseRun > 0
      BY <2>5, <3>1
    <3>3. d > 0
      BY <2>3, <3>2, DenseCosts
    <3>4. QED
      BY <2>1, <2>4, <3>3
  <2>7. CASE c \in Word \ Dense
    <3>1. r.wordRun = s.wordRun + 1
      BY <2>2, <2>7, CountCharIs
    <3>2. r.wordRun \in Nat /\ r.wordRun > 0
      BY <2>5, <3>1
    <3>3. w > 0
      BY <2>3, <3>2, WordCosts
    <3>4. QED
      BY <2>1, <2>4, <3>3
  <2>8. CASE c \notin Word
    <3>1. r.tokens = Paid(s) + 1
      BY <2>2, <2>8, CountCharIs
    <3>2. QED
      BY <2>1, <2>4, <2>5, <3>1
  <2>9. QED
    BY <2>6, <2>7, <2>8
<1> DEFINE T == {j \in 0..n : j >= k => Paid(f[j]) > 0}
<1>6. 0 \in T
  BY <1>2
<1>7. ASSUME NEW j \in 1..n, j - 1 \in T PROVE j \in T
  <2>1. j \in 0..n /\ j - 1 \in 0..n /\ (j >= k => j = k \/ j - 1 >= k)
    BY <1>2, <1>4
  <2>2. CASE j - 1 >= k
    <3>1. PICK s, r : s = f[j - 1] /\ r = f[j]
      OBVIOUS
    <3>2. s \in CountState /\ r \in CountState /\ Cheaper(s, r)
      BY <1>3, <2>1, <3>1, CheaperWithout
    <3>3. Paid(s) \in Nat /\ Paid(r) \in Nat /\ Paid(s) <= Paid(r)
      BY <3>2, CheaperPaid
    <3>4. Paid(s) > 0
      BY <1>7, <2>2, <3>1
    <3>5. Paid(r) > 0
      BY <3>3, <3>4
    <3>6. QED
      BY <2>1, <3>1, <3>5
  <2>3. QED
    BY <1>5, <2>1, <2>2
<1> HIDE DEF T
<1>8. n \in T
  <2>1. \A j \in 0..n : j \in T
    BY <1>2, <1>6, <1>7, InductionUpTo
  <2>2. n \in 0..n
    BY <1>2
  <2>3. QED
    BY <2>1, <2>2
<1>9. n >= k
  BY <1>2
<1>10. QED
  BY <1>1, <1>8, <1>9 DEF T

\* What a text costs that is to be seen: no minimum is needed.
LEMMA VisibleTokens ==
  ASSUME NEW t \in Seq(Char), NEW k \in 1..Len(t), t[k] \notin Space,
         NEW f \in [0..Len(t) -> CountState], Counts(f, t)
  PROVE  CountTokens(t) = Paid(f[Len(t)])
<1>1. PICK g \in [0..Len(t) -> CountState] :
        Counts(g, t) /\ CountTokens(t) = AtLeastOne(t, Paid(g[Len(t)]))
  BY CountExists
<1>2. g[Len(t)] = f[Len(t)]
  <2>1. Len(t) <= Len(t)
    OBVIOUS
  <2>2. QED
    BY <1>1, <2>1, CountsAgree
<1>3. PICK p : p = Paid(f[Len(t)])
  OBVIOUS
<1>4. p > 0
  BY <1>3, VisibleCosts
<1>5. t # <<>>
  OBVIOUS
<1>6. p # 0
  BY <1>4
<1>7. QED
  BY <1>1, <1>2, <1>3, <1>5, <1>6 DEF AtLeastOne

\* What a cut costs.
LEMMA CutCosts ==
  ASSUME NEW t \in Seq(Char), NEW i \in 1..(Len(t) - 1),
         NEW k \in 1..i, t[k] \notin Space, NEW l \in (i + 1)..Len(t), t[l] \notin Space
  PROVE  CountTokens(Prefix(t, i)) + CountTokens(Rest(t, i)) - CountTokens(t)
           \in Slack(t[i], t[i + 1])
<1>1. PICK n, m, u, v, E : /\ n = Len(t) /\ m = n - i /\ u = Prefix(t, i) /\ v = Rest(t, i)
                           /\ E = Slack(t[i], t[i + 1])
  OBVIOUS
<1>2. /\ n \in Nat /\ i \in 1..n /\ i \in 0..n /\ m \in 1..n /\ i \in Nat /\ m \in Nat /\ i + m = n
      /\ i <= n /\ k \in 1..n /\ l \in 1..n /\ l - i \in 1..m /\ i + (l - i) = l
  BY <1>1
<1>3. u \in Seq(Char) /\ Len(u) = i /\ \A j \in 1..i : u[j] = t[j]
  BY <1>1, <1>2, FirstOnes
<1>4. v \in Seq(Char) /\ Len(v) = m /\ \A j \in 1..m : v[j] = t[i + j]
  BY <1>1, <1>2, RestIs
<1>5. PICK f \in [0..n -> CountState] : Counts(f, t)
  BY <1>1, CountExists
<1>6. PICK g \in [0..i -> CountState] : Counts(g, u)
  BY <1>3, CountExists
<1>7. PICK h \in [0..m -> CountState] : Counts(h, v)
  BY <1>4, CountExists
<1>8. CountTokens(t) = Paid(f[n])
  BY <1>1, <1>2, <1>5, VisibleTokens
<1>9. CountTokens(u) = Paid(f[i])
  <2>1. u[k] \notin Space
    BY <1>3
  <2>2. CountTokens(u) = Paid(g[i])
    BY <1>3, <1>6, <2>1, VisibleTokens
  <2>3. g[i] = f[i]
    BY <1>1, <1>2, <1>3, <1>5, <1>6, CountsAgree
  <2>4. QED
    BY <2>2, <2>3
<1>10. CountTokens(v) = Paid(h[m])
  <2>1. PICK x : x = l - i
    OBVIOUS
  <2>2. x \in 1..m /\ i + x = l
    BY <1>2, <2>1
  <2>3. v[x] \notin Space
    BY <1>4, <2>2
  <2>4. QED
    BY <1>4, <1>7, <2>2, <2>3, VisibleTokens
<1>11. f[0] = None /\ \A j \in 1..n : f[j] = CountChar(f[j - 1], t[j])
  BY <1>1, <1>5 DEF Counts
<1>12. h[0] = None /\ \A j \in 1..m : h[j] = CountChar(h[j - 1], v[j])
  BY <1>4, <1>7 DEF Counts
<1>13. f[i] \in CountState
  BY <1>2, <1>5
<1>14. \A j \in 0..m : i + j \in 0..n
  BY <1>2
<1> DEFINE T == {j \in 0..m : j = 0 \/ Joined(f[i], h[j], f[i + j], E)}
<1>15. 0 \in T
  BY <1>2
<1>16. ASSUME NEW j \in 1..m, j - 1 \in T PROVE j \in T
  <2>1. j \in 0..m /\ j - 1 \in 0..m /\ i + j \in 1..n /\ (i + j) - 1 = i + (j - 1)
    BY <1>2
  <2>2. h[j] = CountChar(h[j - 1], v[j]) /\ v[j] = t[i + j]
    BY <1>4, <1>12
  <2>3. f[i + j] = CountChar(f[i + (j - 1)], t[i + j])
    <3>1. f[i + j] = CountChar(f[(i + j) - 1], t[i + j])
      BY <1>11, <2>1
    <3>2. QED
      BY <2>1, <3>1
  <2>4. CASE j - 1 = 0
    <3>1. j = 1 /\ i + (j - 1) = i /\ i + j = i + 1
      BY <1>2, <2>4
    <3>2. h[j] = CountChar(None, t[i + 1]) /\ f[i + j] = CountChar(f[i], t[i + 1])
      BY <1>12, <2>2, <2>3, <2>4, <3>1
    <3>3. PICK q : q = f[i - 1]
      OBVIOUS
    <3>4. q \in CountState
      <4>1. i - 1 \in 0..n
        BY <1>2
      <4>2. QED
        BY <1>5, <3>3, <4>1
    <3>5. f[i] = CountChar(q, t[i])
      BY <1>2, <1>11, <3>3
    <3>6. Joined(f[i], h[j], f[i + j], E)
      BY <1>1, <3>2, <3>4, <3>5, JoinedFirst
    <3>7. QED
      BY <2>1, <3>6
  <2>5. CASE j - 1 # 0
    <3>1. Joined(f[i], h[j - 1], f[i + (j - 1)], E)
      BY <1>16, <2>5
    <3>2. h[j - 1] \in CountState /\ f[i + (j - 1)] \in CountState
      BY <1>5, <1>7, <1>14, <2>1
    <3>3. Joined(f[i], h[j], f[i + j], E)
      BY <1>13, <2>2, <2>3, <3>1, <3>2, JoinedStep
    <3>4. QED
      BY <2>1, <3>3
  <2>6. QED
    BY <2>4, <2>5
<1>17. Joined(f[i], h[m], f[n], E)
  <2> HIDE DEF T
  <2>1. \A j \in 0..m : j \in T
    BY <1>2, <1>15, <1>16, InductionUpTo
  <2>2. m \in 0..m /\ m # 0
    BY <1>2
  <2>3. QED
    BY <1>2, <2>1, <2>2 DEF T
<1>18. h[m] \in CountState /\ f[n] \in CountState
  BY <1>2, <1>5, <1>7
<1>19. Paid(f[i]) + Paid(h[m]) - Paid(f[n]) \in E
  BY <1>13, <1>17, <1>18, JoinedCosts
<1>20. QED
  BY <1>1, <1>8, <1>9, <1>10, <1>19

\* The estimate adds up, for texts of every length: cutting a text between
\* runs changes nothing and cutting a run costs at most one token; and what
\* normalizing a text of any class leaves of it costs no more (countTokens of
\* tokens.ts and the stages of normalize.ts).
THEOREM CountsAdd == TextSpec => []CountsAddUp
<1>1. JsonInv => CountsAddUp
  <2> SUFFICES ASSUME JsonInv PROVE CountsAddUp
    OBVIOUS
  <2>1. text \in Seq(Char)
    BY DEF JsonInv
  <2>2. \A class \in Classes : CountTokens(NormalizeSpan(text, class)) <= CountTokens(text)
    BY <2>1, NormalCostsLess
  <2> DEFINE Visible(t) == \E i \in 1..Len(t) : t[i] \notin Space
             Run(c) == CASE c \in Dense -> "dense" [] c \in Word \ Dense -> "word" [] OTHER -> "none"
             Within(i) == Run(text[i]) = Run(text[i + 1]) /\ text[i] \in Word
  <2>3. ASSUME NEW i \in 1..(Len(text) - 1), Visible(Prefix(text, i)), Visible(Rest(text, i))
        PROVE  CountTokens(Prefix(text, i)) + CountTokens(Rest(text, i)) - CountTokens(text)
                 \in (IF Within(i) THEN {0, 1} ELSE {0})
    <3>1. PICK n : n = Len(text)
      OBVIOUS
    <3>2. n \in Nat /\ i \in 0..n /\ i \in Nat
      BY <2>1, <3>1
    <3>3. PICK k \in 1..i : text[k] \notin Space
      <4>1. Len(Prefix(text, i)) = i /\ \A j \in 1..i : Prefix(text, i)[j] = text[j]
        BY <2>1, <3>1, <3>2, FirstOnes
      <4>2. QED
        BY <2>3, <4>1
    <3>4. PICK l \in (i + 1)..n : text[l] \notin Space
      <4>1. Len(Rest(text, i)) = n - i /\ \A j \in 1..(n - i) : Rest(text, i)[j] = text[i + j]
        BY <2>1, <3>1, <3>2, RestIs
      <4>2. PICK j \in 1..(n - i) : text[i + j] \notin Space
        BY <2>3, <4>1
      <4>3. i + j \in (i + 1)..n
        BY <3>2
      <4>4. QED
        BY <4>2, <4>3
    <3>5. CountTokens(Prefix(text, i)) + CountTokens(Rest(text, i)) - CountTokens(text)
            \in Slack(text[i], text[i + 1])
      BY <2>1, <3>1, <3>3, <3>4, CutCosts
    <3>6. Slack(text[i], text[i + 1]) = IF Within(i) THEN {0, 1} ELSE {0}
      BY DEF Slack, RunOf
    <3>7. QED
      BY <3>5, <3>6
  <2>4. QED
    BY <2>2, <2>3 DEF CountsAddUp
<1>2. QED
  BY <1>1, JsonInvariant, PTL
=============================================================================
