------------------------- MODULE Conversation_proofs -------------------------
(* Theorems about a conversation in front of the middleware, for every set   *)
(* of messages, every threshold and window, and conversations of any length: *)
(* what compressing it, by the reference or by a port, does to each message. *)
EXTENDS Ports, Sampling, Induction

-----------------------------------------------------------------------------
(* The sums: Total over the texts of a message, CountTokens over messages.   *)

LEMMA TotalNat ==
  ASSUME NEW f \in [Text -> Nat], NEW texts \in Seq(Text)
  PROVE  Total(f, texts) \in Nat
<1> DEFINE n == Len(texts)
           step == [i \in 1..n |-> [v \in Nat |-> v + f[texts[i]]]]
           Body(u) == [i \in 0..n |-> IF i = 0 THEN 0 ELSE u[i - 1] + f[texts[i]]]
           upTo == CHOOSE u : u = Body(u)
<1>1. n \in Nat /\ \A i \in 1..n : f[texts[i]] \in Nat
  OBVIOUS
<1>2. step \in [1..n -> [Nat -> Nat]]
  BY <1>1
<1> HIDE DEF step
<1>3. PICK g \in [0..n -> Nat] : Follows(g, 0, n, step)
  BY <1>1, <1>2, RecursionExists
<1>4. g = Body(g)
  <2>1. ASSUME NEW i \in 0..n PROVE g[i] = IF i = 0 THEN 0 ELSE g[i - 1] + f[texts[i]]
    <3>1. CASE i = 0
      BY <1>3, <3>1 DEF Follows
    <3>2. CASE i # 0
      <4>1. i \in 1..n /\ g[i - 1] \in Nat
        BY <1>1, <3>2
      <4>2. g[i] = step[i][g[i - 1]]
        BY <1>3, <4>1 DEF Follows
      <4>3. QED
        BY <3>2, <4>1, <4>2 DEF step
    <3>3. QED
      BY <3>1, <3>2
  <2> HIDE DEF n
  <2>2. QED
    BY <2>1
<1> HIDE DEF Body
<1>5. upTo = Body(upTo)
  BY <1>4
<1>6. Total(f, texts) = upTo[n]
  BY DEF Total, Body
<1> HIDE DEF upTo, n
<1>7. \A i \in 0..n : upTo[i] = IF i = 0 THEN 0 ELSE upTo[i - 1] + f[texts[i]]
  BY <1>5 DEF Body
<1> DEFINE T == {i \in 0..n : upTo[i] \in Nat}
<1>8. 0 \in T
  BY <1>1, <1>7
<1>9. ASSUME NEW i \in 1..n, i - 1 \in T PROVE i \in T
  <2>1. i \in 0..n /\ i # 0 /\ upTo[i - 1] \in Nat /\ f[texts[i]] \in Nat
    BY <1>1, <1>9
  <2>2. upTo[i] \in Nat
    BY <1>7, <2>1
  <2>3. QED
    BY <2>1, <2>2
<1> HIDE DEF T
<1>10. \A i \in 0..n : i \in T
  BY <1>1, <1>8, <1>9, InductionUpTo
<1>11. QED
  BY <1>1, <1>6, <1>10 DEF T

\* A message that has its place in a conversation.
Msg == [role : Role, blocks : Seq(Block), call : Nat, at : Nat]

LEMMA SaidType ==
  ASSUME NEW m \in Msg
  PROVE  /\ Said(m) \in Seq(Text)
         /\ Said(m) = <<>> <=> \A i \in 1..Len(m.blocks) : m.blocks[i].text = EmptyText
<1> DEFINE texts == [i \in 1..Len(m.blocks) |-> m.blocks[i].text]
           places == {i \in 1..Len(m.blocks) : m.blocks[i].text # EmptyText}
<1>1. m.blocks \in Seq(Block) /\ Len(m.blocks) \in Nat
  BY DEF Msg
<1>2. \A i \in 1..Len(m.blocks) : m.blocks[i].text \in Text
  <2> SUFFICES ASSUME NEW i \in 1..Len(m.blocks) PROVE m.blocks[i].text \in Text
    OBVIOUS
  <2>1. m.blocks[i] \in Block
    BY <1>1
  <2>2. QED
    BY <2>1 DEF Block
<1>3. texts \in Seq(Text) /\ Len(texts) = Len(m.blocks)
  BY <1>1, <1>2
<1>4. Said(m) = Select(texts, places)
  BY DEF Said
<1> HIDE DEF texts, places
<1>5. Said(m) \in Seq(Text)
  BY <1>3, <1>4, SelectShape
<1>6. PICK place \in [1..Len(Select(texts, places)) -> 1..Len(texts)] : Picks(place, texts, places)
  BY <1>3, SelectShape
<1>7. ASSUME Said(m) = <<>>, NEW i \in 1..Len(m.blocks) PROVE m.blocks[i].text = EmptyText
  <2>1. 1..Len(Select(texts, places)) = {}
    BY <1>4, <1>7
  <2>2. i \notin places
    BY <1>3, <1>6, <2>1 DEF Picks
  <2>3. QED
    BY <2>2 DEF places
<1>8. ASSUME \A i \in 1..Len(m.blocks) : m.blocks[i].text = EmptyText PROVE Said(m) = <<>>
  <2>1. 1 \notin 1..Len(Said(m))
    BY <1>4, <1>6, <1>8 DEF places, Picks
  <2>2. QED
    BY <1>5, <2>1
<1>9. QED
  BY <1>5, <1>7, <1>8

\* The recursive definition of CountTokens, as a function of the messages read.
Counts(upTo, ms) ==
  /\ upTo[0] = 0 /\ CountTokens(ms) = upTo[Len(ms)]
  /\ \A i \in 1..Len(ms) : upTo[i] = upTo[i - 1] + Total(Tokens, Said(ms[i]))

LEMMA TokensNat ==
  ASSUME NEW m \in Msg
  PROVE  Total(Tokens, Said(m)) \in Nat
<1>1. Tokens \in [Text -> Nat] /\ Said(m) \in Seq(Text)
  BY SaidType, MiddlewareAssumption
<1>2. QED
  BY <1>1, TotalNat

LEMMA CountRec ==
  ASSUME NEW ms \in Seq(Msg)
  PROVE  \E upTo \in [0..Len(ms) -> Nat] : Counts(upTo, ms)
<1> DEFINE n == Len(ms)
           Count(i) == Total(Tokens, Said(ms[i]))
           step == [i \in 1..n |-> [v \in Nat |-> v + Count(i)]]
           Body(u) == [i \in 0..n |-> IF i = 0 THEN 0 ELSE u[i - 1] + Count(i)]
           upTo == CHOOSE u : u = Body(u)
<1>0. n \in Nat
  OBVIOUS
<1>1. \A i \in 1..n : Count(i) \in Nat
  BY TokensNat
<1>6. CountTokens(ms) = upTo[n]
  BY DEF CountTokens
<1> HIDE DEF Count
<1>2. step \in [1..n -> [Nat -> Nat]]
  BY <1>1
<1> HIDE DEF step
<1>3. PICK g \in [0..n -> Nat] : Follows(g, 0, n, step)
  BY <1>0, <1>2, RecursionExists
<1>4. g = Body(g)
  <2>1. ASSUME NEW i \in 0..n PROVE g[i] = IF i = 0 THEN 0 ELSE g[i - 1] + Count(i)
    <3>1. CASE i = 0
      BY <1>3, <3>1 DEF Follows
    <3>2. CASE i # 0
      <4>1. i \in 1..n /\ g[i - 1] \in Nat
        BY <1>0, <3>2
      <4>2. g[i] = step[i][g[i - 1]]
        BY <1>3, <4>1 DEF Follows
      <4>3. QED
        BY <3>2, <4>1, <4>2 DEF step
    <3>3. QED
      BY <3>1, <3>2
  <2> HIDE DEF n
  <2>2. QED
    BY <2>1
<1> HIDE DEF Body
<1>5. upTo = Body(upTo)
  BY <1>4
<1> HIDE DEF upTo, n
<1>7. /\ \A i \in 0..n : upTo[i] = IF i = 0 THEN 0 ELSE upTo[i - 1] + Count(i)
      /\ upTo = [i \in 0..n |-> upTo[i]]
  BY <1>5 DEF Body
<1> DEFINE T == {i \in 0..n : upTo[i] \in Nat}
<1>8. 0 \in T
  BY <1>0, <1>7
<1>9. ASSUME NEW i \in 1..n, i - 1 \in T PROVE i \in T
  <2>1. i \in 0..n /\ i # 0 /\ upTo[i - 1] \in Nat
    BY <1>0, <1>9
  <2>2. Count(i) \in Nat
    BY <1>1
  <2>3. upTo[i] = upTo[i - 1] + Count(i)
    BY <1>7, <2>1
  <2>4. upTo[i] \in Nat
    BY <2>1, <2>2, <2>3
  <2>5. QED
    BY <2>1, <2>4
<1> HIDE DEF T
<1>10. \A i \in 0..n : i \in T
  BY <1>0, <1>8, <1>9, InductionUpTo
<1>11. \A i \in 0..n : upTo[i] \in Nat
  BY <1>10 DEF T
<1>12. upTo \in [0..n -> Nat]
  BY <1>7, <1>11
<1>13. upTo[0] = 0 /\ \A i \in 1..n : upTo[i] = upTo[i - 1] + Count(i)
  BY <1>0, <1>7
<1>14. Counts(upTo, ms)
  BY <1>6, <1>13 DEF Counts, Count, n
<1>15. QED
  BY <1>12, <1>14 DEF n

\* Whatever is said, there are as many tokens as there were before, or more.
LEMMA CountGrows ==
  ASSUME NEW ms \in Seq(Msg), NEW more \in Seq(Msg), Len(ms) <= Len(more),
         \A i \in 1..Len(ms) : ms[i] = more[i]
  PROVE  /\ CountTokens(ms) \in Nat /\ CountTokens(more) \in Nat
         /\ CountTokens(ms) <= CountTokens(more)
<1>0. Len(ms) \in Nat /\ Len(more) \in Nat
  OBVIOUS
<1>1. PICK f \in [0..Len(ms) -> Nat] : Counts(f, ms)
  BY CountRec
<1>2. PICK g \in [0..Len(more) -> Nat] : Counts(g, more)
  BY CountRec
<1>3. \A i \in 1..Len(more) : Total(Tokens, Said(more[i])) \in Nat
  BY TokensNat
<1> DEFINE T == {i \in 0..Len(more) : /\ i <= Len(ms) => f[i] = g[i]
                                      /\ i >= Len(ms) => f[Len(ms)] <= g[i]}
<1>4. 0 \in T
  <2>1. 0 \in 0..Len(more) /\ f[0] = 0 /\ g[0] = 0 /\ (0 >= Len(ms) => Len(ms) = 0)
    BY <1>0, <1>1, <1>2 DEF Counts
  <2>2. QED
    BY <2>1
<1>5. ASSUME NEW i \in 1..Len(more), i - 1 \in T PROVE i \in T
  <2>1. /\ i \in 0..Len(more) /\ i - 1 \in 0..Len(more)
        /\ i - 1 <= Len(ms) => f[i - 1] = g[i - 1]
        /\ i - 1 >= Len(ms) => f[Len(ms)] <= g[i - 1]
    BY <1>0, <1>5
  <2>2. g[i] = g[i - 1] + Total(Tokens, Said(more[i])) /\ g[i - 1] \in Nat /\ g[i] \in Nat
    BY <1>2, <2>1 DEF Counts
  <2>3. f[Len(ms)] \in Nat /\ Total(Tokens, Said(more[i])) \in Nat
    BY <1>0, <1>3
  <2>4. CASE i <= Len(ms)
    <3>1. i \in 1..Len(ms)
      BY <1>0, <2>4
    <3>2. f[i] = f[i - 1] + Total(Tokens, Said(ms[i])) /\ ms[i] = more[i]
      BY <1>1, <3>1 DEF Counts
    <3>3. f[i] = g[i] /\ (i >= Len(ms) => i = Len(ms))
      BY <1>0, <2>1, <2>2, <2>4, <3>2
    <3>4. QED
      BY <2>1, <2>3, <2>4, <3>3
  <2>5. CASE i > Len(ms)
    <3>1. f[Len(ms)] <= g[i - 1]
      BY <1>0, <2>1, <2>5
    <3>2. f[Len(ms)] <= g[i] /\ ~(i <= Len(ms))
      BY <1>0, <2>2, <2>3, <2>5, <3>1
    <3>3. QED
      BY <2>1, <3>2
  <2>6. QED
    BY <1>0, <2>4, <2>5
<1> HIDE DEF T
<1>6. \A i \in 0..Len(more) : i \in T
  BY <1>0, <1>4, <1>5, InductionUpTo
<1>7. /\ f[Len(ms)] <= g[Len(more)] /\ f[Len(ms)] \in Nat /\ g[Len(more)] \in Nat
  BY <1>0, <1>6 DEF T
<1>8. QED
  BY <1>1, <1>2, <1>7 DEF Counts

-----------------------------------------------------------------------------
(* What rewriting leaves alone: a message n that is alike m is m but for the *)
(* texts of its text blocks.                                                 *)

Alike(m, n) ==
  /\ n \in Msg /\ n.role = m.role /\ n.call = m.call /\ n.at = m.at
  /\ Len(n.blocks) = Len(m.blocks)
  /\ \A i \in 1..Len(m.blocks) :
       /\ n.blocks[i].kind = m.blocks[i].kind /\ n.blocks[i].of = m.blocks[i].of
       /\ m.blocks[i].kind # "text" => n.blocks[i] = m.blocks[i]

\* Its text blocks are those of m with another text, all else stays.
TextsBy(m, n, form) ==
  \A i \in 1..Len(m.blocks) :
    n.blocks[i].text =
      IF m.blocks[i].kind = "text" THEN form[m.blocks[i].text] ELSE m.blocks[i].text

LEMMA RewriteAlike ==
  ASSUME NEW m \in Msg, NEW form \in [Text -> Text], NEW n,
         n = [m EXCEPT !.blocks = [i \in DOMAIN m.blocks |->
                IF m.blocks[i].kind = "text"
                THEN [m.blocks[i] EXCEPT !.text = form[m.blocks[i].text]] ELSE m.blocks[i]]]
  PROVE  Alike(m, n) /\ TextsBy(m, n, form)
<1> DEFINE New(i) == IF m.blocks[i].kind = "text"
                     THEN [m.blocks[i] EXCEPT !.text = form[m.blocks[i].text]] ELSE m.blocks[i]
           bs == [i \in DOMAIN m.blocks |-> New(i)]
<1>1. m.blocks \in Seq(Block) /\ Len(m.blocks) \in Nat /\ DOMAIN m.blocks = 1..Len(m.blocks)
  BY DEF Msg
<1>2. ASSUME NEW i \in 1..Len(m.blocks)
      PROVE  /\ New(i) \in Block
             /\ New(i).kind = m.blocks[i].kind /\ New(i).of = m.blocks[i].of
             /\ m.blocks[i].kind # "text" => New(i) = m.blocks[i]
             /\ New(i).text = IF m.blocks[i].kind = "text"
                              THEN form[m.blocks[i].text] ELSE m.blocks[i].text
  <2>1. m.blocks[i] \in Block
    BY <1>1
  <2>2. QED
    BY <2>1 DEF Block
<1>3. n = [m EXCEPT !.blocks = bs]
  OBVIOUS
<1> HIDE DEF New
<1>4. bs \in Seq(Block) /\ Len(bs) = Len(m.blocks) /\ \A i \in 1..Len(m.blocks) : bs[i] = New(i)
  BY <1>1, <1>2
<1> HIDE DEF bs
<1>5. /\ n \in Msg /\ n.role = m.role /\ n.call = m.call /\ n.at = m.at /\ n.blocks = bs
  BY <1>3, <1>4 DEF Msg
<1>6. QED
  BY <1>2, <1>4, <1>5 DEF Alike, TextsBy

LEMMA AlikeSelf ==
  ASSUME NEW m \in Msg
  PROVE  Alike(m, m)
BY DEF Alike

LEMMA AlikeBoth ==
  ASSUME NEW m \in Msg, NEW n, NEW o, Alike(m, n), Alike(n, o)
  PROVE  Alike(m, o)
BY DEF Alike

LEMMA AlikeFacts ==
  ASSUME NEW m \in Msg, NEW n, Alike(m, n)
  PROVE  Linked(n) = Linked(m) /\ Ids(n) = Ids(m) /\ Shape(n) = Shape(m)
<1>1. /\ DOMAIN m.blocks = 1..Len(m.blocks) /\ DOMAIN n.blocks = 1..Len(m.blocks)
      /\ Len(n.blocks) = Len(m.blocks) /\ n.role = m.role /\ n.call = m.call
      /\ \A i \in 1..Len(m.blocks) :
           n.blocks[i].kind = m.blocks[i].kind /\ n.blocks[i].of = m.blocks[i].of
  BY DEF Alike, Msg
<1>2. Linked(n) = Linked(m)
  BY <1>1 DEF Linked
<1>3. Ids(n) = Ids(m)
  BY <1>1 DEF Ids
<1>4. Shape(n) = Shape(m)
  BY <1>1 DEF Shape
<1>5. QED
  BY <1>2, <1>3, <1>4

\* What normalize does with the texts of a message of a class.
Normal(class) == [t \in Text |-> NormalForm(t, class)]

LEMMA NormalizeAlike ==
  ASSUME NEW m \in Msg
  PROVE  /\ Alike(m, Normalize(m))
         /\ m.role = "system" => Normalize(m) = m
         /\ m.role # "system" => TextsBy(m, Normalize(m), Normal(Classify(m)))
<1>1. CASE m.role = "system"
  BY <1>1, AlikeSelf DEF Normalize
<1>2. CASE m.role # "system"
  <2> DEFINE form == Normal(Classify(m))
  <2>1. form \in [Text -> Text]
    <3>1. \A t \in Text : NormalForm(t, Classify(m)) \in Text
      BY MiddlewareAssumption DEF NormalForm
    <3>2. QED
      BY <3>1 DEF Normal
  <2>2. \A i \in DOMAIN m.blocks : NormalForm(m.blocks[i].text, Classify(m)) = form[m.blocks[i].text]
    <3> SUFFICES ASSUME NEW i \in DOMAIN m.blocks
                 PROVE  NormalForm(m.blocks[i].text, Classify(m)) = form[m.blocks[i].text]
      OBVIOUS
    <3>1. m.blocks[i].text \in Text
      <4>1. m.blocks[i] \in Block
        BY DEF Msg
      <4>2. QED
        BY <4>1 DEF Block
    <3>2. QED
      BY <3>1 DEF Normal
  <2> HIDE DEF form
  <2>3. Normalize(m) = [m EXCEPT !.blocks = [i \in DOMAIN m.blocks |->
          IF m.blocks[i].kind = "text"
          THEN [m.blocks[i] EXCEPT !.text = form[m.blocks[i].text]] ELSE m.blocks[i]]]
    BY <1>2, <2>2 DEF Normalize, Rewrite
  <2>4. Alike(m, Normalize(m)) /\ TextsBy(m, Normalize(m), form)
    BY <2>1, <2>3, RewriteAlike
  <2>5. QED
    BY <1>2, <2>4 DEF form
<1>3. QED
  BY <1>1, <1>2

\* What purge does with a text.
Purged == [t \in Text |-> IF t \in Erred THEN Placeholder ELSE t]

LEMMA PurgeAlike ==
  ASSUME NEW m \in Msg
  PROVE  Alike(m, PurgeBlocks(m)) /\ TextsBy(m, PurgeBlocks(m), Purged)
<1>1. Purged \in [Text -> Text]
  BY MiddlewareAssumption DEF Purged
<1>2. \A i \in DOMAIN m.blocks :
        (IF m.blocks[i].text \in Erred THEN Placeholder ELSE m.blocks[i].text)
          = Purged[m.blocks[i].text]
  <2> SUFFICES ASSUME NEW i \in DOMAIN m.blocks
               PROVE  (IF m.blocks[i].text \in Erred THEN Placeholder ELSE m.blocks[i].text)
                        = Purged[m.blocks[i].text]
    OBVIOUS
  <2>1. m.blocks[i] \in Block
    BY DEF Msg
  <2>2. QED
    BY <2>1 DEF Block, Purged
<1>3. PurgeBlocks(m) = [m EXCEPT !.blocks = [i \in DOMAIN m.blocks |->
        IF m.blocks[i].kind = "text"
        THEN [m.blocks[i] EXCEPT !.text = Purged[m.blocks[i].text]] ELSE m.blocks[i]]]
  BY <1>2 DEF PurgeBlocks, Rewrite
<1>4. QED
  BY <1>1, <1>3, RewriteAlike

LEMMA ExtractAlike ==
  ASSUME NEW m \in Msg
  PROVE  Alike(m, Extract(m))
<1>1. Extracted \in [Text -> Text]
  BY MiddlewareAssumption
<1>2. Extract(m) = [m EXCEPT !.blocks = [i \in DOMAIN m.blocks |->
        IF m.blocks[i].kind = "text"
        THEN [m.blocks[i] EXCEPT !.text = Extracted[m.blocks[i].text]] ELSE m.blocks[i]]]
  BY DEF Extract, Rewrite
<1>3. QED
  BY <1>1, <1>2, RewriteAlike

-----------------------------------------------------------------------------
(* What compressing comes to: each message that repeats nothing is sent, in  *)
(* order, and what becomes of it depends on it and its place alone.          *)

Normalized(ms) == [i \in 1..Len(ms) |-> Normalize(ms[i])]
Kept(ms) == {i \in 1..Len(ms) : ~IsRepeat(Normalized(ms), i)}
Left(ms) == Dedup(Normalized(ms))

LEMMA NormalizedType ==
  ASSUME NEW ms \in Seq(Msg)
  PROVE  /\ Normalized(ms) \in Seq(Msg) /\ Len(Normalized(ms)) = Len(ms)
         /\ \A i \in 1..Len(ms) : Normalized(ms)[i] = Normalize(ms[i])
<1>1. \A i \in 1..Len(ms) : Normalize(ms[i]) \in Msg
  <2> SUFFICES ASSUME NEW i \in 1..Len(ms) PROVE Normalize(ms[i]) \in Msg
    OBVIOUS
  <2>1. Alike(ms[i], Normalize(ms[i]))
    BY NormalizeAlike
  <2>2. QED
    BY <2>1 DEF Alike
<1>2. QED
  BY <1>1 DEF Normalized

Placed(ms, place) ==
  /\ \A k \in 1..Len(Left(ms)) : place[k] \in Kept(ms) /\ Left(ms)[k] = Normalize(ms[place[k]])
  /\ \A k, n \in 1..Len(Left(ms)) : k < n => place[k] < place[n]
  /\ \A i \in Kept(ms) : \E k \in 1..Len(Left(ms)) : place[k] = i

LEMMA Deduped ==
  ASSUME NEW ms \in Seq(Msg)
  PROVE  /\ Left(ms) \in Seq(Msg)
         /\ \E place \in [1..Len(Left(ms)) -> 1..Len(ms)] : Placed(ms, place)
<1> DEFINE ns == Normalized(ms)
<1>1. /\ ns \in Seq(Msg) /\ Len(ns) = Len(ms)
      /\ \A i \in 1..Len(ms) : ns[i] = Normalize(ms[i])
  BY NormalizedType
<1>2. Left(ms) = Select(ns, Kept(ms))
  BY <1>1 DEF Left, Dedup, Kept
<1> HIDE DEF ns
<1>3. Left(ms) \in Seq(Msg)
  BY <1>1, <1>2, SelectShape
<1> DEFINE keep == Kept(ms)
<1> HIDE DEF keep
<1>0. ns \in Seq(Msg)
  BY <1>1
<1>4. PICK place \in [1..Len(Select(ns, keep)) -> 1..Len(ns)] : Picks(place, ns, keep)
  BY <1>0, SelectShape
<1>5. place \in [1..Len(Left(ms)) -> 1..Len(ms)]
  BY <1>1, <1>2, <1>4 DEF keep
<1>6. Kept(ms) \subseteq 1..Len(ms)
  BY DEF Kept
<1>7. Placed(ms, place)
  <2>1. ASSUME NEW k \in 1..Len(Left(ms))
        PROVE  place[k] \in Kept(ms) /\ Left(ms)[k] = Normalize(ms[place[k]])
    BY <1>1, <1>2, <1>4, <1>5 DEF keep, Picks
  <2>2. \A k, n \in 1..Len(Left(ms)) : k < n => place[k] < place[n]
    BY <1>2, <1>4 DEF keep, Picks
  <2>3. \A i \in Kept(ms) : \E k \in 1..Len(Left(ms)) : place[k] = i
    BY <1>1, <1>2, <1>4, <1>6 DEF keep, Picks
  <2>4. QED
    BY <2>1, <2>2, <2>3 DEF Placed
<1>8. QED
  BY <1>3, <1>5, <1>7

\* What is made of the k-th of `count` messages, once it is normalized.
IsPurged(n, k, count) == k <= count - AfterTurns /\ n.role # "system" /\ Classify(n) = "error"
Survives(n, k, count) == IF IsPurged(n, k, count) THEN PurgeBlocks(n) ELSE n
IsCondensed(p, k, count) == p.role # "system" /\ k <= count - LastTurns /\ Classify(p) = "prose"
Outcome(n, k, count) ==
  LET p == Survives(n, k, count) IN IF IsCondensed(p, k, count) THEN Extract(p) ELSE p

LEMMA OutcomeAlike ==
  ASSUME NEW n \in Msg, NEW k, NEW count
  PROVE  /\ Alike(n, Survives(n, k, count)) /\ Alike(n, Outcome(n, k, count))
         /\ n.role = "system" => Outcome(n, k, count) = n
<1> DEFINE p == Survives(n, k, count)
<1>1. Alike(n, p) /\ (n.role = "system" => p = n)
  BY AlikeSelf, PurgeAlike DEF Survives, IsPurged
<1> HIDE DEF p
<1>2. p \in Msg
  BY <1>1 DEF Alike
<1>3. Alike(n, Extract(p))
  BY <1>1, <1>2, ExtractAlike, AlikeBoth
<1>4. Outcome(n, k, count) = IF IsCondensed(p, k, count) THEN Extract(p) ELSE p
  BY DEF Outcome, p
<1>5. QED
  BY <1>1, <1>3, <1>4 DEF IsCondensed, p

LEMMA Compressed ==
  ASSUME NEW ms \in Seq(Msg)
  PROVE  /\ CompressMessages(ms).inputTokens = CountTokens(ms)
         /\ CountTokens(ms) < Threshold => CompressMessages(ms).messages = ms
         /\ ~(CountTokens(ms) < Threshold) =>
              /\ CompressMessages(ms).messages \in Seq(Msg)
              /\ Len(CompressMessages(ms).messages) = Len(Left(ms))
              /\ \A k \in 1..Len(Left(ms)) :
                   CompressMessages(ms).messages[k] = Outcome(Left(ms)[k], k, Len(Left(ms)))
<1> DEFINE left == Left(ms)
           kept == Strategies(ms)
           len == Len(left)
<1>1. left \in Seq(Msg) /\ len \in Nat
  BY Deduped
<1>2. kept = Purge(left)
  BY DEF Strategies, Left, Normalized
<1>3. /\ CompressMessages(ms).inputTokens = CountTokens(ms)
      /\ CountTokens(ms) < Threshold => CompressMessages(ms).messages = ms
      /\ ~(CountTokens(ms) < Threshold) =>
           CompressMessages(ms).messages = [k \in 1..Len(kept) |-> Compress(Pick(kept, k), kept[k])]
  BY DEF CompressMessages, Finish
<1> HIDE DEF left, kept
<1>4. kept = [k \in 1..len |-> Survives(left[k], k, len)]
  BY <1>2 DEF Purge, Survives, IsPurged
<1> HIDE DEF len
<1>5. Len(kept) = len /\ \A k \in 1..len : kept[k] = Survives(left[k], k, len)
  BY <1>1, <1>4
<1>6. ASSUME NEW k \in 1..len
      PROVE  Compress(Pick(kept, k), kept[k]) = Outcome(left[k], k, len)
  <2>1. k > Len(kept) - LastTurns <=> ~(k <= len - LastTurns)
    BY <1>1, <1>5, MiddlewareAssumption
  <2>2. Pick(kept, k) = IF IsCondensed(kept[k], k, len) THEN "extract" ELSE "verbatim"
    BY <1>5, <2>1 DEF Pick, IsProtected, Route, IsCondensed
  <2>3. Compress(Pick(kept, k), kept[k]) = IF IsCondensed(kept[k], k, len) THEN Extract(kept[k]) ELSE kept[k]
    BY <2>2 DEF Compress
  <2>4. QED
    BY <1>5, <2>3 DEF Outcome
<1> DEFINE out == [k \in 1..Len(kept) |-> Compress(Pick(kept, k), kept[k])]
<1>7. \A k \in 1..len : Outcome(left[k], k, len) \in Msg
  <2> SUFFICES ASSUME NEW k \in 1..len PROVE Outcome(left[k], k, len) \in Msg
    OBVIOUS
  <2>1. left[k] \in Msg
    BY <1>1 DEF len
  <2>2. Alike(left[k], Outcome(left[k], k, len))
    BY <2>1, OutcomeAlike
  <2>3. QED
    BY <2>2 DEF Alike
<1>8. out = [k \in 1..len |-> Outcome(left[k], k, len)]
  BY <1>5, <1>6
<1>9. out \in Seq(Msg) /\ Len(out) = len /\ \A k \in 1..len : out[k] = Outcome(left[k], k, len)
  BY <1>1, <1>7, <1>8
<1> HIDE DEF out
<1>10. QED
  BY <1>3, <1>9 DEF out, left, len

-----------------------------------------------------------------------------
(* The conversation: what was sent is what compressing the part that was     *)
(* asked makes of it, and messages are at their places.                      *)

ConvInv ==
  /\ conv \in Seq(Msg) /\ Len(conv) <= MaxLength
  /\ \A i \in 1..Len(conv) : conv[i].at = i
  /\ sent = Unsent \/ sent = CompressMessages(Asked)
  /\ conv = <<>> => sent = Unsent
  /\ IsAsking(LastRole) => sent = CompressMessages(conv)

LEMMA AskedType ==
  ASSUME ConvInv
  PROVE  /\ Asked \in Seq(Msg) /\ Len(Asked) \in 0..Len(conv)
         /\ \A i \in 1..Len(Asked) : Asked[i] = conv[i]
<1>1. conv \in Seq(Msg) /\ Len(conv) \in Nat /\ (conv = <<>> => sent = Unsent)
  BY DEF ConvInv
<1>2. CASE sent = Unsent
  BY <1>1, <1>2 DEF Asked
<1>3. CASE sent # Unsent
  <2> DEFINE n == IF IsAsking(LastRole) THEN Len(conv) ELSE Len(conv) - 1
  <2>1. n \in 0..Len(conv)
    BY <1>1, <1>3
  <2>2. Asked = SubSeq(conv, 1, n)
    BY <1>3 DEF Asked
  <2> HIDE DEF n
  <2>3. QED
    BY <1>1, <2>1, <2>2
<1>4. QED
  BY <1>2, <1>3

LEMMA StampedType ==
  ASSUME ConvInv, NEW m \in Messages
  PROVE  Stamped(m) \in Msg /\ Stamped(m).at = Len(conv) + 1 /\ Stamped(m).role = m.role
<1>1. m \in [role : Role, blocks : Seq(Block), call : Nat] /\ Len(conv) + 1 \in Nat
  BY ConversationAssumption DEF ConvInv
<1>2. QED
  BY <1>1 DEF Stamped, Msg

LEMMA ConvStep ==
  ASSUME ConvInv, [ConversationNext]_conversationVars
  PROVE  ConvInv'
<1>0. /\ conv \in Seq(Msg) /\ Len(conv) \in Nat /\ Len(conv) <= MaxLength
      /\ MaxLength \in Nat \ {0} /\ \A i \in 1..Len(conv) : conv[i].at = i
  BY ConversationAssumption DEF ConvInv
<1>1. ASSUME NEW m \in Messages, conv' = Append(conv, Stamped(m)), Len(conv) < MaxLength
      PROVE  /\ conv' \in Seq(Msg) /\ Len(conv') <= MaxLength
             /\ \A i \in 1..Len(conv') : conv'[i].at = i
             /\ conv' # <<>> /\ Len(conv') = Len(conv) + 1
             /\ LastRole' = m.role /\ SubSeq(conv', 1, Len(conv') - 1) = conv
             /\ SubSeq(conv', 1, Len(conv')) = conv'
  <2>1. Stamped(m) \in Msg /\ Stamped(m).at = Len(conv) + 1 /\ Stamped(m).role = m.role
    BY StampedType
  <2>2. /\ conv' \in Seq(Msg) /\ Len(conv') = Len(conv) + 1
        /\ conv'[Len(conv) + 1] = Stamped(m) /\ \A i \in 1..Len(conv) : conv'[i] = conv[i]
    BY <1>0, <1>1, <2>1
  <2>3. \A i \in 1..Len(conv') : conv'[i].at = i
    BY <1>0, <2>1, <2>2
  <2>4. conv' # <<>>
    BY <1>0, <2>2
  <2>5. LastRole' = m.role
    BY <2>1, <2>2, <2>4 DEF LastRole
  <2>6. SubSeq(conv', 1, Len(conv')) = conv'
    BY <2>2
  <2>7. SubSeq(conv', 1, Len(conv') - 1) = conv
    <3>1. Len(conv') - 1 = Len(conv)
      BY <1>0, <2>2
    <3>2. /\ SubSeq(conv', 1, Len(conv)) \in Seq(Msg)
          /\ Len(SubSeq(conv', 1, Len(conv))) = Len(conv)
          /\ \A i \in 1..Len(conv) : SubSeq(conv', 1, Len(conv))[i] = conv[i]
      BY <1>0, <2>2
    <3>3. QED
      BY <1>0, <3>1, <3>2
  <2>8. QED
    BY <1>0, <1>1, <2>2, <2>3, <2>4, <2>5, <2>6, <2>7
<1>2. ASSUME NEW m \in Messages, System(m) PROVE ConvInv'
  <2>1. sent' = Unsent /\ conv' = Append(conv, Stamped(m)) /\ Len(conv) < MaxLength
    BY <1>0, <1>2 DEF System, ConvInv
  <2>2. LastRole' = "system" /\ ~IsAsking("system")
    BY <1>1, <1>2, <2>1 DEF System, IsAsking
  <2>3. QED
    BY <1>1, <2>1, <2>2 DEF ConvInv
<1>3. ASSUME NEW m \in Messages, Ask(m) PROVE ConvInv'
  <2>1. /\ conv' = Append(conv, Stamped(m)) /\ Len(conv) < MaxLength
        /\ sent' = CompressMessages(conv') /\ IsAsking(m.role)
    BY <1>3 DEF Ask
  <2>2. LastRole' = m.role /\ conv' # <<>> /\ SubSeq(conv', 1, Len(conv')) = conv'
    BY <1>1, <2>1
  <2>3. sent' = Unsent \/ sent' = CompressMessages(Asked')
    BY <2>1, <2>2 DEF Asked
  <2>4. QED
    BY <1>1, <2>1, <2>2, <2>3 DEF ConvInv
<1>4. ASSUME NEW m \in Messages, Reply(m) PROVE ConvInv'
  <2>1. /\ conv' = Append(conv, Stamped(m)) /\ Len(conv) < MaxLength
        /\ sent' = sent /\ IsAsking(LastRole) /\ ~IsAsking(m.role)
    BY <1>4 DEF Reply, IsAsking
  <2>2. LastRole' = m.role /\ conv' # <<>> /\ SubSeq(conv', 1, Len(conv') - 1) = conv
    BY <1>1, <2>1
  <2>3. sent = CompressMessages(conv)
    BY <2>1 DEF ConvInv
  <2>4. sent' = Unsent \/ sent' = CompressMessages(Asked')
    BY <2>1, <2>2, <2>3 DEF Asked
  <2>5. QED
    BY <1>1, <2>1, <2>2, <2>4 DEF ConvInv
<1>5. CASE UNCHANGED conversationVars
  BY <1>5 DEF ConvInv, conversationVars, Asked, LastRole
<1>6. QED
  BY <1>2, <1>3, <1>4, <1>5 DEF ConversationNext

\* The conversation stays in its types and within its bound, and what was sent
\* is always what compressing the part of the history that was asked makes of
\* it, from whatever messages and in whatever order it grows.
THEOREM ConversationIsCompressed == ConversationSpec => []ConvInv
<1>1. ConversationInit => ConvInv
  <2> SUFFICES ASSUME ConversationInit PROVE ConvInv
    OBVIOUS
  <2>1. conv = <<>> /\ sent = Unsent /\ Len(conv) = 0 /\ conv \in Seq(Msg)
    BY DEF ConversationInit
  <2>2. LastRole = "none" /\ ~IsAsking("none")
    BY <2>1 DEF LastRole, IsAsking
  <2>3. QED
    BY <2>1, <2>2, ConversationAssumption DEF ConvInv
<1>2. ConvInv /\ [ConversationNext]_conversationVars => ConvInv'
  BY ConvStep
<1>3. QED
  BY <1>1, <1>2, PTL DEF ConversationSpec

-----------------------------------------------------------------------------
(* Where the messages that are sent come from.                               *)

LEMMA OutCases ==
  ASSUME ConvInv
  PROVE  \/ Out = Asked
         \/ /\ Out \in Seq(Msg) /\ Len(Out) = Len(Left(Asked))
            /\ \A k \in 1..Len(Out) : Out[k] = Outcome(Left(Asked)[k], k, Len(Out))
<1>1. CASE sent = Unsent
  BY <1>1 DEF Asked, Out, Unsent
<1>2. CASE sent = CompressMessages(Asked)
  BY <1>2, AskedType, Compressed DEF Out
<1>3. QED
  BY <1>1, <1>2 DEF ConvInv

\* What traces each sent message to the message of the history it was.
Traces(place) ==
  /\ \A k \in 1..Len(Out) :
       /\ Alike(Asked[place[k]], Out[k]) /\ Out[k].at = place[k]
       /\ Asked[place[k]].role = "system" => Out[k] = Asked[place[k]]
  /\ \A k, n \in 1..Len(Out) : k < n => place[k] < place[n]
  /\ \A i \in 1..Len(Asked) :
       (\E k \in 1..Len(Out) : place[k] = i) \/ IsRepeat(Normalized(Asked), i)

LEMMA OutShape ==
  ASSUME ConvInv
  PROVE  /\ Out \in Seq(Msg)
         /\ \E place \in [1..Len(Out) -> 1..Len(Asked)] : Traces(place)
<1>1. /\ Asked \in Seq(Msg) /\ Len(Asked) \in Nat
      /\ \A i \in 1..Len(Asked) : Asked[i] \in Msg /\ Asked[i].at = i
  BY AskedType DEF ConvInv
<1>2. CASE Out = Asked
  <2> DEFINE place == [k \in 1..Len(Out) |-> k]
  <2>1. place \in [1..Len(Out) -> 1..Len(Asked)] /\ \A k \in 1..Len(Out) : place[k] = k
    BY <1>2
  <2> HIDE DEF place
  <2>2. \A i \in 1..Len(Asked) : \E k \in 1..Len(Out) : place[k] = i
    BY <1>2, <2>1
  <2>3. \A k \in 1..Len(Out) : Alike(Asked[k], Out[k])
    BY <1>1, <1>2, AlikeSelf
  <2>4. Traces(place)
    BY <1>1, <1>2, <2>1, <2>2, <2>3 DEF Traces
  <2>5. QED
    BY <1>1, <1>2, <2>1, <2>4
<1>3. ASSUME /\ Out \in Seq(Msg) /\ Len(Out) = Len(Left(Asked))
             /\ \A k \in 1..Len(Out) : Out[k] = Outcome(Left(Asked)[k], k, Len(Out))
      PROVE  \E place \in [1..Len(Out) -> 1..Len(Asked)] : Traces(place)
  <2>1. PICK place \in [1..Len(Left(Asked)) -> 1..Len(Asked)] : Placed(Asked, place)
    BY <1>1, Deduped
  <2>2. place \in [1..Len(Out) -> 1..Len(Asked)]
    BY <1>3, <2>1
  <2>3. ASSUME NEW k \in 1..Len(Out)
        PROVE  /\ Alike(Asked[place[k]], Out[k]) /\ Out[k].at = place[k]
               /\ Asked[place[k]].role = "system" => Out[k] = Asked[place[k]]
    <3> DEFINE m == Asked[place[k]]
    <3>1. m \in Msg /\ m.at = place[k]
      BY <1>1, <2>2
    <3>2. Left(Asked)[k] = Normalize(m)
      BY <1>3, <2>1 DEF Placed
    <3> HIDE DEF m
    <3>3. Alike(m, Normalize(m)) /\ (m.role = "system" => Normalize(m) = m)
      BY <3>1, NormalizeAlike
    <3>4. Normalize(m) \in Msg
      BY <3>3 DEF Alike
    <3>5. Out[k] = Outcome(Normalize(m), k, Len(Out))
      BY <1>3, <3>2
    <3>6. /\ Alike(Normalize(m), Out[k])
          /\ Normalize(m).role = "system" => Out[k] = Normalize(m)
      BY <3>4, <3>5, OutcomeAlike
    <3>7. Alike(m, Out[k])
      BY <3>1, <3>3, <3>6, AlikeBoth
    <3>8. Out[k].at = m.at
      BY <3>7 DEF Alike
    <3>9. QED
      BY <3>1, <3>3, <3>6, <3>7, <3>8 DEF m
  <2>4. \A k, n \in 1..Len(Out) : k < n => place[k] < place[n]
    BY <1>3, <2>1 DEF Placed
  <2>5. \A i \in 1..Len(Asked) :
          (\E k \in 1..Len(Out) : place[k] = i) \/ IsRepeat(Normalized(Asked), i)
    BY <1>3, <2>1 DEF Placed, Kept
  <2>6. Traces(place)
    BY <2>3, <2>4, <2>5 DEF Traces
  <2>7. QED
    BY <2>2, <2>6
<1>4. QED
  BY <1>1, <1>2, <1>3, OutCases

\* The key of a normalized message.
LEMMA KeyFacts ==
  ASSUME NEW m \in Msg
  PROVE  Key(Normalize(m)) =
           IF m.role = "system" \/ Linked(m) \/ Said(Normalize(m)) = <<>>
           THEN {} ELSE {<<m.role, Said(Normalize(m))>>}
<1>1. Alike(m, Normalize(m))
  BY NormalizeAlike
<1>2. Normalize(m).role = m.role /\ Linked(Normalize(m)) = Linked(m)
  BY <1>1, AlikeFacts DEF Alike
<1>3. QED
  BY <1>2 DEF Key

\* A repeat is neither a system message nor linked to a tool call, and the
\* message it repeats first is none.
LEMMA RepeatFacts ==
  ASSUME NEW ms \in Seq(Msg), NEW i \in 1..Len(ms), IsRepeat(Normalized(ms), i)
  PROVE  /\ ms[i].role # "system" /\ ~Linked(ms[i])
         /\ \E j \in 1..(i - 1) :
              /\ ~IsRepeat(Normalized(ms), j) /\ ms[j].role = ms[i].role
              /\ Said(Normalize(ms[j])) = Said(Normalize(ms[i]))
              /\ Said(Normalize(ms[j])) # <<>>
<1> DEFINE K(j) == Key(Normalized(ms)[j])
           T == {j \in 1..(i - 1) : K(j) \cap K(i) # {}}
<1>1. /\ i \in Nat /\ \A j \in 1..i : j \in 1..Len(ms) /\ ms[j] \in Msg
  OBVIOUS
<1>2. \A j \in 1..i : K(j) = Key(Normalize(ms[j]))
  BY <1>1, NormalizedType
<1>3. \A j \in 1..i : K(j) =
        IF ms[j].role = "system" \/ Linked(ms[j]) \/ Said(Normalize(ms[j])) = <<>>
        THEN {} ELSE {<<ms[j].role, Said(Normalize(ms[j]))>>}
  BY <1>1, <1>2, KeyFacts
<1>4. \A j \in 1..i : IsRepeat(Normalized(ms), j) <=> \E h \in 1..(j - 1) : K(h) \cap K(j) # {}
  BY DEF IsRepeat
<1> HIDE DEF K
<1>5. T # {} /\ T \in SUBSET Nat
  BY <1>1, <1>4
<1>6. PICK j \in T : \A h \in T : j <= h
  BY <1>5, LeastMember
<1>7. j \in 1..(i - 1) /\ K(j) \cap K(i) # {} /\ j \in 1..i /\ i \in 1..i
  BY <1>1, <1>6
<1>8. /\ ms[i].role # "system" /\ ~Linked(ms[i])
      /\ ms[j].role = ms[i].role /\ Said(Normalize(ms[j])) = Said(Normalize(ms[i]))
      /\ K(j) = K(i) /\ Said(Normalize(ms[j])) # <<>>
  BY <1>3, <1>7
<1>9. ~IsRepeat(Normalized(ms), j)
  <2> SUFFICES ASSUME NEW h \in 1..(j - 1), K(h) \cap K(j) # {} PROVE FALSE
    BY <1>4, <1>7
  <2>1. h \in T /\ h < j
    BY <1>1, <1>7, <1>8
  <2>2. QED
    BY <1>1, <1>6, <1>7, <2>1
<1>10. QED
  BY <1>7, <1>8, <1>9

-----------------------------------------------------------------------------
(* The invariants of the conversation.                                       *)

LEMMA BlocksHold ==
  ASSUME ConvInv
  PROVE  BlocksIntact
<1>1. PICK place \in [1..Len(Out) -> 1..Len(Asked)] : Traces(place)
  BY OutShape
<1>2. /\ Asked \in Seq(Msg) /\ Len(Asked) \in 0..Len(conv) /\ Len(conv) \in Nat
      /\ \A i \in 1..Len(Asked) : Asked[i] = conv[i] /\ Asked[i] \in Msg
  BY AskedType DEF ConvInv
<1>3. ASSUME NEW i \in 1..Len(Asked), Asked[i].role = "system"
      PROVE  \E k \in 1..Len(Out) : Out[k] = Asked[i]
  <2>1. ~IsRepeat(Normalized(Asked), i)
    BY <1>2, <1>3, RepeatFacts
  <2>2. PICK k \in 1..Len(Out) : place[k] = i
    BY <1>1, <2>1 DEF Traces
  <2>3. QED
    BY <1>1, <1>3, <2>2 DEF Traces
<1>4. ASSUME NEW k \in 1..Len(Out)
      PROVE  LET before == conv[Out[k].at]
             IN  /\ Out[k].role = before.role /\ Shape(Out[k]) = Shape(before)
                 /\ before.role = "system" => Out[k] = before
                 /\ \A i \in DOMAIN before.blocks :
                      before.blocks[i].kind # "text" => Out[k].blocks[i] = before.blocks[i]
  <2> DEFINE before == conv[Out[k].at]
  <2>1. place[k] \in 1..Len(Asked)
    BY <1>1
  <2>2. before = Asked[place[k]] /\ before \in Msg
    BY <1>1, <1>2, <2>1 DEF Traces
  <2> HIDE DEF before
  <2>3. Alike(before, Out[k]) /\ (before.role = "system" => Out[k] = before)
    BY <1>1, <2>2 DEF Traces
  <2>4. Shape(Out[k]) = Shape(before)
    BY <2>2, <2>3, AlikeFacts
  <2>5. DOMAIN before.blocks = 1..Len(before.blocks)
    BY <2>2 DEF Msg
  <2>6. QED
    BY <2>3, <2>4, <2>5 DEF Alike, before
<1>5. QED
  BY <1>3, <1>4 DEF BlocksIntact

LEMMA LinksHold ==
  ASSUME ConvInv
  PROVE  NothingOrphaned
<1>1. PICK place \in [1..Len(Out) -> 1..Len(Asked)] : Traces(place)
  BY OutShape
<1>2. Asked \in Seq(Msg) /\ \A i \in 1..Len(Asked) : Asked[i] \in Msg
  BY AskedType
<1>3. ASSUME NEW i \in 1..Len(Asked), Ids(Asked[i]) # {}
      PROVE  \E k \in 1..Len(Out) : Out[k].at = i /\ Ids(Out[k]) = Ids(Asked[i])
  <2>1. Linked(Asked[i])
    BY <1>3 DEF Ids, Linked
  <2>2. ~IsRepeat(Normalized(Asked), i)
    BY <1>2, <2>1, RepeatFacts
  <2>3. PICK k \in 1..Len(Out) : place[k] = i
    BY <1>1, <2>2 DEF Traces
  <2>4. Alike(Asked[i], Out[k]) /\ Out[k].at = i
    BY <1>1, <2>3 DEF Traces
  <2>5. Ids(Out[k]) = Ids(Asked[i])
    BY <1>2, <2>4, AlikeFacts
  <2>6. QED
    BY <2>4, <2>5
<1>4. \A k, n \in 1..Len(Out) : k < n => Out[k].at < Out[n].at
  BY <1>1 DEF Traces
<1>5. QED
  BY <1>3, <1>4 DEF NothingOrphaned

\* The words of a message survive, unless it is condensed or purged.
LEMMA OutcomeSays ==
  ASSUME NEW n \in Msg, NEW k, NEW count
  PROVE  \/ Said(Outcome(n, k, count)) = Said(n)
         \/ Classify(n) = "prose" /\ k <= count - LastTurns
         \/ Classify(n) = "error" /\ k <= count - AfterTurns
<1>1. CASE IsPurged(n, k, count)
  BY <1>1 DEF IsPurged
<1>2. CASE ~IsPurged(n, k, count)
  <2>1. Outcome(n, k, count) = IF IsCondensed(n, k, count) THEN Extract(n) ELSE n
    BY <1>2 DEF Outcome, Survives
  <2>2. QED
    BY <2>1 DEF IsCondensed
<1>3. QED
  BY <1>1, <1>2

\* A message that dedup keeps is sent in its own place.
LEMMA KeptIsSent ==
  ASSUME ConvInv, NEW j \in 1..Len(Asked), ~IsRepeat(Normalized(Asked), j), Out # Asked
  PROVE  \E k \in 1..Len(Out) :
           Out[k].at = j /\ Out[k] = Outcome(Normalize(Asked[j]), k, Len(Out))
<1>1. /\ Asked \in Seq(Msg) /\ Asked[j] \in Msg /\ Asked[j].at = j
      /\ Len(Out) = Len(Left(Asked))
      /\ \A k \in 1..Len(Out) : Out[k] = Outcome(Left(Asked)[k], k, Len(Out))
  BY AskedType, OutCases DEF ConvInv
<1>2. PICK place \in [1..Len(Left(Asked)) -> 1..Len(Asked)] : Placed(Asked, place)
  BY <1>1, Deduped
<1>3. PICK k \in 1..Len(Out) : place[k] = j
  BY <1>1, <1>2 DEF Placed, Kept
<1>4. Out[k] = Outcome(Normalize(Asked[j]), k, Len(Out))
  BY <1>1, <1>2, <1>3 DEF Placed
<1>5. Alike(Asked[j], Normalize(Asked[j])) /\ Normalize(Asked[j]) \in Msg
  BY <1>1, NormalizeAlike DEF Alike
<1>6. Out[k].at = j
  <2>1. Alike(Normalize(Asked[j]), Out[k])
    BY <1>4, <1>5, OutcomeAlike
  <2>2. QED
    BY <1>1, <1>5, <2>1 DEF Alike
<1>7. QED
  BY <1>4, <1>6

LEMMA DropsHold ==
  ASSUME ConvInv
  PROVE  DroppedIsRepeat
<1>1. PICK place \in [1..Len(Out) -> 1..Len(Asked)] : Traces(place)
  BY OutShape
<1>2. /\ Asked \in Seq(Msg) /\ Len(Asked) \in Nat
      /\ \A i \in 1..Len(Asked) : Asked[i] \in Msg /\ Asked[i].at = i
  BY AskedType DEF ConvInv
<1>3. ASSUME NEW i \in 1..Len(Asked), ~\E k \in 1..Len(Out) : Out[k].at = i
      PROVE  \E j \in 1..(i - 1), k \in 1..Len(Out) :
               LET normal == Normalize(Asked[j])
               IN  /\ Asked[j].role = Asked[i].role
                   /\ Said(normal) = Said(Normalize(Asked[i]))
                   /\ Out[k].at = j
                   /\ \/ Said(Out[k]) = Said(normal)
                      \/ Classify(normal) = "prose" /\ k <= Len(Out) - LastTurns
                      \/ Classify(normal) = "error" /\ k <= Len(Out) - AfterTurns
  <2>1. IsRepeat(Normalized(Asked), i)
    BY <1>1, <1>3 DEF Traces
  <2>2. PICK j \in 1..(i - 1) :
          /\ ~IsRepeat(Normalized(Asked), j) /\ Asked[j].role = Asked[i].role
          /\ Said(Normalize(Asked[j])) = Said(Normalize(Asked[i]))
    BY <1>2, <2>1, RepeatFacts
  <2>3. j \in 1..Len(Asked)
    BY <1>2
  <2>4. Out # Asked
    BY <1>2, <1>3
  <2>5. PICK k \in 1..Len(Out) :
          Out[k].at = j /\ Out[k] = Outcome(Normalize(Asked[j]), k, Len(Out))
    BY <2>2, <2>3, <2>4, KeptIsSent
  <2>6. Normalize(Asked[j]) \in Msg
    BY <1>2, <2>3, NormalizeAlike DEF Alike
  <2>7. \/ Said(Out[k]) = Said(Normalize(Asked[j]))
        \/ Classify(Normalize(Asked[j])) = "prose" /\ k <= Len(Out) - LastTurns
        \/ Classify(Normalize(Asked[j])) = "error" /\ k <= Len(Out) - AfterTurns
    BY <2>5, <2>6, OutcomeSays
  <2>8. QED
    BY <2>2, <2>5, <2>7
<1>4. QED
  BY <1>3 DEF DroppedIsRepeat

\* What outcome a text that is neither as it was nor normalized can have had.
LEMMA OutcomeText ==
  ASSUME NEW n \in Msg, NEW k, NEW count, NEW i \in 1..Len(n.blocks),
         Outcome(n, k, count).blocks[i].text # n.blocks[i].text
  PROVE  \/ Classify(n) = "prose" /\ k <= count - LastTurns
         \/ /\ Classify(n) = "error" /\ k <= count - AfterTurns
            /\ \/ n.blocks[i].text \in Erred
               \/ Classify(PurgeBlocks(n)) = "prose" /\ k <= count - LastTurns
<1>1. n.blocks[i].text \in Text
  <2>1. n.blocks[i] \in Block
    BY DEF Msg
  <2>2. QED
    BY <2>1 DEF Block
<1>2. PurgeBlocks(n).blocks[i].text # n.blocks[i].text => n.blocks[i].text \in Erred
  BY <1>1, PurgeAlike DEF TextsBy, Purged
<1>3. QED
  BY <1>2 DEF Outcome, Survives, IsPurged, IsCondensed

LEMMA ProseHolds ==
  ASSUME ConvInv
  PROVE  OnlyProseIsCondensed
<1>1. PICK place \in [1..Len(Out) -> 1..Len(Asked)] : Traces(place)
  BY OutShape
<1>2. /\ Asked \in Seq(Msg) /\ Len(Asked) \in 0..Len(conv) /\ Len(conv) \in Nat
      /\ \A i \in 1..Len(Asked) : Asked[i] = conv[i] /\ Asked[i] \in Msg /\ Asked[i].at = i
  <2>1. /\ Asked \in Seq(Msg) /\ Len(Asked) \in 0..Len(conv)
        /\ \A i \in 1..Len(Asked) : Asked[i] = conv[i]
    BY AskedType
  <2>2. conv \in Seq(Msg) /\ Len(conv) \in Nat /\ \A i \in 1..Len(conv) : conv[i].at = i
    BY DEF ConvInv
  <2>3. QED
    BY <2>1, <2>2
<1>3. ASSUME NEW k \in 1..Len(Out), NEW before, before = conv[Out[k].at],
             NEW normal, normal = Normalize(before), NEW i \in DOMAIN before.blocks,
             Out[k].blocks[i].text \notin {before.blocks[i].text, normal.blocks[i].text}
      PROVE  \/ Classify(normal) = "prose" /\ k <= Len(Out) - LastTurns
             \/ /\ Classify(normal) = "error" /\ k <= Len(Out) - AfterTurns
                /\ \/ normal.blocks[i].text \in Erred
                   \/ Classify(PurgeBlocks(normal)) = "prose" /\ k <= Len(Out) - LastTurns
  <2>1. place[k] \in 1..Len(Asked)
    BY <1>1
  <2>2. before = Asked[place[k]] /\ before \in Msg /\ before.at = place[k] /\ Out[k].at = place[k]
    BY <1>1, <1>2, <1>3, <2>1 DEF Traces
  <2>3. CASE Out = Asked
    <3>1. Out[k] = before
      BY <1>2, <1>3, <2>2, <2>3
    <3>2. QED
      BY <1>3, <3>1
  <2>4. CASE /\ Out \in Seq(Msg) /\ Len(Out) = Len(Left(Asked))
             /\ \A n \in 1..Len(Out) : Out[n] = Outcome(Left(Asked)[n], n, Len(Out))
    <3>1. PICK from \in [1..Len(Left(Asked)) -> 1..Len(Asked)] : Placed(Asked, from)
      BY <1>2, Deduped
    <3>2. Left(Asked)[k] = Normalize(Asked[from[k]]) /\ from[k] \in 1..Len(Asked)
      BY <2>4, <3>1 DEF Placed
    <3> DEFINE m == Asked[from[k]]
    <3>3. m \in Msg /\ m.at = from[k] /\ Out[k] = Outcome(Normalize(m), k, Len(Out))
      BY <1>2, <2>4, <3>2
    <3> HIDE DEF m
    <3>4. Alike(m, Normalize(m)) /\ Normalize(m) \in Msg
      BY <3>3, NormalizeAlike DEF Alike
    <3>5. Alike(Normalize(m), Out[k])
      BY <3>3, <3>4, OutcomeAlike
    <3>6. Out[k].at = from[k]
      BY <3>3, <3>4, <3>5 DEF Alike
    <3>7. m = before
      BY <2>2, <3>6 DEF m
    <3>8. normal = Normalize(m) /\ i \in 1..Len(normal.blocks)
      <4>1. normal = Normalize(m) /\ Len(normal.blocks) = Len(before.blocks)
        BY <1>3, <3>4, <3>7 DEF Alike
      <4>2. DOMAIN before.blocks = 1..Len(before.blocks)
        BY <2>2 DEF Msg
      <4>3. QED
        BY <1>3, <4>1, <4>2
    <3>9. QED
      BY <1>3, <3>3, <3>4, <3>8, OutcomeText
  <2>5. QED
    BY <2>3, <2>4, OutCases
<1>4. QED
  BY <1>3 DEF OnlyProseIsCondensed

\* Whatever the strategies and the compressor rewrite, every sent message keeps
\* its role and its blocks, in their order and with their kinds and ids; only
\* the text of text blocks changes, and nothing of a system message.
THEOREM BlocksStay == ConversationSpec => []BlocksIntact
BY ConversationIsCompressed, BlocksHold, PTL

\* No message that belongs to a tool call is ever dropped, and messages are
\* sent in the order in which they were said.
THEOREM LinksStay == ConversationSpec => []NothingOrphaned
BY ConversationIsCompressed, LinksHold, PTL

\* Dedup drops a message only for an earlier one of the same role that says the
\* same and is not dropped itself, also when repeats repeat repeats; the words
\* are sent there, but for prose that is condensed outside of the protected
\* turns and errors purged with age.
THEOREM DropsAreRepeats == ConversationSpec => []DroppedIsRepeat
BY ConversationIsCompressed, DropsHold, PTL

\* Routing, protection and purging: no text is changed beyond its normal form
\* but prose outside of the protected turns, and what an old failure leaves.
THEOREM ProseIsCondensed == ConversationSpec => []OnlyProseIsCondensed
BY ConversationIsCompressed, ProseHolds, PTL

-----------------------------------------------------------------------------
(* Prompt caching: what a longer history begins with stays as it was sent.   *)

LEMMA LeftGrows ==
  ASSUME NEW ms \in Seq(Msg), NEW more \in Seq(Msg), Len(ms) <= Len(more),
         \A i \in 1..Len(ms) : ms[i] = more[i]
  PROVE  /\ Len(Left(ms)) <= Len(Left(more))
         /\ \A k \in 1..Len(Left(ms)) : Left(ms)[k] = Left(more)[k]
<1> DEFINE s == Normalized(ms)
           t == Normalized(more)
<1>0. Len(ms) \in Nat /\ Len(more) \in Nat /\ 1..Len(ms) \subseteq 1..Len(more)
  OBVIOUS
<1>1. /\ s \in Seq(Msg) /\ Len(s) = Len(ms) /\ t \in Seq(Msg) /\ Len(t) = Len(more)
      /\ \A i \in 1..Len(ms) : s[i] = Normalize(ms[i])
      /\ \A i \in 1..Len(more) : t[i] = Normalize(more[i])
  BY NormalizedType
<1>2. /\ Left(ms) = Select(s, Kept(ms)) /\ Left(more) = Select(t, Kept(more))
      /\ Kept(ms) = {i \in 1..Len(ms) : ~IsRepeat(s, i)}
      /\ Kept(more) = {i \in 1..Len(more) : ~IsRepeat(t, i)}
  BY <1>1 DEF Left, Dedup, Kept
<1> HIDE DEF s, t
<1>3. \A i \in 1..Len(ms) : s[i] = t[i]
  BY <1>0, <1>1
<1>4. ASSUME NEW i \in 1..Len(ms) PROVE i \in Kept(ms) <=> i \in Kept(more)
  <2>1. \A j \in 1..i : s[j] = t[j]
    BY <1>0, <1>3
  <2>2. IsRepeat(s, i) <=> IsRepeat(t, i)
    BY <1>0, <2>1 DEF IsRepeat
  <2>3. QED
    BY <1>0, <1>2, <2>2
<1> DEFINE P == Kept(ms)
           Q == Kept(more)
<1>5. \A i \in 1..Len(s) : s[i] = t[i] /\ (i \in P <=> i \in Q)
  BY <1>1, <1>3, <1>4
<1> HIDE DEF P, Q
<1>6. /\ Len(Select(s, P)) <= Len(Select(t, Q))
      /\ \A k \in 1..Len(Select(s, P)) : Select(s, P)[k] = Select(t, Q)[k]
  BY <1>1, <1>5, SelectPrefix
<1>7. QED
  BY <1>2, <1>6 DEF P, Q

\* The same message at the same place, in a longer list: outside of the
\* protected turns of the shorter one, only a failure can have changed.
LEMMA OutcomeStays ==
  ASSUME NEW n \in Msg, NEW k \in Nat, NEW few \in Nat, NEW many \in Nat, few <= many,
         k <= few - LastTurns
  PROVE  LET old == Outcome(n, k, few)
         IN  \/ Outcome(n, k, many) = old
             \/ /\ Classify(old) = "error"
                /\ Outcome(n, k, many) \in {PurgeBlocks(old), Extract(PurgeBlocks(old))}
<1>1. k <= many - LastTurns /\ (k <= few - AfterTurns => k <= many - AfterTurns)
  BY MiddlewareAssumption
<1>2. CASE IsPurged(n, k, few) <=> IsPurged(n, k, many)
  BY <1>1, <1>2 DEF Outcome, Survives, IsCondensed
<1>3. CASE ~(IsPurged(n, k, few) <=> IsPurged(n, k, many))
  <2>1. ~IsPurged(n, k, few) /\ IsPurged(n, k, many) /\ Classify(n) = "error"
    BY <1>1, <1>3 DEF IsPurged
  <2>2. Outcome(n, k, few) = n
    BY <2>1 DEF Outcome, Survives, IsCondensed
  <2>3. Outcome(n, k, many) \in {PurgeBlocks(n), Extract(PurgeBlocks(n))}
    BY <2>1 DEF Outcome, Survives
  <2>4. QED
    BY <2>1, <2>2, <2>3
<1>4. QED
  BY <1>2, <1>3

LEMMA StableStep ==
  ASSUME ConvInv, [ConversationNext]_conversationVars, sent' # sent, sent.inputTokens >= Threshold
  PROVE  SamePrefix
<1> SUFFICES ASSUME NEW k \in 1..(Len(sent.messages) - LastTurns)
             PROVE  LET old == sent.messages[k]
                    IN  /\ k <= Len(sent'.messages)
                        /\ \/ sent'.messages[k] = old
                           \/ /\ Classify(old) = "error"
                              /\ sent'.messages[k] \in {PurgeBlocks(old), Extract(PurgeBlocks(old))}
  BY DEF SamePrefix
<1>1. LastTurns \in Nat /\ Threshold \in Nat
  BY MiddlewareAssumption
<1>2. sent # Unsent
  BY <1>1 DEF Unsent
<1>3. sent = CompressMessages(Asked)
  BY <1>2 DEF ConvInv
<1>4. PICK m \in Messages : conv' = Append(conv, Stamped(m)) /\ sent' = CompressMessages(conv')
  BY DEF ConversationNext, conversationVars, System, Ask, Reply
<1>5. /\ conv \in Seq(Msg) /\ Len(conv) \in Nat /\ Stamped(m) \in Msg
      /\ Asked \in Seq(Msg) /\ Len(Asked) \in 0..Len(conv)
      /\ \A i \in 1..Len(Asked) : Asked[i] = conv[i]
  BY AskedType, StampedType DEF ConvInv
<1>6. /\ conv' \in Seq(Msg) /\ Len(conv') = Len(conv) + 1
      /\ \A i \in 1..Len(conv) : conv'[i] = conv[i]
  BY <1>4, <1>5
<1> DEFINE ms == Asked
           more == conv'
<1>7. /\ ms \in Seq(Msg) /\ more \in Seq(Msg) /\ Len(ms) <= Len(more)
      /\ \A i \in 1..Len(ms) : ms[i] = more[i]
  BY <1>5, <1>6
<1>8. sent = CompressMessages(ms) /\ sent' = CompressMessages(more)
  BY <1>3, <1>4
<1> HIDE DEF ms, more
<1>9. /\ CountTokens(ms) \in Nat /\ CountTokens(more) \in Nat
      /\ CountTokens(ms) <= CountTokens(more) /\ CountTokens(ms) >= Threshold
  BY <1>7, <1>8, CountGrows, Compressed
<1>10. ~(CountTokens(ms) < Threshold) /\ ~(CountTokens(more) < Threshold)
  BY <1>1, <1>9
<1> DEFINE few == Len(Left(ms))
           many == Len(Left(more))
<1>11. /\ Len(sent.messages) = few /\ Len(sent'.messages) = many
       /\ \A n \in 1..few : sent.messages[n] = Outcome(Left(ms)[n], n, few)
       /\ \A n \in 1..many : sent'.messages[n] = Outcome(Left(more)[n], n, many)
  BY <1>7, <1>8, <1>10, Compressed
<1>12. few <= many /\ \A n \in 1..few : Left(ms)[n] = Left(more)[n]
  BY <1>7, LeftGrows
<1>13. few \in Nat /\ many \in Nat /\ \A n \in 1..few : Left(ms)[n] \in Msg
  BY <1>7, Deduped
<1> HIDE DEF few, many
<1>14. k \in Nat /\ k \in 1..few /\ k \in 1..many /\ k <= few - LastTurns
  BY <1>1, <1>11, <1>12, <1>13
<1>15. /\ sent.messages[k] = Outcome(Left(ms)[k], k, few)
       /\ sent'.messages[k] = Outcome(Left(ms)[k], k, many) /\ Left(ms)[k] \in Msg
  BY <1>11, <1>12, <1>13, <1>14
<1>16. QED
  BY <1>11, <1>12, <1>13, <1>14, <1>15, OutcomeStays

\* The README's promise on prompt caching, as far as the code keeps it: from
\* one request over the threshold to the next, what lies outside of the
\* protected turns keeps its place and its bytes, but for a purged failure.
THEOREM PrefixStays == ConversationSpec => StablePrefix
<1>1. ConvInv /\ [ConversationNext]_conversationVars =>
        [sent' # sent /\ sent.inputTokens >= Threshold => SamePrefix]_conversationVars
  BY StableStep
<1>2. QED
  BY <1>1, ConversationIsCompressed, PTL DEF ConversationSpec, StablePrefix

-----------------------------------------------------------------------------
(* A sampling request: what comes back goes to the message it came from.     *)

LEMMA SaidNothing ==
  ASSUME NEW m \in Msg, Said(m) = <<>>
  PROVE  Said(Normalize(m)) = <<>>
<1>1. CASE m.role = "system"
  BY <1>1, NormalizeAlike
<1>2. CASE m.role # "system"
  <2>1. Classify(m) = "unknown"
    <3>1. ToSet(Said(m)) = {}
      BY DEF ToSet
    <3>2. QED
      BY <3>1 DEF Classify
  <2>2. EmptyText \in Text /\ Normal("unknown")[EmptyText] = EmptyText
    BY MiddlewareAssumption DEF Normal, NormalForm
  <2>3. /\ Alike(m, Normalize(m)) /\ Normalize(m) \in Msg
        /\ TextsBy(m, Normalize(m), Normal("unknown"))
    BY <1>2, <2>1, NormalizeAlike DEF Alike
  <2>4. \A i \in 1..Len(m.blocks) : m.blocks[i].text = EmptyText
    BY SaidType
  <2>5. \A i \in 1..Len(m.blocks) : Normalize(m).blocks[i].text = EmptyText
    BY <2>2, <2>3, <2>4 DEF TextsBy
  <2>6. Len(Normalize(m).blocks) = Len(m.blocks)
    BY <2>3 DEF Alike
  <2>7. QED
    BY <2>3, <2>5, <2>6, SaidType
<1>3. QED
  BY <1>1, <1>2

\* Where no message repeats another, each is sent, at its place.
LEMMA NoneDropped ==
  ASSUME NEW ms \in Seq(Msg), \A i \in 1..Len(ms) : ~IsRepeat(Normalized(ms), i)
  PROVE  /\ Len(CompressMessages(ms).messages) = Len(ms)
         /\ \A i \in 1..Len(ms) : Alike(ms[i], CompressMessages(ms).messages[i])
<1> DEFINE out == CompressMessages(ms).messages
           ns == Normalized(ms)
<1>1. ns \in Seq(Msg) /\ Len(ns) = Len(ms) /\ \A i \in 1..Len(ms) : ns[i] = Normalize(ms[i])
  BY NormalizedType
<1>2. 1..Len(ns) \subseteq Kept(ms) /\ Left(ms) = Select(ns, Kept(ms))
  BY <1>1 DEF Kept, Left, Dedup
<1> HIDE DEF ns
<1>3. Left(ms) = ns
  BY <1>1, <1>2, SelectAll
<1>4. CASE CountTokens(ms) < Threshold
  <2>1. out = ms
    BY <1>4, Compressed
  <2>2. \A i \in 1..Len(ms) : ms[i] \in Msg
    OBVIOUS
  <2>3. QED
    BY <2>1, <2>2, AlikeSelf
<1>5. CASE ~(CountTokens(ms) < Threshold)
  <2>1. /\ Len(out) = Len(ms)
        /\ \A i \in 1..Len(ms) : out[i] = Outcome(Normalize(ms[i]), i, Len(ms))
    BY <1>1, <1>3, <1>5, Compressed
  <2> HIDE DEF out
  <2>2. ASSUME NEW i \in 1..Len(ms) PROVE Alike(ms[i], out[i])
    <3>1. ms[i] \in Msg /\ Alike(ms[i], Normalize(ms[i]))
      BY NormalizeAlike
    <3>2. Normalize(ms[i]) \in Msg
      BY <3>1 DEF Alike
    <3>3. Alike(Normalize(ms[i]), out[i])
      BY <2>1, <3>2, OutcomeAlike
    <3>4. QED
      BY <3>1, <3>3, AlikeBoth
  <2>3. QED
    BY <2>1, <2>2 DEF out
<1>6. QED
  BY <1>4, <1>5

LEMMA WrapType ==
  ASSUME NEW ms \in Seq(Msg)
  PROVE  Wrap(ms) \in Seq(Msg) /\ \A i \in 1..Len(Wrap(ms)) : Wrap(ms)[i].at = i
<1> DEFINE places == {i \in 1..Len(ms) :
                        Len(ms[i].blocks) = 1 /\ ~Linked(ms[i]) /\ ms[i].role # "system"}
           single == Select(ms, places)
<1> HIDE DEF places
<1>1. single \in Seq(Msg) /\ Len(single) \in Nat
  BY SelectShape
<1>2. Wrap(ms) = [i \in 1..Len(single) |-> [single[i] EXCEPT !.at = i]]
  BY DEF Wrap, places
<1> HIDE DEF single
<1>3. ASSUME NEW i \in 1..Len(single)
      PROVE  [single[i] EXCEPT !.at = i] \in Msg /\ [single[i] EXCEPT !.at = i].at = i
  <2>1. single[i] \in Msg /\ i \in Nat
    BY <1>1
  <2>2. QED
    BY <2>1 DEF Msg
<1> DEFINE New(i) == [single[i] EXCEPT !.at = i]
           new == [i \in 1..Len(single) |-> New(i)]
<1> HIDE DEF New
<1>4. \A i \in 1..Len(single) : New(i) \in Msg /\ New(i).at = i
  BY <1>3 DEF New
<1>5. new \in Seq(Msg) /\ Len(new) = Len(single) /\ \A i \in 1..Len(single) : new[i] = New(i)
  BY <1>1, <1>4
<1>6. Wrap(ms) = new
  BY <1>2 DEF New
<1> HIDE DEF new
<1>7. QED
  BY <1>4, <1>5, <1>6

LEMMA PlacesHold ==
  ASSUME ConvInv
  PROVE  DistinctKeepPlaces
<1> DEFINE request == Wrap(conv)
           relayed == CompressSampling(request)
           out == CompressMessages(request).messages
<1>1. request \in Seq(Msg) /\ \A i \in 1..Len(request) : request[i].at = i
  BY WrapType DEF ConvInv
<1>2. relayed = [i \in 1..Len(out) |-> [out[i] EXCEPT !.role = request[i].role]]
  BY DEF CompressSampling, Unwrap
<1> HIDE DEF request, relayed
<1> SUFFICES ASSUME \A m, n \in ToSet(request) :
                      \/ m.at = n.at \/ m.role # n.role \/ Said(m) = <<>>
                      \/ Said(Normalize(m)) # Said(Normalize(n))
             PROVE  /\ Len(relayed) = Len(request)
                    /\ \A i \in 1..Len(relayed) :
                         relayed[i].at = i /\ relayed[i].role = request[i].role
  BY DEF DistinctKeepPlaces, request, relayed
<1>3. ASSUME NEW i \in 1..Len(request) PROVE ~IsRepeat(Normalized(request), i)
  <2> SUFFICES ASSUME IsRepeat(Normalized(request), i) PROVE FALSE
    OBVIOUS
  <2>1. PICK j \in 1..(i - 1) :
          /\ request[j].role = request[i].role
          /\ Said(Normalize(request[j])) = Said(Normalize(request[i]))
          /\ Said(Normalize(request[j])) # <<>>
    BY <1>1, RepeatFacts
  <2>2. /\ j \in 1..Len(request) /\ request[j] \in Msg
        /\ request[j].at = j /\ request[i].at = i /\ i # j
    BY <1>1
  <2>3. request[i] \in ToSet(request) /\ request[j] \in ToSet(request)
    BY <1>1, <2>2 DEF ToSet
  <2>4. Said(request[j]) = <<>>
    BY <2>1, <2>2, <2>3
  <2>5. QED
    BY <2>1, <2>2, <2>4, SaidNothing
<1>4. /\ Len(out) = Len(request)
      /\ \A i \in 1..Len(request) : Alike(request[i], out[i])
  BY <1>1, <1>3, NoneDropped
<1> HIDE DEF out
<1>5. ASSUME NEW i \in 1..Len(request)
      PROVE  relayed[i].at = i /\ relayed[i].role = request[i].role
  <2>1. out[i] \in Msg /\ out[i].at = i
    BY <1>1, <1>4 DEF Alike
  <2>2. relayed[i] = [out[i] EXCEPT !.role = request[i].role]
    BY <1>2, <1>4
  <2>3. QED
    BY <2>1, <2>2 DEF Msg
<1>6. Len(request) \in Nat /\ Len(relayed) = Len(request)
  BY <1>1, <1>2, <1>4
<1>7. QED
  BY <1>5, <1>6

\* A sampling request none of whose messages repeats another comes back with
\* each content in the message, and under the role, that it was sent with.
THEOREM PlacesStay == ConversationSpec => []DistinctKeepPlaces
BY ConversationIsCompressed, PlacesHold, PTL

-----------------------------------------------------------------------------
(* The Rust port: the same, function by function.                            *)

LEMMA MarksFacts ==
  ASSUME NEW m \in Msg
  PROVE  /\ "error" \in Marks(Said(m)) <=> \E i \in DOMAIN Said(m) : Said(m)[i] \in Erred
         /\ "code" \in Marks(Said(m)) <=> Total(CodeLines, Said(m)) >= 2
         /\ "structured" \in Marks(Said(m)) <=>
              /\ Total(Hundreds, Said(m)) >= 2
              /\ Total(Keys, Said(m)) * 10 >= Total(Hundreds, Said(m))
         /\ ToSet(Said(m)) \subseteq Blank <=> \A i \in DOMAIN Said(m) : Said(m)[i] \in Blank
         /\ ToSet(Said(m)) \cap Erred # {} <=> \E i \in DOMAIN Said(m) : Said(m)[i] \in Erred
         /\ Total(CodeLines, Said(m)) \in Nat /\ Total(Hundreds, Said(m)) \in Nat
         /\ Total(Keys, Said(m)) \in Nat
<1> DEFINE said == Said(m)
<1>1. /\ ToSet(said) \subseteq Blank <=> \A i \in DOMAIN said : said[i] \in Blank
      /\ ToSet(said) \cap Erred # {} <=> \E i \in DOMAIN said : said[i] \in Erred
  BY DEF ToSet
<1>2. /\ CodeLines \in [Text -> Nat] /\ Hundreds \in [Text -> Nat] /\ Keys \in [Text -> Nat]
      /\ said \in Seq(Text)
  BY SaidType, MiddlewareAssumption
<1> HIDE DEF said
<1>3. /\ Total(CodeLines, said) \in Nat /\ Total(Hundreds, said) \in Nat
      /\ Total(Keys, said) \in Nat
  BY <1>2, TotalNat
<1>4. "error" \in Marks(said) <=> ToSet(said) \cap Erred # {}
  BY DEF Marks
<1>5. "code" \in Marks(said) <=> Total(CodeLines, said) >= 2
  BY DEF Marks
<1>6. "structured" \in Marks(said) <=>
        Total(Hundreds, said) >= 2 /\ Total(Keys, said) * 10 >= Total(Hundreds, said)
  BY DEF Marks
<1>7. QED
  BY <1>1, <1>3, <1>4, <1>5, <1>6 DEF said

LEMMA RustClassifies ==
  ASSUME NEW m \in Msg
  PROVE  RustClassify(m) = Classify(m)
BY MarksFacts DEF RustClassify, Classify

LEMMA ChooseOnly ==
  ASSUME NEW e
  PROVE  (CHOOSE b \in {e} : TRUE) = e
OBVIOUS

\* A message is the same with other blocks that are the same.
LEMMA SameBlocks ==
  ASSUME NEW m \in Msg, NEW bs, DOMAIN bs = DOMAIN m.blocks, bs = [i \in DOMAIN bs |-> bs[i]],
         \A i \in DOMAIN m.blocks : bs[i] = m.blocks[i]
  PROVE  [m EXCEPT !.blocks = bs] = m
<1>1. bs = m.blocks
  <2>1. m.blocks = [i \in DOMAIN m.blocks |-> m.blocks[i]]
    BY DEF Msg
  <2>2. QED
    BY <2>1
<1>2. QED
  BY <1>1 DEF Msg

LEMMA RustNormalizes ==
  ASSUME NEW m \in Msg
  PROVE  RustNormalize(m) = Normalize(m)
<1> DEFINE class == Classify(m)
           Rs(b) == RustNormalizeBlock(b, RustClassify(m))
           R(b) == IF Rs(b) = {} THEN b ELSE CHOOSE c \in Rs(b) : TRUE
           N(b) == IF b.kind = "text" THEN [b EXCEPT !.text = NormalForm(b.text, class)] ELSE b
<1>1. \A i \in DOMAIN m.blocks : m.blocks[i] \in Block
  BY DEF Msg
<1>2. ASSUME NEW b \in Block PROVE R(b) = N(b) /\ (Rs(b) = {} => N(b) = b)
  <2> DEFINE new == [b EXCEPT !.text = NormalForm(b.text, class)]
  <2>1. Rs(b) = IF b.kind = "text" /\ NormalForm(b.text, class) # b.text THEN {new} ELSE {}
    BY RustClassifies DEF RustNormalizeBlock, NormalForm
  <2>2. NormalForm(b.text, class) = b.text => new = b
    BY DEF Block
  <2> HIDE DEF new, Rs
  <2>3. CASE b.kind = "text" /\ NormalForm(b.text, class) # b.text
    <3>1. Rs(b) = {new} /\ Rs(b) # {} /\ N(b) = new
      BY <2>1, <2>3 DEF new
    <3>2. R(b) = new
      BY <3>1, ChooseOnly
    <3>3. QED
      BY <3>1, <3>2
  <2>4. CASE ~(b.kind = "text" /\ NormalForm(b.text, class) # b.text)
    <3>1. Rs(b) = {} /\ N(b) = b
      BY <2>1, <2>2, <2>4 DEF new
    <3>2. QED
      BY <3>1
  <2>5. QED
    BY <2>3, <2>4
<1>3. Normalize(m) = IF m.role = "system" THEN m
                     ELSE [m EXCEPT !.blocks = [i \in DOMAIN m.blocks |-> N(m.blocks[i])]]
  BY DEF Normalize, Rewrite
<1>4. RustNormalize(m) =
        IF m.role # "system" /\ \E i \in DOMAIN m.blocks : Rs(m.blocks[i]) # {}
        THEN [m EXCEPT !.blocks = [i \in DOMAIN m.blocks |-> R(m.blocks[i])]] ELSE m
  BY DEF RustNormalize
<1> HIDE DEF Rs, R, N
<1>5. [i \in DOMAIN m.blocks |-> R(m.blocks[i])] = [i \in DOMAIN m.blocks |-> N(m.blocks[i])]
  BY <1>1, <1>2
<1>6. ASSUME \A i \in DOMAIN m.blocks : Rs(m.blocks[i]) = {}
      PROVE  [m EXCEPT !.blocks = [i \in DOMAIN m.blocks |-> N(m.blocks[i])]] = m
  <2> DEFINE bs == [i \in DOMAIN m.blocks |-> N(m.blocks[i])]
  <2>1. /\ DOMAIN bs = DOMAIN m.blocks /\ bs = [i \in DOMAIN bs |-> bs[i]]
        /\ \A i \in DOMAIN m.blocks : bs[i] = m.blocks[i]
    BY <1>1, <1>2, <1>6
  <2> HIDE DEF bs
  <2>2. [m EXCEPT !.blocks = bs] = m
    BY <2>1, SameBlocks
  <2>3. QED
    BY <2>2 DEF bs
<1>7. QED
  BY <1>3, <1>4, <1>5, <1>6

LEMMA RustDedups ==
  ASSUME NEW ms \in Seq(Msg)
  PROVE  RustDedup(ms) = Dedup(ms)
<1>1. \A i \in 1..Len(ms) : RustKey(ms[i]) = Key(ms[i])
  BY DEF RustKey, Key
<1>2. ASSUME NEW i \in 1..Len(ms)
      PROVE  RustKey(ms[i]) \cap RustSeen(ms, i) = {} <=> ~IsRepeat(ms, i)
  <2>1. \A j \in 1..(i - 1) : RustKey(ms[j]) = Key(ms[j])
    BY <1>1
  <2>2. RustKey(ms[i]) = Key(ms[i])
    BY <1>1
  <2>3. QED
    BY <2>1, <2>2 DEF RustSeen, IsRepeat
<1>3. {i \in 1..Len(ms) : RustKey(ms[i]) \cap RustSeen(ms, i) = {}}
        = {i \in 1..Len(ms) : ~IsRepeat(ms, i)}
  BY <1>2
<1>4. QED
  BY <1>3 DEF RustDedup, Dedup

\* Subtraction does not wrap where the minuend is larger and in range.
LEMMA MinusFits ==
  ASSUME NEW a \in Nat, NEW b \in Nat, b <= a, Usize \in Nat, a < Usize
  PROVE  Minus(a, b) = a - b
BY DEF Minus

LEMMA RustPurges ==
  ASSUME NEW ms \in Seq(Msg), Len(ms) < Usize
  PROVE  RustPurge(ms) = Purge(ms)
<1>1. Len(ms) \in Nat /\ AfterTurns \in Nat /\ Usize \in Nat
  BY MiddlewareAssumption, PortsAssumption
<1>2. ASSUME NEW m \in Msg
      PROVE  [m EXCEPT !.blocks = [n \in DOMAIN m.blocks |-> RustPurgeBlock(m.blocks[n])]] = PurgeBlocks(m)
  <2> DEFINE New(b) == IF b.kind = "text"
                       THEN [b EXCEPT !.text = IF b.text \in Erred THEN Placeholder ELSE b.text] ELSE b
  <2>1. ASSUME NEW b \in Block PROVE RustPurgeBlock(b) = New(b)
    BY DEF RustPurgeBlock, Block
  <2>2. \A n \in DOMAIN m.blocks : m.blocks[n] \in Block
    BY DEF Msg
  <2>3. PurgeBlocks(m) = [m EXCEPT !.blocks = [n \in DOMAIN m.blocks |-> New(m.blocks[n])]]
    BY DEF PurgeBlocks, Rewrite
  <2> HIDE DEF New
  <2>4. QED
    BY <2>1, <2>2, <2>3
<1>3. \A i \in 1..Len(ms) : ms[i] \in Msg /\ RustClassify(ms[i]) = Classify(ms[i])
  BY RustClassifies
<1> DEFINE P(i) == IF i <= Len(ms) - AfterTurns /\ ms[i].role # "system" /\ Classify(ms[i]) = "error"
                   THEN PurgeBlocks(ms[i]) ELSE ms[i]
<1>4. Purge(ms) = [i \in 1..Len(ms) |-> P(i)]
  BY DEF Purge
<1>5. CASE Len(ms) <= AfterTurns
  <2>1. \A i \in 1..Len(ms) : P(i) = ms[i]
    BY <1>1, <1>5
  <2> HIDE DEF P
  <2>2. ms = [i \in 1..Len(ms) |-> ms[i]]
    OBVIOUS
  <2>3. QED
    BY <1>4, <1>5, <2>1, <2>2 DEF RustPurge
<1>6. CASE ~(Len(ms) <= AfterTurns)
  <2>1. Minus(Len(ms), AfterTurns) = Len(ms) - AfterTurns
    BY <1>1, <1>6, MinusFits
  <2>2. ASSUME NEW i \in 1..Len(ms) PROVE RustPurgeOne(ms, i, Len(ms) - AfterTurns) = P(i)
    <3>1. i - 1 >= Len(ms) - AfterTurns <=> ~(i <= Len(ms) - AfterTurns)
      BY <1>1
    <3>2. [ms[i] EXCEPT !.blocks = [n \in DOMAIN ms[i].blocks |-> RustPurgeBlock(ms[i].blocks[n])]]
            = PurgeBlocks(ms[i])
      BY <1>2, <1>3
    <3>3. QED
      BY <1>3, <3>1, <3>2 DEF RustPurgeOne
  <2> HIDE DEF P
  <2>3. RustPurge(ms) = [i \in 1..Len(ms) |-> RustPurgeOne(ms, i, Len(ms) - AfterTurns)]
    BY <1>6, <2>1 DEF RustPurge
  <2>4. QED
    BY <1>4, <2>2, <2>3
<1>7. QED
  BY <1>5, <1>6

LEMMA StrategiesType ==
  ASSUME NEW ms \in Seq(Msg)
  PROVE  /\ Strategies(ms) \in Seq(Msg) /\ Strategies(ms) = Purge(Left(ms))
         /\ Left(ms) \in Seq(Msg) /\ Len(Left(ms)) <= Len(ms)
<1> DEFINE left == Left(ms)
<1>1. Strategies(ms) = Purge(left)
  BY DEF Strategies, Left, Normalized
<1>2. left \in Seq(Msg)
  BY Deduped
<1>3. Len(left) <= Len(ms)
  <2>1. Normalized(ms) \in Seq(Msg) /\ Len(Normalized(ms)) = Len(ms)
    BY NormalizedType
  <2>2. QED
    BY <2>1, SelectLen DEF Left, Dedup
<1> HIDE DEF left
<1>4. Purge(left) = [k \in 1..Len(left) |-> Survives(left[k], k, Len(left))]
  BY DEF Purge, Survives, IsPurged
<1>5. \A k \in 1..Len(left) : Survives(left[k], k, Len(left)) \in Msg
  <2> SUFFICES ASSUME NEW k \in 1..Len(left) PROVE Survives(left[k], k, Len(left)) \in Msg
    OBVIOUS
  <2>1. left[k] \in Msg
    BY <1>2
  <2>2. QED
    BY <2>1, OutcomeAlike DEF Alike
<1>6. Purge(left) \in Seq(Msg)
  BY <1>2, <1>4, <1>5
<1>7. QED
  BY <1>1, <1>2, <1>3, <1>6 DEF left

LEMMA RustCompresses ==
  ASSUME NEW ms \in Seq(Msg), Len(ms) < Usize
  PROVE  RustCompressMessages(ms) = CompressMessages(ms)
<1> DEFINE left == Strategies(ms)
           Rust(i) == IF RustIsProtected(i - 1, Len(left), left[i])
                      THEN "verbatim" ELSE RustRoute(RustClassify(left[i]))
           all == [i \in 1..Len(left) |-> Compress(Rust(i), left[i])]
           out == [i \in 1..Len(left) |-> Compress(Pick(left, i), left[i])]
<1>1. [i \in 1..Len(ms) |-> RustNormalize(ms[i])] = Normalized(ms)
  <2>1. \A i \in 1..Len(ms) : RustNormalize(ms[i]) = Normalize(ms[i])
    BY RustNormalizes
  <2>2. QED
    BY <2>1 DEF Normalized
<1>2. RustDedup(Normalized(ms)) = Left(ms)
  BY NormalizedType, RustDedups DEF Left
<1>3. RustPurge(Left(ms)) = left /\ left \in Seq(Msg)
  <2>1. Len(Left(ms)) < Usize /\ Left(ms) \in Seq(Msg)
    BY StrategiesType, PortsAssumption
  <2>2. QED
    BY <2>1, StrategiesType, RustPurges
<1>4. RustPurge(RustDedup([i \in 1..Len(ms) |-> RustNormalize(ms[i])])) = left
  BY <1>1, <1>2, <1>3
<1> HIDE DEF left
<1>5. ASSUME NEW i \in 1..Len(left) PROVE Rust(i) = Pick(left, i)
  <2>1. left[i] \in Msg /\ Len(left) \in Nat /\ LastTurns \in Nat
    BY <1>3, MiddlewareAssumption
  <2>2. (i - 1) + LastTurns >= Len(left) <=> i > Len(left) - LastTurns
    BY <2>1
  <2>3. RustClassify(left[i]) = Classify(left[i])
    BY <2>1, RustClassifies
  <2>4. QED
    BY <2>2, <2>3 DEF Pick, IsProtected, Route, RustRoute, RustIsProtected
<1>6. all = out
  <2> HIDE DEF Rust
  <2>1. QED
    BY <1>5
<1>7. RustCompressMessages(ms) =
        IF CountTokens(ms) < Threshold
        THEN [messages |-> ms, inputTokens |-> CountTokens(ms), outputTokens |-> CountTokens(ms)]
        ELSE [messages |-> all, inputTokens |-> CountTokens(ms), outputTokens |-> CountTokens(all)]
  BY <1>4 DEF RustCompressMessages
<1>8. CompressMessages(ms) =
        IF CountTokens(ms) < Threshold
        THEN [messages |-> ms, inputTokens |-> CountTokens(ms), outputTokens |-> CountTokens(ms)]
        ELSE [messages |-> out, inputTokens |-> CountTokens(ms), outputTokens |-> CountTokens(out)]
  BY DEF CompressMessages, Finish, left
<1> HIDE DEF Rust, all, out
<1>9. QED
  BY <1>6, <1>7, <1>8

-----------------------------------------------------------------------------
(* The Go port, whose loops carry accumulators.                              *)

LEMMA GoClassifies ==
  ASSUME NEW m \in Msg
  PROVE  GoClassify(m) = Classify(m)
BY MarksFacts DEF GoClassify, Classify

LEMMA GoNormalizes ==
  ASSUME NEW ms \in Seq(Msg)
  PROVE  GoNormalize(ms) = Normalized(ms)
<1> DEFINE Go(m) == WithBlocks(m, LAMBDA b : GoNormalizeBlock(b, GoClassify(m)))
           Ref(m) == Rewrite(m, LAMBDA t : NormalForm(t, Classify(m)))
<1>1. ASSUME NEW m \in Msg PROVE Go(m) = Ref(m)
  <2> DEFINE G(b) == GoNormalizeBlock(b, GoClassify(m))
             N(b) == IF b.kind = "text" THEN [b EXCEPT !.text = NormalForm(b.text, Classify(m))] ELSE b
  <2>1. ASSUME NEW b \in Block PROVE G(b) = N(b)
    BY GoClassifies DEF GoNormalizeBlock, GoNormalizeSpan, NormalForm
  <2>2. \A n \in DOMAIN m.blocks : m.blocks[n] \in Block
    BY DEF Msg
  <2> HIDE DEF G, N
  <2>3. [n \in DOMAIN m.blocks |-> G(m.blocks[n])] = [n \in DOMAIN m.blocks |-> N(m.blocks[n])]
    BY <2>1, <2>2
  <2>4. QED
    BY <2>3 DEF WithBlocks, Rewrite, G, N
<1>2. GoNormalize(ms) = [i \in 1..Len(ms) |-> IF ms[i].role = "system" THEN ms[i] ELSE Go(ms[i])]
  BY DEF GoNormalize
<1>3. \A i \in 1..Len(ms) :
        Normalize(ms[i]) = IF ms[i].role = "system" THEN ms[i] ELSE Ref(ms[i])
  BY DEF Normalize
<1> HIDE DEF Go, Ref
<1>4. \A i \in 1..Len(ms) :
        Normalize(ms[i]) = IF ms[i].role = "system" THEN ms[i] ELSE Go(ms[i])
  BY <1>1, <1>3
<1>5. QED
  BY <1>2, <1>4 DEF Normalized

LEMMA GoPurges ==
  ASSUME NEW ms \in Seq(Msg)
  PROVE  GoPurge(ms) = Purge(ms)
<1>1. Len(ms) \in Nat /\ AfterTurns \in Nat /\ GoAfterTurns = AfterTurns
  BY MiddlewareAssumption, PortsAssumption DEF GoAfterTurns, GoDefault
<1>2. ASSUME NEW m \in Msg PROVE WithBlocks(m, GoPurgeBlock) = PurgeBlocks(m)
  <2> DEFINE N(b) == IF b.kind = "text"
                     THEN [b EXCEPT !.text = IF b.text \in Erred THEN Placeholder ELSE b.text] ELSE b
  <2>1. ASSUME NEW b \in Block PROVE GoPurgeBlock(b) = N(b)
    BY DEF GoPurgeBlock, Block
  <2>2. \A n \in DOMAIN m.blocks : m.blocks[n] \in Block
    BY DEF Msg
  <2>3. WithBlocks(m, GoPurgeBlock)
          = [m EXCEPT !.blocks = [n \in DOMAIN m.blocks |-> GoPurgeBlock(m.blocks[n])]]
    BY DEF WithBlocks
  <2>4. PurgeBlocks(m) = [m EXCEPT !.blocks = [n \in DOMAIN m.blocks |-> N(m.blocks[n])]]
    BY DEF PurgeBlocks, Rewrite
  <2> HIDE DEF N
  <2>5. [n \in DOMAIN m.blocks |-> GoPurgeBlock(m.blocks[n])]
          = [n \in DOMAIN m.blocks |-> N(m.blocks[n])]
    BY <2>1, <2>2
  <2>6. QED
    BY <2>3, <2>4, <2>5
<1>3. \A i \in 1..Len(ms) : /\ ms[i] \in Msg /\ GoClassify(ms[i]) = Classify(ms[i])
                            /\ WithBlocks(ms[i], GoPurgeBlock) = PurgeBlocks(ms[i])
  BY <1>2, GoClassifies
<1> DEFINE P(i) == IF i <= Len(ms) - AfterTurns /\ ms[i].role # "system" /\ Classify(ms[i]) = "error"
                   THEN PurgeBlocks(ms[i]) ELSE ms[i]
           G(i) == IF i - 1 >= Len(ms) - AfterTurns \/ ms[i].role = "system" \/ GoClassify(ms[i]) # "error"
                   THEN ms[i] ELSE WithBlocks(ms[i], GoPurgeBlock)
<1>4. Purge(ms) = [i \in 1..Len(ms) |-> P(i)]
  BY DEF Purge
<1>5. GoPurge(ms) = IF Len(ms) <= AfterTurns THEN ms ELSE [i \in 1..Len(ms) |-> G(i)]
  BY <1>1 DEF GoPurge
<1>6. \A i \in 1..Len(ms) : G(i) = P(i)
  <2> SUFFICES ASSUME NEW i \in 1..Len(ms) PROVE G(i) = P(i)
    OBVIOUS
  <2>1. i - 1 >= Len(ms) - AfterTurns <=> ~(i <= Len(ms) - AfterTurns)
    BY <1>1
  <2>2. QED
    BY <1>3, <2>1
<1>7. Len(ms) <= AfterTurns => \A i \in 1..Len(ms) : P(i) = ms[i]
  BY <1>1
<1> HIDE DEF P, G
<1>8. ms = [i \in 1..Len(ms) |-> ms[i]]
  OBVIOUS
<1>9. QED
  BY <1>4, <1>5, <1>6, <1>7, <1>8

\* Where the loop has come to after i messages: what the keys of these are,
\* and those of them that repeat nothing.
LEMMA GoDedups ==
  ASSUME NEW ms \in Seq(Msg)
  PROVE  GoDedup(ms) = Dedup(ms)
<1> DEFINE n == Len(ms)
           Seen(i) == UNION {Key(ms[j]) : j \in 1..i}
           One(acc, m) ==
             [seen |-> IF GoRepeatKey(m).ok THEN acc.seen \cup {GoRepeatKey(m).key} ELSE acc.seen,
              out  |-> IF GoIsRepeat(acc.seen, m) THEN acc.out ELSE Append(acc.out, m)]
           Body(f) == [i \in 0..n |->
                         IF i = 0 THEN [seen |-> {}, out |-> <<>>] ELSE One(f[i - 1], ms[i])]
           after == CHOOSE f : f = Body(f)
           places == {i \in 1..Len(ms) : ~IsRepeat(ms, i)}
<1>1. GoDedup(ms) = after[n].out
  BY DEF GoDedup
<1>2. Dedup(ms) = Select(ms, places)
  BY DEF Dedup
<1> HIDE DEF places
<1>3. PICK upTo \in [0..Len(ms) -> Seq(Msg)] : Selects(upTo, ms, places)
  BY SelectRec
<1> DEFINE w == [i \in 0..n |-> [seen |-> Seen(i), out |-> upTo[i]]]
<1>4. n \in Nat /\ \A i \in 1..n : ms[i] \in Msg
  OBVIOUS
<1>5. ASSUME NEW i \in 1..n PROVE One(w[i - 1], ms[i]) = w[i]
  <2>1. /\ i \in 0..n /\ i - 1 \in 0..n
        /\ w[i] = [seen |-> Seen(i), out |-> upTo[i]]
        /\ w[i - 1] = [seen |-> Seen(i - 1), out |-> upTo[i - 1]]
    <3>1. i \in 0..n /\ i - 1 \in 0..n
      BY <1>4
    <3> HIDE DEF Seen, n
    <3>2. QED
      BY <3>1
  <2> HIDE DEF w
  <2>2. Seen(i) = Seen(i - 1) \cup Key(ms[i])
    <3>1. 1..i = 1..(i - 1) \cup {i}
      BY <1>4
    <3>2. QED
      BY <3>1
  <2>3. IsRepeat(ms, i) <=> Key(ms[i]) \cap Seen(i - 1) # {}
    BY DEF IsRepeat
  <2> HIDE DEF Seen
  <2>4. /\ GoRepeatKey(ms[i]).ok => Key(ms[i]) = {GoRepeatKey(ms[i]).key}
        /\ ~GoRepeatKey(ms[i]).ok => Key(ms[i]) = {}
    BY DEF GoRepeatKey, Key
  <2>5. GoIsRepeat(Seen(i - 1), ms[i]) <=> i \notin places
    BY <2>3, <2>4 DEF GoIsRepeat, places
  <2>6. upTo[i] = IF i \in places THEN Append(upTo[i - 1], ms[i]) ELSE upTo[i - 1]
    BY <1>3 DEF Selects
  <2>7. One(w[i - 1], ms[i]).seen = Seen(i)
    BY <2>1, <2>2, <2>4
  <2>8. One(w[i - 1], ms[i]).out = upTo[i]
    BY <2>1, <2>5, <2>6
  <2>9. QED
    BY <2>1, <2>7, <2>8
<1>6. w[0] = [seen |-> {}, out |-> <<>>]
  <2>1. Seen(0) = {} /\ upTo[0] = <<>> /\ 0 \in 0..n
    BY <1>3, <1>4 DEF Selects
  <2> HIDE DEF Seen
  <2>2. QED
    BY <2>1
<1>7. w = [i \in 0..n |-> w[i]]
  OBVIOUS
<1> HIDE DEF w, One, Seen
<1>8. w = Body(w)
  <2>1. \A i \in 0..n : w[i] = IF i = 0 THEN [seen |-> {}, out |-> <<>>] ELSE One(w[i - 1], ms[i])
    BY <1>4, <1>5, <1>6
  <2> HIDE DEF n
  <2>2. QED
    BY <1>7, <2>1
<1> HIDE DEF Body
<1>9. after = Body(after)
  BY <1>8
<1> HIDE DEF after, n
<1>10. \A i \in 0..n : after[i] = IF i = 0 THEN [seen |-> {}, out |-> <<>>] ELSE One(after[i - 1], ms[i])
  BY <1>9 DEF Body
<1> DEFINE T == {i \in 0..n : after[i] = w[i]}
<1>11. 0 \in T
  BY <1>4, <1>6, <1>10
<1>12. ASSUME NEW i \in 1..n, i - 1 \in T PROVE i \in T
  <2>1. i \in 0..n /\ i # 0 /\ after[i - 1] = w[i - 1]
    BY <1>4, <1>12
  <2>2. after[i] = w[i]
    BY <1>5, <1>10, <2>1
  <2>3. QED
    BY <2>1, <2>2
<1> HIDE DEF T
<1>13. \A i \in 0..n : i \in T
  BY <1>4, <1>11, <1>12, InductionUpTo
<1>14. after[n] = w[n] /\ n \in 0..n
  BY <1>4, <1>13 DEF T
<1>15. w[n].out = upTo[n]
  BY <1>14 DEF w
<1>16. QED
  BY <1>1, <1>2, <1>3, <1>14, <1>15 DEF Selects, n

\* The last loop: after i messages, what has been sent of them and its tokens.
LEMMA GoCompresses ==
  ASSUME NEW ms \in Seq(Msg)
  PROVE  GoCompressMessages(ms) = CompressMessages(ms)
<1> DEFINE left == GoPurge(GoDedup(GoNormalize(ms)))
           n == Len(left)
           Go(i) == IF GoIsProtected(i - 1, Len(left), left[i])
                    THEN "verbatim" ELSE GoRoute(GoClassify(left[i]))
           New(i) == Compress(Go(i), left[i])
           One(acc, i) == [out |-> Append(acc.out, New(i)),
                           totalOut |-> acc.totalOut + Total(Tokens, Said(New(i)))]
           Body(f) == [i \in 0..n |->
                         IF i = 0 THEN [out |-> <<>>, totalOut |-> 0] ELSE One(f[i - 1], i)]
           after == CHOOSE f : f = Body(f)
           new == [i \in 1..n |-> New(i)]
           Count(i) == Total(Tokens, Said(new[i]))
<1>1. left = Strategies(ms) /\ left \in Seq(Msg)
  <2>1. GoNormalize(ms) = Normalized(ms) /\ Normalized(ms) \in Seq(Msg)
    BY GoNormalizes, NormalizedType
  <2>2. GoDedup(GoNormalize(ms)) = Left(ms)
    BY <2>1, GoDedups DEF Left
  <2>3. QED
    BY <2>2, StrategiesType, GoPurges
<1>2. GoCompressMessages(ms) =
        IF CountTokens(ms) < Threshold
        THEN [messages |-> ms, inputTokens |-> CountTokens(ms), outputTokens |-> CountTokens(ms)]
        ELSE [messages |-> after[n].out, inputTokens |-> CountTokens(ms),
              outputTokens |-> after[n].totalOut]
  <2>1. GoThreshold = Threshold
    BY PortsAssumption DEF GoThreshold, GoDefault
  <2>2. QED
    BY <2>1 DEF GoCompressMessages
<1> HIDE DEF left
<1>3. ASSUME NEW i \in 1..n PROVE Go(i) = Pick(left, i)
  <2>1. left[i] \in Msg /\ Len(left) \in Nat /\ LastTurns \in Nat /\ GoLastTurns = LastTurns
    BY <1>1, MiddlewareAssumption DEF GoLastTurns
  <2>2. i - 1 >= Len(left) - LastTurns <=> i > Len(left) - LastTurns
    BY <2>1
  <2>3. GoClassify(left[i]) = Classify(left[i])
    BY <2>1, GoClassifies
  <2>4. QED
    BY <2>1, <2>2, <2>3 DEF Pick, IsProtected, Route, GoRoute, GoIsProtected
<1> HIDE DEF Go
<1>4. \A i \in 1..n : New(i) \in Msg
  <2> SUFFICES ASSUME NEW i \in 1..n PROVE New(i) \in Msg
    OBVIOUS
  <2>1. left[i] \in Msg
    BY <1>1
  <2>2. QED
    BY <2>1, ExtractAlike DEF Compress, Alike
<1>5. new = [i \in 1..Len(left) |-> Compress(Pick(left, i), left[i])]
  BY <1>3
<1>6. CompressMessages(ms) =
        IF CountTokens(ms) < Threshold
        THEN [messages |-> ms, inputTokens |-> CountTokens(ms), outputTokens |-> CountTokens(ms)]
        ELSE [messages |-> new, inputTokens |-> CountTokens(ms), outputTokens |-> CountTokens(new)]
  BY <1>1, <1>5 DEF CompressMessages, Finish
<1> HIDE DEF New
<1>7. new \in Seq(Msg) /\ Len(new) = n /\ n \in Nat
  BY <1>1, <1>4
<1>8. \A i \in 1..n : New(i) = new[i] /\ Total(Tokens, Said(New(i))) = Count(i)
  OBVIOUS
<1> HIDE DEF new, n
<1>9. n \in Nat /\ \A i \in 1..n : new[i] \in Msg
  BY <1>7
<1>10. PICK cnt \in [0..Len(new) -> Nat] : Counts(cnt, new)
  BY CountRec
<1>11. /\ cnt[0] = 0 /\ CountTokens(new) = cnt[n]
      /\ \A i \in 1..n : cnt[i] = cnt[i - 1] + Count(i)
  BY <1>10, <1>7 DEF Counts
<1> HIDE DEF Count
<1> DEFINE Pre(i) == [k \in 1..i |-> new[k]]
           w == [i \in 0..n |-> [out |-> Pre(i), totalOut |-> cnt[i]]]
<1>12. ASSUME NEW i \in 1..n PROVE Append(Pre(i - 1), new[i]) = Pre(i)
  <2>1. i \in Nat /\ i - 1 \in Nat /\ new[i] \in Msg /\ \A k \in 1..i : new[k] \in Msg
    BY <1>9
  <2>2. Pre(i - 1) \in Seq(Msg) /\ Len(Pre(i - 1)) = i - 1 /\ Pre(i) \in Seq(Msg) /\ Len(Pre(i)) = i
    BY <2>1
  <2>3. /\ \A k \in 1..(i - 1) : Pre(i - 1)[k] = new[k]
        /\ \A k \in 1..i : Pre(i)[k] = new[k]
    OBVIOUS
  <2> HIDE DEF Pre
  <2>4. /\ Append(Pre(i - 1), new[i]) \in Seq(Msg) /\ Len(Append(Pre(i - 1), new[i])) = i
        /\ \A k \in 1..i : Append(Pre(i - 1), new[i])[k] = new[k]
    BY <2>1, <2>2, <2>3
  <2>5. QED
    BY <2>1, <2>2, <2>3, <2>4
<1>13. Pre(0) = <<>> /\ Pre(n) = new
  <2>1. Pre(0) = <<>>
    OBVIOUS
  <2>2. new = [k \in 1..Len(new) |-> new[k]]
    BY <1>7
  <2>3. QED
    BY <1>7, <2>1, <2>2
<1> HIDE DEF Pre
<1>14. \A i \in 0..n : w[i] = [out |-> Pre(i), totalOut |-> cnt[i]]
  OBVIOUS
<1>15. w = [i \in 0..n |-> w[i]]
  OBVIOUS
<1> HIDE DEF w
<1>16. ASSUME NEW i \in 1..n PROVE One(w[i - 1], i) = w[i]
  <2>1. i \in 0..n /\ i - 1 \in 0..n
    BY <1>9
  <2>2. w[i - 1] = [out |-> Pre(i - 1), totalOut |-> cnt[i - 1]]
    BY <1>14, <2>1
  <2>3. One(w[i - 1], i) = [out |-> Append(Pre(i - 1), new[i]), totalOut |-> cnt[i - 1] + Count(i)]
    <3>1. New(i) = new[i] /\ Total(Tokens, Said(New(i))) = Count(i)
      BY <1>8
    <3>2. QED
      BY <2>2, <3>1
  <2>4. QED
    BY <1>11, <1>12, <1>14, <2>1, <2>3
<1>17. w[0] = [out |-> <<>>, totalOut |-> 0]
  BY <1>9, <1>11, <1>13, <1>14
<1> HIDE DEF One
<1>18. w = Body(w)
  <2>1. \A i \in 0..n : w[i] = IF i = 0 THEN [out |-> <<>>, totalOut |-> 0] ELSE One(w[i - 1], i)
    BY <1>9, <1>16, <1>17
  <2>2. QED
    BY <1>15, <2>1
<1> HIDE DEF Body
<1>19. after = Body(after)
  BY <1>18
<1> HIDE DEF after
<1>20. \A i \in 0..n : after[i] = IF i = 0 THEN [out |-> <<>>, totalOut |-> 0] ELSE One(after[i - 1], i)
  BY <1>19 DEF Body
<1> DEFINE T == {i \in 0..n : after[i] = w[i]}
<1>21. 0 \in T
  <2>1. 0 \in 0..n
    BY <1>9
  <2>2. after[0] = w[0]
    BY <1>17, <1>20, <2>1
  <2>3. QED
    BY <2>1, <2>2
<1>22. ASSUME NEW i \in 1..n, i - 1 \in T PROVE i \in T
  <2>1. i \in 0..n /\ i # 0 /\ after[i - 1] = w[i - 1]
    BY <1>9, <1>22
  <2>2. after[i] = w[i]
    BY <1>16, <1>20, <2>1
  <2>3. QED
    BY <2>1, <2>2
<1> HIDE DEF T
<1>23. \A i \in 0..n : i \in T
  BY <1>9, <1>21, <1>22, InductionUpTo
<1>24. after[n] = w[n] /\ n \in 0..n
  BY <1>9, <1>23 DEF T
<1>25. after[n] = [out |-> new, totalOut |-> CountTokens(new)]
  BY <1>11, <1>13, <1>14, <1>24
<1>26. QED
  BY <1>2, <1>5, <1>6, <1>25

LEMMA PortsHold ==
  ASSUME ConvInv
  PROVE  PortsSendTheSame
<1>1. conv \in Seq(Msg) /\ Len(conv) \in Nat /\ Len(conv) < Usize
  BY ConversationAssumption, PortsAssumption DEF ConvInv
<1>2. IsAsking(LastRole) => sent = CompressMessages(conv)
  BY DEF ConvInv
<1>3. GoCompressMessages(conv) = CompressMessages(conv)
  BY <1>1, GoCompresses
<1>4. RustCompressMessages(conv) = CompressMessages(conv)
  BY <1>1, RustCompresses
<1>5. QED
  BY <1>2, <1>3, <1>4 DEF PortsSendTheSame

\* Parity of the pipelines: on every conversation that can be asked, of any
\* length that a usize can count, both ports send the messages and report the
\* counts of the reference.
THEOREM PortsAgree == ConversationSpec => []PortsSendTheSame
BY ConversationIsCompressed, PortsHold, PTL
=============================================================================
