----------------------------- MODULE Fetch_proofs -----------------------------
(***************************************************************************)
(* Proofs about Fetch, for any members a body may have and any             *)
(* compression.  What the caller gets back through each door; that a       *)
(* request is sent as it was written but for the list of messages; and     *)
(* what the upstream reads in it, wherever the lists stand.  The last two  *)
(* rest on where the writer of a body puts each of its tokens (Fits), on   *)
(* what the scan has met by when (ScanFrom), and on what a reader of such  *)
(* a text finds under each key (ReadingIs, ReserializedIs).                *)
(***************************************************************************)
EXTENDS Fetch, SequenceTheorems, FiniteSetTheorems, Induction, TLAPS

\* The doors, what has been answered by when, and that nobody reads a response
\* but the caller.  The clients are only given lists of messages.
DoorInv ==
  /\ door \in {"fetch", "openai", "anthropic", "wrap"}
  /\ door \in {"openai", "anthropic"} => Intercepted
  /\ readable
  /\ phase \in {"called", "scan", "rebuild", "sent"} => reply = "none"
  /\ phase = "replied" => reply \in Reply

AnswerInv == DoorInv /\ AnswerIsIntact

LEMMA DoorInitInv == FetchInit => AnswerInv
  BY DEF FetchInit, AnswerInv, DoorInv, AnswerIsIntact

\* What is asked for stays what it was.
LEMMA CallStays ==
  ASSUME UNCHANGED call PROVE Intercepted' = Intercepted /\ Streams' = Streams
  BY DEF Intercepted, Messages, Streams, Parsed

\* Before the response there is nothing to be given back.
LEMMA BeforeReply ==
  ASSUME AnswerInv, UNCHANGED <<door, call, reply, readable>>, reply = "none",
         phase' \in {"called", "scan", "rebuild", "sent", "over"}
  PROVE  AnswerInv'
<1>1. Intercepted' = Intercepted
  BY CallStays
<1>2. DoorInv'
  BY <1>1 DEF AnswerInv, DoorInv
<1>3. AnswerIsIntact'
  BY DEF AnswerIsIntact
<1>4. QED
  BY <1>2, <1>3 DEF AnswerInv

LEMMA ScanAnswer ==
  ASSUME AnswerInv, TakeArray \/ GiveUp \/ Advance PROVE AnswerInv'
<1>1. phase = "scan" /\ UNCHANGED <<door, call, phase, reply, readable>>
  BY DEF TakeArray, GiveUp, Advance, Scanning
<1>2. reply = "none"
  BY <1>1 DEF AnswerInv, DoorInv
<1>3. QED
  BY <1>1, <1>2, BeforeReply

LEMMA RequestAnswer ==
  ASSUME AnswerInv,
         Relay \/ ThrowOnNull \/ Compress \/ Splice \/ Rebuild \/ NetworkError
  PROVE  AnswerInv'
<1>1. /\ phase \in {"called", "scan", "rebuild", "sent"}
      /\ phase' \in {"scan", "rebuild", "sent", "over"}
      /\ UNCHANGED <<door, call, reply, readable>>
  BY DEF Relay, ThrowOnNull, Compress, Splice, Rebuild, NetworkError, Forward, End
<1>2. reply = "none"
  BY <1>1 DEF AnswerInv, DoorInv
<1>3. QED
  BY <1>1, <1>2, BeforeReply

LEMMA RespondAnswer ==
  ASSUME AnswerInv, NEW r \in Reply, Respond(r) PROVE AnswerInv'
<1>1. phase' = "replied" /\ reply' = r /\ UNCHANGED <<door, call, readable>>
  BY DEF Respond
<1>2. Intercepted' = Intercepted
  BY <1>1, CallStays
<1>3. QED
  BY <1>1, <1>2 DEF AnswerInv, DoorInv, AnswerIsIntact

LEMMA ReturnAnswer ==
  ASSUME AnswerInv, PassBack \/ Annotate \/ ReadAnswer \/ Settle
  PROVE  AnswerInv'
<1>1. /\ phase = "replied" /\ phase' = "over"
      /\ UNCHANGED <<door, call, reply, readable>>
  BY DEF PassBack, Annotate, ReadAnswer, Settle, End, ReadClone
<1>2. Intercepted' = Intercepted /\ Streams' = Streams
  BY <1>1, CallStays
<1>3. /\ door \in {"fetch", "openai", "anthropic", "wrap"} /\ readable /\ reply \in Reply
      /\ door \in {"openai", "anthropic"} => Intercepted
  BY <1>1 DEF AnswerInv, DoorInv
<1>4. DoorInv'
  BY <1>1, <1>2, <1>3 DEF DoorInv
<1>5. AnswerIsIntact'
  <2>1. CASE PassBack
    BY <1>1, <1>2, <1>3, <2>1 DEF PassBack, End, AnswerIsIntact, Reply, Failed, WithUsage
  <2>2. CASE Annotate
    BY <1>1, <1>2, <1>3, <2>2 DEF Annotate, End, AnswerIsIntact, Reply, Failed, WithUsage
  <2>3. CASE ReadAnswer
    BY <1>1, <1>2, <1>3, <2>3 DEF ReadAnswer, Attached, End, AnswerIsIntact, Reply, Failed, WithUsage
  <2>4. CASE Settle
    BY <1>1, <1>2, <1>3, <2>4 DEF Settle, Attached, End, AnswerIsIntact, Reply, Failed, WithUsage
  <2>5. QED
    BY <2>1, <2>2, <2>3, <2>4
<1>6. QED
  BY <1>4, <1>5 DEF AnswerInv

LEMMA AnswerNextInv == AnswerInv /\ [FetchNext]_fetchVars => AnswerInv'
<1> SUFFICES ASSUME AnswerInv, [FetchNext]_fetchVars PROVE AnswerInv'
  OBVIOUS
<1>1. CASE UNCHANGED fetchVars
  <2>1. UNCHANGED <<door, call, phase, reply, readable, returned>>
    BY <1>1 DEF fetchVars
  <2>2. Intercepted' = Intercepted /\ Streams' = Streams
    BY <2>1, CallStays
  <2>3. QED
    BY <2>1, <2>2 DEF AnswerInv, DoorInv, AnswerIsIntact
<1>2. QED
  BY <1>1, ScanAnswer, RequestAnswer, RespondAnswer, ReturnAnswer DEF FetchNext

\* Through every door the caller gets what it would get without leanprompt, can
\* still read it, and is told what was saved whenever there is a usage to tell
\* it in -- the JSON null that leanpromptFetch rejects apart.
THEOREM AnswersStayIntact == FetchSpec => []AnswerIsIntact
<1>1. AnswerInv => AnswerIsIntact
  BY DEF AnswerInv
<1>2. FetchSpec => []AnswerInv
  BY DoorInitInv, AnswerNextInv, PTL DEF FetchSpec
<1>3. QED
  BY <1>1, <1>2, PTL


-----------------------------------------------------------------------------
(* Write: the text of a body, member by member.                             *)

Punctuation == {OpenBrace, CloseBrace, Colon, Comma, Space}
Gaps == {<<>>, <<Space>>}

\* Members whose texts consist of tokens in T.
MembersOf(ms, T) ==
  /\ Len(ms) \in Nat /\ Punctuation \subseteq T
  /\ \A k \in 1..Len(ms) : Literal(ms[k].key) \in T /\ ms[k].value \in Seq(T)

Sep(k, gap) == IF k = 1 THEN <<>> ELSE <<Comma>> \o gap

\* Its recursive definition, as a function of the members that are written.
Writes(upTo, ms, gap) ==
  /\ upTo[0] = <<OpenBrace>> /\ Write(ms, gap) = upTo[Len(ms)] \o <<CloseBrace>>
  /\ \A k \in 1..Len(ms) :
       upTo[k] = upTo[k - 1] \o Sep(k, gap) \o MemberText(ms[k], gap)

LEMMA PartsType ==
  ASSUME NEW T, NEW ms, MembersOf(ms, T), NEW gap \in Gaps
  PROVE  /\ gap \in Seq(T) /\ <<OpenBrace>> \in Seq(T) /\ <<CloseBrace>> \in Seq(T)
         /\ \A k \in 1..Len(ms) : Sep(k, gap) \in Seq(T) /\ MemberText(ms[k], gap) \in Seq(T)
<1>1. gap \in Seq(T) /\ <<OpenBrace>> \in Seq(T) /\ <<CloseBrace>> \in Seq(T)
      /\ <<Comma>> \in Seq(T) /\ <<Colon>> \in Seq(T)
  <2>1. Space \in T /\ OpenBrace \in T /\ CloseBrace \in T /\ Comma \in T /\ Colon \in T
    BY DEF MembersOf, Punctuation
  <2>2. \A t \in T : <<t>> \in Seq(T)
    OBVIOUS
  <2>3. <<>> \in Seq(T)
    OBVIOUS
  <2>4. QED
    BY <2>1, <2>2, <2>3 DEF Gaps
<1>2. ASSUME NEW k \in 1..Len(ms) PROVE Sep(k, gap) \in Seq(T) /\ MemberText(ms[k], gap) \in Seq(T)
  <2>1. <<Literal(ms[k].key)>> \in Seq(T) /\ ms[k].value \in Seq(T) /\ <<>> \in Seq(T)
    BY DEF MembersOf
  <2>2. \A a, b \in Seq(T) : a \o b \in Seq(T)
    OBVIOUS
  <2>3. QED
    BY <1>1, <2>1, <2>2 DEF Sep, MemberText
<1>3. QED
  BY <1>1, <1>2

LEMMA WriteRec ==
  ASSUME NEW T, NEW ms, MembersOf(ms, T), NEW gap \in Gaps
  PROVE  \E upTo \in [0..Len(ms) -> Seq(T)] : Writes(upTo, ms, gap)
<1> DEFINE n == Len(ms)
           text(k) == MemberText(ms[k], gap)
           step == [k \in 1..n |-> [v \in Seq(T) |-> v \o Sep(k, gap) \o text(k)]]
           Body(f) == [k \in 0..n |->
                         IF k = 0 THEN <<OpenBrace>>
                         ELSE f[k - 1] \o (IF k = 1 THEN <<>> ELSE <<Comma>> \o gap)
                                \o MemberText(ms[k], gap)]
           upTo == CHOOSE f : f = Body(f)
<1>0. n \in Nat
  BY DEF MembersOf
<1>1. step \in [1..n -> [Seq(T) -> Seq(T)]] /\ <<OpenBrace>> \in Seq(T)
  <2>1. \A a, b \in Seq(T) : a \o b \in Seq(T)
    OBVIOUS
  <2>2. \A k \in 1..n : Sep(k, gap) \in Seq(T) /\ text(k) \in Seq(T)
    BY PartsType
  <2>3. <<OpenBrace>> \in Seq(T)
    BY PartsType
  <2> HIDE DEF text
  <2>4. \A k \in 1..n : \A v \in Seq(T) : v \o Sep(k, gap) \o text(k) \in Seq(T)
    BY <2>1, <2>2
  <2>5. QED
    BY <2>3, <2>4
<1> HIDE DEF step
<1>2. PICK g \in [0..n -> Seq(T)] : Follows(g, <<OpenBrace>>, n, step)
  BY <1>0, <1>1, RecursionExists
<1> HIDE DEF text
<1>3. \A k \in 1..n : g[k] = g[k - 1] \o Sep(k, gap) \o text(k)
  <2> SUFFICES ASSUME NEW k \in 1..n PROVE g[k] = g[k - 1] \o Sep(k, gap) \o text(k)
    OBVIOUS
  <2>1. g[k - 1] \in Seq(T)
    BY <1>0
  <2>2. g[k] = step[k][g[k - 1]]
    BY <1>2 DEF Follows
  <2>3. step[k] = [v \in Seq(T) |-> v \o Sep(k, gap) \o text(k)]
    BY DEF step
  <2>4. QED
    BY <2>1, <2>2, <2>3
<1>4. g = Body(g)
  <2>1. \A k \in 0..n : Body(g)[k] = g[k]
    <3> SUFFICES ASSUME NEW k \in 0..n PROVE Body(g)[k] = g[k]
      OBVIOUS
    <3>1. CASE k = 0
      BY <1>2, <3>1 DEF Follows
    <3>2. CASE k \in 1..n
      <4>1. k # 0
        BY <1>0, <3>2
      <4>2. g[k] = g[k - 1] \o (IF k = 1 THEN <<>> ELSE <<Comma>> \o gap)
                     \o MemberText(ms[k], gap)
        BY <1>3, <3>2 DEF Sep, text
      <4>3. QED
        BY <4>1, <4>2
    <3> HIDE DEF Body
    <3>3. k = 0 \/ k \in 1..n
      BY <1>0
    <3>4. QED
      BY <3>1, <3>2, <3>3
  <2>2. DOMAIN Body(g) = 0..n /\ Body(g) = [k \in 0..n |-> Body(g)[k]]
    OBVIOUS
  <2> HIDE DEF Body
  <2>3. QED
    BY <2>1, <2>2
<1> HIDE DEF Body
<1>5. upTo = Body(upTo)
  BY <1>4
<1>6. Write(ms, gap) = upTo[n] \o <<CloseBrace>>
  BY DEF Write, upTo, Body
<1> HIDE DEF upTo
<1>7. /\ upTo[0] = <<OpenBrace>>
      /\ \A k \in 1..n : upTo[k] = upTo[k - 1] \o Sep(k, gap) \o text(k)
      /\ DOMAIN upTo = 0..n /\ upTo = [k \in 0..n |-> upTo[k]]
  <2>1. upTo[0] = Body(upTo)[0] /\ \A k \in 1..n : upTo[k] = Body(upTo)[k]
    BY <1>5
  <2>2. DOMAIN upTo = DOMAIN Body(upTo)
    BY <1>5
  <2>3. /\ \A k \in 0..n :
          Body(upTo)[k] = IF k = 0 THEN <<OpenBrace>> ELSE upTo[k - 1] \o Sep(k, gap) \o text(k)
        /\ DOMAIN Body(upTo) = 0..n /\ Body(upTo) = [k \in 0..n |-> Body(upTo)[k]]
    BY DEF Body, Sep, text
  <2>4. 0 \in 0..n /\ \A k \in 1..n : k \in 0..n /\ k # 0
    BY <1>0
  <2>5. upTo = [k \in 0..n |-> upTo[k]]
    BY <1>5, <2>3
  <2>6. QED
    BY <2>1, <2>2, <2>3, <2>4, <2>5
<1>8. \A k \in 0..n : upTo[k] \in Seq(T)
  <2> DEFINE D == {k \in 0..n : upTo[k] \in Seq(T)}
  <2>1. 0 \in D
    <3>1. 0 \in 0..n
      BY <1>0
    <3>2. upTo[0] \in Seq(T)
      BY <1>1, <1>7
    <3>3. QED
      BY <3>1, <3>2
  <2>2. ASSUME NEW k \in 1..n, k - 1 \in D PROVE k \in D
    <3>1. upTo[k - 1] \in Seq(T) /\ k \in 0..n
      BY <1>0, <2>2
    <3>2. Sep(k, gap) \in Seq(T) /\ text(k) \in Seq(T)
      BY PartsType DEF text
    <3>3. upTo[k - 1] \o Sep(k, gap) \o text(k) \in Seq(T)
      BY <3>1, <3>2
    <3>4. QED
      BY <1>7, <3>1, <3>3
  <2> HIDE DEF D
  <2>3. \A k \in 0..n : k \in D
    BY <1>0, <2>1, <2>2, InductionUpTo
  <2>4. QED
    BY <2>3 DEF D
<1>9. upTo \in [0..n -> Seq(T)]
  BY <1>7, <1>8
<1>10. QED
  BY <1>6, <1>7, <1>9 DEF Writes, text

\* How many tokens of a member come before its value.
Lead(k, gap) == (IF k = 1 THEN 0 ELSE 1 + Len(gap)) + 2 + Len(gap) + Len(gap)

\* What is where in two sequences that are joined.
Joins(c, a, b) ==
  /\ Len(a) \in Nat /\ Len(b) \in Nat /\ Len(c) = Len(a) + Len(b)
  /\ \A i \in 1..Len(a) : c[i] = a[i]
  /\ \A j \in 1..Len(b) : c[Len(a) + j] = b[j]

LEMMA Joined ==
  ASSUME NEW S, NEW a \in Seq(S), NEW b \in Seq(S)
  PROVE  a \o b \in Seq(S) /\ Joins(a \o b, a, b)
<1>1. /\ a \o b \in Seq(S) /\ Len(a \o b) = Len(a) + Len(b)
      /\ \A i \in 1..(Len(a) + Len(b)) :
           (a \o b)[i] = IF i <= Len(a) THEN a[i] ELSE b[i - Len(a)]
  BY ConcatProperties
<1>2. Len(a) \in Nat /\ Len(b) \in Nat
  OBVIOUS
<1>3. ASSUME NEW j \in 1..Len(b) PROVE (a \o b)[Len(a) + j] = b[j]
  <2>1. Len(a) + j \in 1..(Len(a) + Len(b)) /\ ~(Len(a) + j <= Len(a))
        /\ (Len(a) + j) - Len(a) = j
    BY <1>2
  <2>2. QED
    BY <1>1, <2>1
<1>4. QED
  BY <1>1, <1>2, <1>3 DEF Joins

LEMMA MemberTokens ==
  ASSUME NEW T, NEW m, Punctuation \subseteq T, Literal(m.key) \in T, m.value \in Seq(T),
         NEW gap \in Gaps
  PROVE  LET t == MemberText(m, gap)
             g == Len(gap)
         IN  /\ Len(t) = 2 + g + g + Len(m.value)
             /\ t[1] = Literal(m.key) /\ t[2 + g] = Colon
             /\ Len(gap) = 1 => t[2] = Space /\ t[2 + g + g] = Space
             /\ \A j \in 1..Len(m.value) : t[2 + g + g + j] = m.value[j]
<1> DEFINE lit == <<Literal(m.key)>>
           a == lit \o gap \o <<Colon>> \o gap
           colon == <<Colon>>
<1>0. /\ gap \in Seq(T) /\ lit \in Seq(T) /\ colon \in Seq(T)
      /\ Len(lit) = 1 /\ lit[1] = Literal(m.key) /\ Len(colon) = 1 /\ colon[1] = Colon
  <2>1. Space \in T /\ Colon \in T
    BY DEF Punctuation
  <2>2. <<>> \in Seq(T) /\ \A t \in T : <<t>> \in Seq(T) /\ Len(<<t>>) = 1 /\ <<t>>[1] = t
    OBVIOUS
  <2> HIDE DEF a
  <2>3. gap \in Seq(T)
    BY <2>1, <2>2 DEF Gaps
  <2>4. QED
    BY <2>1, <2>2, <2>3
<1>1. a = lit \o gap \o colon \o gap /\ MemberText(m, gap) = a \o m.value
  BY DEF MemberText
<1>2. Len(gap) = 0 \/ (Len(gap) = 1 /\ gap[1] = Space)
  BY DEF Gaps
<1> HIDE DEF a, lit, colon
<1> DEFINE x == lit \o gap
           y == x \o colon
<1>3. /\ a \in Seq(T)
      /\ Len(a) = 2 + Len(gap) + Len(gap) /\ Len(gap) \in {0, 1}
      /\ a[1] = Literal(m.key) /\ a[2 + Len(gap)] = Colon
      /\ Len(gap) = 1 => a[2] = Space /\ a[2 + Len(gap) + Len(gap)] = Space
  <2>1. x \in Seq(T) /\ Joins(x, lit, gap)
    BY <1>0, Joined
  <2>2. y \in Seq(T) /\ Joins(y, x, colon)
    BY <1>0, <2>1, Joined
  <2>3. a \in Seq(T) /\ Joins(a, y, gap)
    BY <1>0, <1>1, <2>2, Joined
  <2> HIDE DEF x, y
  <2>4. Len(x) = 1 + Len(gap) /\ x[1] = Literal(m.key) /\ (Len(gap) = 1 => x[2] = Space)
    BY <1>0, <1>2, <2>1 DEF Joins
  <2>5. /\ Len(y) = 2 + Len(gap) /\ y[1] = Literal(m.key) /\ (Len(gap) = 1 => y[2] = Space)
        /\ y[2 + Len(gap)] = Colon
    <3>1. Len(y) = 2 + Len(gap) /\ Len(x) + 1 = 2 + Len(gap)
      BY <1>0, <1>2, <2>2, <2>4 DEF Joins
    <3>2. y[1] = Literal(m.key) /\ (Len(gap) = 1 => y[2] = Space)
      <4>1. \A i \in 1..Len(x) : y[i] = x[i]
        BY <2>2 DEF Joins
      <4>2. 1 \in 1..Len(x) /\ (Len(gap) = 1 => 2 \in 1..Len(x))
        BY <1>2, <2>4
      <4>3. QED
        BY <2>4, <4>1, <4>2
    <3>3. 1 \in 1..Len(colon)
      BY <1>0
    <3>4. y[Len(x) + 1] = colon[1]
      BY <2>2, <3>3 DEF Joins
    <3>5. QED
      BY <1>0, <3>1, <3>2, <3>4
  <2>6. Len(a) = Len(y) + Len(gap) /\ \A i \in 1..Len(y) : a[i] = y[i]
    BY <2>3 DEF Joins
  <2>7. Len(gap) = 1 => a[2 + Len(gap) + Len(gap)] = Space
    <3> SUFFICES ASSUME Len(gap) = 1 PROVE a[2 + Len(gap) + Len(gap)] = Space
      OBVIOUS
    <3>1. 1 \in 1..Len(gap) /\ gap[1] = Space /\ Len(y) + 1 = 2 + Len(gap) + Len(gap)
      BY <1>2, <2>5
    <3>2. QED
      BY <2>3, <3>1 DEF Joins
  <2>8. QED
    BY <1>2, <2>3, <2>5, <2>6, <2>7
<1>4. Joins(a \o m.value, a, m.value)
  BY <1>3, Joined
<1>5. 1 \in 1..Len(a) /\ 2 \in 1..Len(a) /\ 2 + Len(gap) \in 1..Len(a)
      /\ 2 + Len(gap) + Len(gap) \in 1..Len(a)
  BY <1>3
<1> DEFINE t == a \o m.value
<1>6. MemberText(m, gap) = t /\ Joins(t, a, m.value)
  BY <1>1, <1>4
<1> HIDE DEF t
<1>7. /\ Len(t) = 2 + Len(gap) + Len(gap) + Len(m.value)
      /\ t[1] = Literal(m.key) /\ t[2 + Len(gap)] = Colon
      /\ Len(gap) = 1 => t[2] = Space /\ t[2 + Len(gap) + Len(gap)] = Space
      /\ \A j \in 1..Len(m.value) : t[2 + Len(gap) + Len(gap) + j] = m.value[j]
  BY <1>3, <1>5, <1>6 DEF Joins
<1>8. QED
  BY <1>6, <1>7

\* Where the members are in the text: member k behind the place off[k], its
\* value behind the place val[k].
Layout(off, val, text, ms, gap) ==
  /\ off \in [1..(Len(ms) + 1) -> Nat] /\ val \in [1..Len(ms) -> Nat]
  /\ off[1] = 1 /\ text[1] = OpenBrace
  /\ Len(text) = off[Len(ms) + 1] + 1 /\ text[Len(text)] = CloseBrace
  /\ \A k \in 1..Len(ms) :
       /\ val[k] = off[k] + Lead(k, gap) /\ off[k + 1] = val[k] + Len(ms[k].value)
       /\ \A j \in 1..Len(ms[k].value) : text[val[k] + j] = ms[k].value[j]
       /\ text[val[k] - 1 - Len(gap) - Len(gap)] = Literal(ms[k].key)
       /\ text[val[k] - Len(gap)] = Colon
       /\ Len(gap) = 1 => text[val[k]] = Space /\ text[val[k] - 2] = Space
       /\ k # 1 => text[off[k] + 1] = Comma /\ (Len(gap) = 1 => text[off[k] + 2] = Space)

\* What is written stays where it is.
LEMMA WritesGrow ==
  ASSUME NEW T, NEW ms, MembersOf(ms, T), NEW gap \in Gaps,
         NEW upTo \in [0..Len(ms) -> Seq(T)], Writes(upTo, ms, gap),
         NEW k \in 0..Len(ms)
  PROVE  /\ Len(upTo[k]) <= Len(upTo[Len(ms)])
         /\ \A i \in 1..Len(upTo[k]) : upTo[Len(ms)][i] = upTo[k][i]
<1> DEFINE n == Len(ms)
           D == {m \in Nat : k + m <= n =>
                   /\ Len(upTo[k]) <= Len(upTo[k + m])
                   /\ \A i \in 1..Len(upTo[k]) : upTo[k + m][i] = upTo[k][i]}
<1>0. n \in Nat /\ \A m \in 0..n : upTo[m] \in Seq(T) /\ Len(upTo[m]) \in Nat
  BY DEF MembersOf
<1>1. 0 \in D
  BY <1>0
<1>2. ASSUME NEW m \in D PROVE m + 1 \in D
  <2>1. m \in Nat /\ k \in Nat
    BY <1>0
  <2>2. ASSUME k + (m + 1) <= n
        PROVE  /\ Len(upTo[k]) <= Len(upTo[k + (m + 1)])
               /\ \A i \in 1..Len(upTo[k]) : upTo[k + (m + 1)][i] = upTo[k][i]
    <3>1. k + m \in 0..n /\ k + (m + 1) \in 1..n /\ (k + (m + 1)) - 1 = k + m
      BY <1>0, <2>1, <2>2
    <3>2. /\ Len(upTo[k]) <= Len(upTo[k + m])
          /\ \A i \in 1..Len(upTo[k]) : upTo[k + m][i] = upTo[k][i]
      BY <1>0, <2>1, <3>1
    <3> DEFINE a == upTo[k + m]
               b == upTo[k + (m + 1)]
               s == Sep(k + (m + 1), gap)
               t == MemberText(ms[k + (m + 1)], gap)
    <3>3. b = a \o s \o t
      BY <3>1 DEF Writes
    <3>4. a \in Seq(T) /\ s \in Seq(T) /\ t \in Seq(T)
      BY <1>0, <3>1, PartsType
    <3>5. a = upTo[k + m] /\ b = upTo[k + (m + 1)] /\ upTo[k] \in Seq(T)
      BY <1>0
    <3> HIDE DEF a, b, s, t
    <3>6. Len(b) >= Len(a) /\ \A i \in 1..Len(a) : b[i] = a[i]
      <4>1. a \o s \in Seq(T) /\ Len(a \o s) = Len(a) + Len(s) /\ Len(a) \in Nat
            /\ Len(s) \in Nat /\ Len(t) \in Nat
        BY <3>4
      <4>2. \A i \in 1..Len(a) : (a \o s)[i] = a[i]
        BY <3>4
      <4>3. Len(b) = Len(a \o s) + Len(t)
        BY <3>3, <3>4, <4>1
      <4>4. \A i \in 1..Len(a \o s) : b[i] = (a \o s)[i]
        BY <3>3, <3>4, <4>1
      <4>5. QED
        BY <4>1, <4>2, <4>3, <4>4
    <3>7. Len(upTo[k]) \in Nat /\ Len(a) \in Nat /\ Len(b) \in Nat
      BY <3>3, <3>4, <3>5
    <3>8. QED
      BY <3>2, <3>5, <3>6, <3>7
  <2>3. QED
    BY <2>1, <2>2
<1>3. D \in SUBSET Nat
  OBVIOUS
<1> HIDE DEF D
<1>4. n - k \in D
  <2>1. n - k \in Nat
    BY <1>0
  <2>2. \A m \in Nat : m \in D
    BY <1>1, <1>2, <1>3, NatSetInduction
  <2>3. QED
    BY <2>1, <2>2
<1>5. QED
  <2>1. n - k \in Nat /\ k + (n - k) = n /\ k + (n - k) <= n
    BY <1>0
  <2>2. QED
    BY <1>4, <2>1 DEF D

\* The numbers of tokens before each member.
Measures(off, upTo, n) == \A k \in 1..(n + 1) : off[k] = Len(upTo[k - 1])

\* How Write lays a body out.
LEMMA WriteLayout ==
  ASSUME NEW T, NEW ms, MembersOf(ms, T), NEW gap \in Gaps,
         NEW upTo \in [0..Len(ms) -> Seq(T)], Writes(upTo, ms, gap)
  PROVE  /\ Write(ms, gap) \in Seq(T)
         /\ \E off, val : /\ Layout(off, val, Write(ms, gap), ms, gap)
                          /\ Measures(off, upTo, Len(ms))
<1> DEFINE n == Len(ms)
           g == Len(gap)
           off == [k \in 1..(n + 1) |-> Len(upTo[k - 1])]
           val == [k \in 1..n |-> off[k] + Lead(k, gap)]
           text == Write(ms, gap)
<1>1. n \in Nat /\ \A k \in 0..n : upTo[k] \in Seq(T) /\ Len(upTo[k]) \in Nat
  BY DEF MembersOf
<1>2. g \in Nat /\ (g = 0 \/ g = 1) /\ (g = 1 => gap[1] = Space)
  <2>1. Len(<<>>) = 0 /\ Len(<<Space>>) = 1 /\ <<Space>>[1] = Space
    OBVIOUS
  <2>2. QED
    BY <2>1 DEF Gaps
<1>21. g = Len(gap) /\ gap \in Seq(T)
  BY PartsType
<1>22. \A k \in 1..n : Lead(k, gap) = (IF k = 1 THEN 0 ELSE 1 + g) + 2 + g + g
  BY DEF Lead
<1> HIDE DEF g
<1>3. /\ off \in [1..(n + 1) -> Nat] /\ \A k \in 1..(n + 1) : off[k] = Len(upTo[k - 1])
  <2>1. \A k \in 1..(n + 1) : k - 1 \in 0..n
    BY <1>1
  <2>2. QED
    BY <1>1, <2>1
<1>4. \A k \in 1..n : Lead(k, gap) \in Nat
  BY <1>2, <1>22
<1> HIDE DEF off
<1>5. val \in [1..n -> Nat] /\ \A k \in 1..n : val[k] = off[k] + Lead(k, gap)
  BY <1>1, <1>3, <1>4
<1> HIDE DEF val
<1>6. text \in Seq(T) /\ Joins(text, upTo[n], <<CloseBrace>>)
  <2>1. upTo[n] \in Seq(T) /\ <<CloseBrace>> \in Seq(T)
    BY <1>1, PartsType
  <2>2. text = upTo[n] \o <<CloseBrace>>
    BY DEF Writes
  <2>3. QED
    BY <2>1, <2>2, Joined
<1> HIDE DEF text
<1>7. /\ Len(text) = off[n + 1] + 1 /\ text[Len(text)] = CloseBrace
      /\ \A i \in 1..Len(upTo[n]) : text[i] = upTo[n][i]
  <2>1. Len(<<CloseBrace>>) = 1 /\ <<CloseBrace>>[1] = CloseBrace /\ off[n + 1] = Len(upTo[n])
    BY <1>1, <1>3
  <2>2. 1 \in 1..Len(<<CloseBrace>>)
    BY <2>1
  <2>3. QED
    BY <1>6, <2>1, <2>2 DEF Joins
<1>8. off[1] = 1 /\ text[1] = OpenBrace
  <2>1. upTo[0] = <<OpenBrace>> /\ Len(upTo[0]) = 1 /\ upTo[0][1] = OpenBrace
    BY DEF Writes
  <2>2. 0 \in 0..n /\ 1 \in 1..(n + 1) /\ 1 - 1 = 0
    BY <1>1
  <2>3. Len(upTo[0]) <= Len(upTo[n]) /\ \A i \in 1..Len(upTo[0]) : upTo[n][i] = upTo[0][i]
    BY <2>2, WritesGrow
  <2>4. upTo[n][1] = OpenBrace /\ 1 \in 1..Len(upTo[n])
    BY <1>1, <2>1, <2>3
  <2>5. off[1] = Len(upTo[0])
    BY <1>3, <2>2
  <2>6. QED
    BY <1>7, <2>1, <2>4, <2>5
<1>9. ASSUME NEW k \in 1..n
      PROVE  /\ off[k + 1] = val[k] + Len(ms[k].value)
             /\ \A j \in 1..Len(ms[k].value) : text[val[k] + j] = ms[k].value[j]
             /\ text[val[k] - 1 - g - g] = Literal(ms[k].key)
             /\ text[val[k] - g] = Colon
             /\ g = 1 => text[val[k]] = Space /\ text[val[k] - 2] = Space
             /\ k # 1 => text[off[k] + 1] = Comma /\ (g = 1 => text[off[k] + 2] = Space)
  <2> DEFINE a == upTo[k - 1]
             b == upTo[k]
             s == Sep(k, gap)
             t == MemberText(ms[k], gap)
             v == ms[k].value
             front == a \o s
  <2>1. a \in Seq(T) /\ s \in Seq(T) /\ t \in Seq(T) /\ b = front \o t
    <3>1. k - 1 \in 0..n /\ k \in 0..n
      BY <1>1
    <3>2. a \in Seq(T) /\ s \in Seq(T) /\ t \in Seq(T)
      BY <1>1, <3>1, PartsType
    <3>3. b = front \o t
      BY DEF Writes
    <3>4. QED
      BY <3>2, <3>3
  <2>2. front \in Seq(T) /\ Joins(front, a, s)
    BY <2>1, Joined
  <2> HIDE DEF front
  <2>3. Joins(b, front, t)
    BY <2>1, <2>2, Joined
  <2>4. \A i \in 1..Len(b) : text[i] = b[i]
    <3>1. Len(b) <= Len(upTo[n]) /\ \A i \in 1..Len(b) : upTo[n][i] = b[i]
      <4>1. k \in 0..n
        BY <1>1
      <4>2. QED
        BY <4>1, WritesGrow
    <3>2. Len(b) \in Nat /\ Len(upTo[n]) \in Nat
      BY <1>1
    <3>3. QED
      BY <1>7, <3>1, <3>2
  <2>5. off[k] = Len(a) /\ off[k + 1] = Len(b)
    <3>1. k \in 1..(n + 1) /\ k + 1 \in 1..(n + 1) /\ (k + 1) - 1 = k
      BY <1>1
    <3>2. QED
      BY <1>3, <3>1
  <2>6. /\ Len(t) = 2 + g + g + Len(v) /\ t[1] = Literal(ms[k].key) /\ t[2 + g] = Colon
        /\ g = 1 => t[2] = Space /\ t[2 + g + g] = Space
        /\ \A j \in 1..Len(v) : t[2 + g + g + j] = v[j]
    <3>1. PICK m : m = ms[k]
      OBVIOUS
    <3>2. Punctuation \subseteq T /\ Literal(m.key) \in T /\ m.value \in Seq(T)
      BY <3>1 DEF MembersOf
    <3> DEFINE w == MemberText(m, gap)
    <3>3. /\ Len(w) = 2 + Len(gap) + Len(gap) + Len(m.value)
          /\ w[1] = Literal(m.key) /\ w[2 + Len(gap)] = Colon
          /\ Len(gap) = 1 => w[2] = Space /\ w[2 + Len(gap) + Len(gap)] = Space
          /\ \A j \in 1..Len(m.value) : w[2 + Len(gap) + Len(gap) + j] = m.value[j]
      <4> HIDE DEF t, v, a, b, s, front, n
      <4>1. QED
        BY <3>2, MemberTokens
    <3>4. t = w /\ v = m.value /\ ms[k].key = m.key
      BY <3>1
    <3> HIDE DEF t, v, w
    <3>5. QED
      BY <1>21, <3>3, <3>4
  <2>7. /\ Len(s) = (IF k = 1 THEN 0 ELSE 1 + g)
        /\ k # 1 => s[1] = Comma /\ (g = 1 => s[2] = Space)
    <3>1. CASE k = 1
      BY <3>1 DEF Sep
    <3>2. CASE k # 1
      <4> DEFINE c == <<Comma>>
      <4>1. c \in Seq(T) /\ Len(c) = 1 /\ c[1] = Comma
        BY DEF MembersOf, Punctuation
      <4>2. s = c \o gap
        BY <3>2 DEF Sep
      <4> HIDE DEF c, s
      <4>3. Joins(s, c, gap)
        BY <1>21, <4>1, <4>2, Joined
      <4>4. Len(s) = 1 + g /\ s[1] = Comma /\ (g = 1 => s[2] = Space)
        BY <1>2, <1>21, <4>1, <4>3 DEF Joins
      <4>5. QED
        BY <3>2, <4>4
    <3>3. QED
      BY <3>1, <3>2
  <2>8. Len(v) \in Nat /\ Len(a) \in Nat /\ Len(s) \in Nat /\ Len(t) \in Nat /\ Len(front) \in Nat
    <3>1. Len(v) \in Nat
      BY DEF MembersOf
    <3>2. QED
      BY <2>2, <2>3, <3>1 DEF Joins
  <2> HIDE DEF a, b, s, t, v
  <2>9. Len(front) = Len(a) + Len(s) /\ Len(b) = Len(front) + Len(t)
    BY <2>2, <2>3 DEF Joins
  <2>10. val[k] = Len(front) + 2 + g + g
    <3>1. val[k] = Len(a) + Lead(k, gap)
      BY <1>5, <2>5
    <3>2. Lead(k, gap) = Len(s) + 2 + g + g
      <4>1. Lead(k, gap) = (IF k = 1 THEN 0 ELSE 1 + g) + 2 + g + g
        BY <1>22
      <4>2. Len(s) = (IF k = 1 THEN 0 ELSE 1 + g)
        BY <2>7
      <4>3. QED
        BY <4>1, <4>2
    <3>3. QED
      BY <1>2, <2>8, <2>9, <3>1, <3>2
  <2>101. Len(t) = 2 + g + g + Len(v)
    BY <2>6
  <2>11. \A j \in 1..Len(t) : text[Len(front) + j] = t[j]
    <3> SUFFICES ASSUME NEW j \in 1..Len(t) PROVE text[Len(front) + j] = t[j]
      OBVIOUS
    <3>1. Len(front) + j \in 1..Len(b)
      BY <2>8, <2>9
    <3>2. b[Len(front) + j] = t[j]
      BY <2>3 DEF Joins
    <3>3. QED
      BY <2>4, <3>1, <3>2
  <2>12. \A j \in 1..Len(s) : text[Len(a) + j] = s[j]
    <3> SUFFICES ASSUME NEW j \in 1..Len(s) PROVE text[Len(a) + j] = s[j]
      OBVIOUS
    <3>1. Len(a) + j \in 1..Len(front) /\ Len(a) + j \in 1..Len(b)
      BY <2>8, <2>9
    <3>2. front[Len(a) + j] = s[j] /\ b[Len(a) + j] = front[Len(a) + j]
      BY <2>2, <2>3, <3>1 DEF Joins
    <3>3. QED
      BY <2>4, <3>1, <3>2
  <2>13. off[k + 1] = val[k] + Len(v)
    BY <1>2, <2>5, <2>8, <2>9, <2>10, <2>101
  <2>14. \A j \in 1..Len(v) : text[val[k] + j] = v[j]
    <3> SUFFICES ASSUME NEW j \in 1..Len(v) PROVE text[val[k] + j] = v[j]
      OBVIOUS
    <3>1. 2 + g + g + j \in 1..Len(t) /\ Len(front) + (2 + g + g + j) = val[k] + j
      BY <1>2, <2>8, <2>10, <2>101
    <3>2. text[Len(front) + (2 + g + g + j)] = t[2 + g + g + j]
      BY <2>11, <3>1
    <3>3. QED
      BY <2>6, <3>1, <3>2
  <2>15. /\ text[val[k] - 1 - g - g] = Literal(ms[k].key)
         /\ text[val[k] - g] = Colon
    <3>1. /\ 1 \in 1..Len(t) /\ Len(front) + 1 = val[k] - 1 - g - g
          /\ 2 + g \in 1..Len(t) /\ Len(front) + (2 + g) = val[k] - g
      BY <1>2, <2>8, <2>10, <2>101
    <3>2. text[Len(front) + 1] = t[1] /\ text[Len(front) + (2 + g)] = t[2 + g]
      BY <2>11, <3>1
    <3>3. QED
      BY <2>6, <3>1, <3>2
  <2>16. g = 1 => text[val[k]] = Space /\ text[val[k] - 2] = Space
    <3> SUFFICES ASSUME g = 1 PROVE text[val[k]] = Space /\ text[val[k] - 2] = Space
      OBVIOUS
    <3>1. /\ 2 \in 1..Len(t) /\ Len(front) + 2 = val[k] - 2
          /\ 2 + g + g \in 1..Len(t) /\ Len(front) + (2 + g + g) = val[k]
      BY <1>2, <2>8, <2>10, <2>101
    <3>2. text[Len(front) + 2] = t[2] /\ text[Len(front) + (2 + g + g)] = t[2 + g + g]
      BY <2>11, <3>1
    <3>3. QED
      BY <2>6, <3>1, <3>2
  <2>17. k # 1 => text[off[k] + 1] = Comma /\ (g = 1 => text[off[k] + 2] = Space)
    <3> SUFFICES ASSUME k # 1
                 PROVE  text[off[k] + 1] = Comma /\ (g = 1 => text[off[k] + 2] = Space)
      OBVIOUS
    <3>1. 1 \in 1..Len(s) /\ (g = 1 => 2 \in 1..Len(s))
      BY <1>2, <2>7
    <3>2. text[Len(a) + 1] = s[1] /\ (g = 1 => text[Len(a) + 2] = s[2])
      BY <2>12, <3>1
    <3>3. QED
      BY <2>5, <2>7, <3>2
  <2>18. QED
    BY <2>13, <2>14, <2>15, <2>16, <2>17 DEF v
<1>10. Layout(off, val, text, ms, gap)
  BY <1>21, <1>3, <1>5, <1>7, <1>8, <1>9 DEF Layout
<1>11. QED
  BY <1>3, <1>6, <1>10 DEF text, Measures

-----------------------------------------------------------------------------
(* Surplus: openers and closers along a text.                               *)

\* No token is both.
Apart(openers, closers) == openers \cap closers = {}

LEMMA Brackets ==
  /\ Apart(Openers, Closers) /\ Apart({OpenBracket}, {CloseBracket})
  /\ {Space, Comma, Colon} \cap (Openers \cup Closers) = {}
  /\ Space # Comma /\ Space # Colon /\ Comma # Colon
  /\ OpenBracket # CloseBracket /\ CloseBrace # OpenBracket /\ CloseBrace # Colon
  /\ CloseBrace # Space /\ OpenBracket # Space
  /\ \A s : Literal(s) \notin Openers \cup Closers \cup {Space, Comma, Colon}
BY DEF Apart, Openers, Closers, Space, Comma, Colon, OpenBrace, CloseBrace, OpenBracket,
       CloseBracket, Mark, Literal

\* How many of the first k tokens are in T.
Count(text, k, T) == Cardinality({j \in 1..k : text[j] \in T})

LEMMA CountStep ==
  ASSUME NEW text, NEW k \in Nat, NEW T
  PROVE  /\ Count(text, k, T) \in Nat /\ Count(text, 0, T) = 0
         /\ Count(text, k + 1, T) = Count(text, k, T) + (IF text[k + 1] \in T THEN 1 ELSE 0)
<1> DEFINE F(i) == {j \in 1..i : text[j] \in T}
<1>1. IsFiniteSet(F(k)) /\ F(0) = {}
  <2>1. IsFiniteSet(1..k) /\ F(k) \subseteq 1..k
    BY FS_Interval
  <2>2. QED
    BY <2>1, FS_Subset
<1>2. Cardinality(F(k)) \in Nat /\ Cardinality(F(0)) = 0
  BY <1>1, FS_CardinalityType, FS_EmptySet
<1>21. \A i : Count(text, i, T) = Cardinality(F(i))
  BY DEF Count
<1>3. CASE text[k + 1] \in T
  <2>1. F(k + 1) = F(k) \cup {k + 1} /\ k + 1 \notin F(k)
    BY <1>3
  <2>2. Cardinality(F(k + 1)) = Cardinality(F(k)) + 1
    BY <1>1, <2>1, FS_AddElement
  <2> HIDE DEF F
  <2>3. QED
    BY <1>2, <1>21, <1>3, <2>2
<1>4. CASE text[k + 1] \notin T
  <2>1. F(k + 1) = F(k)
    BY <1>4
  <2> HIDE DEF F
  <2>2. QED
    BY <1>2, <1>21, <1>4, <2>1
<1>5. QED
  BY <1>3, <1>4

Weight(t, openers, closers) ==
  (IF t \in openers THEN 1 ELSE 0) - (IF t \in closers THEN 1 ELSE 0)

LEMMA SurplusStep ==
  ASSUME NEW text, NEW k \in Nat, NEW openers, NEW closers
  PROVE  /\ Surplus(text, k, openers, closers) \in Int
         /\ Surplus(text, 0, openers, closers) = 0
         /\ Surplus(text, k + 1, openers, closers)
              = Surplus(text, k, openers, closers) + Weight(text[k + 1], openers, closers)
<1> DEFINE A(i) == Count(text, i, openers)
           B(i) == Count(text, i, closers)
<1>1. \A i : Surplus(text, i, openers, closers) = A(i) - B(i)
  BY DEF Surplus, Count
<1>2. /\ A(k) \in Nat /\ A(0) = 0 /\ B(k) \in Nat /\ B(0) = 0
      /\ A(k + 1) = A(k) + (IF text[k + 1] \in openers THEN 1 ELSE 0)
      /\ B(k + 1) = B(k) + (IF text[k + 1] \in closers THEN 1 ELSE 0)
  BY CountStep
<1> HIDE DEF A, B
<1>3. QED
  BY <1>1, <1>2 DEF Weight

\* Behind the place p of a text stand the first n tokens of v.
Stands(text, p, v, n) == \A j \in 1..n : text[p + j] = v[j]

\* The surplus goes on from there.
GoesOn(text, p, v, n, openers, closers) ==
  \A k \in 0..n : Surplus(text, p + k, openers, closers)
                    = Surplus(text, p, openers, closers) + Surplus(v, k, openers, closers)

LEMMA SurplusGoesOn ==
  ASSUME NEW text, NEW v, NEW p \in Nat, NEW n \in Nat, NEW openers, NEW closers,
         Stands(text, p, v, n)
  PROVE  GoesOn(text, p, v, n, openers, closers)
<1> DEFINE S(k) == Surplus(text, k, openers, closers)
           V(k) == Surplus(v, k, openers, closers)
           D == {k \in 0..n : S(p + k) = S(p) + V(k)}
<1>1. \A k \in Nat : /\ S(k) \in Int /\ S(k + 1) = S(k) + Weight(text[k + 1], openers, closers)
                     /\ V(k) \in Int /\ V(k + 1) = V(k) + Weight(v[k + 1], openers, closers)
                     /\ V(0) = 0
  BY SurplusStep
<1>2. \A t : Weight(t, openers, closers) \in Int
  BY DEF Weight
<1> HIDE DEF S, V
<1>3. 0 \in D
  <2>1. S(p + 0) = S(p) /\ V(0) = 0 /\ S(p) \in Int /\ 0 \in 0..n
    BY <1>1
  <2>2. QED
    BY <2>1
<1>4. ASSUME NEW k \in 1..n, k - 1 \in D PROVE k \in D
  <2>1. PICK i : i = k - 1
    OBVIOUS
  <2>2. i \in Nat /\ p + i \in Nat /\ i + 1 = k /\ (p + i) + 1 = p + k /\ k \in 0..n
    BY <2>1
  <2>3. S(p + i) = S(p) + V(i)
    BY <1>4, <2>1
  <2>4. /\ S((p + i) + 1) = S(p + i) + Weight(text[(p + i) + 1], openers, closers)
        /\ V(i + 1) = V(i) + Weight(v[i + 1], openers, closers)
        /\ S(p) \in Int /\ V(i) \in Int /\ S(p + i) \in Int
    BY <1>1, <2>2
  <2>5. text[p + k] = v[k]
    BY DEF Stands
  <2>6. S(p + k) = S(p + i) + Weight(v[k], openers, closers)
        /\ V(k) = V(i) + Weight(v[k], openers, closers)
    BY <2>2, <2>4, <2>5
  <2>7. S(p + k) = S(p) + V(k)
    BY <1>2, <2>3, <2>4, <2>6
  <2>8. QED
    BY <2>2, <2>7
<1> HIDE DEF D
<1>5. \A k \in 0..n : k \in D
  BY <1>3, <1>4, InductionUpTo
<1>6. QED
  BY <1>5 DEF D, S, V, GoesOn

\* Where no bracket stands the surplus stays.
Flat(text, p, n, openers, closers) ==
  \A j \in 1..n : text[p + j] \notin openers \cup closers

Level(text, p, n, openers, closers) ==
  \A k \in 0..n : Surplus(text, p + k, openers, closers) = Surplus(text, p, openers, closers)

LEMMA SurplusStays ==
  ASSUME NEW text, NEW p \in Nat, NEW n \in Nat, NEW openers, NEW closers,
         Flat(text, p, n, openers, closers)
  PROVE  Level(text, p, n, openers, closers)
<1> DEFINE S(k) == Surplus(text, k, openers, closers)
           D == {k \in 0..n : S(p + k) = S(p)}
<1>1. \A k \in Nat : S(k) \in Int /\ S(k + 1) = S(k) + Weight(text[k + 1], openers, closers)
  BY SurplusStep
<1> HIDE DEF S
<1>2. 0 \in D
  OBVIOUS
<1>3. ASSUME NEW k \in 1..n, k - 1 \in D PROVE k \in D
  <2>1. PICK i : i = k - 1
    OBVIOUS
  <2>2. p + i \in Nat /\ (p + i) + 1 = p + k /\ k \in 0..n /\ S(p + i) = S(p)
    BY <1>3, <2>1
  <2>3. Weight(text[p + k], openers, closers) = 0
    BY DEF Weight, Flat
  <2>4. S(p + k) = S(p + i)
    BY <1>1, <2>2, <2>3
  <2>5. QED
    BY <2>2, <2>4
<1> HIDE DEF D
<1>4. \A k \in 0..n : k \in D
  BY <1>2, <1>3, InductionUpTo
<1>5. QED
  BY <1>4 DEF D, S, Level

\* Every value is whole: it closes what it opens, and not before its end.
LEMMA ValueIsWhole ==
  ASSUME NEW v, IsValue(v)
  PROVE  /\ Surplus(v, Len(v), Openers, Closers) = 0
         /\ v[1] # Space
         /\ Len(v) > 1 => /\ \A j \in 1..(Len(v) - 1) : Surplus(v, j, Openers, Closers) > 0
                          /\ v[1] \in Openers
<1>1. Len(v) \in Nat \ {0}
  BY DEF IsValue
<1>2. CASE Len(v) = 1 /\ v[1].kind # "mark"
  <2>1. v[1] \notin Openers \cup Closers \cup {Space}
    BY <1>2 DEF Openers, Closers, Space, OpenBrace, CloseBrace, OpenBracket, CloseBracket, Mark
  <2>2. Weight(v[1], Openers, Closers) = 0
    BY <2>1 DEF Weight
  <2>3. Surplus(v, 0 + 1, Openers, Closers) = 0
    <3>1. Surplus(v, 0, Openers, Closers) = 0
          /\ Surplus(v, 0 + 1, Openers, Closers)
               = Surplus(v, 0, Openers, Closers) + Weight(v[0 + 1], Openers, Closers)
      BY SurplusStep
    <3>2. QED
      BY <2>2, <3>1
  <2>4. QED
    BY <1>2, <2>1, <2>3
<1>3. CASE v[1] \in Openers /\ Embraces(v, Openers, Closers)
  BY <1>3, Brackets DEF Embraces
<1>4. QED
  BY <1>2, <1>3 DEF IsValue

\* Min and Max, when the member is known.
LEMMA MinIs ==
  ASSUME NEW S \in SUBSET Int, NEW x \in S, \A y \in S : x <= y PROVE Min(S) = x
<1>1. Min(S) \in S /\ \A y \in S : Min(S) <= y
  BY DEF Min
<1>2. PICK m : m = Min(S)
  OBVIOUS
<1>3. m \in Int /\ x \in Int /\ m <= x /\ x <= m
  BY <1>1, <1>2
<1>4. m = x
  BY <1>3
<1>5. QED
  BY <1>2, <1>4

-----------------------------------------------------------------------------
(* What stands where in a body.                                             *)

\* A body and the places of its members, all of which are values.
Body(text, off, val, ms, gap) ==
  /\ gap \in Gaps /\ Len(ms) \in Nat
  /\ \A k \in 1..Len(ms) : IsValue(ms[k].value)
  /\ Layout(off, val, text, ms, gap)

KeyPlace(val, k, gap) == val[k] - 1 - Len(gap) - Len(gap)

\* Where member k is.
Placed(off, val, ms, gap, k) ==
  /\ off[k] \in Nat /\ val[k] \in Nat /\ off[k + 1] \in Nat
  /\ Len(gap) \in {0, 1} /\ Lead(k, gap) \in Nat
  /\ Lead(k, gap) = 2 + Len(gap) + Len(gap) + (IF k = 1 THEN 0 ELSE 1 + Len(gap))
  /\ val[k] = off[k] + Lead(k, gap) /\ off[k + 1] = val[k] + Len(ms[k].value)
  /\ Len(ms[k].value) \in Nat \ {0}

LEMMA Places ==
  ASSUME NEW text, NEW off, NEW val, NEW ms, NEW gap, Body(text, off, val, ms, gap),
         NEW k \in 1..Len(ms)
  PROVE  Placed(off, val, ms, gap, k)
<1>1. Len(gap) \in {0, 1}
  BY DEF Body, Gaps
<1>2. Lead(k, gap) = 2 + Len(gap) + Len(gap) + (IF k = 1 THEN 0 ELSE 1 + Len(gap))
      /\ Lead(k, gap) \in Nat
  <2>1. PICK g : g = Len(gap)
    OBVIOUS
  <2>2. Lead(k, gap) = (IF k = 1 THEN 0 ELSE 1 + g) + 2 + g + g
    BY <2>1 DEF Lead
  <2>3. g \in {0, 1}
    BY <1>1, <2>1
  <2>4. Lead(k, gap) = 2 + g + g + (IF k = 1 THEN 0 ELSE 1 + g) /\ Lead(k, gap) \in Nat
    BY <2>2, <2>3
  <2>5. QED
    BY <2>1, <2>4
<1>3. k \in 1..(Len(ms) + 1) /\ k + 1 \in 1..(Len(ms) + 1)
  BY DEF Body
<1>4. off[k] \in Nat /\ val[k] \in Nat /\ off[k + 1] \in Nat
  BY <1>3 DEF Body, Layout
<1>5. Len(ms[k].value) \in Nat \ {0}
  BY DEF Body, IsValue
<1>6. QED
  BY <1>1, <1>2, <1>4, <1>5 DEF Body, Layout, Placed

\* Before its value a member has punctuation and its key.
LEMMA LeadTokens ==
  ASSUME NEW text, NEW off, NEW val, NEW ms, NEW gap, Body(text, off, val, ms, gap),
         NEW k \in 1..Len(ms),
         NEW p \in Nat, off[k] < p, p <= val[k]
  PROVE  \/ text[p] \in {Comma, Space, Colon}
         \/ p = KeyPlace(val, k, gap) /\ text[p] = Literal(ms[k].key)
<1>0. /\ off[k] \in Nat /\ val[k] \in Nat /\ Len(gap) \in {0, 1}
      /\ Lead(k, gap) = 2 + Len(gap) + Len(gap) + (IF k = 1 THEN 0 ELSE 1 + Len(gap))
      /\ val[k] = off[k] + Lead(k, gap)
  <2>1. Placed(off, val, ms, gap, k)
    BY Places
  <2>2. QED
    BY <2>1 DEF Placed
<1> DEFINE g == Len(gap)
           o == off[k]
           w == val[k]
<1>1. /\ o \in Nat /\ w \in Nat /\ g \in {0, 1}
      /\ w = o + 2 + g + g + (IF k = 1 THEN 0 ELSE 1 + g)
  <2> DEFINE lead == Lead(k, gap)
  <2>1. /\ o \in Nat /\ w \in Nat /\ g \in {0, 1} /\ w = o + lead
        /\ lead = 2 + g + g + (IF k = 1 THEN 0 ELSE 1 + g)
    BY <1>0
  <2> HIDE DEF g, o, w, lead
  <2>2. QED
    BY <2>1
<1>2. /\ text[w - 1 - g - g] = Literal(ms[k].key)
      /\ text[w - g] = Colon
      /\ g = 1 => text[w] = Space /\ text[w - 2] = Space
      /\ k # 1 => text[o + 1] = Comma /\ (g = 1 => text[o + 2] = Space)
  BY DEF Body, Layout
<1>3. KeyPlace(val, k, gap) = w - 1 - g - g /\ o < p /\ p <= w
  BY DEF KeyPlace
<1> HIDE DEF g, o, w
<1>4. CASE g = 0
  <2>1. p = w \/ p = w - 1 \/ (k # 1 /\ p = o + 1)
    BY <1>1, <1>3, <1>4
  <2>2. w - g = w /\ w - 1 - g - g = w - 1
    BY <1>1, <1>4
  <2>3. QED
    BY <1>2, <1>3, <2>1, <2>2
<1>5. CASE g = 1
  <2>1. p = w \/ p = w - 1 \/ p = w - 2 \/ p = w - 3 \/ (k # 1 /\ (p = o + 1 \/ p = o + 2))
    BY <1>1, <1>3, <1>5
  <2>2. w - g = w - 1 /\ w - 1 - g - g = w - 3
    BY <1>1, <1>5
  <2>3. QED
    BY <1>2, <1>3, <1>5, <2>1, <2>2
<1>6. QED
  BY <1>1, <1>4, <1>5

\* The members follow one another up to the closing brace.
LEMMA MembersFill ==
  ASSUME NEW text, NEW off, NEW val, NEW ms, NEW gap, Body(text, off, val, ms, gap)
  PROVE  /\ \A k \in 1..(Len(ms) + 1) : off[k] \in Nat /\ off[k] < Len(text)
         /\ \A p \in 2..(Len(text) - 1) : \E k \in 1..Len(ms) : off[k] < p /\ p <= off[k + 1]
         /\ Len(text) \in Nat
<1> DEFINE n == Len(ms)
           len == Len(text)
           D == {k \in 0..n : \A p \in 2..off[k + 1] : \E i \in 1..n : off[i] < p /\ p <= off[i + 1]}
           E == {k \in 0..n : off[(n - k) + 1] < len}
<1>1. /\ n \in Nat /\ off[1] = 1 /\ len = off[n + 1] + 1
      /\ \A k \in 1..(n + 1) : off[k] \in Nat
  BY DEF Body, Layout
<1>2. \A k \in 1..n : off[k + 1] \in Nat /\ off[k] <= off[k + 1]
  <2> SUFFICES ASSUME NEW k \in 1..n PROVE off[k + 1] \in Nat /\ off[k] <= off[k + 1]
    OBVIOUS
  <2>1. Placed(off, val, ms, gap, k)
    BY Places
  <2> DEFINE o == off[k]
             o2 == off[k + 1]
             w == val[k]
             lead == Lead(k, gap)
             l == Len(ms[k].value)
  <2>2. o \in Nat /\ o2 \in Nat /\ w \in Nat /\ lead \in Nat /\ l \in Nat /\ w = o + lead /\ o2 = w + l
    BY <2>1 DEF Placed
  <2> HIDE DEF o, o2, w, lead, l
  <2>3. o2 \in Nat /\ o <= o2
    BY <2>2
  <2>4. QED
    BY <2>3 DEF o, o2
<1>3. \A k \in 0..n : k \in D
  <2>1. 0 \in D
    BY <1>1
  <2>2. ASSUME NEW k \in 1..n, k - 1 \in D PROVE k \in D
    <3>1. k \in 0..n /\ (k - 1) + 1 = k
      BY <1>1
    <3>2. \A p \in 2..off[k] : \E i \in 1..n : off[i] < p /\ p <= off[i + 1]
      BY <2>2, <3>1
    <3>3. off[k] \in Nat /\ off[k + 1] \in Nat
      BY <1>1, <1>2
    <3>4. ASSUME NEW p \in 2..off[k + 1] PROVE \E i \in 1..n : off[i] < p /\ p <= off[i + 1]
      <4>1. CASE p <= off[k]
        <5>1. p \in 2..off[k]
          BY <3>3, <4>1
        <5>2. QED
          BY <3>2, <5>1
      <4>2. CASE off[k] < p
        <5>1. p <= off[k + 1]
          BY <3>3
        <5>2. QED
          BY <4>2, <5>1
      <4>3. p <= off[k] \/ off[k] < p
        BY <3>3
      <4>4. QED
        BY <4>1, <4>2, <4>3
    <3>5. QED
      BY <3>1, <3>4
  <2> HIDE DEF D
  <2>3. QED
    BY <1>1, <2>1, <2>2, InductionUpTo
<1>4. \A k \in 0..n : k \in E
  <2>1. 0 \in E
    <3>1. (n - 0) + 1 = n + 1 /\ off[n + 1] < len /\ 0 \in 0..n
      BY <1>1
    <3>2. QED
      BY <3>1
  <2>2. ASSUME NEW k \in 1..n, k - 1 \in E PROVE k \in E
    <3>1. PICK i : i = (n - k) + 1
      OBVIOUS
    <3>2. k \in 0..n /\ i \in 1..n /\ (n - (k - 1)) + 1 = i + 1
      BY <1>1, <3>1
    <3>3. off[i + 1] < len
      BY <2>2, <3>2
    <3>4. off[i] \in Nat /\ off[i + 1] \in Nat /\ len \in Nat /\ off[i] <= off[i + 1]
      BY <1>1, <1>2, <3>2
    <3>5. off[i] < len
      BY <3>3, <3>4
    <3>6. QED
      BY <3>1, <3>2, <3>5
  <2> HIDE DEF E
  <2>3. QED
    BY <1>1, <2>1, <2>2, InductionUpTo
<1>5. ASSUME NEW k \in 1..(n + 1) PROVE off[k] \in Nat /\ off[k] < len
  <2>1. PICK i : i = (n - k) + 1
    OBVIOUS
  <2>2. i \in 0..n /\ (n - i) + 1 = k
    BY <1>1, <2>1
  <2>3. off[(n - i) + 1] < len
    BY <1>4, <2>2
  <2>4. QED
    BY <1>1, <2>2, <2>3
<1>6. n \in D /\ len - 1 = off[n + 1] /\ len \in Nat
  BY <1>1, <1>3
<1>7. QED
  BY <1>5, <1>6

\* Between the members the text is inside of one object.
LEMMA DepthOfMembers ==
  ASSUME NEW text, NEW off, NEW val, NEW ms, NEW gap, Body(text, off, val, ms, gap)
  PROVE  /\ \A k \in 1..(Len(ms) + 1) : DepthAt(text, off[k]) = 1
         /\ \A k \in 1..Len(ms) :
              /\ \A p \in Nat : off[k] <= p /\ p <= val[k] => DepthAt(text, p) = 1
              /\ \A j \in 0..Len(ms[k].value) :
                   DepthAt(text, val[k] + j) = 1 + DepthAt(ms[k].value, j)
<1> DEFINE n == Len(ms)
           D == {k \in 0..n : DepthAt(text, off[k + 1]) = 1}
<1>1. n \in Nat /\ off[1] = 1 /\ text[1] = OpenBrace
  BY DEF Body, Layout
<1>2. ASSUME NEW k \in 1..n, DepthAt(text, off[k]) = 1
      PROVE  /\ \A p \in Nat : off[k] <= p /\ p <= val[k] => DepthAt(text, p) = 1
             /\ \A j \in 0..Len(ms[k].value) :
                  DepthAt(text, val[k] + j) = 1 + DepthAt(ms[k].value, j)
             /\ DepthAt(text, off[k + 1]) = 1
  <2> DEFINE o == off[k]
             w == val[k]
             v == ms[k].value
             lead == Lead(k, gap)
  <2>1. Placed(off, val, ms, gap, k)
    BY Places
  <2>2. o \in Nat /\ w \in Nat /\ lead \in Nat /\ w = o + lead /\ off[k + 1] = w + Len(v) /\ Len(v) \in Nat
    BY <2>1 DEF Placed
  <2>3. Flat(text, o, lead, Openers, Closers)
    <3> SUFFICES ASSUME NEW j \in 1..lead PROVE text[o + j] \notin Openers \cup Closers
      BY DEF Flat
    <3>1. PICK p : p = o + j
      OBVIOUS
    <3>2. p \in Nat /\ off[k] < p /\ p <= val[k]
      <4> HIDE DEF lead
      <4>1. QED
        BY <2>2, <3>1
    <3>3. text[p] \in {Comma, Space, Colon} \/ text[p] = Literal(ms[k].key)
      BY <3>2, LeadTokens
    <3>4. QED
      BY <3>1, <3>3, Brackets
  <2>4. Stands(text, w, v, Len(v))
    BY DEF Body, Layout, Stands
  <2>5. DepthAt(text, o) = 1 /\ IsValue(v)
    BY <1>2 DEF Body
  <2> HIDE DEF o, w, v, lead
  <2>6. \A i \in 0..lead : DepthAt(text, o + i) = DepthAt(text, o)
    <3>1. o \in Nat /\ lead \in Nat
      BY <2>2
    <3>2. Level(text, o, lead, Openers, Closers)
      BY <2>3, <3>1, SurplusStays
    <3>3. QED
      BY <3>2 DEF DepthAt, Level
  <2>7. ASSUME NEW p \in Nat, o <= p, p <= w PROVE DepthAt(text, p) = 1
    <3>1. PICK i : i = p - o
      OBVIOUS
    <3>2. i \in 0..lead /\ o + i = p
      BY <2>2, <2>7, <3>1
    <3>3. QED
      BY <2>5, <2>6, <3>2
  <2>8. DepthAt(text, w) = 1
    BY <2>2, <2>7
  <2>9. \A j \in 0..Len(v) : DepthAt(text, w + j) = DepthAt(text, w) + DepthAt(v, j)
    <3>1. w \in Nat /\ Len(v) \in Nat
      BY <2>2
    <3>2. GoesOn(text, w, v, Len(v), Openers, Closers)
      BY <2>4, <3>1, SurplusGoesOn
    <3>3. QED
      BY <3>2 DEF DepthAt, GoesOn
  <2>10. DepthAt(v, Len(v)) = 0 /\ Len(v) \in 0..Len(v)
    BY <2>2, <2>5, ValueIsWhole DEF DepthAt
  <2>11. \A j \in 0..Len(v) : DepthAt(text, w + j) = 1 + DepthAt(v, j)
    BY <2>8, <2>9
  <2>12. DepthAt(text, off[k + 1]) = 1
    BY <2>2, <2>10, <2>11
  <2>13. QED
    BY <2>7, <2>11, <2>12 DEF o, w, v
<1>3. 0 \in D
  <2>1. /\ Surplus(text, 0, Openers, Closers) = 0
        /\ Surplus(text, 0 + 1, Openers, Closers)
             = Surplus(text, 0, Openers, Closers) + Weight(text[0 + 1], Openers, Closers)
    BY SurplusStep
  <2>2. OpenBrace \in Openers /\ OpenBrace \notin Closers
    BY Brackets DEF Openers, Apart
  <2>3. Weight(text[0 + 1], Openers, Closers) = 1
    BY <1>1, <2>2 DEF Weight
  <2>4. DepthAt(text, off[0 + 1]) = 1
    BY <1>1, <2>1, <2>3 DEF DepthAt
  <2>5. QED
    BY <1>1, <2>4
<1>4. ASSUME NEW k \in 1..n, k - 1 \in D PROVE k \in D
  <2>1. k \in 0..n /\ (k - 1) + 1 = k
    BY <1>1
  <2>2. DepthAt(text, off[k]) = 1
    BY <1>4, <2>1
  <2>3. DepthAt(text, off[k + 1]) = 1
    BY <1>2, <2>2
  <2>4. QED
    BY <2>1, <2>3
<1> HIDE DEF D
<1>5. \A k \in 0..n : k \in D
  BY <1>1, <1>3, <1>4, InductionUpTo
<1>6. \A k \in 1..(n + 1) : DepthAt(text, off[k]) = 1
  <2> SUFFICES ASSUME NEW k \in 1..(n + 1) PROVE DepthAt(text, off[k]) = 1
    OBVIOUS
  <2>1. PICK i : i = k - 1
    OBVIOUS
  <2>2. i \in 0..n /\ i + 1 = k
    BY <1>1, <2>1
  <2>3. DepthAt(text, off[i + 1]) = 1
    BY <1>5, <2>2 DEF D
  <2>4. QED
    BY <2>2, <2>3
<1>7. \A k \in 1..n : k \in 1..(n + 1)
  BY <1>1
<1>8. QED
  BY <1>2, <1>6, <1>7

\* The first token from k on that is no white space, when it is known.
LEMMA SolidIs ==
  ASSUME Len(rawBody) \in Nat, NEW k \in Nat, NEW p \in k..Len(rawBody), rawBody[p] # Space,
         \A j \in k..(p - 1) : rawBody[j] = Space
  PROVE  Solid(k) = p
<1> DEFINE S == {j \in k..Len(rawBody) : rawBody[j] # Space} \cup {Len(rawBody) + 1}
<1>1. S \in SUBSET Int /\ p \in S /\ p \in Nat
  OBVIOUS
<1>2. ASSUME NEW y \in S PROVE p <= y
  <2>1. CASE y = Len(rawBody) + 1
    BY <2>1
  <2>2. CASE y \in k..Len(rawBody) /\ rawBody[y] # Space
    <3>1. ~(y \in k..(p - 1))
      BY <2>2
    <3>2. y \in Int /\ k <= y
      BY <2>2
    <3>3. QED
      BY <1>1, <3>1, <3>2
  <2>3. QED
    BY <2>1, <2>2
<1>3. Solid(k) = Min(S)
  BY DEF Solid
<1> HIDE DEF S
<1>4. QED
  BY <1>1, <1>2, <1>3, MinIs

\* At the key of a member: the array it is the key of, if it is one.
LEMMA ArrayOfMember ==
  ASSUME NEW off, NEW val, NEW ms, NEW gap, Body(rawBody, off, val, ms, gap), NEW k \in 1..Len(ms)
  PROVE  /\ KeyPlace(val, k, gap) \in 1..Len(rawBody)
         /\ off[k] < KeyPlace(val, k, gap) /\ KeyPlace(val, k, gap) < val[k]
         /\ rawBody[KeyPlace(val, k, gap)] = Literal(ms[k].key)
         /\ ArrayAfter(KeyPlace(val, k, gap)) = IF IsArray(ms[k].value) THEN {val[k] + 1} ELSE {}
<1> DEFINE g == Len(gap)
           o == off[k]
           w == val[k]
           lead == Lead(k, gap)
           v == ms[k].value
           l == Len(v)
           len == Len(rawBody)
           kp == KeyPlace(val, k, gap)
<1>1. Placed(off, val, ms, gap, k)
  BY Places
<1>2. /\ o \in Nat /\ w \in Nat /\ g \in {0, 1} /\ lead \in Nat /\ w = o + lead
      /\ lead = 2 + g + g + (IF k = 1 THEN 0 ELSE 1 + g)
      /\ off[k + 1] = w + l /\ l \in Nat \ {0}
  BY <1>1 DEF Placed
<1>3. off[k + 1] < len /\ len \in Nat
  <2>1. k + 1 \in 1..(Len(ms) + 1)
    BY DEF Body
  <2>2. QED
    BY <2>1, MembersFill
<1>4. /\ rawBody[w - 1 - g - g] = Literal(ms[k].key)
      /\ rawBody[w - g] = Colon
      /\ g = 1 => rawBody[w] = Space /\ rawBody[w - 2] = Space
      /\ \A j \in 1..l : rawBody[w + j] = v[j]
  BY DEF Body, Layout
<1>5. v[1] # Space /\ (v[1] = OpenBracket <=> IsArray(v))
  <2>1. IsValue(v)
    BY DEF Body
  <2>2. QED
    BY <2>1, ValueIsWhole DEF IsArray
<1>6. kp = w - 1 - g - g
  BY DEF KeyPlace
<1> HIDE DEF g, o, w, lead, v, l, len, kp
<1>7. kp \in 1..len /\ o < kp /\ kp < w /\ kp + 1 \in Nat
  BY <1>2, <1>3, <1>6
<1>8. rawBody[w + 1] = v[1]
  <2>1. 1 \in 1..l
    BY <1>2
  <2>2. \A j \in 1..l : rawBody[w + j] = v[j]
    BY <1>4
  <2>3. QED
    BY <2>1, <2>2
<1>9. w - g \in (kp + 1)..len /\ (w - g) + 1 \in Nat /\ w + 1 \in ((w - g) + 1)..len
  BY <1>2, <1>3, <1>6
<1>10. \A j \in (kp + 1)..((w - g) - 1) : rawBody[j] = Space
  <2>1. CASE g = 0
    <3>1. (kp + 1)..((w - g) - 1) = {}
      BY <1>2, <1>6, <2>1
    <3>2. QED
      BY <3>1
  <2>2. CASE g = 1
    <3>1. \A j \in (kp + 1)..((w - g) - 1) : j = w - 2
      BY <1>2, <1>6, <2>2
    <3>2. QED
      BY <1>4, <2>2, <3>1
  <2>3. QED
    BY <1>2, <2>1, <2>2
<1>11. Solid(kp + 1) = w - g
  BY <1>3, <1>4, <1>7, <1>9, <1>10, SolidIs, Brackets DEF len
<1>12. \A j \in ((w - g) + 1)..((w + 1) - 1) : rawBody[j] = Space
  <2>1. CASE g = 0
    <3>1. ((w - g) + 1)..((w + 1) - 1) = {}
      BY <1>2, <2>1
    <3>2. QED
      BY <3>1
  <2>2. CASE g = 1
    <3>1. \A j \in ((w - g) + 1)..((w + 1) - 1) : j = w
      BY <1>2, <2>2
    <3>2. QED
      BY <1>4, <2>2, <3>1
  <2>3. QED
    BY <1>2, <2>1, <2>2
<1>13. Solid((w - g) + 1) = w + 1
  BY <1>3, <1>5, <1>8, <1>9, <1>12, SolidIs DEF len
<1>14. /\ Holds(w - g, Colon) /\ (Holds(w + 1, OpenBracket) <=> IsArray(v))
  BY <1>2, <1>3, <1>4, <1>5, <1>8, <1>9 DEF Holds, len
<1>15. ArrayAfter(kp) = IF IsArray(v) THEN {w + 1} ELSE {}
  BY <1>11, <1>13, <1>14 DEF ArrayAfter
<1>16. rawBody[kp] = Literal(ms[k].key)
  BY <1>4, <1>6
<1>17. QED
  BY <1>7, <1>15, <1>16 DEF kp, len, v, w, o

\* Behind a value the object goes on, or ends: there is no colon.
LEMMA NoArrayAfterValue ==
  ASSUME NEW off, NEW val, NEW ms, NEW gap, Body(rawBody, off, val, ms, gap), NEW k \in 1..Len(ms)
  PROVE  ArrayAfter(off[k + 1]) = {}
<1> DEFINE p == off[k + 1] + 1
           t == rawBody[p]
<1>1. /\ off[k + 1] \in Nat /\ p <= Len(rawBody) /\ Len(rawBody) \in Nat /\ Len(ms) \in Nat
  <2>1. k + 1 \in 1..(Len(ms) + 1) /\ Len(ms) \in Nat
    BY DEF Body
  <2>2. off[k + 1] \in Nat /\ off[k + 1] < Len(rawBody) /\ Len(rawBody) \in Nat
    BY <2>1, MembersFill
  <2>3. QED
    BY <2>1, <2>2
<1>2. t = Comma \/ t = CloseBrace
  <2>1. CASE k = Len(ms)
    BY <2>1 DEF Body, Layout
  <2>2. CASE k # Len(ms)
    <3>1. PICK i : i = k + 1
      OBVIOUS
    <3>2. i \in 1..Len(ms) /\ i # 1
      BY <1>1, <2>2, <3>1
    <3>3. rawBody[off[i] + 1] = Comma
      BY <3>2 DEF Body, Layout
    <3>4. QED
      BY <3>1, <3>3
  <2>3. QED
    BY <2>1, <2>2
<1>3. t # Space /\ t # Colon
  BY <1>2, Brackets
<1>4. p \in p..Len(rawBody) /\ p \in Nat /\ p..(p - 1) = {}
  BY <1>1
<1>5. Solid(p) = p
  BY <1>1, <1>3, <1>4, SolidIs
<1>6. ~Holds(p, Colon)
  BY <1>3 DEF Holds
<1>7. QED
  BY <1>5, <1>6 DEF ArrayAfter

\* Where an array follows a key of the object itself, the key is a member's.
LEMMA OnlyKeys ==
  ASSUME NEW off, NEW val, NEW ms, NEW gap, Body(rawBody, off, val, ms, gap),
         NEW p \in 1..Len(rawBody), DepthAt(rawBody, p - 1) = 1,
         rawBody[p] = Literal("messages"), ArrayAfter(p) # {}
  PROVE  \E k \in 1..Len(ms) :
           /\ ms[k].key = "messages" /\ IsArray(ms[k].value)
           /\ p = KeyPlace(val, k, gap)
<1>1. Len(rawBody) \in Nat /\ rawBody[1] = OpenBrace /\ rawBody[Len(rawBody)] = CloseBrace
  BY MembersFill DEF Body, Layout
<1>2. p # 1 /\ p # Len(rawBody)
  <2>1. OpenBrace # Literal("messages") /\ CloseBrace # Literal("messages")
    BY Brackets DEF Openers, Closers
  <2>2. QED
    BY <1>1, <2>1
<1>3. PICK k \in 1..Len(ms) : off[k] < p /\ p <= off[k + 1]
  <2>1. p \in 2..(Len(rawBody) - 1)
    BY <1>1, <1>2
  <2>2. QED
    BY <2>1, MembersFill
<1> DEFINE w == val[k]
           v == ms[k].value
           l == Len(v)
<1>4. off[k] \in Nat /\ w \in Nat /\ off[k + 1] = w + l /\ l \in Nat \ {0} /\ p \in Nat
  <2>1. Placed(off, val, ms, gap, k)
    BY Places
  <2>2. off[k] \in Nat /\ w \in Nat /\ off[k + 1] = w + l /\ l \in Nat \ {0}
    BY <2>1 DEF Placed
  <2>3. p \in Nat
    BY <1>1
  <2>4. QED
    BY <2>2, <2>3
<1>5. CASE p <= w
  <2>1. rawBody[p] \notin {Comma, Space, Colon}
    BY Brackets
  <2>2. p = KeyPlace(val, k, gap) /\ rawBody[p] = Literal(ms[k].key)
    BY <1>3, <1>4, <1>5, <2>1, LeadTokens
  <2>3. ms[k].key = "messages"
    BY <2>2 DEF Literal
  <2>4. IsArray(ms[k].value)
    BY <2>2, ArrayOfMember
  <2>5. QED
    BY <2>2, <2>3, <2>4
<1>6. CASE w < p
  <2>1. PICK j : j = p - w
    OBVIOUS
  <2> HIDE DEF w, l
  <2>2. j \in 1..l /\ w + j = p /\ p - 1 = w + (j - 1) /\ j - 1 \in 0..l
    BY <1>3, <1>4, <1>6, <2>1
  <2>3. v[j] = Literal("messages")
    BY <2>2 DEF Body, Layout, w, l
  <2>4. DepthAt(rawBody, w + (j - 1)) = 1 + DepthAt(v, j - 1)
    BY <2>2, DepthOfMembers DEF w, l
  <2>5. DepthAt(v, j - 1) \in Int
    <3>1. j - 1 \in Nat
      BY <2>2
    <3>2. QED
      BY <3>1, SurplusStep DEF DepthAt
  <2>6. DepthAt(v, j - 1) = 0
    BY <2>2, <2>4, <2>5
  <2>7. IsValue(v)
    BY DEF Body
  <2>8. l = 1
    <3> SUFFICES ASSUME l > 1 PROVE FALSE
      BY <1>4
    <3>1. /\ v[1] \in Openers
          /\ \A i \in 1..(l - 1) : DepthAt(v, i) > 0
      BY <2>7, ValueIsWhole DEF l, DepthAt
    <3>2. j # 1
      BY <2>3, <3>1, Brackets
    <3>3. PICK i : i = j - 1
      OBVIOUS
    <3>4. i \in 1..(l - 1)
      BY <2>2, <3>2, <3>3, <1>4
    <3>5. QED
      BY <2>6, <3>1, <3>3, <3>4
  <2>9. p = off[k + 1]
    BY <1>4, <2>2, <2>8
  <2>10. QED
    BY <2>9, NoArrayAfterValue
<1>7. QED
  BY <1>4, <1>5, <1>6

\* The bracket that ends the array of a member is the last token of its value.
LEMMA BracketOfMember ==
  ASSUME NEW off, NEW val, NEW ms, NEW gap, Body(rawBody, off, val, ms, gap), NEW k \in 1..Len(ms),
         IsArray(ms[k].value), NEW T, rawBody \in Seq(T)
  PROVE  MatchingBracket(val[k] + 1) = off[k + 1]
<1> DEFINE w == val[k]
           v == ms[k].value
           l == Len(v)
           len == Len(rawBody)
           rest == SubSeq(rawBody, w + 1, len)
           S == {i \in 1..Len(rest) : Surplus(rest, i, {OpenBracket}, {CloseBracket}) = 0}
<1>1. w \in Nat /\ off[k + 1] \in Nat /\ off[k + 1] = w + l /\ l \in Nat \ {0}
  <2>1. Placed(off, val, ms, gap, k)
    BY Places
  <2>2. QED
    BY <2>1 DEF Placed
<1>2. off[k + 1] < len /\ len \in Nat
  <2>1. k + 1 \in 1..(Len(ms) + 1)
    BY DEF Body
  <2>2. QED
    BY <2>1, MembersFill
<1>3. Embraces(v, {OpenBracket}, {CloseBracket})
  BY DEF Body, IsValue
<1>4. \A j \in 1..l : rawBody[w + j] = v[j]
  BY DEF Body, Layout
<1>5. MatchingBracket(w + 1) = Min(S) + (w + 1) - 1
  BY DEF MatchingBracket
<1> HIDE DEF S, w, v, l, len
<1>6. Len(rest) = len - w /\ \A i \in 1..(len - w) : rest[i] = rawBody[w + i]
  <2>1. w + 1 \in 1..(len + 1) /\ len \in 0..len
    BY <1>1, <1>2
  <2>2. rest = SubSeq(rawBody, w + 1, len) /\ len = Len(rawBody)
    BY DEF len
  <2>3. Len(rest) = IF w + 1 <= len THEN len - (w + 1) + 1 ELSE 0
    BY <1>1, <1>2, <2>1, <2>2, SubSeqProperties
  <2>4. \A i \in 1..(len - (w + 1) + 1) : rest[i] = rawBody[(w + 1) + i - 1]
    BY <1>1, <1>2, <2>1, <2>2, SubSeqProperties
  <2> HIDE DEF rest
  <2>5. len - (w + 1) + 1 = len - w /\ w + 1 <= len /\ \A i \in Nat : (w + 1) + i - 1 = w + i
    BY <1>1, <1>2
  <2>6. QED
    BY <2>3, <2>4, <2>5
<1> HIDE DEF rest
<1>7. Stands(rest, 0, v, l)
  <2> SUFFICES ASSUME NEW j \in 1..l PROVE rest[0 + j] = v[j]
    BY DEF Stands
  <2>1. j \in 1..(len - w) /\ 0 + j = j
    BY <1>1, <1>2
  <2>2. QED
    BY <1>4, <1>6, <2>1
<1>8. \A i \in 0..l : Surplus(rest, i, {OpenBracket}, {CloseBracket})
                        = Surplus(v, i, {OpenBracket}, {CloseBracket})
  <2>1. GoesOn(rest, 0, v, l, {OpenBracket}, {CloseBracket})
    BY <1>1, <1>7, SurplusGoesOn
  <2>2. Surplus(rest, 0, {OpenBracket}, {CloseBracket}) = 0
    BY SurplusStep
  <2>3. ASSUME NEW i \in 0..l PROVE Surplus(rest, i, {OpenBracket}, {CloseBracket})
                        = Surplus(v, i, {OpenBracket}, {CloseBracket})
    <3>1. i \in Nat /\ 0 + i = i
      BY <1>1
    <3>2. Surplus(v, i, {OpenBracket}, {CloseBracket}) \in Int
      BY <3>1, SurplusStep
    <3>3. Surplus(rest, 0 + i, {OpenBracket}, {CloseBracket})
            = Surplus(rest, 0, {OpenBracket}, {CloseBracket})
                + Surplus(v, i, {OpenBracket}, {CloseBracket})
      BY <2>1 DEF GoesOn
    <3>4. QED
      BY <2>2, <3>1, <3>2, <3>3
  <2>4. QED
    BY <2>3
<1>9. /\ Surplus(v, l, {OpenBracket}, {CloseBracket}) = 0
      /\ \A i \in 1..(l - 1) : Surplus(v, i, {OpenBracket}, {CloseBracket}) > 0
  BY <1>3 DEF Embraces, l
<1>10. l \in S /\ S \in SUBSET Int
  <2>1. l \in 1..Len(rest) /\ l \in 0..l
    BY <1>1, <1>2, <1>6
  <2>2. Surplus(rest, l, {OpenBracket}, {CloseBracket}) = 0
    BY <1>8, <1>9, <2>1
  <2>3. l \in S
    BY <2>1, <2>2 DEF S
  <2>4. S \subseteq 1..Len(rest) /\ 1..Len(rest) \subseteq Int
    BY DEF S
  <2>5. QED
    BY <2>3, <2>4
<1>11. ASSUME NEW i \in S PROVE l <= i
  <2> SUFFICES ASSUME i < l PROVE FALSE
    BY <1>1, <1>10
  <2>1. i \in 1..(l - 1) /\ i \in 0..l /\ Surplus(rest, i, {OpenBracket}, {CloseBracket}) = 0
    BY <1>1 DEF S
  <2>2. Surplus(v, i, {OpenBracket}, {CloseBracket}) = 0
    BY <1>8, <2>1
  <2>3. QED
    BY <1>9, <2>1, <2>2
<1>12. Min(S) = l
  BY <1>10, <1>11, MinIs
<1>13. MatchingBracket(w + 1) = w + l
  BY <1>1, <1>5, <1>12
<1>14. QED
  BY <1>1, <1>13 DEF w

-----------------------------------------------------------------------------
(* A body with another value for one of its members.                        *)

\* Like ms, but for the value of member k.
Replaces(ms2, ms, k, c) ==
  /\ Len(ms2) = Len(ms)
  /\ ms2[k].key = ms[k].key /\ ms2[k].value = c
  /\ \A i \in 1..Len(ms) : i # k => ms2[i] = ms[i]

Associates(a, b, c) == (a \o b) \o c = a \o (b \o c)

LEMMA Association ==
  ASSUME NEW T, NEW a \in Seq(T), NEW b \in Seq(T), NEW c \in Seq(T)
  PROVE  Associates(a, b, c)
BY DEF Associates

\* The texts f and g go on alike behind f0 and g0.
Alike(f, f0, g, g0, T) == \E Q \in Seq(T) : f = f0 \o Q /\ g = g0 \o Q

LEMMA AlikeGoesOn ==
  ASSUME NEW T, NEW f0 \in Seq(T), NEW g0 \in Seq(T), NEW f, NEW g, Alike(f, f0, g, g0, T),
         NEW s \in Seq(T)
  PROVE  Alike(f \o s, f0, g \o s, g0, T)
<1>1. PICK Q \in Seq(T) : f = f0 \o Q /\ g = g0 \o Q
  BY DEF Alike
<1>2. Q \o s \in Seq(T)
  OBVIOUS
<1>3. f \o s = f0 \o (Q \o s) /\ g \o s = g0 \o (Q \o s)
  <2>1. (f0 \o Q) \o s = f0 \o (Q \o s) /\ (g0 \o Q) \o s = g0 \o (Q \o s)
    <3>1. Associates(f0, Q, s) /\ Associates(g0, Q, s)
      BY Association
    <3>2. QED
      BY <3>1 DEF Associates
  <2>2. QED
    BY <1>1, <2>1
<1>4. QED
  BY <1>2, <1>3 DEF Alike

\* The texts with and without the other value have the rest in common.
SameRest(ms, ms2, k, c, gap, T) ==
  \E A, Q \in Seq(T) :
    /\ Write(ms, gap) = (A \o ms[k].value) \o Q
    /\ Write(ms2, gap) = (A \o c) \o Q
    /\ \E off, val : Layout(off, val, Write(ms, gap), ms, gap) /\ Len(A) = val[k]

LEMMA WriteOther ==
  ASSUME NEW T, NEW ms, NEW ms2, MembersOf(ms, T), NEW gap \in Gaps, NEW k \in 1..Len(ms),
         NEW c \in Seq(T), Replaces(ms2, ms, k, c)
  PROVE  SameRest(ms, ms2, k, c, gap, T)
<1> DEFINE n == Len(ms)
           v == ms[k].value
<1>1. MembersOf(ms2, T)
  <2>1. \A i \in 1..n : Literal(ms2[i].key) \in T /\ ms2[i].value \in Seq(T)
    BY DEF MembersOf, Replaces
  <2>2. QED
    BY <2>1 DEF MembersOf, Replaces
<1>2. PICK f \in [0..n -> Seq(T)] : Writes(f, ms, gap)
  BY WriteRec
<1>3. PICK g \in [0..n -> Seq(T)] : Writes(g, ms2, gap)
  <2>1. Len(ms2) = n
    BY DEF Replaces
  <2>2. QED
    BY <1>1, <2>1, WriteRec
<1>4. n \in Nat /\ v \in Seq(T) /\ \A i \in 0..n : f[i] \in Seq(T) /\ g[i] \in Seq(T)
  BY DEF MembersOf
<1>5. \A i \in 1..n : /\ Sep(i, gap) \in Seq(T) /\ MemberText(ms[i], gap) \in Seq(T)
                      /\ f[i] = f[i - 1] \o Sep(i, gap) \o MemberText(ms[i], gap)
                      /\ g[i] = g[i - 1] \o Sep(i, gap) \o MemberText(ms2[i], gap)
  <2>1. \A i \in 1..n : Sep(i, gap) \in Seq(T) /\ MemberText(ms[i], gap) \in Seq(T)
    BY PartsType
  <2>2. Len(ms2) = n
    BY DEF Replaces
  <2>3. QED
    BY <1>2, <1>3, <2>1, <2>2 DEF Writes
<1>6. \A i \in 1..n : i # k => MemberText(ms2[i], gap) = MemberText(ms[i], gap)
  BY DEF Replaces
<1>7. f[k - 1] = g[k - 1]
  <2> DEFINE D == {i \in 0..n : i < k => f[i] = g[i]}
  <2>1. 0 \in D
    <3>1. f[0] = <<OpenBrace>> /\ g[0] = <<OpenBrace>>
      BY <1>2, <1>3 DEF Writes
    <3>2. 0 \in 0..n
      BY <1>4
    <3>3. QED
      BY <3>1, <3>2
  <2>2. ASSUME NEW i \in 1..n, i - 1 \in D PROVE i \in D
    <3>1. i \in 0..n
      BY <1>4
    <3>2. ASSUME i < k PROVE f[i] = g[i]
      <4>1. i # k /\ i - 1 < k /\ k \in Nat
        BY <1>4, <3>2
      <4>2. f[i - 1] = g[i - 1]
        BY <2>2, <4>1
      <4>3. QED
        BY <1>5, <1>6, <4>1, <4>2
    <3>3. QED
      BY <3>1, <3>2
  <2> HIDE DEF D
  <2>3. \A i \in 0..n : i \in D
    BY <1>4, <2>1, <2>2, InductionUpTo
  <2>4. k - 1 \in 0..n /\ k - 1 < k
    BY <1>4
  <2>5. QED
    BY <2>3, <2>4 DEF D
<1> DEFINE lead == <<Literal(ms[k].key)>> \o gap \o <<Colon>> \o gap
           A == (f[k - 1] \o Sep(k, gap)) \o lead
<1>8. /\ lead \in Seq(T) /\ MemberText(ms[k], gap) = lead \o v
      /\ MemberText(ms2[k], gap) = lead \o c
  <2>1. Literal(ms[k].key) \in T /\ Colon \in T
    BY DEF MembersOf, Punctuation
  <2>2. gap \in Seq(T)
    BY PartsType
  <2>3. <<Literal(ms[k].key)>> \in Seq(T) /\ <<Colon>> \in Seq(T)
    BY <2>1
  <2>4. \A a, b \in Seq(T) : a \o b \in Seq(T)
    OBVIOUS
  <2>5. lead \in Seq(T)
    BY <2>2, <2>3, <2>4
  <2>6. ms2[k].key = ms[k].key /\ ms2[k].value = c
    BY DEF Replaces
  <2>7. QED
    BY <2>5, <2>6 DEF MemberText
<1> HIDE DEF lead, v
<1>9. k - 1 \in 0..n /\ k \in 0..n
  BY <1>4
<1>10. A \in Seq(T) /\ f[k] = A \o v /\ g[k] = A \o c
  <2>1. f[k - 1] \in Seq(T) /\ Sep(k, gap) \in Seq(T)
    BY <1>4, <1>5, <1>9
  <2> DEFINE a == f[k - 1] \o Sep(k, gap)
  <2>2. a \in Seq(T)
    BY <2>1
  <2>3. f[k] = a \o (lead \o v) /\ g[k] = a \o (lead \o c) /\ A = a \o lead
    BY <1>5, <1>7, <1>8
  <2> HIDE DEF a, A
  <2>4. lead \in Seq(T) /\ v \in Seq(T)
    BY <1>4, <1>8
  <2>5. a \o (lead \o v) = (a \o lead) \o v /\ a \o (lead \o c) = (a \o lead) \o c
    <3>1. Associates(a, lead, v) /\ Associates(a, lead, c)
      BY <2>2, <2>4, Association
    <3>2. QED
      BY <3>1 DEF Associates
  <2>6. a \o lead \in Seq(T)
    BY <2>2, <2>4, ConcatProperties
  <2>7. QED
    BY <2>3, <2>5, <2>6
<1> HIDE DEF A
<1>11. ASSUME NEW m \in 0..(n - k) PROVE Alike(f[k + m], f[k], g[k + m], g[k], T)
  <2> DEFINE D == {i \in 0..(n - k) : Alike(f[k + i], f[k], g[k + i], g[k], T)}
  <2>1. 0 \in D
    <3>1. f[k] = f[k] \o <<>> /\ g[k] = g[k] \o <<>> /\ <<>> \in Seq(T)
      BY <1>4, <1>9, ConcatEmptySeq
    <3>2. Alike(f[k], f[k], g[k], g[k], T)
      <4>1. PICK e : e = <<>>
        OBVIOUS
      <4>2. f[k] = f[k] \o e /\ g[k] = g[k] \o e /\ e \in Seq(T)
        BY <3>1, <4>1
      <4>3. QED
        BY <4>2 DEF Alike
    <3>21. k + 0 = k
      BY <1>4
    <3>3. QED
      BY <1>4, <3>2, <3>21
  <2>2. ASSUME NEW i \in 1..(n - k), i - 1 \in D PROVE i \in D
    <3>1. PICK j : j = k + i
      OBVIOUS
    <3>2. j \in 1..n /\ j - 1 = k + (i - 1) /\ j # k /\ i \in 0..(n - k)
      BY <1>4, <3>1
    <3>3. Alike(f[j - 1], f[k], g[j - 1], g[k], T)
      BY <2>2, <3>2
    <3> DEFINE s == Sep(j, gap)
               t == MemberText(ms[j], gap)
    <3>4. f[j] = (f[j - 1] \o s) \o t /\ g[j] = (g[j - 1] \o s) \o t /\ s \in Seq(T) /\ t \in Seq(T)
      BY <1>5, <1>6, <3>2
    <3>5. f[k] \in Seq(T) /\ g[k] \in Seq(T)
      BY <1>4, <1>9
    <3> HIDE DEF s, t
    <3>6. Alike(f[j - 1] \o s, f[k], g[j - 1] \o s, g[k], T)
      BY <3>3, <3>4, <3>5, AlikeGoesOn
    <3>7. Alike(f[j], f[k], g[j], g[k], T)
      BY <3>4, <3>5, <3>6, AlikeGoesOn
    <3>8. QED
      BY <3>1, <3>2, <3>7
  <2> HIDE DEF D
  <2>3. n - k \in Nat
    BY <1>4
  <2>4. \A i \in 0..(n - k) : i \in D
    BY <2>1, <2>2, <2>3, InductionUpTo
  <2>5. QED
    BY <2>4 DEF D
<1>12. Alike(f[n], f[k], g[n], g[k], T)
  <2>1. n - k \in 0..(n - k) /\ k + (n - k) = n
    BY <1>4
  <2>2. QED
    BY <1>11, <2>1
<1>13. Alike(Write(ms, gap), f[k], Write(ms2, gap), g[k], T)
  <2>1. <<CloseBrace>> \in Seq(T) /\ f[k] \in Seq(T) /\ g[k] \in Seq(T)
    BY <1>4, <1>9, PartsType
  <2>2. Write(ms, gap) = f[n] \o <<CloseBrace>> /\ Write(ms2, gap) = g[n] \o <<CloseBrace>>
    BY <1>2, <1>3 DEF Writes, Replaces
  <2>3. QED
    BY <1>12, <2>1, <2>2, AlikeGoesOn
<1>14. PICK Q \in Seq(T) : Write(ms, gap) = (A \o v) \o Q /\ Write(ms2, gap) = (A \o c) \o Q
  BY <1>10, <1>13 DEF Alike
<1>15. PICK off, val : /\ Layout(off, val, Write(ms, gap), ms, gap)
                       /\ Measures(off, f, n)
  BY <1>2, WriteLayout
<1>16. Len(A) = val[k]
  <2>1. k + 1 \in 1..(n + 1) /\ (k + 1) - 1 = k
    BY <1>4
  <2>2. off[k + 1] = Len(f[k])
    BY <1>15, <2>1 DEF Measures
  <2>3. off[k + 1] = val[k] + Len(v) /\ val[k] \in Nat
    BY <1>15 DEF Layout, v
  <2>4. Len(f[k]) = Len(A) + Len(v) /\ Len(A) \in Nat /\ Len(v) \in Nat
    BY <1>4, <1>10, ConcatProperties
  <2> HIDE DEF v
  <2>5. PICK a, b, w : a = Len(A) /\ b = Len(v) /\ w = val[k]
    OBVIOUS
  <2>6. w + b = a + b /\ a \in Nat /\ b \in Nat /\ w \in Nat
    BY <2>2, <2>3, <2>4, <2>5
  <2>7. a = w
    BY <2>6
  <2>8. QED
    BY <2>5, <2>7
<1>17. QED
  BY <1>10, <1>14, <1>15, <1>16 DEF v, SameRest

\* What is put into the place of the array makes it that body.
Between(text, a, v, q) == text = (a \o v) \o q

Spliced(text, a, v, c) ==
  SubSeq(text, 1, Len(a)) \o c \o SubSeq(text, Len(a) + Len(v) + 1, Len(text))

LEMMA SpliceOther ==
  ASSUME NEW T, NEW A \in Seq(T), NEW v \in Seq(T), NEW Q \in Seq(T), NEW text,
         Between(text, A, v, Q), NEW c \in Seq(T), NEW other, Between(other, A, c, Q)
  PROVE  Spliced(text, A, v, c) = other
<1>1. A \o v \in Seq(T) /\ text \in Seq(T) /\ text = (A \o v) \o Q /\ other = (A \o c) \o Q
  BY DEF Between
<1>2. /\ Len(A) \in Nat /\ Len(v) \in Nat /\ Len(Q) \in Nat
      /\ Len(text) = Len(A) + Len(v) + Len(Q) /\ Len(A \o v) = Len(A) + Len(v)
  BY <1>1
<1>3. SubSeq(text, 1, Len(A)) = A
  <2>1. \A i \in 1..Len(A) : text[i] = A[i]
    BY <1>1, <1>2
  <2>2. QED
    BY <1>1, <1>2, <2>1
<1>4. SubSeq(text, Len(A) + Len(v) + 1, Len(text)) = Q
  <2>1. \A i \in 1..Len(Q) : text[Len(A) + Len(v) + i] = Q[i]
    BY <1>1, <1>2
  <2>2. QED
    BY <1>1, <1>2, <2>1
<1>5. QED
  BY <1>1, <1>3, <1>4 DEF Spliced

-----------------------------------------------------------------------------
(* A reader of a written text finds the members again.                      *)

TokensOf(v) == {v[j] : j \in 1..Len(v)}

LEMMA MaxIs ==
  ASSUME NEW S \in SUBSET Int, NEW x \in S, \A y \in S : y <= x PROVE Max(S) = x
<1>1. Max(S) = CHOOSE z \in S : \A y \in S : z >= y
  BY DEF Max
<1>2. \A y \in S : x >= y
  OBVIOUS
<1>3. \A z \in S : (\A y \in S : z >= y) => z = x
  OBVIOUS
<1>4. QED
  BY <1>1, <1>2, <1>3

LEMMA GreatestMember ==
  ASSUME NEW n \in Nat, NEW S \in SUBSET (1..n), S # {}
  PROVE  \E x \in S : \A y \in S : x >= y
<1> DEFINE R == {n - x : x \in S}
<1>1. R \in SUBSET Nat /\ R # {}
  <2>1. \A x \in S : n - x \in Nat
    OBVIOUS
  <2>2. QED
    BY <2>1
<1>2. PICK r \in R : \A y \in R : r <= y
  BY <1>1, LeastMember
<1>3. PICK x \in S : r = n - x
  BY <1>2
<1>4. ASSUME NEW y \in S PROVE x >= y
  <2>1. n - y \in R /\ x \in Int /\ y \in Int
    OBVIOUS
  <2>2. n - x <= n - y
    BY <1>2, <1>3, <2>1
  <2>3. QED
    BY <2>1, <2>2
<1>5. QED
  BY <1>3, <1>4

LEMMA MaxMember ==
  ASSUME NEW n \in Nat, NEW S \in SUBSET (1..n), S # {} PROVE Max(S) \in S
<1>1. \E x \in S : \A y \in S : x >= y
  BY GreatestMember
<1>2. QED
  BY <1>1 DEF Max

\* The commas and colons of a value are inside of its brackets.
LEMMA ValueDepth ==
  ASSUME NEW v, IsValue(v), NEW j \in 1..Len(v)
  PROVE  /\ DepthAt(v, j) \in Nat
         /\ v[j] \in {Comma, Colon} => DepthAt(v, j) # 0
<1>1. /\ Len(v) \in Nat \ {0} /\ DepthAt(v, Len(v)) = 0
      /\ Len(v) > 1 => \A i \in 1..(Len(v) - 1) : DepthAt(v, i) > 0
  BY ValueIsWhole DEF IsValue, DepthAt
<1>2. \A i \in Nat : DepthAt(v, i) \in Int
  BY SurplusStep DEF DepthAt
<1>3. CASE j < Len(v)
  <2>1. j \in 1..(Len(v) - 1) /\ Len(v) > 1 /\ j \in Nat
    BY <1>1, <1>3
  <2>2. DepthAt(v, j) > 0 /\ DepthAt(v, j) \in Int
    BY <1>1, <1>2, <2>1
  <2>3. QED
    BY <2>2
<1>4. CASE j = Len(v)
  <2>1. DepthAt(v, j) = 0
    BY <1>1, <1>4
  <2>2. ASSUME v[j] \in {Comma, Colon} PROVE FALSE
    <3>1. Weight(v[j], Openers, Closers) = 0
      BY <2>2, Brackets DEF Weight
    <3>2. PICK i : i = j - 1
      OBVIOUS
    <3>3. i \in Nat /\ i + 1 = j
      BY <1>1, <3>2
    <3>4. DepthAt(v, i + 1) = DepthAt(v, i) + Weight(v[i + 1], Openers, Closers)
      BY <3>3, SurplusStep DEF DepthAt
    <3>5. DepthAt(v, i) = 0
      BY <1>2, <2>1, <3>1, <3>3, <3>4
    <3>6. CASE i = 0
      <4>1. Len(v) = 1 /\ v[1] \in {Comma, Colon}
        BY <1>4, <2>2, <3>3, <3>6
      <4>2. v[1].kind = "mark"
        BY <4>1 DEF Comma, Colon, Mark
      <4>3. v[1] \in Openers
        BY <4>2 DEF IsValue
      <4>4. QED
        BY <4>1, <4>3, Brackets
    <3>7. CASE i # 0
      <4>1. i \in 1..(Len(v) - 1) /\ Len(v) > 1
        BY <1>1, <1>4, <3>3, <3>7
      <4>2. QED
        BY <1>1, <3>5, <4>1
    <3>8. QED
      BY <3>6, <3>7
  <2>3. QED
    BY <2>1, <2>2
<1>5. QED
  BY <1>1, <1>3, <1>4

ColonPlace(val, k, gap) == val[k] - Len(gap)

\* The token before a colon.
KeyOf(text, colon) == text[Max({i \in 1..(colon - 1) : text[i] # Space})]

\* A member's colon, and the key before it.
LEMMA ColonOfMember ==
  ASSUME NEW text, NEW off, NEW val, NEW ms, NEW gap, Body(text, off, val, ms, gap),
         NEW k \in 1..Len(ms)
  PROVE  /\ ColonPlace(val, k, gap) \in Nat
         /\ off[k] < ColonPlace(val, k, gap) /\ ColonPlace(val, k, gap) <= val[k]
         /\ text[ColonPlace(val, k, gap)] = Colon
         /\ KeyOf(text, ColonPlace(val, k, gap)) = Literal(ms[k].key)
         /\ \A p \in Nat : off[k] < p /\ p <= val[k] /\ text[p] = Colon => p = ColonPlace(val, k, gap)
         /\ \A p \in Nat : ColonPlace(val, k, gap) <= p /\ p <= val[k] => text[p] # Comma
<1> DEFINE g == Len(gap)
           o == off[k]
           w == val[k]
           first == k = 1
           lead == Lead(k, gap)
<1>1. /\ o \in Nat /\ w \in Nat /\ g \in {0, 1} /\ w = o + lead
      /\ lead = 2 + g + g + (IF first THEN 0 ELSE 1 + g)
  <2>1. Placed(off, val, ms, gap, k)
    BY Places
  <2>2. QED
    BY <2>1 DEF Placed
<1>2. /\ text[w - 1 - g - g] = Literal(ms[k].key)
      /\ text[w - g] = Colon
      /\ g = 1 => text[w] = Space /\ text[w - 2] = Space
      /\ ~first => text[o + 1] = Comma /\ (g = 1 => text[o + 2] = Space)
  BY DEF Body, Layout
<1>3. ColonPlace(val, k, gap) = w - g /\ off[k] = o /\ val[k] = w
  BY DEF ColonPlace
<1>4. /\ Literal(ms[k].key) \notin {Space, Comma, Colon}
      /\ Space # Comma /\ Space # Colon /\ Comma # Colon
  BY Brackets
<1>5. PICK q : q = w - g
  OBVIOUS
<1> HIDE DEF g, o, w, first, lead
<1>6. CASE g = 0
  <2>1. q = w /\ w - 1 - g - g = w - 1 /\ q - 1 = w - 1 /\ w - 1 \in Nat \ {0}
        /\ w = o + 2 + (IF first THEN 0 ELSE 1)
    BY <1>1, <1>5, <1>6
  <2>2. /\ q \in Nat /\ o < q /\ q <= w
        /\ \A p \in Nat : o < p /\ p <= w => p = w \/ p = w - 1 \/ (~first /\ p = o + 1)
        /\ \A p \in Nat : q <= p /\ p <= w => p = w
    BY <1>1, <2>1
  <2>3. text[q] = Colon /\ text[w - 1] = Literal(ms[k].key) /\ (~first => text[o + 1] = Comma)
    BY <1>2, <1>5, <2>1
  <2>4. KeyOf(text, q) = Literal(ms[k].key)
    <3> DEFINE S == {i \in 1..(q - 1) : text[i] # Space}
    <3>1. S \in SUBSET Int /\ w - 1 \in S /\ \A y \in S : y <= w - 1
      BY <1>1, <1>4, <2>1, <2>3
    <3> HIDE DEF S
    <3>2. Max(S) = w - 1
      BY <3>1, MaxIs
    <3>3. QED
      BY <2>3, <3>2 DEF KeyOf, S
  <2>5. \A p \in Nat : o < p /\ p <= w /\ text[p] = Colon => p = q
    BY <1>4, <2>1, <2>2, <2>3
  <2>6. \A p \in Nat : q <= p /\ p <= w => text[p] # Comma
    BY <1>4, <2>1, <2>2, <2>3
  <2>7. QED
    BY <1>3, <1>5, <2>2, <2>3, <2>4, <2>5, <2>6
<1>7. CASE g = 1
  <2>1. q = w - 1 /\ w - 1 - g - g = w - 3 /\ q - 1 = w - 2 /\ w - 3 \in Nat \ {0}
        /\ w = o + 4 + (IF first THEN 0 ELSE 2)
    BY <1>1, <1>5, <1>7
  <2>2. /\ q \in Nat /\ o < q /\ q <= w
        /\ \A p \in Nat : o < p /\ p <= w =>
             p = w \/ p = w - 1 \/ p = w - 2 \/ p = w - 3 \/ (~first /\ (p = o + 1 \/ p = o + 2))
        /\ \A p \in Nat : q <= p /\ p <= w => p = w \/ p = q
    BY <1>1, <2>1
  <2>3. /\ text[q] = Colon /\ text[w - 3] = Literal(ms[k].key)
        /\ text[w] = Space /\ text[w - 2] = Space
        /\ ~first => text[o + 1] = Comma /\ text[o + 2] = Space
    BY <1>2, <1>5, <1>7, <2>1
  <2>4. KeyOf(text, q) = Literal(ms[k].key)
    <3> DEFINE S == {i \in 1..(q - 1) : text[i] # Space}
    <3>1. S \in SUBSET Int /\ w - 3 \in S
      BY <1>1, <1>4, <2>1, <2>3
    <3>2. ASSUME NEW y \in S PROVE y <= w - 3
      <4>1. y # w - 2 /\ y \in Int /\ y <= w - 2
        BY <1>1, <2>1, <2>3
      <4>2. QED
        BY <1>1, <4>1
    <3> HIDE DEF S
    <3>3. Max(S) = w - 3
      BY <3>1, <3>2, MaxIs
    <3>4. QED
      BY <2>3, <3>3 DEF KeyOf, S
  <2>5. \A p \in Nat : o < p /\ p <= w /\ text[p] = Colon => p = q
    BY <1>4, <2>1, <2>2, <2>3
  <2>6. \A p \in Nat : q <= p /\ p <= w => text[p] # Comma
    BY <1>4, <2>1, <2>2, <2>3
  <2>7. QED
    BY <1>3, <1>5, <2>2, <2>3, <2>4, <2>5, <2>6
<1>8. QED
  BY <1>1, <1>6, <1>7

LEMMA ColonDepth ==
  ASSUME NEW text, NEW off, NEW val, NEW ms, NEW gap, Body(text, off, val, ms, gap),
         NEW k \in 1..Len(ms)
  PROVE  /\ ColonPlace(val, k, gap) \in 1..Len(text)
         /\ DepthAt(text, ColonPlace(val, k, gap)) = 1
<1>1. PICK p : p = ColonPlace(val, k, gap)
  OBVIOUS
<1>2. p \in Nat /\ off[k] < p /\ p <= val[k]
  BY <1>1, ColonOfMember
<1>3. /\ off[k] \in Nat /\ val[k] \in Nat /\ off[k + 1] \in Nat /\ val[k] <= off[k + 1]
  <2>1. PICK l : l = Len(ms[k].value)
    OBVIOUS
  <2>2. /\ off[k] \in Nat /\ val[k] \in Nat /\ off[k + 1] \in Nat /\ l \in Nat \ {0}
        /\ off[k + 1] = val[k] + l
    <3>1. Placed(off, val, ms, gap, k)
      BY Places
    <3>2. QED
      BY <2>1, <3>1 DEF Placed
  <2>3. QED
    BY <2>2
<1>4. DepthAt(text, p) = 1
  <2>1. off[k] <= p
    BY <1>2, <1>3
  <2>2. QED
    BY <1>2, <2>1, DepthOfMembers
<1>5. off[k + 1] < Len(text) /\ Len(text) \in Nat
  <2>1. k + 1 \in 1..(Len(ms) + 1)
    BY DEF Body
  <2>2. QED
    BY <2>1, MembersFill
<1>6. QED
  BY <1>1, <1>2, <1>3, <1>4, <1>5

\* At the depth of the object there are no other colons.
LEMMA OnlyColons ==
  ASSUME NEW text, NEW off, NEW val, NEW ms, NEW gap, Body(text, off, val, ms, gap),
         NEW p \in 1..Len(text), text[p] = Colon, DepthAt(text, p) = 1
  PROVE  \E k \in 1..Len(ms) : p = ColonPlace(val, k, gap)
<1>1. Len(text) \in Nat /\ text[1] = OpenBrace /\ text[Len(text)] = CloseBrace
  BY MembersFill DEF Body, Layout
<1>2. p # 1 /\ p # Len(text)
  <2>1. OpenBrace # Colon /\ CloseBrace # Colon
    BY Brackets DEF Openers, Closers
  <2>2. QED
    BY <1>1, <2>1
<1>3. PICK k \in 1..Len(ms) : off[k] < p /\ p <= off[k + 1]
  <2>1. p \in 2..(Len(text) - 1)
    BY <1>1, <1>2
  <2>2. QED
    BY <2>1, MembersFill
<1> DEFINE w == val[k]
           v == ms[k].value
           l == Len(v)
<1>4. w \in Nat /\ off[k + 1] = w + l /\ l \in Nat \ {0} /\ p \in Nat
  <2>1. Placed(off, val, ms, gap, k)
    BY Places
  <2>2. w \in Nat /\ off[k + 1] = w + l /\ l \in Nat \ {0}
    BY <2>1 DEF Placed
  <2>3. p \in Nat
    BY <1>1
  <2>4. QED
    BY <2>2, <2>3
<1>5. CASE p <= w
  BY <1>3, <1>4, <1>5, ColonOfMember
<1>6. CASE w < p
  <2>1. PICK j : j = p - w
    OBVIOUS
  <2> HIDE DEF w, l
  <2>2. j \in 1..l /\ w + j = p /\ j \in 0..l
    BY <1>3, <1>4, <1>6, <2>1
  <2>3. v[j] = Colon
    BY <2>2 DEF Body, Layout, w, l
  <2>4. DepthAt(text, w + j) = 1 + DepthAt(v, j)
    BY <2>2, DepthOfMembers DEF w, l
  <2>5. IsValue(v)
    BY DEF Body
  <2>6. DepthAt(v, j) \in Nat /\ DepthAt(v, j) # 0
    BY <2>2, <2>3, <2>5, ValueDepth DEF l
  <2>7. QED
    BY <2>2, <2>4, <2>6
<1>7. QED
  BY <1>4, <1>5, <1>6

\* The members follow each other.
LEMMA Ascends ==
  ASSUME NEW text, NEW off, NEW val, NEW ms, NEW gap, Body(text, off, val, ms, gap)
  PROVE  \A i, j \in 1..Len(ms) : i < j => off[i + 1] <= off[j]
<1> DEFINE n == Len(ms)
           D == {j \in 0..n : \A i \in 1..n : i < j => off[i + 1] <= off[j]}
<1>1. n \in Nat
  BY DEF Body
<1>2. ASSUME NEW k \in 1..n PROVE off[k] \in Nat /\ off[k + 1] \in Nat /\ off[k] <= off[k + 1]
  <2>1. PICK l : l = Len(ms[k].value)
    OBVIOUS
  <2>2. PICK lead : lead = Lead(k, gap)
    OBVIOUS
  <2>3. /\ off[k] \in Nat /\ val[k] \in Nat /\ off[k + 1] \in Nat /\ l \in Nat /\ lead \in Nat
        /\ val[k] = off[k] + lead /\ off[k + 1] = val[k] + l
    <3>1. Placed(off, val, ms, gap, k)
      BY Places
    <3>2. QED
      BY <2>1, <2>2, <3>1 DEF Placed
  <2>4. QED
    BY <2>3
<1>3. 0 \in D
  BY <1>1
<1>4. ASSUME NEW j \in 1..n, j - 1 \in D PROVE j \in D
  <2> SUFFICES ASSUME NEW i \in 1..n, i < j PROVE off[i + 1] <= off[j]
    BY <1>1
  <2>1. PICK h : h = j - 1
    OBVIOUS
  <2>2. h \in 1..n /\ h + 1 = j /\ (i = h \/ i < h)
    BY <1>1, <2>1
  <2>3. i < h => off[i + 1] <= off[h]
    BY <1>4, <2>1
  <2>4. off[h] \in Nat /\ off[j] \in Nat /\ off[h] <= off[j] /\ off[i + 1] \in Nat
    BY <1>2, <2>2
  <2>5. QED
    BY <2>2, <2>3, <2>4
<1> HIDE DEF D
<1>5. \A j \in 0..n : j \in D
  BY <1>1, <1>3, <1>4, InductionUpTo
<1>6. \A j \in 1..n : j \in 0..n
  BY <1>1
<1>7. QED
  BY <1>5, <1>6 DEF D

\* Behind its colon a member's value reaches to the next comma of the object,
\* or to its end.
EndsOf(text, colon) ==
  {p \in colon..Len(text) :
     DepthAt(text, p) = 0 \/ (DepthAt(text, p) = 1 /\ text[p] = Comma)}

LEMMA MemberEnds ==
  ASSUME NEW text, NEW off, NEW val, NEW ms, NEW gap, Body(text, off, val, ms, gap),
         NEW k \in 1..Len(ms)
  PROVE  off[k + 1] + 1 \in EndsOf(text, ColonPlace(val, k, gap))
<1>1. PICK e : e = off[k + 1]
  OBVIOUS
<1>2. PICK c : c = ColonPlace(val, k, gap)
  OBVIOUS
<1>3. /\ e \in Nat /\ e < Len(text) /\ Len(text) \in Nat /\ DepthAt(text, e) = 1 /\ Len(ms) \in Nat
  <2>1. k + 1 \in 1..(Len(ms) + 1) /\ Len(ms) \in Nat
    BY DEF Body
  <2>2. QED
    BY <1>1, <2>1, MembersFill, DepthOfMembers
<1>4. c \in Nat /\ c <= e
  <2>1. PICK l : l = Len(ms[k].value)
    OBVIOUS
  <2>2. PICK w : w = val[k]
    OBVIOUS
  <2>3. w \in Nat /\ e \in Nat /\ l \in Nat /\ e = w + l
    <3>1. Placed(off, val, ms, gap, k)
      BY Places
    <3>2. QED
      BY <1>1, <2>1, <2>2, <3>1 DEF Placed
  <2>4. c \in Nat /\ c <= w
    BY <1>2, <2>2, ColonOfMember
  <2>5. QED
    BY <2>3, <2>4
<1>5. /\ e + 1 \in c..Len(text)
      /\ DepthAt(text, e + 1) = DepthAt(text, e) + Weight(text[e + 1], Openers, Closers)
  BY <1>3, <1>4, SurplusStep DEF DepthAt
<1>6. DepthAt(text, e + 1) = 0 \/ (DepthAt(text, e + 1) = 1 /\ text[e + 1] = Comma)
  <2>1. CASE k = Len(ms)
    <3>1. text[e + 1] = CloseBrace
      BY <1>1, <2>1 DEF Body, Layout
    <3>2. CloseBrace \in Closers /\ CloseBrace \notin Openers
      BY Brackets DEF Apart, Closers
    <3>3. Weight(text[e + 1], Openers, Closers) = 0 - 1
      BY <3>1, <3>2 DEF Weight
    <3>4. QED
      BY <1>3, <1>5, <3>3
  <2>2. CASE k # Len(ms)
    <3>1. PICK i : i = k + 1
      OBVIOUS
    <3>2. i \in 1..Len(ms) /\ i # 1
      BY <1>3, <2>2, <3>1
    <3>3. text[off[i] + 1] = Comma
      BY <3>2 DEF Body, Layout
    <3>4. text[e + 1] = Comma
      BY <1>1, <3>1, <3>3
    <3>5. Weight(text[e + 1], Openers, Closers) = 0
      BY <3>4, Brackets DEF Weight
    <3>6. QED
      BY <1>3, <1>5, <3>4, <3>5
  <2>3. QED
    BY <2>1, <2>2
<1>7. QED
  BY <1>1, <1>2, <1>5, <1>6 DEF EndsOf

LEMMA NoEarlierEnd ==
  ASSUME NEW text, NEW off, NEW val, NEW ms, NEW gap, Body(text, off, val, ms, gap),
         NEW k \in 1..Len(ms), NEW p \in EndsOf(text, ColonPlace(val, k, gap))
  PROVE  off[k + 1] + 1 <= p
<1>1. PICK c : c = ColonPlace(val, k, gap)
  OBVIOUS
<1> DEFINE w == val[k]
           v == ms[k].value
           l == Len(v)
           e == off[k + 1]
<1>2. /\ p \in c..Len(text)
      /\ DepthAt(text, p) = 0 \/ (DepthAt(text, p) = 1 /\ text[p] = Comma)
  BY <1>1 DEF EndsOf
<1>3. c \in Nat /\ off[k] < c /\ Len(text) \in Nat
  BY <1>1, ColonOfMember, MembersFill
<1>4. off[k] \in Nat /\ w \in Nat /\ e \in Nat /\ l \in Nat /\ e = w + l
  <2>1. Placed(off, val, ms, gap, k)
    BY Places
  <2>2. QED
    BY <2>1 DEF Placed
<1> SUFFICES ASSUME p <= e PROVE FALSE
  <2>1. p \in Nat
    BY <1>2, <1>3
  <2> HIDE DEF e
  <2>2. p <= e \/ e + 1 <= p
    BY <1>4, <2>1
  <2>3. QED
    BY <2>2 DEF e
<1>5. p \in Nat /\ c <= p
  BY <1>2, <1>3
<1>6. CASE p <= w
  <2>1. off[k] <= p /\ p <= val[k]
    BY <1>3, <1>4, <1>5, <1>6
  <2>2. DepthAt(text, p) = 1
    BY <1>5, <2>1, DepthOfMembers
  <2>3. text[p] # Comma
    BY <1>1, <1>5, <2>1, ColonOfMember
  <2>4. QED
    BY <1>2, <2>2, <2>3
<1>7. CASE w < p
  <2>1. PICK j : j = p - w
    OBVIOUS
  <2> HIDE DEF w, l, e
  <2>2. j \in 1..l /\ w + j = p /\ j \in 0..l
    BY <1>4, <1>5, <1>7, <2>1
  <2>3. v[j] = text[p]
    <3>1. text[w + j] = v[j]
      BY <2>2 DEF Body, Layout, w, l
    <3>2. QED
      BY <2>2, <3>1
  <2>4. DepthAt(text, w + j) = 1 + DepthAt(v, j)
    BY <2>2, DepthOfMembers DEF w, l
  <2>5. IsValue(v)
    BY DEF Body
  <2>6. DepthAt(v, j) \in Nat /\ (v[j] = Comma => DepthAt(v, j) # 0)
    BY <2>2, <2>5, ValueDepth DEF l
  <2>7. DepthAt(text, p) = 1 + DepthAt(v, j)
    BY <2>2, <2>4
  <2>8. QED
    BY <1>2, <2>3, <2>6, <2>7
<1>8. QED
  BY <1>4, <1>5, <1>6, <1>7

\* The text u is v behind g white spaces.
Padded(u, v, g) ==
  /\ g \in {0, 1} /\ Len(u) = g + Len(v)
  /\ g = 1 => u[1] = Space
  /\ \A i \in 1..Len(v) : u[g + i] = v[i]

LEMMA DenseDropsPadding ==
  ASSUME NEW T, NEW u \in Seq(T), NEW v \in Seq(T), NEW g, Padded(u, v, g)
  PROVE  Dense(u) = Dense(v)
<1> DEFINE P == {k \in 1..Len(u) : u[k] # Space}
           Q == {k \in 1..Len(v) : v[k] # Space}
           m == Len(u)
           n == Len(v)
<1>1. PICK f \in [0..m -> Seq(T)] : Selects(f, u, P)
  BY SelectRec
<1>2. PICK h \in [0..n -> Seq(T)] : Selects(h, v, Q)
  BY SelectRec
<1>3. g \in {0, 1} /\ m = g + n /\ n \in Nat
  BY DEF Padded
<1>4. \A i \in 1..n : g + i \in P <=> i \in Q
  <2> SUFFICES ASSUME NEW i \in 1..n PROVE g + i \in P <=> i \in Q
    OBVIOUS
  <2>1. u[g + i] = v[i]
    BY DEF Padded
  <2> HIDE DEF m, n
  <2>2. g + i \in 1..m
    BY <1>3
  <2>3. QED
    BY <2>1, <2>2 DEF m, n
<1>5. f[g] = <<>>
  <2>1. f[0] = <<>>
    BY <1>1 DEF Selects
  <2>2. CASE g = 1
    <3>1. 1 \in 1..Len(u)
      <4> HIDE DEF m, n
      <4>1. 1 \in 1..m
        BY <1>3, <2>2
      <4>2. QED
        BY <4>1 DEF m
    <3>2. 1 \notin P
      BY <2>2 DEF Padded
    <3> HIDE DEF P
    <3>3. f[1] = f[1 - 1]
      BY <1>1, <3>1, <3>2 DEF Selects
    <3>4. QED
      BY <2>1, <2>2, <3>3
  <2>3. QED
    BY <1>3, <2>1, <2>2
<1> HIDE DEF P, Q
<1>6. \A i \in 1..m : f[i] = IF i \in P THEN Append(f[i - 1], u[i]) ELSE f[i - 1]
  BY <1>1 DEF Selects
<1>7. \A i \in 1..n : h[i] = IF i \in Q THEN Append(h[i - 1], v[i]) ELSE h[i - 1]
  BY <1>2 DEF Selects
<1>8. h[0] = <<>> /\ Select(u, P) = f[m] /\ Select(v, Q) = h[n]
  BY <1>1, <1>2 DEF Selects
<1> DEFINE D == {i \in 0..n : f[g + i] = h[i]}
<1>9. \A i \in 1..n : u[g + i] = v[i]
  BY DEF Padded
<1> HIDE DEF m, n
<1>10. 0 \in D
  BY <1>3, <1>5, <1>8
<1>11. ASSUME NEW i \in 1..n, i - 1 \in D PROVE i \in D
  <2>1. PICK j : j = g + i
    OBVIOUS
  <2>2. j \in 1..m /\ j - 1 = g + (i - 1) /\ i \in 0..n
    BY <1>3, <2>1
  <2>3. f[j - 1] = h[i - 1]
    BY <1>11, <2>2
  <2>4. u[j] = v[i] /\ (j \in P <=> i \in Q)
    BY <1>4, <1>9, <2>1
  <2>5. f[j] = h[i]
    BY <1>6, <1>7, <2>2, <2>3, <2>4
  <2>6. QED
    BY <2>1, <2>2, <2>5
<1> HIDE DEF D
<1>12. \A i \in 0..n : i \in D
  BY <1>3, <1>10, <1>11, InductionUpTo
<1>13. f[m] = h[n]
  <2>1. n \in 0..n
    BY <1>3
  <2>2. f[g + n] = h[n]
    BY <1>12, <2>1 DEF D
  <2>3. QED
    BY <1>3, <2>2
<1>14. QED
  BY <1>8, <1>13 DEF Dense, P, Q

LEMMA ValueRead ==
  ASSUME NEW T, NEW text \in Seq(T), NEW off, NEW val, NEW ms, NEW gap,
         Body(text, off, val, ms, gap), NEW k \in 1..Len(ms)
  PROVE  ValueAfter(text, ColonPlace(val, k, gap)) = Dense(ms[k].value)
<1> DEFINE w == val[k]
           g == Len(gap)
           v == ms[k].value
           l == Len(v)
           e == off[k + 1]
           c == ColonPlace(val, k, gap)
           u == SubSeq(text, c + 1, e)
<1>1. /\ w \in Nat /\ e \in Nat /\ l \in Nat \ {0} /\ e = w + l /\ g \in {0, 1}
  <2>1. Placed(off, val, ms, gap, k)
    BY Places
  <2>2. QED
    BY <2>1 DEF Placed
<1>2. c \in Nat /\ c = w - g
  BY ColonOfMember DEF ColonPlace
<1>3. e < Len(text) /\ Len(text) \in Nat
  <2>1. k + 1 \in 1..(Len(ms) + 1)
    BY DEF Body
  <2>2. QED
    BY <2>1, MembersFill
<1>4. Min(EndsOf(text, c)) = e + 1
  <2>1. e + 1 \in EndsOf(text, c) /\ \A p \in EndsOf(text, c) : e + 1 <= p
    BY MemberEnds, NoEarlierEnd
  <2>2. EndsOf(text, c) \in SUBSET Int
    <3> HIDE DEF c
    <3>1. QED
      BY <1>2, <1>3 DEF EndsOf
  <2> HIDE DEF c, e
  <2>3. QED
    BY <2>1, <2>2, MinIs
<1>5. ValueAfter(text, c) = Dense(SubSeq(text, c + 1, Min(EndsOf(text, c)) - 1))
  BY DEF ValueAfter, EndsOf
<1>6. ValueAfter(text, c) = Dense(u)
  <2> HIDE DEF e, c
  <2>1. (e + 1) - 1 = e
    BY <1>1
  <2>2. QED
    BY <1>4, <1>5, <2>1
<1>7. /\ \A j \in 1..l : text[w + j] = v[j]
      /\ g = 1 => text[w] = Space
      /\ IsValue(v)
  BY DEF Body, Layout
<1> HIDE DEF w, g, l, e, c
<1>8. /\ u \in Seq(T) /\ Len(u) = e - c
      /\ \A i \in 1..(e - c) : u[i] = text[c + i]
  <2>1. c + 1 \in 1..(Len(text) + 1) /\ e \in 0..Len(text) /\ c + 1 <= e + 1
    BY <1>1, <1>2, <1>3
  <2>2. u \in Seq(T)
    BY <2>1
  <2>3. /\ Len(u) = (IF c + 1 <= e THEN e - (c + 1) + 1 ELSE 0)
        /\ \A i \in 1..(e - (c + 1) + 1) : u[i] = text[(c + 1) + i - 1]
    BY <2>1, SubSeqProperties
  <2> HIDE DEF u
  <2>4. e - (c + 1) + 1 = e - c /\ c + 1 <= e /\ \A i \in Nat : (c + 1) + i - 1 = c + i
    BY <1>1, <1>2
  <2>5. QED
    BY <2>2, <2>3, <2>4
<1> HIDE DEF u
<1>9. Padded(u, v, g)
  <2>1. e - c = g + l
    BY <1>1, <1>2
  <2>2. ASSUME NEW i \in 1..l PROVE u[g + i] = v[i]
    <3>1. g + i \in 1..(e - c) /\ c + (g + i) = w + i
      BY <1>1, <1>2
    <3>2. u[g + i] = text[c + (g + i)]
      BY <1>8, <3>1
    <3>3. QED
      BY <1>7, <3>1, <3>2
  <2>3. ASSUME g = 1 PROVE u[1] = Space
    <3>1. 1 \in 1..(e - c) /\ c + 1 = w
      BY <1>1, <1>2, <2>3
    <3>2. u[1] = text[c + 1]
      BY <1>8, <3>1
    <3>3. QED
      BY <1>7, <2>3, <3>1, <3>2
  <2>4. QED
    BY <1>1, <1>8, <2>1, <2>2, <2>3 DEF Padded, l
<1>10. v \in Seq(TokensOf(v)) /\ u \in Seq(T) /\ TokensOf(v) \subseteq T
  <2>1. Len(v) \in Nat /\ v = [j \in 1..Len(v) |-> v[j]]
    BY <1>7 DEF IsValue
  <2>2. \A j \in 1..Len(v) : v[j] \in TokensOf(v)
    BY DEF TokensOf
  <2>3. v \in Seq(TokensOf(v))
    BY <2>1, <2>2
  <2>4. ASSUME NEW j \in 1..l PROVE v[j] \in T
    <3>1. g + j \in 1..Len(u) /\ u[g + j] = v[j]
      BY <1>1, <1>9 DEF Padded, l
    <3>2. QED
      BY <1>8, <3>1
  <2>5. TokensOf(v) \subseteq T
    BY <2>4 DEF TokensOf, l
  <2>6. QED
    BY <1>8, <2>3, <2>5
<1>11. v \in Seq(T)
  BY <1>10
<1>12. Dense(u) = Dense(v)
  BY <1>8, <1>9, <1>11, DenseDropsPadding
<1>13. QED
  BY <1>6, <1>12 DEF c

SameKey(ms, key) == {k \in 1..Len(ms) : ms[k].key = key}

\* What a reader finds under a key: the value of the last member that has it.
ReadOf(ms, key) ==
  IF SameKey(ms, key) = {} THEN {} ELSE {Dense(ms[Max(SameKey(ms, key))].value)}

LEMMA ReadingIs ==
  ASSUME NEW T, NEW text \in Seq(T), NEW off, NEW val, NEW ms, NEW gap,
         Body(text, off, val, ms, gap), NEW key
  PROVE  Reading(text, key) = ReadOf(ms, key)
<1> DEFINE C == {p \in 1..Len(text) : /\ text[p] = Colon /\ DepthAt(text, p) = 1
                                      /\ KeyOf(text, p) = Literal(key)}
           S == SameKey(ms, key)
           CP(k) == ColonPlace(val, k, gap)
<1>1. Reading(text, key) = IF C = {} THEN {} ELSE {ValueAfter(text, Max(C))}
  BY DEF Reading, KeyOf
<1>2. S \subseteq 1..Len(ms) /\ Len(ms) \in Nat
  BY DEF SameKey, Body
<1>3. ASSUME NEW k \in S PROVE CP(k) \in C
  <2>1. k \in 1..Len(ms) /\ ms[k].key = key
    BY DEF SameKey
  <2>2. CP(k) \in 1..Len(text) /\ DepthAt(text, CP(k)) = 1
    BY <2>1, ColonDepth
  <2>3. text[CP(k)] = Colon /\ KeyOf(text, CP(k)) = Literal(key)
    BY <2>1, ColonOfMember
  <2>4. QED
    BY <2>2, <2>3
<1>4. ASSUME NEW p \in C PROVE \E k \in S : p = CP(k)
  <2>1. PICK k \in 1..Len(ms) : p = CP(k)
    BY OnlyColons
  <2>2. KeyOf(text, p) = Literal(ms[k].key)
    BY <2>1, ColonOfMember
  <2>3. Literal(ms[k].key) = Literal(key)
    BY <2>2
  <2>4. ms[k].key = key
    BY <2>3 DEF Literal
  <2>5. QED
    BY <2>1, <2>4 DEF SameKey
<1>5. \A i, k \in 1..Len(ms) : i < k => CP(i) < CP(k)
  <2> SUFFICES ASSUME NEW i \in 1..Len(ms), NEW k \in 1..Len(ms), i < k PROVE CP(i) < CP(k)
    OBVIOUS
  <2>1. PICK l : l = Len(ms[i].value)
    OBVIOUS
  <2>2. PICK w : w = val[i]
    OBVIOUS
  <2>3. w \in Nat /\ off[i + 1] \in Nat /\ l \in Nat /\ off[i + 1] = w + l
    <3>1. Placed(off, val, ms, gap, i)
      BY Places
    <3>2. QED
      BY <2>1, <2>2, <3>1 DEF Placed
  <2>4. CP(i) \in Nat /\ CP(i) <= w
    BY <2>2, ColonOfMember
  <2>5. CP(k) \in Nat /\ off[k] < CP(k)
    BY ColonOfMember
  <2>6. off[i + 1] <= off[k] /\ off[k] \in Nat
    <3>1. Placed(off, val, ms, gap, k)
      BY Places
    <3>2. off[k] \in Nat
      BY <3>1 DEF Placed
    <3>3. QED
      BY <3>2, Ascends
  <2> HIDE DEF CP
  <2>7. QED
    BY <2>3, <2>4, <2>5, <2>6
<1>6. C \in SUBSET Int
  <2>1. Len(text) \in Nat
    OBVIOUS
  <2>2. QED
    BY <2>1
<1> HIDE DEF C, S, CP
<1>7. CASE S = {}
  BY <1>1, <1>4, <1>7 DEF ReadOf, S
<1>8. CASE S # {}
  <2>1. PICK m : m = Max(S)
    OBVIOUS
  <2>2. m \in S /\ \A k \in S : k <= m
    <3>1. Max(S) \in S
      BY <1>2, <1>8, MaxMember
    <3>2. Max(S) = CHOOSE z \in S : \A y \in S : z >= y
      BY DEF Max
    <3>3. \E z \in S : \A y \in S : z >= y
      BY <1>2, <1>8, GreatestMember
    <3>4. \A y \in S : Max(S) >= y
      BY <3>2, <3>3
    <3>5. QED
      BY <1>2, <2>1, <3>1, <3>4
  <2>3. CP(m) \in C
    BY <1>3, <2>2
  <2>4. ASSUME NEW p \in C PROVE p <= CP(m)
    <3>1. PICK k \in S : p = CP(k)
      BY <1>4
    <3>2. k \in 1..Len(ms) /\ m \in 1..Len(ms) /\ (k = m \/ k < m)
      BY <1>2, <2>2
    <3>3. p \in Int /\ CP(m) \in Int
      BY <1>6, <2>3
    <3>4. k < m => CP(k) < CP(m)
      BY <1>5, <3>2
    <3>5. QED
      BY <3>1, <3>2, <3>3, <3>4
  <2>5. Max(C) = CP(m)
    BY <1>6, <2>3, <2>4, MaxIs
  <2>6. m \in 1..Len(ms)
    BY <1>2, <2>2
  <2>7. ValueAfter(text, CP(m)) = Dense(ms[m].value)
    BY <2>6, ValueRead DEF CP
  <2>8. Reading(text, key) = {Dense(ms[m].value)}
    BY <1>1, <2>3, <2>5, <2>7
  <2>9. QED
    BY <1>8, <2>1, <2>8 DEF ReadOf, S
<1>9. QED
  BY <1>7, <1>8

-----------------------------------------------------------------------------
(* A value without white space, and as JSON.stringify writes it.            *)

LEMMA ValueSeq ==
  ASSUME NEW v, IsValue(v) PROVE v \in Seq(TokensOf(v))
<1>1. Len(v) \in Nat /\ v = [j \in 1..Len(v) |-> v[j]]
  BY DEF IsValue
<1>2. \A j \in 1..Len(v) : v[j] \in TokensOf(v)
  BY DEF TokensOf
<1>3. QED
  BY <1>1, <1>2

\* The text t has the tokens of x but for its white space.
Condenses(place, t, x) ==
  /\ place \in [1..Len(t) -> 1..Len(x)] /\ Len(t) \in Nat /\ Len(x) \in Nat
  /\ \A k \in 1..Len(t) : t[k] = x[place[k]] /\ t[k] # Space
  /\ \A k, n \in 1..Len(t) : k < n => place[k] < place[n]
  /\ \A i \in 1..Len(x) : x[i] # Space => \E k \in 1..Len(t) : place[k] = i

LEMMA DenseShape ==
  ASSUME NEW T, NEW x \in Seq(T)
  PROVE  Dense(x) \in Seq(T) /\ \E place : Condenses(place, Dense(x), x)
<1> DEFINE P == {k \in 1..Len(x) : x[k] # Space}
           t == Select(x, P)
<1>1. t \in Seq(T) /\ \E place \in [1..Len(t) -> 1..Len(x)] : Picks(place, x, P)
  <2> HIDE DEF P
  <2>1. QED
    BY SelectShape
<1>2. PICK place \in [1..Len(t) -> 1..Len(x)] : Picks(place, x, P)
  BY <1>1
<1>3. /\ \A k \in 1..Len(t) : place[k] \in P /\ t[k] = x[place[k]]
      /\ \A k, n \in 1..Len(t) : k < n => place[k] < place[n]
      /\ \A i \in 1..Len(x) : i \in P => \E k \in 1..Len(t) : place[k] = i
  BY <1>2 DEF Picks
<1>4. Dense(x) = t
  BY DEF Dense
<1> HIDE DEF t
<1>5. Len(t) \in Nat /\ Len(x) \in Nat
  BY <1>1
<1>6. Condenses(place, t, x)
  BY <1>2, <1>3, <1>5 DEF Condenses
<1>7. QED
  BY <1>1, <1>4, <1>6

LEMMA DenseAgain ==
  ASSUME NEW T, NEW x \in Seq(T), \A k \in 1..Len(x) : x[k] # Space
  PROVE  Dense(x) = x
<1> DEFINE P == {k \in 1..Len(x) : x[k] # Space}
<1>1. 1..Len(x) \subseteq P
  OBVIOUS
<1> HIDE DEF P
<1>2. Select(x, P) = x
  BY <1>1, SelectAll
<1>3. QED
  BY <1>2 DEF Dense, P

\* What is left out is white space only.
LEMMA OnlySpaceBetween ==
  ASSUME NEW t, NEW x, NEW place, Condenses(place, t, x), NEW k \in 0..Len(t),
         NEW q \in 1..Len(x), k # 0 => place[k] < q, k # Len(t) => q < place[k + 1]
  PROVE  x[q] = Space
<1> SUFFICES ASSUME x[q] # Space PROVE FALSE
  OBVIOUS
<1>1. Len(t) \in Nat /\ Len(x) \in Nat /\ place \in [1..Len(t) -> 1..Len(x)]
  BY DEF Condenses
<1>2. PICK i \in 1..Len(t) : place[i] = q
  BY DEF Condenses
<1>3. \A m, n \in 1..Len(t) : m < n => place[m] < place[n]
  BY DEF Condenses
<1>4. CASE i <= k
  <2>1. k \in 1..Len(t) /\ k # 0 /\ (i = k \/ i < k)
    BY <1>1, <1>4
  <2>2. place[i] \in Int /\ place[k] \in Int /\ place[k] < q
    BY <1>1, <2>1
  <2>3. i < k => place[i] < place[k]
    BY <1>3, <2>1
  <2>4. QED
    BY <1>2, <2>1, <2>2, <2>3
<1>5. CASE k < i
  <2>1. PICK j : j = k + 1
    OBVIOUS
  <2>2. j \in 1..Len(t) /\ k # Len(t) /\ (i = j \/ j < i)
    BY <1>1, <1>5, <2>1
  <2>3. place[i] \in Int /\ place[j] \in Int /\ q < place[j]
    BY <1>1, <2>1, <2>2
  <2>4. j < i => place[j] < place[i]
    BY <1>3, <2>2
  <2>5. QED
    BY <1>2, <2>2, <2>3, <2>4
<1>6. QED
  BY <1>1, <1>4, <1>5

SurplusKept(t, x, place, openers, closers) ==
  /\ \A k \in 1..Len(t) : Surplus(t, k, openers, closers) = Surplus(x, place[k], openers, closers)
  /\ Surplus(t, Len(t), openers, closers) = Surplus(x, Len(x), openers, closers)

LEMMA DenseSurplus ==
  ASSUME NEW t, NEW x, NEW place, Condenses(place, t, x), NEW openers, NEW closers,
         Space \notin openers \cup closers
  PROVE  SurplusKept(t, x, place, openers, closers)
<1> DEFINE S(k) == Surplus(t, k, openers, closers)
           X(k) == Surplus(x, k, openers, closers)
           pl == [k \in 0..Len(t) |-> IF k = 0 THEN 0 ELSE place[k]]
           n == Len(t)
           m == Len(x)
<1>1. n \in Nat /\ m \in Nat /\ place \in [1..n -> 1..m]
  BY DEF Condenses
<1>2. \A k \in Nat : /\ S(k) \in Int /\ S(k + 1) = S(k) + Weight(t[k + 1], openers, closers)
                     /\ X(k) \in Int /\ X(k + 1) = X(k) + Weight(x[k + 1], openers, closers)
                     /\ S(0) = 0 /\ X(0) = 0
  BY SurplusStep
<1>3. /\ pl[0] = 0 /\ \A k \in 1..n : pl[k] = place[k]
      /\ \A k \in 0..n : pl[k] \in 0..m
  BY <1>1
<1> HIDE DEF pl
<1>4. ASSUME NEW k \in 0..n, NEW e \in Nat, pl[k] <= e, e <= m, k # n => e < place[k + 1]
      PROVE  X(e) = X(pl[k])
  <2>1. PICK d : d = e - pl[k]
    OBVIOUS
  <2>2. d \in Nat /\ pl[k] + d = e /\ pl[k] \in Nat
    BY <1>1, <1>3, <1>4, <2>1
  <2>3. Flat(x, pl[k], d, openers, closers)
    <3> SUFFICES ASSUME NEW j \in 1..d PROVE x[pl[k] + j] \notin openers \cup closers
      BY DEF Flat
    <3>1. PICK q : q = pl[k] + j
      OBVIOUS
    <3>2. q \in 1..m /\ pl[k] < q /\ q <= e
      BY <1>1, <1>3, <1>4, <2>2, <3>1
    <3>3. k # 0 => place[k] < q
      BY <1>1, <1>3, <3>2
    <3>4. k # n => q < place[k + 1]
      <4> SUFFICES ASSUME k # n PROVE q < place[k + 1]
        OBVIOUS
      <4>1. k + 1 \in 1..n
        BY <1>1
      <4>2. place[k + 1] \in Int /\ e < place[k + 1]
        BY <1>1, <1>4, <4>1
      <4>3. QED
        BY <3>2, <4>2
    <3>5. x[q] = Space
      BY <3>2, <3>3, <3>4, OnlySpaceBetween
    <3>6. QED
      BY <3>1, <3>5
  <2>4. Level(x, pl[k], d, openers, closers)
    BY <2>2, <2>3, SurplusStays
  <2>5. d \in 0..d
    BY <2>2
  <2>6. Surplus(x, pl[k] + d, openers, closers) = Surplus(x, pl[k], openers, closers)
    BY <2>4, <2>5 DEF Level
  <2>7. QED
    BY <2>2, <2>6
<1> DEFINE D == {k \in 0..n : S(k) = X(pl[k])}
<1> HIDE DEF S, X
<1>5. 0 \in D
  <2>1. 0 \in 0..n /\ pl[0] = 0
    BY <1>1, <1>3
  <2>2. S(0) = X(0)
    BY <1>2
  <2>3. S(0) = X(pl[0])
    BY <2>1, <2>2
  <2>4. QED
    BY <2>1, <2>3
<1>6. ASSUME NEW k \in 1..n, k - 1 \in D PROVE k \in D
  <2>1. PICK i : i = k - 1
    OBVIOUS
  <2>2. i \in 0..n /\ i \in Nat /\ i + 1 = k /\ k \in 0..n /\ S(i) = X(pl[i])
    BY <1>1, <1>6, <2>1
  <2>3. PICK e : e = place[k] - 1
    OBVIOUS
  <2>4. place[k] \in 1..m
    BY <1>1
  <2>5. e \in Nat /\ e + 1 = place[k] /\ e <= m
    BY <1>1, <2>3, <2>4
  <2>6. pl[i] < place[k]
    <3>1. CASE i = 0
      BY <1>3, <2>4, <3>1
    <3>2. CASE i # 0
      <4>1. i \in 1..n /\ i < k
        BY <2>2, <3>2
      <4>2. place[i] < place[k]
        BY <4>1 DEF Condenses
      <4>3. QED
        BY <1>3, <4>1, <4>2
    <3>3. QED
      BY <3>1, <3>2
  <2>7. pl[i] <= e /\ pl[i] \in Nat
    <3>1. PICK a, b : a = pl[i] /\ b = place[k]
      OBVIOUS
    <3>2. a \in 0..m /\ b \in 1..m /\ a < b /\ e + 1 = b /\ e \in Nat
      BY <1>3, <2>2, <2>4, <2>5, <2>6, <3>1
    <3>3. a <= e /\ a \in Nat
      BY <1>1, <3>2
    <3>4. QED
      BY <3>1, <3>3
  <2>8. X(e) = X(pl[i])
    <3>1. i # n => e < place[i + 1]
      BY <2>2, <2>5
    <3>2. QED
      BY <1>4, <2>2, <2>5, <2>7, <3>1
  <2>9. t[k] = x[place[k]]
    BY DEF Condenses
  <2>10. S(i + 1) = S(i) + Weight(t[i + 1], openers, closers)
    BY <1>2, <2>2
  <2>11. X(e + 1) = X(e) + Weight(x[e + 1], openers, closers)
    BY <1>2, <2>5
  <2>12. S(k) = X(place[k])
    BY <2>2, <2>5, <2>8, <2>9, <2>10, <2>11
  <2>13. QED
    BY <1>3, <2>2, <2>12
<1> HIDE DEF D
<1>7. \A k \in 0..n : k \in D
  BY <1>1, <1>5, <1>6, InductionUpTo
<1>8. \A k \in 1..n : S(k) = X(place[k])
  <2>1. \A k \in 1..n : k \in 0..n
    BY <1>1
  <2>2. QED
    BY <1>3, <1>7, <2>1 DEF D
<1>9. S(n) = X(m)
  <2>1. n \in 0..n /\ S(n) = X(pl[n]) /\ pl[n] <= m
    BY <1>1, <1>3, <1>7 DEF D
  <2>2. X(m) = X(pl[n])
    BY <1>1, <1>4, <2>1
  <2>3. QED
    BY <2>1, <2>2
<1>10. QED
  BY <1>8, <1>9 DEF SurplusKept, S, X

LEMMA DenseEmbraces ==
  ASSUME NEW t, NEW x, NEW place, Condenses(place, t, x), NEW openers, NEW closers,
         Space \notin openers \cup closers, Embraces(x, openers, closers)
  PROVE  Embraces(t, openers, closers)
<1>1. SurplusKept(t, x, place, openers, closers)
  BY DenseSurplus
<1>2. ASSUME NEW k \in 1..(Len(t) - 1) PROVE Surplus(t, k, openers, closers) > 0
  <2>1. /\ Len(t) \in Nat /\ Len(x) \in Nat /\ place \in [1..Len(t) -> 1..Len(x)]
        /\ \A i, n \in 1..Len(t) : i < n => place[i] < place[n]
    BY DEF Condenses
  <2>2. k \in 1..Len(t) /\ Len(t) \in 1..Len(t) /\ k < Len(t)
    BY <2>1
  <2>3. place[k] < place[Len(t)] /\ place[k] \in 1..Len(x) /\ place[Len(t)] \in 1..Len(x)
    BY <2>1, <2>2
  <2>4. place[k] \in 1..(Len(x) - 1)
    BY <2>1, <2>3
  <2>5. Surplus(x, place[k], openers, closers) > 0
    BY <2>4 DEF Embraces
  <2>6. QED
    BY <1>1, <2>2, <2>5 DEF SurplusKept
<1>3. Surplus(t, Len(t), openers, closers) = 0
  BY <1>1 DEF SurplusKept, Embraces
<1>4. QED
  BY <1>2, <1>3 DEF Embraces

\* The marks of t are those of u.
SameMarks(u, t) ==
  /\ Len(u) = Len(t) /\ Len(t) \in Nat /\ u = [k \in 1..Len(u) |-> u[k]]
  /\ \A k \in 1..Len(t) : \/ u[k] = t[k]
                          \/ u[k].kind # "mark" /\ t[k].kind # "mark"

Marks == {OpenBrace, CloseBrace, OpenBracket, CloseBracket, Space, Comma, Colon}

LEMMA MarksAre ==
  /\ \A m \in Marks : m.kind = "mark"
  /\ Openers \cup Closers \subseteq Marks /\ {OpenBracket} \cup {CloseBracket} \subseteq Marks
  /\ Space \in Marks
BY DEF Marks, Openers, Closers, OpenBrace, CloseBrace, OpenBracket, CloseBracket, Space, Comma,
       Colon, Mark

LEMMA MarksEmbrace ==
  ASSUME NEW u, NEW t, SameMarks(u, t), NEW openers, NEW closers,
         openers \cup closers \subseteq Marks, Embraces(t, openers, closers)
  PROVE  Embraces(u, openers, closers)
<1>1. \A k \in 1..Len(t), T \in {openers, closers} : u[k] \in T <=> t[k] \in T
  <2> SUFFICES ASSUME NEW k \in 1..Len(t), NEW T \in {openers, closers}
               PROVE  u[k] \in T <=> t[k] \in T
    OBVIOUS
  <2>1. CASE u[k] = t[k]
    BY <2>1
  <2>2. CASE u[k].kind # "mark" /\ t[k].kind # "mark"
    <3>1. u[k] \notin Marks /\ t[k] \notin Marks
      BY <2>2, MarksAre
    <3>2. QED
      BY <3>1
  <2>3. QED
    BY <2>1, <2>2 DEF SameMarks
<1>2. ASSUME NEW k \in 0..Len(t) PROVE Surplus(u, k, openers, closers) = Surplus(t, k, openers, closers)
  <2>1. \A j \in 1..k : j \in 1..Len(t)
    BY DEF SameMarks
  <2>2. /\ {j \in 1..k : u[j] \in openers} = {j \in 1..k : t[j] \in openers}
        /\ {j \in 1..k : u[j] \in closers} = {j \in 1..k : t[j] \in closers}
    BY <1>1, <2>1
  <2>3. QED
    BY <2>2 DEF Surplus
<1>3. /\ Len(u) = Len(t) /\ Len(t) \in Nat
      /\ Len(t) \in 0..Len(t) /\ \A k \in 1..(Len(t) - 1) : k \in 0..Len(t)
  BY DEF SameMarks
<1>4. QED
  BY <1>2, <1>3 DEF Embraces

\* Without its white space, and whatever its words become, a value stays one.
LEMMA StaysValue ==
  ASSUME NEW x, IsValue(x), NEW u, SameMarks(u, Dense(x))
  PROVE  IsValue(u) /\ u \in Seq(TokensOf(u)) /\ Dense(u) = u
<1> DEFINE t == Dense(x)
<1>1. x \in Seq(TokensOf(x)) /\ x[1] # Space /\ Len(x) \in Nat \ {0}
  BY ValueSeq, ValueIsWhole DEF IsValue
<1>2. PICK place : Condenses(place, t, x)
  BY <1>1, DenseShape
<1> HIDE DEF t
<1>3. /\ Len(t) \in Nat /\ Len(u) = Len(t) /\ u = [k \in 1..Len(u) |-> u[k]]
      /\ \A k \in 1..Len(t) : \/ u[k] = t[k]
                              \/ u[k].kind # "mark" /\ t[k].kind # "mark"
  BY DEF SameMarks, t
<1>4. Len(t) \in Nat \ {0} /\ t[1] = x[1]
  <2>1. /\ place \in [1..Len(t) -> 1..Len(x)]
        /\ \A k \in 1..Len(t) : t[k] = x[place[k]]
        /\ \A k, n \in 1..Len(t) : k < n => place[k] < place[n]
        /\ \A i \in 1..Len(x) : x[i] # Space => \E k \in 1..Len(t) : place[k] = i
    BY <1>2 DEF Condenses
  <2>2. 1 \in 1..Len(x)
    BY <1>1
  <2>3. PICK k \in 1..Len(t) : place[k] = 1
    BY <1>1, <2>1, <2>2
  <2>4. 1 \in 1..Len(t) /\ Len(t) # 0
    BY <1>3
  <2>5. k = 1
    <3>1. ~(1 < k)
      <4> SUFFICES ASSUME 1 < k PROVE FALSE
        OBVIOUS
      <4>1. place[1] < place[k] /\ place[1] \in 1..Len(x)
        BY <2>1, <2>4
      <4>2. QED
        BY <1>1, <2>3, <4>1
    <3>2. QED
      BY <1>3, <3>1
  <2>6. t[1] = x[1]
    BY <2>1, <2>3, <2>4, <2>5
  <2>7. QED
    BY <1>3, <2>4, <2>6
<1>5. SameMarks(u, t)
  BY DEF t
<1>6. \A k \in 1..Len(u) : u[k] # Space
  <2> SUFFICES ASSUME NEW k \in 1..Len(u) PROVE u[k] # Space
    OBVIOUS
  <2>1. t[k] # Space
    BY <1>2, <1>3 DEF Condenses
  <2>2. u[k] = t[k] \/ u[k].kind # "mark"
    BY <1>3
  <2>3. QED
    BY <2>1, <2>2, MarksAre
<1>7. 1 \in 1..Len(t)
  BY <1>4
<1>8. u[1] = x[1] \/ (u[1].kind # "mark" /\ x[1].kind # "mark")
  BY <1>3, <1>4, <1>7
<1>9. \/ Len(u) = 1 /\ u[1].kind # "mark"
      \/ u[1] \in Openers /\ Embraces(u, Openers, Closers)
  <2>1. CASE Len(x) = 1 /\ x[1].kind # "mark"
    <3>1. Len(t) = 1
      <4>1. /\ place \in [1..Len(t) -> 1..Len(x)]
            /\ \A k, n \in 1..Len(t) : k < n => place[k] < place[n]
        BY <1>2 DEF Condenses
      <4>2. ASSUME 2 \in 1..Len(t) PROVE FALSE
        <5>1. place[1] < place[2] /\ place[1] \in 1..1 /\ place[2] \in 1..1
          BY <1>7, <2>1, <4>1, <4>2
        <5>2. QED
          BY <5>1
      <4>3. PICK l : l = Len(t)
        OBVIOUS
      <4>4. l \in Nat \ {0} /\ ~(2 \in 1..l)
        BY <1>4, <4>2, <4>3
      <4>5. QED
        BY <4>3, <4>4
    <3>2. u[1].kind # "mark"
      BY <1>8, <2>1
    <3>3. QED
      BY <1>3, <3>1, <3>2
  <2>2. CASE x[1] \in Openers /\ Embraces(x, Openers, Closers)
    <3>1. x[1].kind = "mark" /\ Space \notin Openers \cup Closers
      BY <2>2, MarksAre, Brackets
    <3>2. u[1] \in Openers
      BY <1>8, <2>2, <3>1
    <3>3. Embraces(t, Openers, Closers)
      BY <1>2, <2>2, <3>1, DenseEmbraces
    <3>4. Embraces(u, Openers, Closers)
      BY <1>5, <3>3, MarksAre, MarksEmbrace
    <3>5. QED
      BY <3>2, <3>4
  <2>3. QED
    BY <2>1, <2>2 DEF IsValue
<1>10. ASSUME IsArray(u) PROVE Embraces(u, {OpenBracket}, {CloseBracket})
  <2>1. u[1] = OpenBracket
    BY <1>10 DEF IsArray
  <2>2. OpenBracket.kind = "mark"
    BY MarksAre
  <2>3. IsArray(x)
    BY <1>8, <2>1, <2>2 DEF IsArray
  <2>4. Embraces(x, {OpenBracket}, {CloseBracket})
    BY <2>3 DEF IsValue
  <2>5. Space \notin {OpenBracket} \cup {CloseBracket}
    BY Brackets DEF Openers, Closers
  <2>6. Embraces(t, {OpenBracket}, {CloseBracket})
    BY <1>2, <2>4, <2>5, DenseEmbraces
  <2>7. QED
    BY <1>5, <2>6, MarksAre, MarksEmbrace
<1>11. IsValue(u)
  BY <1>3, <1>4, <1>9, <1>10 DEF IsValue
<1>12. u \in Seq(TokensOf(u))
  BY <1>11, ValueSeq
<1>13. Dense(u) = u
  BY <1>6, <1>12, DenseAgain
<1>14. QED
  BY <1>11, <1>12, <1>13

LEMMA StringifiedIs ==
  ASSUME NEW x, IsValue(x)
  PROVE  /\ SameMarks(Stringified(x), Dense(x))
         /\ Stringified(Dense(x)) = Stringified(x)
<1> DEFINE Round(t) == IF t.kind = "word" THEN Word(Rounded[t.value]) ELSE t
           t == Dense(x)
           u == [k \in 1..Len(t) |-> Round(t[k])]
<1>1. x \in Seq(TokensOf(x))
  BY ValueSeq
<1>2. t \in Seq(TokensOf(x)) /\ \E place : Condenses(place, t, x)
  BY <1>1, DenseShape
<1>3. Stringified(x) = u
  BY DEF Stringified
<1>4. Dense(t) = t
  <2> HIDE DEF t
  <2>1. \A k \in 1..Len(t) : t[k] # Space
    BY <1>2 DEF Condenses
  <2>2. QED
    BY <1>2, <2>1, DenseAgain
<1>5. Stringified(t) = [k \in 1..Len(Dense(t)) |-> Round(Dense(t)[k])]
  <2> HIDE DEF t
  <2>1. QED
    BY DEF Stringified
<1>6. Stringified(t) = u
  BY <1>4, <1>5
<1> HIDE DEF t
<1>7. Len(t) \in Nat
  BY <1>2
<1>8. ASSUME NEW k \in 1..Len(t)
      PROVE  u[k] = t[k] \/ (u[k].kind # "mark" /\ t[k].kind # "mark")
  <2>1. u[k] = Round(t[k])
    OBVIOUS
  <2>2. \A w : Word(w).kind = "word"
    BY DEF Word
  <2>3. QED
    BY <2>1, <2>2
<1>9. Len(u) = Len(t) /\ u = [k \in 1..Len(u) |-> u[k]]
  BY <1>7
<1> HIDE DEF u
<1>10. SameMarks(u, t)
  BY <1>7, <1>8, <1>9 DEF SameMarks
<1>11. QED
  BY <1>3, <1>6, <1>10 DEF t

LEMMA StringifiedFacts ==
  ASSUME NEW x, IsValue(x)
  PROVE  /\ IsValue(Stringified(x)) /\ Dense(Stringified(x)) = Stringified(x)
         /\ Stringified(Dense(x)) = Stringified(x)
BY StringifiedIs, StaysValue

-----------------------------------------------------------------------------
(* The request: its members, and the compressed list in their place.        *)

\* All tokens there may be in a body.
Vocabulary ==
  Punctuation \cup {Literal(m.key) : m \in Members}
  \cup (UNION {TokensOf(m.value) : m \in Members})
  \cup (UNION {TokensOf(Condense[v]) : v \in DOMAIN Condense})

LEMMA ValueTokens ==
  ASSUME NEW v, IsValue(v), TokensOf(v) \subseteq Vocabulary
  PROVE  v \in Seq(Vocabulary)
<1>1. Len(v) \in Nat /\ v = [j \in 1..Len(v) |-> v[j]]
  BY DEF IsValue
<1>2. \A j \in 1..Len(v) : v[j] \in Vocabulary
  BY DEF TokensOf
<1>3. QED
  BY <1>1, <1>2

Gap == IF call.spaced THEN <<Space>> ELSE <<>>

\* The members that are lists of messages.
Lists == {k \in 1..Len(call.members) :
            call.members[k].key = "messages" /\ IsArray(call.members[k].value)}

CallInv ==
  /\ call \in Call /\ rawBody = Written(call)
  /\ door # "fetch" => call \in Params

LEMMA CallFacts ==
  ASSUME CallInv, call.form = "object"
  PROVE  /\ call.members \in [1..Len(call.members) -> Members] /\ Len(call.members) \in Nat
         /\ \A k \in 1..Len(call.members) :
              /\ call.members[k] = [key |-> call.members[k].key, value |-> call.members[k].value]
              /\ IsValue(call.members[k].value)
         /\ MembersOf(call.members, Vocabulary)
         /\ Gap \in Gaps /\ rawBody = Write(call.members, Gap)
<1> DEFINE ms == call.members
<1>1. ms \in UNION {[1..n -> Members] : n \in 0..MaxMembers}
  BY DEF CallInv, Call
<1>2. PICK n \in 0..MaxMembers : ms \in [1..n -> Members]
  BY <1>1
<1>3. n \in Nat
  BY FetchAssumption
<1> HIDE DEF ms
<1>4. Len(ms) = n
  BY <1>2, <1>3
<1>5. ASSUME NEW k \in 1..n
      PROVE  /\ ms[k] = [key |-> ms[k].key, value |-> ms[k].value] /\ IsValue(ms[k].value)
             /\ Literal(ms[k].key) \in Vocabulary /\ ms[k].value \in Seq(Vocabulary)
  <2>1. PICK m \in Members : m = ms[k]
    BY <1>2
  <2>2. m = [key |-> m.key, value |-> m.value] /\ IsValue(m.value)
    BY FetchAssumption
  <2>3. Literal(m.key) \in Vocabulary
    BY DEF Vocabulary
  <2>4. TokensOf(m.value) \subseteq Vocabulary
    BY DEF Vocabulary
  <2>5. m.value \in Seq(Vocabulary)
    BY <2>2, <2>4, ValueTokens
  <2>6. QED
    BY <2>1, <2>2, <2>3, <2>5
<1>6. Punctuation \subseteq Vocabulary
  BY DEF Vocabulary
<1>7. MembersOf(ms, Vocabulary)
  BY <1>3, <1>4, <1>5, <1>6 DEF MembersOf
<1>8. Gap \in Gaps
  BY DEF Gap, Gaps
<1>9. rawBody = Write(ms, Gap)
  BY DEF CallInv, Written, Gap, ms
<1>10. QED
  BY <1>2, <1>3, <1>4, <1>5, <1>7, <1>8, <1>9 DEF ms

\* Member m is the last list of messages, the one that is compressed.
Latest(m) ==
  /\ SameKey(call.members, "messages") # {} /\ m = Max(SameKey(call.members, "messages"))
  /\ m \in Lists /\ Condensed = Condense[Dense(call.members[m].value)]

\* What is intercepted is an object with a list of messages, the one that is
\* compressed.
LEMMA CondensedType ==
  ASSUME CallInv, Intercepted
  PROVE  /\ call.form = "object" /\ Condensed \in Seq(Vocabulary)
         /\ IsValue(Condensed) /\ Dense(Condensed) = Condensed
         /\ \E m : Latest(m)
<1> DEFINE ms == call.members
           same == SameKey(ms, "messages")
           list == CHOOSE v \in Messages : TRUE
<1>1. list \in Messages
  BY DEF Intercepted
<1> HIDE DEF list
<1>2. list \in Parsed("messages") /\ IsArray(list)
  BY <1>1 DEF Messages
<1>3. call.form = "object" /\ same # {} /\ list = ms[Max(same)].value
  BY <1>2 DEF Parsed, SameKey
<1>4. Len(ms) \in Nat /\ ms \in [1..Len(ms) -> Members]
  BY <1>3, CallFacts
<1>5. Max(same) \in same
  <2>1. same \in SUBSET (1..Len(ms))
    BY DEF SameKey
  <2> HIDE DEF same
  <2>2. QED
    BY <1>3, <1>4, <2>1, MaxMember
<1>51. Max(same) \in 1..Len(ms) /\ ms[Max(same)].key = "messages"
  BY <1>5 DEF SameKey
<1>6. PICK m \in Members : m.key = "messages" /\ m.value = list
  BY <1>3, <1>4, <1>51
<1>7. Dense(list) \in DOMAIN Condense
  BY <1>2, <1>6, FetchAssumption
<1>8. Condensed = Condense[Dense(list)]
  BY DEF Condensed, list
<1>9. /\ IsValue(Condensed) /\ TokensOf(Condensed) \subseteq Vocabulary
      /\ Dense(Condensed) = Condensed
  <2>1. IsValue(Condensed) /\ Dense(Condensed) = Condensed
    BY <1>7, <1>8, FetchAssumption
  <2>2. TokensOf(Condensed) \subseteq Vocabulary
    BY <1>7, <1>8 DEF Vocabulary
  <2>3. QED
    BY <2>1, <2>2
<1>10. Max(same) \in Lists
  BY <1>2, <1>3, <1>51 DEF Lists
<1>11. Latest(Max(same))
  BY <1>3, <1>8, <1>10 DEF Latest
<1>12. Condensed \in Seq(Vocabulary)
  BY <1>9, ValueTokens
<1>13. QED
  BY <1>3, <1>9, <1>11, <1>12

Other(k) == [call EXCEPT !.members[k].value = Condensed]

LEMMA OtherFacts ==
  ASSUME CallInv, call.form = "object", NEW k \in 1..Len(call.members)
  PROVE  /\ Replaces(Other(k).members, call.members, k, Condensed)
         /\ Written(Other(k)) = Write(Other(k).members, Gap)
         /\ Other(k).members
              = [i \in 1..Len(call.members) |->
                   [key   |-> call.members[i].key,
                    value |-> IF i = k THEN Condensed ELSE call.members[i].value]]
<1> DEFINE ms == call.members
           ms2 == Other(k).members
<1>1. /\ ms \in [1..Len(ms) -> Members] /\ Len(ms) \in Nat
      /\ \A i \in 1..Len(ms) : ms[i] = [key |-> ms[i].key, value |-> ms[i].value]
  BY CallFacts
<1>2. /\ Other(k).form = "object" /\ Other(k).spaced = call.spaced
      /\ ms2 = [ms EXCEPT ![k] = [ms[k] EXCEPT !.value = Condensed]]
  <2>1. call \in [form : {"object"}, spaced : BOOLEAN,
                  members : UNION {[1..n -> Members] : n \in 0..MaxMembers}]
    BY DEF CallInv, Call
  <2>2. Other(k) = [call EXCEPT !.members = [call.members EXCEPT ![k]
                       = [call.members[k] EXCEPT !.value = Condensed]]]
    BY DEF Other
  <2>3. QED
    BY <2>1, <2>2
<1> HIDE DEF ms, ms2
<1>3. [ms[k] EXCEPT !.value = Condensed] = [key |-> ms[k].key, value |-> Condensed]
  <2>1. PICK m : m = ms[k]
    OBVIOUS
  <2>2. PICK a, b : m = [key |-> a, value |-> b]
    BY <1>1, <2>1 DEF ms
  <2>3. QED
    BY <2>1, <2>2
<1>4. ms2 = [i \in 1..Len(ms) |->
               [key |-> ms[i].key, value |-> IF i = k THEN Condensed ELSE ms[i].value]]
  <2>1. ms2 = [i \in 1..Len(ms) |-> IF i = k THEN [ms[k] EXCEPT !.value = Condensed] ELSE ms[i]]
    BY <1>1, <1>2
  <2>2. \A i \in 1..Len(ms) :
          (IF i = k THEN [ms[k] EXCEPT !.value = Condensed] ELSE ms[i])
            = [key |-> ms[i].key, value |-> IF i = k THEN Condensed ELSE ms[i].value]
    BY <1>1, <1>3
  <2>3. QED
    BY <2>1, <2>2
<1>5. Replaces(ms2, ms, k, Condensed)
  <2>1. Len(ms2) = Len(ms)
    BY <1>1, <1>4
  <2>2. k \in 1..Len(ms)
    BY DEF ms
  <2>3. QED
    BY <1>1, <1>4, <2>1, <2>2 DEF Replaces
<1>6. Written(Other(k)) = Write(ms2, Gap)
  BY <1>2 DEF Written, Gap, ms2
<1>7. QED
  BY <1>4, <1>5, <1>6 DEF ms, ms2

-----------------------------------------------------------------------------
(* What the upstream reads.                                                 *)

AllValues(ms) == Len(ms) \in Nat /\ \A k \in 1..Len(ms) : IsValue(ms[k].value)

AllTokens(ms) ==
  Punctuation \cup {Literal(ms[k].key) : k \in 1..Len(ms)}
  \cup (UNION {TokensOf(ms[k].value) : k \in 1..Len(ms)})

\* In what is written a reader finds the members.
ReadsBack(ms, gap) == \A key : Reading(Write(ms, gap), key) = ReadOf(ms, key)

LEMMA WrittenIsRead ==
  ASSUME NEW ms, AllValues(ms), NEW gap \in Gaps
  PROVE  ReadsBack(ms, gap)
<1> DEFINE T == AllTokens(ms)
           text == Write(ms, gap)
<1>1. MembersOf(ms, T)
  <2>1. Len(ms) \in Nat /\ Punctuation \subseteq T
    BY DEF AllValues, AllTokens
  <2>2. ASSUME NEW k \in 1..Len(ms) PROVE Literal(ms[k].key) \in T /\ ms[k].value \in Seq(T)
    <3>1. Literal(ms[k].key) \in T /\ TokensOf(ms[k].value) \subseteq T
      BY DEF AllTokens
    <3>2. ms[k].value \in Seq(TokensOf(ms[k].value))
      BY ValueSeq DEF AllValues
    <3> HIDE DEF T
    <3>3. QED
      BY <3>1, <3>2
  <2>3. QED
    BY <2>1, <2>2 DEF MembersOf
<1> HIDE DEF T
<1>2. PICK upTo \in [0..Len(ms) -> Seq(T)] : Writes(upTo, ms, gap)
  BY <1>1, WriteRec
<1>3. text \in Seq(T) /\ \E off, val : Layout(off, val, text, ms, gap)
  BY <1>1, <1>2, WriteLayout
<1>4. PICK off, val : Layout(off, val, text, ms, gap)
  BY <1>3
<1> HIDE DEF text
<1>5. Body(text, off, val, ms, gap)
  BY <1>4 DEF Body, AllValues
<1>6. ASSUME NEW key PROVE Reading(text, key) = ReadOf(ms, key)
  BY <1>3, <1>5, ReadingIs
<1>7. QED
  BY <1>6 DEF ReadsBack, text

LEMMA BodyIsRead ==
  ASSUME CallInv, call.form = "object"
  PROVE  rawBody = Write(call.members, Gap) /\ ReadsBack(call.members, Gap)
<1>1. AllValues(call.members) /\ Gap \in Gaps /\ rawBody = Write(call.members, Gap)
  BY CallFacts DEF AllValues
<1>2. QED
  BY <1>1, WrittenIsRead

\* The fields that are not the messages, as the upstream reads them.
Field(key) ==
  IF key = "messages" THEN Condensed
  ELSE Stringified(call.members[Max(SameKey(call.members, key))].value)

\* Each key once, with what counts of it.
Reduced(ms2) ==
  /\ AllValues(ms2)
  /\ \A key : ReadOf(ms2, key) = IF SameKey(call.members, key) = {} THEN {} ELSE {Dense(Field(key))}

LEMMA FieldIsValue ==
  ASSUME CallInv, Intercepted, NEW k \in 1..Len(call.members)
  PROVE  IsValue(Field(call.members[k].key))
<1> DEFINE ms == call.members
           key == ms[k].key
           S == SameKey(ms, key)
<1>1. call.form = "object" /\ IsValue(Condensed)
  BY CondensedType
<1>2. Len(ms) \in Nat /\ \A i \in 1..Len(ms) : IsValue(ms[i].value)
  BY <1>1, CallFacts
<1>3. S \subseteq 1..Len(ms) /\ S # {}
  BY DEF SameKey
<1> HIDE DEF S
<1>4. Max(S) \in S
  BY <1>2, <1>3, MaxMember
<1>5. IsValue(ms[Max(S)].value)
  BY <1>2, <1>3, <1>4
<1>6. IsValue(Stringified(ms[Max(S)].value))
  BY <1>5, StringifiedFacts
<1>7. QED
  BY <1>1, <1>6 DEF Field, S

LEMMA ReserializedIs ==
  ASSUME CallInv, Intercepted
  PROVE  \E ms2 : Reserialized = Write(ms2, <<>>) /\ Reduced(ms2)
<1> DEFINE ms == call.members
           n == Len(ms)
           Value(key) == IF key = "messages" THEN Condensed
                         ELSE Stringified(CHOOSE v \in Parsed(key) : TRUE)
           all == [i \in 1..n |-> [key |-> ms[i].key, value |-> Value(ms[i].key)]]
           kept == {i \in 1..Len(all) : \A j \in 1..(i - 1) : ms[j].key # ms[i].key}
           ms2 == Select(all, kept)
<1>1. call.form = "object"
  BY CondensedType
<1>2. n \in Nat
  BY <1>1, CallFacts
<1>3. Reserialized = Write(ms2, <<>>)
  BY DEF Reserialized
<1>4. ASSUME NEW i \in 1..n PROVE Value(ms[i].key) = Field(ms[i].key)
  <2> DEFINE S == SameKey(ms, ms[i].key)
  <2>1. S # {}
    BY DEF SameKey
  <2>2. Parsed(ms[i].key) = {ms[Max(S)].value}
    BY <1>1, <2>1 DEF Parsed, SameKey
  <2> HIDE DEF S
  <2>3. (CHOOSE v \in Parsed(ms[i].key) : TRUE) = ms[Max(S)].value
    BY <2>2
  <2>4. CASE ms[i].key = "messages"
    BY <2>4 DEF Field
  <2>5. CASE ms[i].key # "messages"
    <3>1. PICK c : c = CHOOSE v \in Parsed(ms[i].key) : TRUE
      OBVIOUS
    <3>2. Value(ms[i].key) = Stringified(c)
      BY <2>5, <3>1
    <3> HIDE DEF Value
    <3>3. Value(ms[i].key) = Stringified(ms[Max(S)].value)
      BY <2>3, <3>1, <3>2
    <3>4. QED
      BY <2>5, <3>3 DEF Field, S
  <2>6. QED
    BY <2>4, <2>5
<1> HIDE DEF Value
<1>5. Len(all) = n /\ all \in Seq({all[i] : i \in 1..n})
      /\ \A i \in 1..n : all[i].key = ms[i].key /\ all[i].value = Field(ms[i].key)
  <2>1. DOMAIN all = 1..n /\ all = [i \in 1..n |-> all[i]]
    OBVIOUS
  <2>2. \A i \in 1..n : all[i].key = ms[i].key /\ all[i].value = Field(ms[i].key)
    BY <1>4
  <2> HIDE DEF all
  <2>3. Len(all) = n /\ all \in Seq({all[i] : i \in 1..n})
    BY <1>2, <2>1
  <2>4. QED
    BY <2>2, <2>3
<1>6. \A i \in 1..n : i \in kept <=> \A j \in 1..(i - 1) : ms[j].key # ms[i].key
  BY <1>5
<1>61. kept \subseteq 1..n
  BY <1>5
<1> HIDE DEF all, kept
<1>7. /\ ms2 \in Seq({all[i] : i \in 1..n})
      /\ \E place \in [1..Len(ms2) -> 1..Len(all)] : Picks(place, all, kept)
  BY <1>5, SelectShape
<1>8. PICK place \in [1..Len(ms2) -> 1..Len(all)] : Picks(place, all, kept)
  BY <1>7
<1>9. /\ \A k \in 1..Len(ms2) : place[k] \in kept /\ ms2[k] = all[place[k]]
      /\ \A i, k \in 1..Len(ms2) : i < k => place[i] < place[k]
      /\ \A i \in 1..Len(all) : i \in kept => \E k \in 1..Len(ms2) : place[k] = i
  BY <1>8 DEF Picks
<1>10. Len(ms2) \in Nat
  BY <1>7
<1> HIDE DEF ms2
<1>11. \A k \in 1..Len(ms2) :
         /\ place[k] \in 1..n /\ place[k] \in kept
         /\ ms2[k].key = ms[place[k]].key /\ ms2[k].value = Field(ms2[k].key)
  BY <1>5, <1>8, <1>9
<1>12. AllValues(ms2)
  <2>1. ASSUME NEW k \in 1..Len(ms2) PROVE IsValue(ms2[k].value)
    <3>1. PICK i \in 1..n : ms2[k].value = Field(ms[i].key)
      BY <1>11
    <3>2. IsValue(Field(ms[i].key))
      BY FieldIsValue
    <3>3. QED
      BY <3>1, <3>2
  <2>2. QED
    BY <1>10, <2>1 DEF AllValues
<1>13. ASSUME NEW key
       PROVE  ReadOf(ms2, key) = IF SameKey(ms, key) = {} THEN {} ELSE {Dense(Field(key))}
  <2>1. CASE SameKey(ms, key) = {}
    <3>1. SameKey(ms2, key) = {}
      BY <1>11, <2>1 DEF SameKey
    <3>2. QED
      BY <2>1, <3>1 DEF ReadOf
  <2>2. CASE SameKey(ms, key) # {}
    <3>1. SameKey(ms, key) \subseteq Nat
      BY <1>2 DEF SameKey
    <3>2. PICK i \in SameKey(ms, key) : \A j \in SameKey(ms, key) : i <= j
      BY <2>2, <3>1, LeastMember
    <3>3. i \in 1..n /\ ms[i].key = key
      BY <3>2 DEF SameKey
    <3>4. ASSUME NEW j \in 1..(i - 1) PROVE ms[j].key # ms[i].key
      <4>1. j \in 1..n /\ j < i
        BY <1>2, <3>3
      <4>2. j \in SameKey(ms, key) => i <= j
        BY <3>2
      <4>3. j \notin SameKey(ms, key)
        BY <3>3, <4>1, <4>2
      <4>4. QED
        BY <3>3, <4>1, <4>3 DEF SameKey
    <3>5. i \in kept
      BY <1>6, <3>3, <3>4
    <3>6. PICK k \in 1..Len(ms2) : place[k] = i
      BY <1>5, <1>9, <3>3, <3>5
    <3>7. ms2[k].key = key /\ ms2[k].value = Field(key)
      BY <1>11, <3>3, <3>6
    <3>8. ASSUME NEW l \in 1..Len(ms2), ms2[l].key = key PROVE l = k
      <4>1. ASSUME NEW a \in 1..Len(ms2), NEW b \in 1..Len(ms2), a < b,
                   ms2[a].key = key, ms2[b].key = key
            PROVE  FALSE
        <5>1. PICK x, y : x = place[a] /\ y = place[b]
          OBVIOUS
        <5>2. x \in 1..n /\ y \in 1..n /\ x < y /\ y \in kept
          BY <1>9, <1>11, <4>1, <5>1
        <5>3. ms[x].key = key /\ ms[y].key = key
          BY <1>11, <4>1, <5>1
        <5>4. x \in 1..(y - 1)
          BY <1>2, <5>2
        <5>5. QED
          BY <1>6, <5>2, <5>3, <5>4
      <4>2. ~(l < k) /\ ~(k < l)
        BY <3>7, <3>8, <4>1
      <4>3. QED
        BY <1>10, <4>2
    <3>9. SameKey(ms2, key) = {k}
      BY <3>7, <3>8 DEF SameKey
    <3>10. Max(SameKey(ms2, key)) = k
      <4>1. SameKey(ms2, key) \in SUBSET Int /\ k \in SameKey(ms2, key)
            /\ \A l \in SameKey(ms2, key) : l <= k
        BY <1>10, <3>9
      <4>2. QED
        BY <4>1, MaxIs
    <3>11. QED
      BY <2>2, <3>7, <3>9, <3>10 DEF ReadOf
  <2>3. QED
    BY <2>1, <2>2
<1>14. Reduced(ms2)
  BY <1>12, <1>13 DEF Reduced
<1>15. QED
  BY <1>3, <1>14 DEF ms2

\* A reader of this body finds the compressed list, and else what it would have
\* found in the caller's.
UpstreamReads(body) ==
  /\ Reading(body, "messages") = {Condense[v] : v \in Reading(rawBody, "messages")}
  /\ \A key : \/ key = "messages"
              \/ Reading(body, key) = Reading(rawBody, key)
              \/ Reading(body, key) = {Stringified(v) : v \in Reading(rawBody, key)}

LEMMA MessagesRead ==
  ASSUME CallInv, Intercepted
  PROVE  {Condense[v] : v \in Reading(rawBody, "messages")} = {Condensed}
<1>1. PICK m : Latest(m)
  BY CondensedType
<1>2. Reading(rawBody, "messages") = ReadOf(call.members, "messages")
  <2>1. call.form = "object"
    BY CondensedType
  <2>2. QED
    BY <2>1, BodyIsRead DEF ReadsBack
<1>3. Reading(rawBody, "messages") = {Dense(call.members[m].value)}
  BY <1>1, <1>2 DEF Latest, ReadOf
<1>4. Condensed = Condense[Dense(call.members[m].value)]
  BY <1>1 DEF Latest
<1>5. QED
  BY <1>3, <1>4

LEMMA ReserializedIsRead ==
  ASSUME CallInv, Intercepted PROVE UpstreamReads(Reserialized)
<1> DEFINE ms == call.members
<1>1. /\ call.form = "object" /\ Dense(Condensed) = Condensed /\ \E m : Latest(m)
  BY CondensedType
<1>2. PICK ms2 : Reserialized = Write(ms2, <<>>) /\ Reduced(ms2)
  BY ReserializedIs
<1>3. \A key : Reading(Reserialized, key) = ReadOf(ms2, key)
  <2>1. <<>> \in Gaps /\ AllValues(ms2)
    BY <1>2 DEF Gaps, Reduced
  <2>2. ReadsBack(ms2, <<>>)
    BY <2>1, WrittenIsRead
  <2>3. QED
    BY <1>2, <2>2 DEF ReadsBack
<1>4. \A key : Reading(rawBody, key) = ReadOf(ms, key)
  BY <1>1, BodyIsRead DEF ReadsBack
<1>5. \A key : Reading(Reserialized, key)
                 = IF SameKey(ms, key) = {} THEN {} ELSE {Dense(Field(key))}
  BY <1>2, <1>3 DEF Reduced
<1>6. Reading(Reserialized, "messages") = {Condensed}
  <2>1. SameKey(ms, "messages") # {}
    BY <1>1 DEF Latest
  <2>2. Field("messages") = Condensed
    BY DEF Field
  <2>3. QED
    BY <1>1, <1>5, <2>1, <2>2
<1>7. ASSUME NEW key, key # "messages"
      PROVE  Reading(Reserialized, key) = {Stringified(v) : v \in Reading(rawBody, key)}
  <2>1. CASE SameKey(ms, key) = {}
    BY <1>4, <1>5, <2>1 DEF ReadOf
  <2>2. CASE SameKey(ms, key) # {}
    <3>1. PICK x : x = ms[Max(SameKey(ms, key))].value
      OBVIOUS
    <3>2. Field(key) = Stringified(x)
      BY <1>7, <3>1 DEF Field
    <3>3. Reading(rawBody, key) = {Dense(x)}
      BY <1>4, <2>2, <3>1 DEF ReadOf
    <3>4. IsValue(x)
      <4>1. Len(ms) \in Nat /\ \A i \in 1..Len(ms) : IsValue(ms[i].value)
        BY <1>1, CallFacts
      <4>2. SameKey(ms, key) \in SUBSET (1..Len(ms))
        BY DEF SameKey
      <4>3. Max(SameKey(ms, key)) \in SameKey(ms, key)
        BY <2>2, <4>1, <4>2, MaxMember
      <4>4. QED
        BY <3>1, <4>1, <4>2, <4>3
    <3>5. Dense(Stringified(x)) = Stringified(x) /\ Stringified(Dense(x)) = Stringified(x)
      BY <3>4, StringifiedFacts
    <3>6. Reading(Reserialized, key) = {Stringified(x)}
      BY <1>5, <2>2, <3>2, <3>5
    <3>7. {Stringified(v) : v \in Reading(rawBody, key)} = {Stringified(x)}
      BY <3>3, <3>5
    <3>8. QED
      BY <3>6, <3>7
  <2>3. QED
    BY <2>1, <2>2
<1>8. QED
  BY <1>6, <1>7, MessagesRead DEF UpstreamReads

LEMMA OtherIsRead ==
  ASSUME CallInv, Intercepted, NEW k, Lists = {k} PROVE UpstreamReads(Written(Other(k)))
<1> DEFINE ms == call.members
           ms2 == Other(k).members
<1>1. /\ call.form = "object" /\ IsValue(Condensed) /\ Dense(Condensed) = Condensed
      /\ \E m : Latest(m)
  BY CondensedType
<1>2. k \in 1..Len(ms) /\ ms[k].key = "messages"
  BY DEF Lists
<1>3. /\ Len(ms) \in Nat /\ \A i \in 1..Len(ms) : IsValue(ms[i].value)
      /\ Gap \in Gaps
  BY <1>1, CallFacts
<1>4. /\ Replaces(ms2, ms, k, Condensed)
      /\ Written(Other(k)) = Write(ms2, Gap)
  BY <1>1, <1>2, OtherFacts
<1> HIDE DEF ms2
<1>5. /\ Len(ms2) = Len(ms) /\ \A i \in 1..Len(ms) : ms2[i].key = ms[i].key
      /\ ms2[k].value = Condensed /\ \A i \in 1..Len(ms) : i # k => ms2[i].value = ms[i].value
  BY <1>4 DEF Replaces
<1>6. AllValues(ms2)
  BY <1>1, <1>3, <1>5 DEF AllValues
<1>7. \A key : Reading(Written(Other(k)), key) = ReadOf(ms2, key)
  <2>1. ReadsBack(ms2, Gap)
    BY <1>3, <1>6, WrittenIsRead
  <2>2. QED
    BY <1>4, <2>1 DEF ReadsBack
<1>8. \A key : Reading(rawBody, key) = ReadOf(ms, key)
  BY <1>1, BodyIsRead DEF ReadsBack
<1>9. \A key : SameKey(ms2, key) = SameKey(ms, key)
  BY <1>5 DEF SameKey
<1>10. Reading(Written(Other(k)), "messages") = {Condensed}
  <2>1. PICK m : Latest(m)
    BY <1>1
  <2>2. m = k /\ SameKey(ms, "messages") # {} /\ Max(SameKey(ms, "messages")) = k
    BY <2>1 DEF Latest
  <2>3. QED
    BY <1>1, <1>5, <1>7, <1>9, <2>2 DEF ReadOf
<1>11. ASSUME NEW key, key # "messages"
       PROVE  Reading(Written(Other(k)), key) = Reading(rawBody, key)
  <2>1. CASE SameKey(ms, key) = {}
    BY <1>7, <1>8, <1>9, <2>1 DEF ReadOf
  <2>2. CASE SameKey(ms, key) # {}
    <3>1. PICK i : i = Max(SameKey(ms, key))
      OBVIOUS
    <3>2. SameKey(ms, key) \in SUBSET (1..Len(ms))
      BY DEF SameKey
    <3>3. i \in SameKey(ms, key)
      BY <1>3, <2>2, <3>1, <3>2, MaxMember
    <3>4. i \in 1..Len(ms) /\ i # k
      BY <1>2, <1>11, <3>3 DEF SameKey
    <3>5. ms2[i].value = ms[i].value
      BY <1>5, <3>4
    <3>6. QED
      BY <1>7, <1>8, <1>9, <2>2, <3>1, <3>5 DEF ReadOf
  <2>3. QED
    BY <2>1, <2>2
<1>12. QED
  BY <1>10, <1>11, MessagesRead DEF UpstreamReads

-----------------------------------------------------------------------------
(* The scan.                                                                *)

\* Where the members are, and that the compressed list fits where member k has
\* its value.
Parts(off, val, k) ==
  /\ Layout(off, val, rawBody, call.members, Gap)
  /\ SubSeq(rawBody, 1, val[k]) \o Condensed \o SubSeq(rawBody, off[k + 1] + 1, Len(rawBody))
       = Written(Other(k))

LEMMA PartsExist ==
  ASSUME CallInv, Intercepted, NEW k \in 1..Len(call.members)
  PROVE  \E off, val : Parts(off, val, k)
<1> DEFINE T == Vocabulary
           ms == call.members
           ms2 == Other(k).members
           v == ms[k].value
           c == Condensed
<1>1. call.form = "object" /\ c \in Seq(T)
  BY CondensedType
<1>2. MembersOf(ms, T) /\ Gap \in Gaps /\ rawBody = Write(ms, Gap) /\ IsValue(v)
  BY <1>1, CallFacts
<1>3. Replaces(ms2, ms, k, c) /\ Written(Other(k)) = Write(ms2, Gap)
  BY <1>1, OtherFacts
<1>4. k \in 1..Len(ms) /\ v \in Seq(T)
  BY <1>2 DEF MembersOf
<1> HIDE DEF ms, ms2, c, T
<1>50. SameRest(ms, ms2, k, c, Gap, T)
  BY <1>1, <1>2, <1>3, <1>4, WriteOther
<1>5. PICK A, Q \in Seq(T) :
        /\ Write(ms, Gap) = (A \o ms[k].value) \o Q
        /\ Write(ms2, Gap) = (A \o c) \o Q
        /\ \E off, val : Layout(off, val, Write(ms, Gap), ms, Gap) /\ Len(A) = val[k]
  BY <1>50 DEF SameRest
<1>6. PICK off, val : Layout(off, val, rawBody, ms, Gap) /\ Len(A) = val[k]
  BY <1>2, <1>5
<1>7. off[k + 1] = Len(A) + Len(v)
  BY <1>4, <1>6 DEF Layout
<1> HIDE DEF v
<1>8. rawBody = (A \o v) \o Q
  BY <1>2, <1>5 DEF v
<1>9. Spliced(rawBody, A, v, c) = Written(Other(k))
  <2>1. Between(Written(Other(k)), A, c, Q) /\ Between(rawBody, A, v, Q)
    BY <1>3, <1>5, <1>8 DEF Between
  <2>2. QED
    BY <1>1, <1>4, <2>1, SpliceOther
<1>10. SubSeq(rawBody, 1, val[k]) \o c \o SubSeq(rawBody, off[k + 1] + 1, Len(rawBody))
         = Written(Other(k))
  BY <1>6, <1>7, <1>9 DEF Spliced
<1>11. QED
  BY <1>6, <1>10 DEF Parts, ms, c

LEMMA LayoutUnique ==
  ASSUME NEW text, NEW ms, Len(ms) \in Nat, NEW gap, NEW off, NEW val, NEW off2, NEW val2,
         Layout(off, val, text, ms, gap), Layout(off2, val2, text, ms, gap)
  PROVE  off = off2 /\ val = val2
<1> DEFINE n == Len(ms)
           D == {k \in 0..n : off[k + 1] = off2[k + 1]}
<1>1. /\ off \in [1..(n + 1) -> Nat] /\ val \in [1..n -> Nat] /\ off[1] = 1
      /\ off2 \in [1..(n + 1) -> Nat] /\ val2 \in [1..n -> Nat] /\ off2[1] = 1
      /\ \A k \in 1..n : /\ val[k] = off[k] + Lead(k, gap)
                         /\ off[k + 1] = val[k] + Len(ms[k].value)
                         /\ val2[k] = off2[k] + Lead(k, gap)
                         /\ off2[k + 1] = val2[k] + Len(ms[k].value)
  BY DEF Layout
<1>2. 0 \in D
  BY <1>1
<1>3. ASSUME NEW k \in 1..n, k - 1 \in D PROVE k \in D
  <2>1. (k - 1) + 1 = k /\ k \in 0..n
    OBVIOUS
  <2>2. off[k] = off2[k]
    BY <1>3, <2>1
  <2>3. off[k + 1] = off2[k + 1]
    BY <1>1, <2>2
  <2>4. QED
    BY <2>1, <2>3
<1> HIDE DEF D
<1>4. \A k \in 0..n : k \in D
  BY <1>2, <1>3, InductionUpTo
<1>5. ASSUME NEW k \in 1..(n + 1) PROVE off[k] = off2[k]
  <2>1. PICK i : i = k - 1
    OBVIOUS
  <2>2. i \in 0..n /\ i + 1 = k
    BY <2>1
  <2>3. off[i + 1] = off2[i + 1]
    BY <1>4, <2>2 DEF D
  <2>4. QED
    BY <2>2, <2>3
<1>6. ASSUME NEW k \in 1..n PROVE val[k] = val2[k]
  <2>1. k \in 1..(n + 1)
    OBVIOUS
  <2>2. QED
    BY <1>1, <1>5, <2>1
<1>7. QED
  BY <1>1, <1>5, <1>6

\* The same places are right for every member.
Fits(off, val) == \A k \in 1..Len(call.members) : Parts(off, val, k)

LEMMA FitsExist ==
  ASSUME CallInv, Intercepted
  PROVE  \E off, val : Fits(off, val)
<1> DEFINE ms == call.members
<1>1. PICK m : Latest(m)
  BY CondensedType
<1>2. call.form = "object"
  BY CondensedType
<1>3. Len(ms) \in Nat /\ m \in 1..Len(ms)
  BY <1>1, <1>2, CallFacts DEF Latest, Lists
<1>4. PICK off, val : Parts(off, val, m)
  BY <1>3, PartsExist
<1>5. ASSUME NEW k \in 1..Len(ms) PROVE Parts(off, val, k)
  <2>1. PICK off2, val2 : Parts(off2, val2, k)
    BY PartsExist
  <2>2. Layout(off, val, rawBody, ms, Gap) /\ Layout(off2, val2, rawBody, ms, Gap)
    BY <1>4, <2>1 DEF Parts
  <2>3. off = off2 /\ val = val2
    BY <1>3, <2>2, LayoutUnique
  <2>4. QED
    BY <2>1, <2>3
<1>6. QED
  BY <1>5 DEF Fits

\* The scan at place a, with what it has found: nothing, with all lists ahead ...
Before(a, f, val) == f = {} /\ \A j \in Lists : a <= KeyPlace(val, j, Gap)

\* ... or list k, which it has passed, with all others ahead ...
Behind(a, f, off, val, k) ==
  /\ k \in Lists /\ f = {<<val[k] + 1, off[k + 1]>>} /\ off[k + 1] < a
  /\ \A j \in Lists : j = k \/ a <= KeyPlace(val, j, Gap)

\* ... or it has met a second one.
GivenUp(a, f) == f = {} /\ a = Len(rawBody) + 1 /\ \A k : Lists # {k}

ScanFrom(a, d, f, off, val) ==
  /\ a \in 1..(Len(rawBody) + 1)
  /\ \/ /\ d = DepthAt(rawBody, a - 1)
        /\ Before(a, f, val) \/ \E k : Behind(a, f, off, val, k)
     \/ GivenUp(a, f)

ScanAt == \E off, val : Fits(off, val) /\ ScanFrom(at, depth, found, off, val)

\* What is sent: the body as it is, with the compressed list in the place of the
\* only one, or written anew.
SentBy(body) ==
  IF ~Intercepted THEN body = rawBody
  ELSE \/ body = Reserialized /\ \A k : Lists = {k} => body = Written(Other(k))
       \/ \E k : Lists = {k} /\ body = Written(Other(k))

ScanInv ==
  /\ CallInv
  /\ phase = "called" => at = 1 /\ depth = 0 /\ found = {}
  /\ phase \in {"scan", "rebuild"} => Intercepted
  /\ phase = "rebuild" => door # "fetch"
  /\ phase = "scan" => ScanAt
  /\ phase = "sent" => SentBy(sent)

LEMMA SentIsSurgical ==
  ASSUME ScanInv PROVE SpliceIsSurgical
<1>1. ASSUME phase = "sent", Intercepted, NEW k \in Lists, Lists = {k} PROVE sent = Written(Other(k))
  BY <1>1 DEF ScanInv, SentBy
<1>2. QED
  BY <1>1 DEF SpliceIsSurgical, Lists, Other

LEMMA SentIsRead ==
  ASSUME ScanInv PROVE UpstreamReadsCompressed
<1>1. ASSUME phase = "sent", Intercepted PROVE UpstreamReads(sent)
  <2>1. CallInv /\ SentBy(sent)
    BY <1>1 DEF ScanInv
  <2>2. CASE sent = Reserialized
    BY <1>1, <2>1, <2>2, ReserializedIsRead
  <2>3. CASE \E k : Lists = {k} /\ sent = Written(Other(k))
    <3>1. PICK k : Lists = {k} /\ sent = Written(Other(k))
      BY <2>3
    <3>2. UpstreamReads(Written(Other(k)))
      BY <1>1, <2>1, <3>1, OtherIsRead
    <3>3. QED
      BY <3>1, <3>2
  <2>4. QED
    BY <1>1, <2>1, <2>2, <2>3 DEF SentBy
<1>2. ASSUME phase = "sent", ~Intercepted PROVE sent = rawBody
  BY <1>2 DEF ScanInv, SentBy
<1>3. QED
  BY <1>1, <1>2 DEF UpstreamReadsCompressed, UpstreamReads

\* What is where in the body that is scanned.
LEMMA FitsBody ==
  ASSUME CallInv, Intercepted, NEW off, NEW val, Fits(off, val)
  PROVE  /\ Body(rawBody, off, val, call.members, Gap)
         /\ rawBody \in Seq(Vocabulary) /\ Len(rawBody) \in Nat
<1> DEFINE ms == call.members
<1>1. call.form = "object" /\ \E m : Latest(m)
  BY CondensedType
<1>2. /\ Gap \in Gaps /\ Len(ms) \in Nat /\ \A i \in 1..Len(ms) : IsValue(ms[i].value)
      /\ MembersOf(ms, Vocabulary) /\ rawBody = Write(ms, Gap)
  BY <1>1, CallFacts
<1>3. rawBody \in Seq(Vocabulary)
  <2> HIDE DEF ms
  <2>1. PICK upTo \in [0..Len(ms) -> Seq(Vocabulary)] : Writes(upTo, ms, Gap)
    BY <1>2, WriteRec
  <2>2. QED
    BY <1>2, <2>1, WriteLayout
<1>4. PICK m \in 1..Len(ms) : Parts(off, val, m)
  BY <1>1 DEF Latest, Lists, Fits
<1>5. Layout(off, val, rawBody, ms, Gap)
  BY <1>4 DEF Parts
<1>6. QED
  BY <1>2, <1>3, <1>5 DEF Body

\* List k: its key, its value and its end are in this order.
ListPlaced(off, val, k) ==
  /\ k \in 1..Len(call.members) /\ Parts(off, val, k)
  /\ off[k] \in Nat /\ val[k] \in Nat /\ off[k + 1] \in Nat
  /\ KeyPlace(val, k, Gap) \in 1..Len(rawBody)
  /\ off[k] < KeyPlace(val, k, Gap) /\ KeyPlace(val, k, Gap) < val[k]
  /\ val[k] < off[k + 1] /\ off[k + 1] < Len(rawBody)
  /\ DepthAt(rawBody, off[k + 1]) = 1
  /\ MatchingBracket(val[k] + 1) = off[k + 1]

LEMMA ListPlaces ==
  ASSUME CallInv, Intercepted, NEW off, NEW val, Fits(off, val), NEW k \in Lists
  PROVE  ListPlaced(off, val, k)
<1> DEFINE ms == call.members
<1>1. /\ Body(rawBody, off, val, ms, Gap)
      /\ rawBody \in Seq(Vocabulary) /\ Len(rawBody) \in Nat
  BY FitsBody
<1>2. k \in 1..Len(ms) /\ IsArray(ms[k].value) /\ Parts(off, val, k)
  BY DEF Lists, Fits
<1>3. /\ KeyPlace(val, k, Gap) \in 1..Len(rawBody)
      /\ off[k] < KeyPlace(val, k, Gap) /\ KeyPlace(val, k, Gap) < val[k]
  BY <1>1, <1>2, ArrayOfMember
<1>4. off[k] \in Nat /\ val[k] \in Nat /\ off[k + 1] \in Nat /\ val[k] < off[k + 1]
  <2>1. PICK l : l = Len(ms[k].value)
    OBVIOUS
  <2>2. PICK w, e : w = val[k] /\ e = off[k + 1]
    OBVIOUS
  <2>3. off[k] \in Nat /\ w \in Nat /\ e \in Nat /\ l \in Nat \ {0} /\ e = w + l
    <3>1. Placed(off, val, ms, Gap, k)
      BY <1>1, <1>2, Places
    <3>2. QED
      BY <2>1, <2>2, <3>1 DEF Placed
  <2>4. w < e
    BY <2>3
  <2>5. QED
    BY <2>2, <2>3, <2>4
<1>5. off[k + 1] < Len(rawBody) /\ DepthAt(rawBody, off[k + 1]) = 1
  <2>1. k + 1 \in 1..(Len(ms) + 1)
    BY <1>1, <1>2 DEF Body
  <2>2. QED
    BY <1>1, <2>1, MembersFill, DepthOfMembers
<1>6. MatchingBracket(val[k] + 1) = off[k + 1]
  BY <1>1, <1>2, BracketOfMember
<1>7. QED
  BY <1>2, <1>3, <1>4, <1>5, <1>6 DEF ListPlaced

\* The keys that count are those of the lists.
LEMMA ScanPlace ==
  ASSUME CallInv, Intercepted, NEW off, NEW val, Fits(off, val),
         at \in 1..Len(rawBody), depth = DepthAt(rawBody, at - 1)
  PROVE  /\ MessagesArray # {} => \E k \in Lists : at = KeyPlace(val, k, Gap)
         /\ \A k \in Lists : at = KeyPlace(val, k, Gap) => MessagesArray = {val[k] + 1} /\ depth = 1
<1> DEFINE ms == call.members
<1>1. Body(rawBody, off, val, ms, Gap)
  BY FitsBody
<1>2. ASSUME NEW k \in Lists, at = KeyPlace(val, k, Gap) PROVE MessagesArray = {val[k] + 1} /\ depth = 1
  <2>1. k \in 1..Len(ms) /\ ms[k].key = "messages" /\ IsArray(ms[k].value)
    BY DEF Lists
  <2>2. off[k] \in Nat /\ val[k] \in Nat /\ off[k] < at /\ at < val[k]
    BY <1>2, ListPlaces DEF ListPlaced
  <2>3. rawBody[at] = Literal("messages") /\ ArrayAfter(at) = {val[k] + 1}
    BY <1>1, <1>2, <2>1, ArrayOfMember
  <2>4. PICK p : p = at - 1
    OBVIOUS
  <2>5. p \in Nat /\ off[k] <= p /\ p <= val[k]
    BY <2>2, <2>4
  <2>6. DepthAt(rawBody, p) = 1
    BY <1>1, <2>1, <2>5, DepthOfMembers
  <2>7. depth = 1
    BY <2>4, <2>6
  <2>8. QED
    BY <2>3, <2>7 DEF MessagesArray
<1>3. ASSUME MessagesArray # {} PROVE \E k \in Lists : at = KeyPlace(val, k, Gap)
  <2>1. depth = 1 /\ rawBody[at] = Literal("messages") /\ ArrayAfter(at) # {}
    BY <1>3 DEF MessagesArray
  <2>2. PICK i \in 1..Len(ms) : /\ ms[i].key = "messages" /\ IsArray(ms[i].value)
                                /\ at = KeyPlace(val, i, Gap)
    BY <1>1, <2>1, OnlyKeys
  <2>3. i \in Lists
    BY <2>2 DEF Lists
  <2>4. QED
    BY <2>2, <2>3
<1>4. QED
  BY <1>2, <1>3

LEMMA CondensedStays ==
  ASSUME UNCHANGED call PROVE Condensed' = Condensed /\ Lists' = Lists /\ Gap' = Gap
BY DEF Condensed, Messages, Parsed, Lists, Gap

LEMMA PartsStay ==
  ASSUME UNCHANGED <<call, rawBody>>, NEW off, NEW val, NEW k, Parts(off, val, k)
  PROVE  Parts(off, val, k)'
<1>1. Condensed' = Condensed /\ Gap' = Gap
  BY CondensedStays
<1>2. Written(Other(k))' = Written(Other(k))
  BY <1>1 DEF Other
<1>3. QED
  BY <1>1, <1>2 DEF Parts

LEMMA ReserializedStays ==
  ASSUME UNCHANGED call PROVE Reserialized' = Reserialized
<1>1. Condensed' = Condensed
  BY CondensedStays
<1>2. \A key : Parsed(key)' = Parsed(key)
  BY DEF Parsed
<1>3. QED
  BY <1>1, <1>2 DEF Reserialized

LEMMA SentByStays ==
  ASSUME UNCHANGED <<call, rawBody>>, NEW body, SentBy(body) PROVE SentBy(body)'
<1>1. Intercepted' = Intercepted /\ Condensed' = Condensed /\ Lists' = Lists
      /\ Reserialized' = Reserialized
  BY CallStays, CondensedStays, ReserializedStays
<1>2. \A k : Written(Other(k))' = Written(Other(k))
  BY <1>1 DEF Other
<1>3. QED
  BY <1>1, <1>2 DEF SentBy

\* With one member of a key the last with that key is that one.
LEMMA ParsedOnly ==
  ASSUME call \in Params, NEW i \in 1..Len(call.members)
  PROVE  Parsed(call.members[i].key) = {call.members[i].value}
<1> DEFINE ms == call.members
           same == {j \in 1..Len(ms) : ms[j].key = ms[i].key}
<1>1. call.form = "object" /\ \A j \in 1..Len(ms) : \A l \in 1..(j - 1) : ms[l].key # ms[j].key
  BY DEF Params
<1>2. same = {i}
  <2> SUFFICES ASSUME NEW j \in 1..Len(ms), ms[j].key = ms[i].key PROVE j = i
    OBVIOUS
  <2>1. ~(j < i) /\ ~(i < j)
    BY <1>1
  <2>2. QED
    BY <2>1
<1>3. Max(same) = i
  <2>1. \E x \in same : \A y \in same : x >= y
    BY <1>2
  <2>2. Max(same) \in same
    BY <2>1 DEF Max
  <2>3. QED
    BY <1>2, <2>2
<1>4. Parsed(ms[i].key) = {ms[Max(same)].value}
  BY <1>1, <1>2 DEF Parsed
<1>5. QED
  BY <1>3, <1>4

\* The clients write the object they are given, with the compressed list.
LEMMA RebuildsOther ==
  ASSUME CallInv, Intercepted, door # "fetch", NEW k, Lists = {k}
  PROVE  Reserialized = Written(Other(k))
<1> DEFINE ms == call.members
           n == Len(ms)
           Value(key) == IF key = "messages" THEN Condensed
                         ELSE Stringified(CHOOSE v \in Parsed(key) : TRUE)
           all == [i \in 1..n |-> [key |-> ms[i].key, value |-> Value(ms[i].key)]]
           kept == {i \in 1..Len(all) : \A j \in 1..(i - 1) : ms[j].key # ms[i].key}
<1>1. call \in Params /\ call.form = "object"
  BY CondensedType DEF CallInv
<1>2. n \in Nat /\ k \in 1..n /\ ms[k].key = "messages" /\ Gap = <<>>
  BY <1>1, CallFacts DEF Lists, Params, Gap
<1>3. \A i \in 1..n : /\ Stringified(ms[i].value) = ms[i].value
                      /\ \A j \in 1..(i - 1) : ms[j].key # ms[i].key
  BY <1>1 DEF Params
<1>4. Reserialized = Write(Select(all, kept), <<>>)
  BY DEF Reserialized
<1>5. \A i \in 1..n : Value(ms[i].key) = IF i = k THEN Condensed ELSE ms[i].value
  <2> SUFFICES ASSUME NEW i \in 1..n
               PROVE  Value(ms[i].key) = IF i = k THEN Condensed ELSE ms[i].value
    OBVIOUS
  <2>1. CASE i = k
    BY <1>2, <2>1
  <2>2. CASE i # k
    <3>1. i < k \/ k < i
      BY <1>2, <2>2
    <3>2. ms[i].key # ms[k].key
      BY <1>2, <1>3, <3>1
    <3>3. Parsed(ms[i].key) = {ms[i].value}
      BY <1>1, ParsedOnly
    <3>4. (CHOOSE v \in Parsed(ms[i].key) : TRUE) = ms[i].value
      BY <3>3
    <3>5. Value(ms[i].key) = Stringified(ms[i].value)
      BY <1>2, <3>2, <3>4
    <3>6. QED
      BY <1>3, <2>2, <3>5
  <2>3. QED
    BY <2>1, <2>2
<1> HIDE DEF Value
<1>6. all = [i \in 1..n |-> [key |-> ms[i].key, value |-> IF i = k THEN Condensed ELSE ms[i].value]]
  BY <1>5
<1>7. all = Other(k).members /\ Written(Other(k)) = Write(Other(k).members, <<>>)
  BY <1>1, <1>2, <1>6, OtherFacts
<1>8. Len(all) = n /\ all \in Seq({all[i] : i \in 1..n})
  BY <1>2
<1> HIDE DEF all
<1>9. 1..Len(all) \subseteq kept
  BY <1>3, <1>8
<1> HIDE DEF kept
<1>10. Select(all, kept) = all
  BY <1>8, <1>9, SelectAll
<1>11. QED
  BY <1>4, <1>7, <1>10

-----------------------------------------------------------------------------
(* The steps.                                                               *)

LEMMA ScanInitInv == FetchInit => ScanInv
<1> SUFFICES ASSUME FetchInit PROVE ScanInv
  OBVIOUS
<1>1. call \in Call
  BY DEF FetchInit, Params
<1>2. CallInv
  BY <1>1 DEF FetchInit, CallInv
<1>3. QED
  BY <1>2 DEF FetchInit, ScanInv

LEMMA CallInvStays ==
  ASSUME CallInv, UNCHANGED <<door, call, rawBody>>
  PROVE  CallInv' /\ Intercepted' = Intercepted
<1>1. Intercepted' = Intercepted
  BY CallStays
<1>2. CallInv'
  BY DEF CallInv, Written
<1>3. QED
  BY <1>1, <1>2

LEMMA FitsStay ==
  ASSUME UNCHANGED <<call, rawBody>>, NEW off, NEW val, Fits(off, val)
  PROVE  Fits(off, val)'
<1>1. \A k \in 1..Len(call.members) : Parts(off, val, k)'
  BY PartsStay DEF Fits
<1>2. QED
  BY <1>1 DEF Fits

LEMMA ScanMoves ==
  ASSUME UNCHANGED <<call, rawBody>>, NEW off, NEW val, Fits(off, val),
         ScanFrom(at', depth', found', off, val)
  PROVE  ScanAt'
<1>1. Fits(off, val)' /\ Gap' = Gap /\ Lists' = Lists
  BY FitsStay, CondensedStays
<1>2. \A j : KeyPlace(val, j, Gap)' = KeyPlace(val, j, Gap)
  BY <1>1 DEF KeyPlace
<1>3. DepthAt(rawBody, at - 1)' = DepthAt(rawBody, at' - 1)
  BY DEF DepthAt, Surplus
<1>4. Before(at, found, val)' <=> Before(at', found', val)
  BY <1>1, <1>2 DEF Before
<1>5. \A k : Behind(at, found, off, val, k)' <=> Behind(at', found', off, val, k)
  BY <1>1, <1>2 DEF Behind
<1>6. GivenUp(at, found)' <=> GivenUp(at', found')
  BY <1>1 DEF GivenUp
<1>7. ScanFrom(at, depth, found, off, val)'
  BY <1>3, <1>4, <1>5, <1>6 DEF ScanFrom
<1>8. QED
  BY <1>1, <1>7 DEF ScanAt

LEMMA ScanGoesOn ==
  ASSUME ScanInv, UNCHANGED <<door, call, rawBody, phase>>, phase = "scan", ScanAt'
  PROVE  ScanInv'
<1>1. CallInv' /\ Intercepted' = Intercepted
  BY CallInvStays DEF ScanInv
<1>2. QED
  BY <1>1 DEF ScanInv

\* Behind what is sent, and in a call that ends.
LEMMA NotScanning ==
  ASSUME ScanInv, UNCHANGED <<door, call, rawBody>>,
         phase' \notin {"called", "scan", "rebuild", "sent"}
  PROVE  ScanInv'
<1>1. CallInv'
  BY CallInvStays DEF ScanInv
<1>2. QED
  BY <1>1 DEF ScanInv

LEMMA ForwardScan ==
  ASSUME ScanInv, UNCHANGED <<door, call, rawBody>>, phase' = "sent", SentBy(sent')
  PROVE  ScanInv'
<1>1. CallInv'
  BY CallInvStays DEF ScanInv
<1>2. PICK body : body = sent'
  OBVIOUS
<1>3. SentBy(body)'
  BY <1>2, SentByStays
<1>4. SentBy(sent)'
  BY <1>2, <1>3 DEF SentBy
<1>5. QED
  BY <1>1, <1>4 DEF ScanInv

LEMMA CompressScan ==
  ASSUME ScanInv, Compress PROVE ScanInv'
<1>1. /\ phase = "called" /\ Intercepted /\ UNCHANGED <<door, call, rawBody, at, depth, found>>
      /\ \/ phase' \in {"scan", "over"}
         \/ phase' = "rebuild" /\ door # "fetch"
  BY DEF Compress, scanVars, End
<1>2. CallInv /\ at = 1 /\ depth = 0 /\ found = {}
  BY <1>1 DEF ScanInv
<1>3. CallInv' /\ Intercepted'
  BY <1>1, <1>2, CallInvStays
<1>4. ScanAt'
  <2>1. PICK off, val : Fits(off, val)
    BY <1>1, <1>2, FitsExist
  <2>2. Len(rawBody) \in Nat
    BY <1>1, <1>2, <2>1, FitsBody
  <2>3. ASSUME NEW j \in Lists PROVE 1 <= KeyPlace(val, j, Gap)
    BY <1>1, <1>2, <2>1, <2>2, ListPlaces DEF ListPlaced
  <2>4. DepthAt(rawBody, 0) = 0
    BY SurplusStep DEF DepthAt
  <2>5. at' = 1 /\ depth' = 0 /\ found' = {} /\ 1 - 1 = 0 /\ 1 \in 1..(Len(rawBody) + 1)
    BY <1>1, <1>2, <2>2
  <2>6. Before(at', found', val)
    BY <2>3, <2>5 DEF Before
  <2>7. ScanFrom(at', depth', found', off, val)
    BY <2>4, <2>5, <2>6 DEF ScanFrom
  <2>8. QED
    BY <1>1, <2>1, <2>7, ScanMoves
<1>5. QED
  BY <1>1, <1>3, <1>4 DEF ScanInv

\* What is known where the scan is.
LEMMA ScanFacts ==
  ASSUME ScanInv, Scanning
  PROVE  /\ CallInv /\ Intercepted /\ phase = "scan"
         /\ \E off, val :
              /\ Fits(off, val) /\ Len(rawBody) \in Nat /\ at \in 1..Len(rawBody)
              /\ depth = DepthAt(rawBody, at - 1)
              /\ Before(at, found, val) \/ \E k : Behind(at, found, off, val, k)
              /\ MessagesArray # {} => \E k \in Lists : at = KeyPlace(val, k, Gap)
              /\ \A k \in Lists : at = KeyPlace(val, k, Gap) => MessagesArray = {val[k] + 1} /\ depth = 1
<1>1. phase = "scan" /\ at <= Len(rawBody) /\ CallInv /\ Intercepted
  BY DEF Scanning, ScanInv
<1>2. PICK off, val : Fits(off, val) /\ ScanFrom(at, depth, found, off, val)
  BY <1>1 DEF ScanInv, ScanAt
<1>3. Len(rawBody) \in Nat
  BY <1>1, <1>2, FitsBody
<1>4. at \in 1..Len(rawBody) /\ ~GivenUp(at, found)
  BY <1>1, <1>2, <1>3 DEF ScanFrom, GivenUp
<1>5. /\ depth = DepthAt(rawBody, at - 1)
      /\ Before(at, found, val) \/ \E k : Behind(at, found, off, val, k)
  BY <1>2, <1>4 DEF ScanFrom
<1>6. /\ MessagesArray # {} => \E k \in Lists : at = KeyPlace(val, k, Gap)
      /\ \A k \in Lists : at = KeyPlace(val, k, Gap) => MessagesArray = {val[k] + 1} /\ depth = 1
  BY <1>1, <1>2, <1>4, <1>5, ScanPlace
<1>7. QED
  BY <1>1, <1>2, <1>3, <1>4, <1>5, <1>6

LEMMA TakeArrayScan ==
  ASSUME ScanInv, TakeArray PROVE ScanInv'
<1>1. /\ Scanning /\ found = {} /\ phase = "scan"
      /\ UNCHANGED <<door, call, rawBody, phase, depth>>
  BY DEF TakeArray, Scanning
<1>2. PICK start \in MessagesArray :
        found' = {<<start, MatchingBracket(start)>>} /\ at' = MatchingBracket(start) + 1
  BY DEF TakeArray
<1>3. CallInv /\ Intercepted
  BY <1>1, ScanFacts
<1>4. PICK off, val :
        /\ Fits(off, val) /\ Len(rawBody) \in Nat /\ at \in 1..Len(rawBody)
        /\ Before(at, found, val) \/ \E k : Behind(at, found, off, val, k)
        /\ MessagesArray # {} => \E k \in Lists : at = KeyPlace(val, k, Gap)
        /\ \A k \in Lists : at = KeyPlace(val, k, Gap) => MessagesArray = {val[k] + 1} /\ depth = 1
  BY <1>1, ScanFacts
<1>5. PICK k \in Lists : at = KeyPlace(val, k, Gap)
  BY <1>2, <1>4
<1>6. start = val[k] + 1 /\ depth = 1
  BY <1>2, <1>4, <1>5
<1>7. ListPlaced(off, val, k)
  BY <1>3, <1>4, ListPlaces
<1>8. at' = off[k + 1] + 1 /\ found' = {<<val[k] + 1, off[k + 1]>>}
  BY <1>2, <1>6, <1>7 DEF ListPlaced
<1>9. off[k + 1] \in Nat /\ off[k + 1] < Len(rawBody) /\ DepthAt(rawBody, off[k + 1]) = 1
  BY <1>7 DEF ListPlaced
<1>10. at' \in 1..(Len(rawBody) + 1) /\ at' - 1 = off[k + 1] /\ off[k + 1] < at'
  BY <1>4, <1>8, <1>9
<1>11. depth' = DepthAt(rawBody, at' - 1)
  BY <1>1, <1>6, <1>9, <1>10
<1>12. ASSUME NEW j \in Lists, j # k PROVE at' <= KeyPlace(val, j, Gap)
  <2>1. ListPlaced(off, val, j)
    BY <1>3, <1>4, ListPlaces
  <2>2. at <= KeyPlace(val, j, Gap)
    <3>1. ~\E i : Behind(at, found, off, val, i)
      BY <1>1 DEF Behind
    <3>2. QED
      BY <1>4, <3>1 DEF Before
  <2>3. Body(rawBody, off, val, call.members, Gap)
    BY <1>3, <1>4, FitsBody
  <2>4. j \in 1..Len(call.members) /\ k \in 1..Len(call.members)
    BY DEF Lists
  <2>5. /\ off[k] \in Nat /\ off[k] < at /\ off[j] < KeyPlace(val, j, Gap) /\ off[j] \in Nat
        /\ KeyPlace(val, j, Gap) < val[j] /\ val[j] < off[j + 1] /\ off[j + 1] \in Nat
        /\ val[j] \in Nat /\ KeyPlace(val, j, Gap) \in 1..Len(rawBody)
    BY <1>5, <1>7, <2>1 DEF ListPlaced
  <2>6. j < k => off[j + 1] <= off[k]
    BY <2>3, <2>4, Ascends
  <2>7. k < j => off[k + 1] <= off[j]
    BY <2>3, <2>4, Ascends
  <2>8. PICK p : p = KeyPlace(val, j, Gap)
    OBVIOUS
  <2>9. /\ p \in Int /\ off[j] < p /\ at <= p /\ p < val[j]
    BY <1>4, <2>2, <2>5, <2>8
  <2>10. ~(j < k)
    BY <1>4, <2>5, <2>6, <2>9
  <2>11. k < j
    BY <1>12, <2>4, <2>10
  <2>12. off[k + 1] < p
    BY <1>9, <2>5, <2>7, <2>9, <2>11
  <2>13. QED
    BY <1>8, <1>9, <2>8, <2>9, <2>12
<1>13. Behind(at', found', off, val, k)
  BY <1>8, <1>10, <1>12 DEF Behind
<1>14. ScanFrom(at', depth', found', off, val)
  BY <1>10, <1>11, <1>13 DEF ScanFrom
<1>15. ScanAt'
  BY <1>1, <1>4, <1>14, ScanMoves
<1>16. QED
  BY <1>1, <1>15, ScanGoesOn

\* Who meets a second list knows of two.
LEMMA GiveUpScan ==
  ASSUME ScanInv, GiveUp PROVE ScanInv'
<1>1. /\ Scanning /\ found # {} /\ MessagesArray # {} /\ phase = "scan"
      /\ UNCHANGED <<door, call, rawBody, phase>>
      /\ found' = {} /\ at' = Len(rawBody) + 1
  BY DEF GiveUp, Scanning
<1>2. CallInv /\ Intercepted
  BY <1>1, ScanFacts
<1>3. PICK off, val :
        /\ Fits(off, val) /\ Len(rawBody) \in Nat
        /\ Before(at, found, val) \/ \E k : Behind(at, found, off, val, k)
        /\ MessagesArray # {} => \E k \in Lists : at = KeyPlace(val, k, Gap)
  BY <1>1, ScanFacts
<1>4. PICK k : Behind(at, found, off, val, k)
  BY <1>1, <1>3 DEF Before
<1>5. PICK j \in Lists : at = KeyPlace(val, j, Gap)
  BY <1>1, <1>3
<1>6. k \in Lists /\ off[k + 1] < at
  BY <1>4 DEF Behind
<1>7. j # k
  <2> SUFFICES ASSUME j = k PROVE FALSE
    OBVIOUS
  <2>1. ListPlaced(off, val, k)
    BY <1>2, <1>3, <1>6, ListPlaces
  <2>2. PICK p : p = KeyPlace(val, k, Gap)
    OBVIOUS
  <2>3. /\ p \in Int /\ p < val[k] /\ val[k] < off[k + 1] /\ off[k + 1] < p
        /\ val[k] \in Nat /\ off[k + 1] \in Nat
    BY <1>3, <1>5, <1>6, <2>1, <2>2 DEF ListPlaced
  <2>4. QED
    BY <2>3
<1>8. GivenUp(at', found')
  BY <1>1, <1>5, <1>6, <1>7 DEF GivenUp
<1>9. ScanFrom(at', depth', found', off, val)
  <2>1. at' \in 1..(Len(rawBody) + 1)
    BY <1>1, <1>3
  <2>2. QED
    BY <1>8, <2>1 DEF ScanFrom
<1>10. ScanAt'
  BY <1>1, <1>3, <1>9, ScanMoves
<1>11. QED
  BY <1>1, <1>10, ScanGoesOn

LEMMA AdvanceScan ==
  ASSUME ScanInv, Advance PROVE ScanInv'
<1>1. /\ Scanning /\ MessagesArray = {} /\ phase = "scan"
      /\ UNCHANGED <<door, call, rawBody, phase, found>>
      /\ at' = at + 1 /\ depth' = DepthAfter(rawBody[at])
  BY DEF Advance, Scanning
<1>2. CallInv /\ Intercepted
  BY <1>1, ScanFacts
<1>3. PICK off, val :
        /\ Fits(off, val) /\ Len(rawBody) \in Nat /\ at \in 1..Len(rawBody)
        /\ depth = DepthAt(rawBody, at - 1)
        /\ Before(at, found, val) \/ \E k : Behind(at, found, off, val, k)
        /\ \A k \in Lists : at = KeyPlace(val, k, Gap) => MessagesArray = {val[k] + 1} /\ depth = 1
  BY <1>1, ScanFacts
<1>4. ASSUME NEW j \in Lists, at <= KeyPlace(val, j, Gap) PROVE at' <= KeyPlace(val, j, Gap)
  <2>1. at # KeyPlace(val, j, Gap)
    BY <1>1, <1>3
  <2>2. PICK p : p = KeyPlace(val, j, Gap)
    OBVIOUS
  <2>3. p \in Int
    <3>1. ListPlaced(off, val, j)
      BY <1>2, <1>3, ListPlaces
    <3>2. p \in 1..Len(rawBody)
      BY <2>2, <3>1 DEF ListPlaced
    <3>3. QED
      BY <1>3, <3>2
  <2>4. at \in Int /\ at <= p /\ at # p
    BY <1>3, <1>4, <2>1, <2>2
  <2>5. at + 1 <= p
    BY <2>3, <2>4
  <2>6. QED
    BY <1>1, <2>2, <2>5
<1>5. Before(at', found', val) \/ \E k : Behind(at', found', off, val, k)
  <2>1. CASE Before(at, found, val)
    BY <1>1, <1>4, <2>1 DEF Before
  <2>2. CASE \E k : Behind(at, found, off, val, k)
    <3>1. PICK k : Behind(at, found, off, val, k)
      BY <2>2
    <3>2. off[k + 1] < at'
      <4>1. off[k + 1] \in Nat /\ off[k + 1] < at
        BY <1>2, <1>3, <3>1, ListPlaces DEF Behind, ListPlaced
      <4>2. QED
        BY <1>1, <1>3, <4>1
    <3>3. QED
      BY <1>1, <1>4, <3>1, <3>2 DEF Behind
  <2>3. QED
    BY <1>3, <2>1, <2>2
<1>6. depth' = DepthAt(rawBody, at)
  <2>1. PICK p : p = at - 1
    OBVIOUS
  <2>2. p \in Nat /\ p + 1 = at
    BY <1>3, <2>1
  <2>3. /\ DepthAt(rawBody, p) \in Int
        /\ DepthAt(rawBody, p + 1)
             = DepthAt(rawBody, p) + Weight(rawBody[p + 1], Openers, Closers)
    BY <2>2, SurplusStep DEF DepthAt
  <2>4. depth = DepthAt(rawBody, p)
    BY <1>3, <2>1
  <2>5. PICK t : t = rawBody[at]
    OBVIOUS
  <2>6. DepthAfter(t) = depth + Weight(t, Openers, Closers)
    <3>1. ~(t \in Openers /\ t \in Closers)
      BY Brackets DEF Apart
    <3>2. depth \in Int
      BY <2>3, <2>4
    <3>3. QED
      BY <3>1, <3>2 DEF DepthAfter, Weight
  <2>7. depth' = depth + Weight(rawBody[at], Openers, Closers)
    BY <1>1, <2>5, <2>6
  <2>8. QED
    BY <2>2, <2>3, <2>4, <2>7
<1>7. at' \in 1..(Len(rawBody) + 1) /\ at' - 1 = at
  BY <1>1, <1>3
<1>8. depth' = DepthAt(rawBody, at' - 1)
  BY <1>6, <1>7
<1>9. ScanFrom(at', depth', found', off, val)
  BY <1>5, <1>7, <1>8 DEF ScanFrom
<1>10. ScanAt'
  BY <1>1, <1>3, <1>9, ScanMoves
<1>11. QED
  BY <1>1, <1>10, ScanGoesOn

LEMMA SpliceScan ==
  ASSUME ScanInv, Splice PROVE ScanInv'
<1> DEFINE span == CHOOSE s \in found : TRUE
<1>1. /\ phase = "scan" /\ at > Len(rawBody) /\ phase' = "sent"
      /\ UNCHANGED <<door, call, rawBody>>
      /\ sent' = IF found = {} THEN Reserialized
                 ELSE SubSeq(rawBody, 1, span[1] - 1) \o Condensed
                        \o SubSeq(rawBody, span[2] + 1, Len(rawBody))
  BY DEF Splice, Forward
<1>2. CallInv /\ Intercepted
  BY <1>1 DEF ScanInv
<1>3. PICK off, val : Fits(off, val) /\ ScanFrom(at, depth, found, off, val)
  BY <1>1 DEF ScanInv, ScanAt
<1>4. Len(rawBody) \in Nat /\ at \in Int
  BY <1>2, <1>3, FitsBody DEF ScanFrom
<1>5. \A j \in Lists : ~(at <= KeyPlace(val, j, Gap))
  <2> SUFFICES ASSUME NEW j \in Lists, at <= KeyPlace(val, j, Gap) PROVE FALSE
    OBVIOUS
  <2>1. KeyPlace(val, j, Gap) \in 1..Len(rawBody)
    BY <1>2, <1>3, ListPlaces DEF ListPlaced
  <2>2. QED
    BY <1>1, <1>4, <2>1
<1>6. ~Before(at, found, val)
  <2>1. PICK m : Latest(m)
    BY <1>2, CondensedType
  <2>2. QED
    BY <1>5, <2>1 DEF Latest, Before
<1>7. CASE GivenUp(at, found)
  <2>1. sent' = Reserialized /\ \A k : Lists # {k}
    BY <1>1, <1>7 DEF GivenUp
  <2>2. SentBy(sent')
    BY <1>2, <2>1 DEF SentBy
  <2>3. QED
    BY <1>1, <2>2, ForwardScan
<1>8. CASE \E k : Behind(at, found, off, val, k)
  <2>1. PICK k : Behind(at, found, off, val, k)
    BY <1>8
  <2>2. k \in Lists /\ found = {<<val[k] + 1, off[k + 1]>>}
    BY <2>1 DEF Behind
  <2>3. Lists = {k}
    BY <1>5, <2>1 DEF Behind
  <2>4. val[k] \in Nat /\ Parts(off, val, k)
    BY <1>2, <1>3, <2>2, ListPlaces DEF ListPlaced
  <2>5. span = <<val[k] + 1, off[k + 1]>>
    BY <2>2
  <2>6. span[1] - 1 = val[k] /\ span[2] = off[k + 1]
    <3>1. PICK w : w = val[k]
      OBVIOUS
    <3>2. PICK o : o = off[k + 1]
      OBVIOUS
    <3> HIDE DEF span
    <3>3. span[1] = w + 1 /\ span[2] = o
      BY <2>5, <3>1, <3>2
    <3>4. (w + 1) - 1 = w
      BY <2>4, <3>1
    <3>5. QED
      BY <3>1, <3>2, <3>3, <3>4
  <2> HIDE DEF span
  <2>7. sent' = SubSeq(rawBody, 1, val[k]) \o Condensed
                  \o SubSeq(rawBody, off[k + 1] + 1, Len(rawBody))
    BY <1>1, <2>2, <2>6
  <2>8. sent' = Written(Other(k))
    BY <2>4, <2>7 DEF Parts
  <2>9. SentBy(sent')
    BY <1>2, <2>3, <2>8 DEF SentBy
  <2>10. QED
    BY <1>1, <2>9, ForwardScan
<1>9. QED
  BY <1>3, <1>6, <1>7, <1>8 DEF ScanFrom

LEMMA RebuildScan ==
  ASSUME ScanInv, Rebuild PROVE ScanInv'
<1>1. /\ phase = "rebuild" /\ phase' = "sent" /\ sent' = Reserialized
      /\ UNCHANGED <<door, call, rawBody>>
  BY DEF Rebuild, Forward
<1>2. CallInv /\ Intercepted /\ door # "fetch"
  BY <1>1 DEF ScanInv
<1>3. ASSUME NEW k, Lists = {k} PROVE Reserialized = Written(Other(k))
  BY <1>2, <1>3, RebuildsOther
<1>4. SentBy(sent')
  BY <1>1, <1>2, <1>3 DEF SentBy
<1>5. QED
  BY <1>1, <1>4, ForwardScan

LEMMA RelayScan ==
  ASSUME ScanInv, Relay PROVE ScanInv'
<1>1. ~Intercepted /\ phase' = "sent" /\ sent' = rawBody /\ UNCHANGED <<door, call, rawBody>>
  BY DEF Relay, Forward
<1>2. SentBy(sent')
  BY <1>1 DEF SentBy
<1>3. QED
  BY <1>1, <1>2, ForwardScan

LEMMA AnswerScan ==
  ASSUME ScanInv,
         \/ ThrowOnNull \/ \E r \in Reply : Respond(r)
         \/ NetworkError \/ PassBack \/ Annotate \/ ReadAnswer \/ Settle
  PROVE  ScanInv'
<1>1. phase' \in {"replied", "over"} /\ UNCHANGED <<door, call, rawBody>>
  BY DEF ThrowOnNull, Respond, NetworkError, PassBack, Annotate, ReadAnswer, Settle, End
<1>2. QED
  BY <1>1, NotScanning

LEMMA ScanStutters ==
  ASSUME ScanInv, UNCHANGED fetchVars PROVE ScanInv'
<1>1. UNCHANGED <<door, call, rawBody, phase, at, depth, found, sent>>
  BY DEF fetchVars, scanVars
<1>2. CallInv' /\ Intercepted' = Intercepted
  BY <1>1, CallInvStays DEF ScanInv
<1>3. CASE phase = "sent"
  <2>1. SentBy(sent')
    BY <1>1, <1>3 DEF ScanInv
  <2>2. QED
    BY <1>1, <1>3, <2>1, ForwardScan
<1>4. CASE phase = "scan"
  <2>1. PICK off, val : Fits(off, val) /\ ScanFrom(at, depth, found, off, val)
    BY <1>4 DEF ScanInv, ScanAt
  <2>2. ScanFrom(at', depth', found', off, val)
    BY <1>1, <2>1
  <2>3. ScanAt'
    BY <1>1, <2>1, <2>2, ScanMoves
  <2>4. QED
    BY <1>1, <1>4, <2>3, ScanGoesOn
<1>5. CASE phase \notin {"scan", "sent"}
  BY <1>1, <1>2, <1>5 DEF ScanInv
<1>6. QED
  BY <1>3, <1>4, <1>5

LEMMA ScanNextInv == ScanInv /\ [FetchNext]_fetchVars => ScanInv'
BY CompressScan, TakeArrayScan, GiveUpScan, AdvanceScan, SpliceScan, RebuildScan, RelayScan,
   AnswerScan, ScanStutters
   DEF FetchNext

\* A request whose object has one list of messages reaches the upstream as it
\* was written but for that list, through every door: findTopLevelArraySpan
\* finds that list and no other, and the span it reports is the list's, whatever
\* members and brackets stand around it and inside it.
THEOREM SplicesAreSurgical == FetchSpec => []SpliceIsSurgical
<1>1. ScanInv => SpliceIsSurgical
  BY SentIsSurgical
<1>2. FetchSpec => []ScanInv
  BY ScanInitInv, ScanNextInv, PTL DEF FetchSpec
<1>3. QED
  BY <1>1, <1>2, PTL

\* Whatever the body and wherever its lists of messages stand, spliced by the
\* scan or written anew after a second list made it give up, through every door:
\* a JSON reader of what the upstream receives finds the compressed list under
\* messages, and under every other key what it would have found in the caller's
\* text, or that value after a trip through JSON.parse and JSON.stringify.
THEOREM UpstreamsReadCompressed == FetchSpec => []UpstreamReadsCompressed
<1>1. ScanInv => UpstreamReadsCompressed
  BY SentIsRead
<1>2. FetchSpec => []ScanInv
  BY ScanInitInv, ScanNextInv, PTL DEF FetchSpec
<1>3. QED
  BY <1>1, <1>2, PTL
=============================================================================
