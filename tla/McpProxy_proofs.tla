-------------------------- MODULE McpProxy_proofs --------------------------
(***************************************************************************)
(* Theorems about the expand store, for every set of contents, every size, *)
(* every cap and every clock; and about the proxy that owns one, for every *)
(* set of requests and any number of restarts.                             *)
(***************************************************************************)
EXTENDS McpProxy, SequenceTheorems, FiniteSetTheorems, Induction, TLAPS

(* The store.                                                               *)

-----------------------------------------------------------------------------
(* Lemmas on the two sequence operations the store is built from.           *)

\* Moving one element to the end permutes a sequence: element i of the result
\* was at place i, or i+1, or was the moved one.
LEMMA MoveToEndSeq ==
  ASSUME NEW S, NEW s \in Seq(S), NEW k \in 1..Len(s)
  PROVE  /\ Cache!MoveToEnd(s, k) \in Seq(S)
         /\ Len(Cache!MoveToEnd(s, k)) = Len(s)
         /\ \A i \in 1..Len(s) :
              Cache!MoveToEnd(s, k)[i] =
                IF i < k THEN s[i] ELSE IF i < Len(s) THEN s[i + 1] ELSE s[k]
  BY DEF Cache!MoveToEnd

\* Dropping the k oldest entries.
LEMMA DropSeq ==
  ASSUME NEW S, NEW s \in Seq(S), NEW k \in 0..Len(s)
  PROVE  /\ SubSeq(s, k + 1, Len(s)) \in Seq(S)
         /\ Len(SubSeq(s, k + 1, Len(s))) = Len(s) - k
         /\ \A i \in 1..(Len(s) - k) : SubSeq(s, k + 1, Len(s))[i] = s[k + i]
  OBVIOUS

-----------------------------------------------------------------------------
(* The inductive invariant.                                                 *)

\* The log numbers the puts by the sequence part of their refs.
LogInv ==
  /\ Len(log) = counter
  /\ \A i \in 1..Len(log) : log[i].ref.seq = i - 1

\* Every entry of the Map is one the log holds, and no two share a ref.
EntriesInv ==
  /\ \A i \in 1..Len(entries) :
       /\ entries[i].ref.seq < counter
       /\ entries[i] = log[entries[i].ref.seq + 1]
  /\ \A i, j \in 1..Len(entries) :
       i # j => entries[i].ref.seq # entries[j].ref.seq

\* The Map is the recent end of the order in which refs were last used.
RecencyInv ==
  /\ Len(recency) = counter
  /\ Len(entries) <= counter
  /\ \A i \in 1..Len(recency) : recency[i].seq < counter
  /\ \A i, j \in 1..Len(recency) : i # j => recency[i].seq # recency[j].seq
  /\ \A i \in 1..Len(entries) :
       recency[Len(recency) - Len(entries) + i] = entries[i].ref

\* A successful reply quotes an entry of the log.
ReplyInv ==
  reply.kind = "hit" =>
    \E i \in 1..Len(log) : log[i].ref = reply.ref /\ log[i].content = reply.content

Inv == TypeOK /\ LogInv /\ EntriesInv /\ RecencyInv /\ ReplyInv


\* Append, for a Map that does not hold the key yet.
LEMMA SetEntryFresh ==
  ASSUME NEW es \in Seq(Entry), NEW e \in Entry,
         \A i \in 1..Len(es) : es[i].ref # e.ref
  PROVE  SetEntry(es, e) = Append(es, e)
  BY DEF SetEntry

LEMMA InitInv == StoreInit => Inv
<1> SUFFICES ASSUME StoreInit PROVE Inv
  OBVIOUS
<1>1. TypeOK
  BY StoreAssumption DEF StoreInit, TypeOK, Reply, StoreAssumption
<1>2. LogInv /\ EntriesInv /\ RecencyInv
  BY DEF StoreInit, LogInv, EntriesInv, RecencyInv
<1>3. ReplyInv
  BY DEF StoreInit, ReplyInv
<1>4. QED
  BY <1>1, <1>2, <1>3 DEF Inv

\* A put appends a fresh ref to the Map, the log and the recency order, and
\* drops some number k of the oldest entries.
LEMMA PutShape ==
  ASSUME Inv, NEW c \in Content, NEW stamp \in Stamps, Put(c, stamp)
  PROVE  LET e == [ref |-> [stamp |-> stamp, seq |-> counter], content |-> c]
         IN  /\ e \in Entry
             /\ counter \in 0..(MaxPuts - 1)
             /\ counter' = counter + 1
             /\ log' = Append(log, e)
             /\ recency' = Append(recency, e.ref)
             /\ reply' = [kind |-> "ref", ref |-> e.ref]
             /\ EvictFrom(Append(entries, e), bytes + Size[c])
<1> DEFINE e == [ref |-> [stamp |-> stamp, seq |-> counter], content |-> c]
<1>1. e \in Entry /\ e = [ref |-> RefOf(stamp, counter), content |-> c]
  BY DEF Inv, TypeOK, Entry, Ref, RefOf
<1>2. \A i \in 1..Len(entries) : entries[i].ref # e.ref
  BY DEF Inv, TypeOK, EntriesInv, Entry, Ref
<1>3. SetEntry(entries, e) = Append(entries, e)
  BY <1>1, <1>2, SetEntryFresh DEF Inv, TypeOK
<1>4. Len(Append(entries, e)) = Len(entries) + 1
  BY <1>1 DEF Inv, TypeOK
<1>5. /\ counter < MaxPuts
      /\ counter' = counter + 1
      /\ log' = Append(log, e)
      /\ recency' = Append(recency, e.ref)
      /\ reply' = [kind |-> "ref", ref |-> e.ref]
  BY <1>1 DEF Put
<1>6. EvictFrom(SetEntry(entries, e), bytes + Size[c])
  BY <1>1 DEF Put
<1>7. counter \in 0..(MaxPuts - 1)
  BY <1>5, StoreAssumption DEF Inv, TypeOK, StoreAssumption
<1>8. EvictFrom(Append(entries, e), bytes + Size[c])
  BY <1>3, <1>6
<1> HIDE DEF e
<1>9. QED
  BY <1>1, <1>5, <1>7, <1>8 DEF e

\* A hit moves one entry of the Map, and its ref, to the recent end.
LEMMA HitShape ==
  ASSUME Inv, NEW r \in Askable, GetHit(r)
  PROVE  \E i \in 1..Len(entries) :
           LET p == Len(recency) - Len(entries) + i
           IN  /\ p \in 1..Len(recency)
               /\ recency[p] = r
               /\ entries[i].ref = r
               /\ entries' = Cache!MoveToEnd(entries, i)
               /\ recency' = Cache!MoveToEnd(recency, p)
               /\ reply' = [kind |-> "hit", ref |-> r, content |-> entries[i].content]
               /\ UNCHANGED <<bytes, counter, log>>
<1>1. PICK i \in 1..Len(entries) :
        /\ entries[i].ref = r
        /\ entries' = Cache!MoveToEnd(entries, i)
        /\ reply' = [kind |-> "hit", ref |-> r, content |-> entries[i].content]
        /\ recency' = Cache!MoveToEnd(recency, PlaceOf(recency, r))
        /\ UNCHANGED <<bytes, counter, log>>
  BY DEF GetHit, Touch
<1> DEFINE p == Len(recency) - Len(entries) + i
<1>2. p \in 1..Len(recency) /\ recency[p] = r
  BY <1>1 DEF Inv, TypeOK, RecencyInv
<1>3. \A q \in 1..Len(recency) : recency[q] = r => q = p
  BY <1>2 DEF Inv, TypeOK, RecencyInv
<1>4. PlaceOf(recency, r) = p
  BY <1>2, <1>3 DEF PlaceOf
<1>5. QED
  BY <1>1, <1>2, <1>4

-----------------------------------------------------------------------------
(* Each action preserves the invariant.                                     *)

LEMMA PutInv ==
  ASSUME Inv, NEW c \in Content, NEW stamp \in Stamps, Put(c, stamp)
  PROVE  Inv'
<1> DEFINE e  == [ref |-> [stamp |-> stamp, seq |-> counter], content |-> c]
           es == Append(entries, e)
<1>1. /\ e \in Entry /\ e.ref \in Ref /\ e.ref.seq = counter
      /\ counter \in 0..(MaxPuts - 1)
      /\ counter' = counter + 1
      /\ log' = Append(log, e)
      /\ recency' = Append(recency, e.ref)
      /\ reply' = [kind |-> "ref", ref |-> e.ref]
      /\ EvictFrom(Append(entries, e), bytes + Size[c])
  BY PutShape DEF Entry, Ref
<1>3. entries \in Seq(Entry) /\ log \in Seq(Entry) /\ recency \in Seq(Ref)
  BY DEF Inv, TypeOK
<1>2. PICK k \in 0..(Len(entries) + 1) :
        entries' = SubSeq(es, k + 1, Len(entries) + 1)
  <2>1. Len(es) = Len(entries) + 1
    BY <1>1, <1>3
  <2>2. QED
    BY <1>1, <2>1 DEF EvictFrom
<1> HIDE DEF e
<1>4. /\ es \in Seq(Entry)
      /\ Len(es) = Len(entries) + 1
      /\ \A i \in 1..Len(entries) : es[i] = entries[i]
      /\ es[Len(entries) + 1] = e
  BY <1>1, <1>3
<1> HIDE DEF es
<1>5. /\ entries' \in Seq(Entry)
      /\ Len(entries') = Len(entries) + 1 - k
      /\ \A i \in 1..Len(entries') : entries'[i] = es[k + i]
  <2>1. k \in 0..Len(es)
    BY <1>2, <1>4
  <2>2. /\ SubSeq(es, k + 1, Len(es)) \in Seq(Entry)
        /\ Len(SubSeq(es, k + 1, Len(es))) = Len(es) - k
        /\ \A i \in 1..(Len(es) - k) : SubSeq(es, k + 1, Len(es))[i] = es[k + i]
    BY <1>4, <2>1, DropSeq
  <2>3. entries' = SubSeq(es, k + 1, Len(es))
    BY <1>2, <1>4
  <2>4. QED
    BY <1>4, <2>2, <2>3
<1>6. /\ log' \in Seq(Entry)
      /\ Len(log') = Len(log) + 1
      /\ \A i \in 1..Len(log) : log'[i] = log[i]
      /\ log'[Len(log) + 1] = e
  BY <1>1, <1>3
<1>7. /\ recency' \in Seq(Ref)
      /\ Len(recency') = Len(recency) + 1
      /\ \A i \in 1..Len(recency) : recency'[i] = recency[i]
      /\ recency'[Len(recency) + 1] = e.ref
  BY <1>1, <1>3
<1>8. TypeOK'
  <2>1. reply' \in Reply
    BY <1>1 DEF Reply
  <2>2. counter' \in 0..MaxPuts
    BY <1>1, StoreAssumption DEF StoreAssumption
  <2>3. QED
    BY <1>5, <1>6, <1>7, <2>1, <2>2 DEF TypeOK
<1> DEFINE n == Len(entries)
           m == Len(recency)
<1>9. /\ n \in Nat /\ m = counter /\ Len(log) = counter /\ n <= counter
      /\ counter \in Nat
      /\ \A i \in 1..n : entries[i].ref.seq \in 0..(counter - 1)
      /\ \A i \in 1..m : recency[i].seq \in 0..(counter - 1)
  <2>1. /\ n \in Nat /\ m = counter /\ Len(log) = counter /\ n <= counter
        /\ counter \in Nat
    BY <1>1, <1>3 DEF Inv, LogInv, RecencyInv
  <2>2. \A i \in 1..n : entries[i] \in Entry
    BY <1>3
  <2>3. \A i \in 1..m : recency[i] \in Ref
    BY <1>3
  <2>4. \A i \in 1..n : entries[i].ref.seq \in Nat
    BY <2>2 DEF Entry, Ref
  <2>5. \A i \in 1..m : recency[i].seq \in Nat
    BY <2>3 DEF Ref
  <2>6. \A i \in 1..n : entries[i].ref.seq \in 0..(counter - 1)
    BY <2>1, <2>4 DEF Inv, EntriesInv
  <2>7. \A i \in 1..m : recency[i].seq \in 0..(counter - 1)
    BY <2>1, <2>5 DEF Inv, RecencyInv
  <2>8. QED
    BY <2>1, <2>6, <2>7
<1>10. LogInv'
  <2> SUFFICES ASSUME NEW i \in 1..Len(log') PROVE log'[i].ref.seq = i - 1
    BY <1>1, <1>6, <1>9 DEF LogInv
  <2>1. CASE i = Len(log) + 1
    BY <1>1, <1>6, <1>9, <2>1
  <2>2. CASE i \in 1..Len(log)
    BY <1>6, <2>2 DEF Inv, LogInv
  <2>3. QED
    BY <1>6, <1>9, <2>1, <2>2
<1>11. EntriesInv'
  <2>1. \A i \in 1..(n + 1) : es[i].ref.seq < counter' /\ es[i] = log'[es[i].ref.seq + 1]
    <3> SUFFICES ASSUME NEW i \in 1..(n + 1)
                 PROVE  es[i].ref.seq < counter' /\ es[i] = log'[es[i].ref.seq + 1]
      OBVIOUS
    <3>1. CASE i = n + 1
      BY <1>1, <1>4, <1>6, <1>9, <3>1
    <3>2. CASE i \in 1..n
      <4>1. es[i] = entries[i] /\ entries[i] = log[entries[i].ref.seq + 1]
        BY <1>4, <3>2 DEF Inv, EntriesInv
      <4>2. entries[i].ref.seq + 1 \in 1..Len(log)
        BY <1>9, <3>2
      <4>3. QED
        BY <1>1, <1>6, <1>9, <3>2, <4>1, <4>2
    <3>3. QED
      BY <1>9, <3>1, <3>2
  <2>2. \A i, j \in 1..(n + 1) : i # j => es[i].ref.seq # es[j].ref.seq
    <3>1. \A i, j \in 1..n : i # j => es[i].ref.seq # es[j].ref.seq
      BY <1>4 DEF Inv, EntriesInv
    <3>2. \A i \in 1..n : es[i].ref.seq # es[n + 1].ref.seq
      BY <1>1, <1>4, <1>9, SMTT(30)
    <3>3. QED
      BY <1>9, <3>1, <3>2
  <2>3. \A i \in 1..Len(entries') : k + i \in 1..(n + 1)
    BY <1>5, <1>9
  <2>4. \A i, j \in 1..Len(entries') : i # j => k + i # k + j
    BY <1>2, <1>5, <1>9
  <2>5. \A i \in 1..Len(entries') :
          /\ entries'[i].ref.seq < counter'
          /\ entries'[i] = log'[entries'[i].ref.seq + 1]
    BY <1>5, <2>1, <2>3
  <2>6. \A i, j \in 1..Len(entries') :
          i # j => entries'[i].ref.seq # entries'[j].ref.seq
    BY <1>5, <2>2, <2>3, <2>4
  <2>7. QED
    BY <2>5, <2>6 DEF EntriesInv
<1>12. RecencyInv'
  <2>1. \A i \in 1..(m + 1) : recency'[i].seq < counter'
    BY <1>1, <1>7, <1>9
  <2>2. \A i, j \in 1..(m + 1) : i # j => recency'[i].seq # recency'[j].seq
    <3>1. \A i, j \in 1..m : i # j => recency'[i].seq # recency'[j].seq
      BY <1>7 DEF Inv, RecencyInv
    <3>2. \A i \in 1..m : recency'[i].seq # recency'[m + 1].seq
      <4>1. recency'[m + 1].seq = counter
        BY <1>1, <1>7
      <4>2. \A i \in 1..m : recency'[i].seq \in 0..(counter - 1)
        BY <1>7, <1>9
      <4>3. QED
        BY <1>9, <4>1, <4>2
    <3>3. \A i \in 1..(m + 1) : i \in 1..m \/ i = m + 1
      BY <1>9
    <3>4. QED
      BY <3>1, <3>2, <3>3
  <2>3. \A i \in 1..(n + 1) : recency'[m - n + i] = es[i].ref
    <3> SUFFICES ASSUME NEW i \in 1..(n + 1) PROVE recency'[m - n + i] = es[i].ref
      OBVIOUS
    <3>1. CASE i = n + 1
      BY <1>4, <1>7, <1>9, <3>1
    <3>2. CASE i \in 1..n
      <4>1. m - n + i \in 1..m
        BY <1>9, <3>2
      <4>2. QED
        BY <1>4, <1>7, <3>2, <4>1 DEF Inv, RecencyInv
    <3>3. QED
      BY <1>9, <3>1, <3>2
  <2>4. \A i \in 1..Len(entries') :
          recency'[Len(recency') - Len(entries') + i] = entries'[i].ref
    <3> SUFFICES ASSUME NEW i \in 1..Len(entries')
                 PROVE recency'[Len(recency') - Len(entries') + i] = entries'[i].ref
      OBVIOUS
    <3>1. k + i \in 1..(n + 1) /\ Len(recency') - Len(entries') + i = m - n + (k + i)
      BY <1>5, <1>7, <1>9
    <3>2. QED
      BY <1>5, <2>3, <3>1
  <2>5. Len(recency') = m + 1 /\ m + 1 = counter' /\ Len(entries') <= counter'
    BY <1>1, <1>2, <1>5, <1>7, <1>9
  <2>6. QED
    BY <2>1, <2>2, <2>4, <2>5 DEF RecencyInv
<1>13. ReplyInv'
  BY <1>1 DEF ReplyInv
<1>14. QED
  BY <1>8, <1>10, <1>11, <1>12, <1>13 DEF Inv

LEMMA HitInv ==
  ASSUME Inv, NEW r \in Askable, GetHit(r)
  PROVE  Inv'
<1> DEFINE n == Len(entries)
           m == Len(recency)
<1>1. PICK i \in 1..n :
        /\ m - n + i \in 1..m
        /\ recency[m - n + i] = r
        /\ entries[i].ref = r
        /\ entries' = Cache!MoveToEnd(entries, i)
        /\ recency' = Cache!MoveToEnd(recency, m - n + i)
        /\ reply' = [kind |-> "hit", ref |-> r, content |-> entries[i].content]
        /\ UNCHANGED <<bytes, counter, log>>
  BY HitShape
<1>2. entries \in Seq(Entry) /\ log \in Seq(Entry) /\ recency \in Seq(Ref)
  BY DEF Inv, TypeOK
<1>3. /\ entries' \in Seq(Entry)
      /\ Len(entries') = n
      /\ \A j \in 1..n :
           entries'[j] = IF j < i THEN entries[j]
                         ELSE IF j < n THEN entries[j + 1] ELSE entries[i]
  BY <1>1, <1>2, MoveToEndSeq
<1>4. /\ recency' \in Seq(Ref)
      /\ Len(recency') = m
      /\ \A j \in 1..m :
           recency'[j] = IF j < m - n + i THEN recency[j]
                         ELSE IF j < m THEN recency[j + 1] ELSE recency[m - n + i]
  BY <1>1, <1>2, MoveToEndSeq
<1>5. n \in Nat /\ m \in Nat /\ n <= m
  BY <1>2 DEF Inv, RecencyInv
<1> DEFINE src(j) == IF j < i THEN j ELSE IF j < n THEN j + 1 ELSE i
<1>6. \A j \in 1..n : src(j) \in 1..n /\ entries'[j] = entries[src(j)]
  BY <1>1, <1>3, <1>5
<1>7. \A j, l \in 1..n : j # l => src(j) # src(l)
  BY <1>5
<1>8. TypeOK'
  <2>1. entries[i] \in Entry
    BY <1>2
  <2>2. reply' \in Reply
    BY <1>1, <2>1 DEF Reply, Entry
  <2>3. QED
    BY <1>1, <1>3, <1>4, <2>2 DEF Inv, TypeOK
<1>9. LogInv'
  BY <1>1 DEF Inv, LogInv
<1>10. EntriesInv'
  <2> HIDE DEF src
  <2>1. \A j \in 1..n :
          /\ entries'[j].ref.seq < counter
          /\ entries'[j] = log[entries'[j].ref.seq + 1]
    BY <1>6, ZenonT(60) DEF Inv, EntriesInv
  <2>2. ASSUME NEW j \in 1..n, NEW l \in 1..n, j # l
        PROVE  entries'[j].ref.seq # entries'[l].ref.seq
    <3>1. src(j) \in 1..n /\ src(l) \in 1..n /\ src(j) # src(l)
      BY <1>6, <1>7, <2>2
    <3>2. entries[src(j)].ref.seq # entries[src(l)].ref.seq
      BY <3>1 DEF Inv, EntriesInv
    <3>3. QED
      BY <1>6, <3>2
  <2>3. QED
    BY <1>1, <1>3, <2>1, <2>2 DEF EntriesInv
<1>11. RecencyInv'
  <2> DEFINE q == m - n + i
             from(j) == IF j < q THEN j ELSE IF j < m THEN j + 1 ELSE q
  <2>1. \A j \in 1..m : from(j) \in 1..m /\ recency'[j] = recency[from(j)]
    <3> SUFFICES ASSUME NEW j \in 1..m
                 PROVE  from(j) \in 1..m /\ recency'[j] = recency[from(j)]
      OBVIOUS
    <3>1. q \in 1..m
      BY <1>1
    <3>2. recency'[j] = recency[from(j)]
      BY <1>4
    <3>3. from(j) \in 1..m
      <4> HIDE DEF q, m
      <4>1. QED
        BY <1>5, <3>1
    <3>4. QED
      BY <3>2, <3>3
  <2>2. \A j, l \in 1..m : j # l => from(j) # from(l)
    BY <1>1, <1>5
  <2>3. \A j \in 1..n : from(m - n + j) = m - n + src(j) /\ m - n + j \in 1..m
    BY <1>5
  <2> HIDE DEF from, src, q
  <2>4. \A j \in 1..m : recency'[j].seq < counter
    BY <2>1 DEF Inv, RecencyInv
  <2>5. ASSUME NEW j \in 1..m, NEW l \in 1..m, j # l
        PROVE  recency'[j].seq # recency'[l].seq
    <3>1. from(j) \in 1..m /\ from(l) \in 1..m /\ from(j) # from(l)
      BY <2>1, <2>2, <2>5
    <3>2. recency[from(j)].seq # recency[from(l)].seq
      BY <3>1 DEF Inv, RecencyInv
    <3>3. QED
      BY <2>1, <3>2
  <2>6. ASSUME NEW j \in 1..n
        PROVE  recency'[m - n + j] = entries'[j].ref
    <3>1. recency'[m - n + j] = recency[m - n + src(j)]
      BY <2>1, <2>3
    <3>2. recency[m - n + src(j)] = entries[src(j)].ref
      BY <1>6 DEF Inv, RecencyInv
    <3>3. QED
      BY <1>6, <3>1, <3>2
  <2>7. QED
    BY <1>1, <1>3, <1>4, <2>4, <2>5, <2>6, ZenonT(60) DEF Inv, RecencyInv
<1>12. ReplyInv'
  <2>1. entries[i] = log[entries[i].ref.seq + 1] /\ entries[i].ref.seq < counter
    BY DEF Inv, EntriesInv
  <2>2. entries[i] \in Entry
    BY <1>2
  <2>3. entries[i].ref.seq + 1 \in 1..Len(log)
    BY <1>2, <2>1, <2>2 DEF Inv, TypeOK, LogInv, Entry, Ref
  <2>4. QED
    BY <1>1, <2>1, <2>3 DEF ReplyInv
<1>13. QED
  BY <1>8, <1>9, <1>10, <1>11, <1>12 DEF Inv

LEMMA MissInv ==
  ASSUME Inv, NEW r \in Askable, GetMiss(r)
  PROVE  Inv'
<1>1. r \in Ref
  BY StoreAssumption DEF Askable, Ref, StoreAssumption
<1>2. TypeOK'
  BY <1>1 DEF GetMiss, Inv, TypeOK, Reply
<1>3. UNCHANGED <<entries, counter, log, recency>> /\ reply'.kind = "miss"
  BY DEF GetMiss
<1>4. LogInv' /\ EntriesInv' /\ RecencyInv'
  BY <1>3 DEF Inv, LogInv, EntriesInv, RecencyInv
<1>5. ReplyInv'
  BY <1>3 DEF ReplyInv
<1>6. QED
  BY <1>2, <1>4, <1>5 DEF Inv

LEMMA NextInv == Inv /\ [StoreNext]_storeVars => Inv'
<1> SUFFICES ASSUME Inv, [StoreNext]_storeVars PROVE Inv'
  OBVIOUS
<1>1. ASSUME NEW c \in Content, NEW stamp \in Stamps, Put(c, stamp) PROVE Inv'
  BY <1>1, PutInv
<1>2. ASSUME NEW r \in Askable, Get(r) PROVE Inv'
  BY <1>2, HitInv, MissInv DEF Get
<1>3. CASE UNCHANGED storeVars
  <2>1. UNCHANGED <<entries, counter, log, recency, reply>>
    BY <1>3 DEF storeVars
  <2>2. TypeOK'
    BY <2>1 DEF Inv, TypeOK
  <2>3. LogInv' /\ EntriesInv' /\ RecencyInv' /\ ReplyInv'
    BY <2>1 DEF Inv, LogInv, EntriesInv, RecencyInv, ReplyInv
  <2>4. QED
    BY <2>2, <2>3 DEF Inv
<1>4. QED
  BY <1>1, <1>2, <1>3 DEF StoreNext

LEMMA Invariance == StoreSpec => []Inv
  BY InitInv, NextInv, PTL DEF StoreSpec

-----------------------------------------------------------------------------
(* The theorems.                                                            *)

\* The variables of the store keep their types.
THEOREM StoreTypes == StoreSpec => []TypeOK
<1>1. Inv => TypeOK
  BY DEF Inv
<1>2. QED
  BY <1>1, Invariance, PTL

\* Whatever the clock does, a fetch returns what was put under its ref, and
\* no other put was given that ref.
THEOREM StoreIsTruthful == StoreSpec => []Truthful
<1>1. Inv => Truthful
  <2> SUFFICES ASSUME Inv, reply.kind = "hit"
               PROVE  /\ \E i \in 1..Len(log) : log[i].ref = reply.ref
                      /\ \A i \in 1..Len(log) :
                           log[i].ref = reply.ref => log[i].content = reply.content
    BY DEF Truthful
  <2>1. PICK i \in 1..Len(log) :
          log[i].ref = reply.ref /\ log[i].content = reply.content
    BY DEF Inv, ReplyInv
  <2>2. \A j \in 1..Len(log) : log[j].ref = reply.ref => j = i
    BY <2>1 DEF Inv, LogInv
  <2>3. QED
    BY <2>1, <2>2
<1>2. QED
  BY <1>1, Invariance, PTL

-----------------------------------------------------------------------------
(* The store implements ExpandCache.                                        *)

\* The mapped state, named so that a step can be stated without INSTANCE.
Given == [i \in 1..Len(log) |-> log[i].content]
Used  == [i \in 1..Len(recency) |-> recency[i].seq + 1]
Returned ==
  CASE reply.kind = "none" -> reply
    [] reply.kind = "ref"  -> [kind |-> "ref", id |-> reply.ref.seq + 1]
    [] reply.kind = "miss" -> [kind |-> "miss"]
    [] reply.kind = "hit"  -> [kind    |-> "hit",
                               id      |-> reply.ref.seq + 1,
                               content |-> reply.content]

LEMMA MappedInit == StoreInit => Cache!CacheInit
  BY DEF StoreInit, Cache!CacheInit

\* Types and lengths of the mapped state.
LEMMA MappedTypes ==
  ASSUME Inv
  PROVE  /\ Given \in Seq(Content) /\ Len(Given) = counter
         /\ Used \in Seq(Nat) /\ Len(Used) = counter
         /\ Len(recency) = counter /\ Len(log) = counter /\ counter \in Nat
         /\ Len(entries) \in 0..counter
<1>1. /\ entries \in Seq(Entry) /\ log \in Seq(Entry) /\ recency \in Seq(Ref)
      /\ Len(recency) = counter /\ Len(log) = counter /\ Len(entries) <= counter
  BY DEF Inv, TypeOK, LogInv, RecencyInv
<1>2. \A i \in 1..Len(log) : log[i] \in Entry
  BY <1>1
<1>3. \A i \in 1..Len(recency) : recency[i] \in Ref
  BY <1>1
<1>4. \A i \in 1..Len(log) : log[i].content \in Content
  BY <1>2 DEF Entry
<1>5. \A i \in 1..Len(recency) : recency[i].seq + 1 \in Nat
  BY <1>3 DEF Ref
<1>6. Len(log) \in Nat /\ Len(entries) \in Nat
  BY <1>1
<1>7. Given \in Seq(Content) /\ Len(Given) = Len(log)
  BY <1>4, <1>6 DEF Given
<1>8. Used \in Seq(Nat) /\ Len(Used) = Len(recency)
  BY <1>1, <1>5, <1>6 DEF Used
<1>9. QED
  BY <1>1, <1>6, <1>7, <1>8

LEMMA PutMapped ==
  ASSUME Inv, NEW c \in Content, NEW stamp \in Stamps, Put(c, stamp)
  PROVE  Cache!CachePut(c)
<1> DEFINE e == [ref |-> [stamp |-> stamp, seq |-> counter], content |-> c]
<1>1. /\ e \in Entry /\ e.ref \in Ref /\ e.ref.seq = counter /\ e.content = c
      /\ log' = Append(log, e)
      /\ recency' = Append(recency, e.ref)
      /\ reply' = [kind |-> "ref", ref |-> e.ref]
      /\ EvictFrom(Append(entries, e), bytes + Size[c])
  BY PutShape DEF Entry, Ref
<1>2. Len(entries') \in 0..(Len(entries) + 1)
  <2>2. entries \in Seq(Entry)
    BY DEF Inv, TypeOK
  <2>1. PICK k \in 0..(Len(entries) + 1) :
          entries' = SubSeq(Append(entries, e), k + 1, Len(entries) + 1)
    <3>1. Len(Append(entries, e)) = Len(entries) + 1
      BY <1>1, <2>2
    <3>2. QED
      BY <1>1, <3>1 DEF EvictFrom
  <2>3. Append(entries, e) \in Seq(Entry) /\ Len(Append(entries, e)) = Len(entries) + 1
    BY <1>1, <2>2
  <2> HIDE DEF e
  <2>4. Len(entries') = Len(entries) + 1 - k
    BY <2>1, <2>3, DropSeq
  <2>5. QED
    BY <2>1, <2>2, <2>4
<1>3. log \in Seq(Entry) /\ recency \in Seq(Ref)
  BY DEF Inv, TypeOK
<1> HIDE DEF e
<1>4. Given' = Append(Given, c)
  BY <1>1, <1>3 DEF Given
<1>5. Used' = Append(Used, Len(Given) + 1)
  BY <1>1, <1>3, MappedTypes DEF Used
<1>6. Returned' = [kind |-> "ref", id |-> Len(Given) + 1]
  BY <1>1, MappedTypes DEF Returned
<1>7. QED
  BY <1>2, <1>4, <1>5, <1>6 DEF Cache!CachePut, Given, Used, Returned

LEMMA HitMapped ==
  ASSUME Inv, NEW r \in Askable, GetHit(r)
  PROVE  \E p \in 1..Len(Used) : Cache!CacheHit(p)
<1> DEFINE n == Len(entries)
           m == Len(recency)
<1>1. PICK i \in 1..n :
        /\ m - n + i \in 1..m
        /\ recency[m - n + i] = r
        /\ entries[i].ref = r
        /\ entries' = Cache!MoveToEnd(entries, i)
        /\ recency' = Cache!MoveToEnd(recency, m - n + i)
        /\ reply' = [kind |-> "hit", ref |-> r, content |-> entries[i].content]
        /\ UNCHANGED <<bytes, counter, log>>
  BY HitShape
<1>2. PICK p \in 1..m : p = m - n + i
  BY <1>1
<1>3. entries \in Seq(Entry) /\ log \in Seq(Entry) /\ recency \in Seq(Ref)
  BY DEF Inv, TypeOK
<1>4. p \in (Len(Used) - n + 1)..Len(Used) /\ p \in 1..m /\ m = Len(Used)
  BY <1>1, <1>3, <1>2, MappedTypes
<1>5. Len(entries') = n
  BY <1>1, <1>3, MoveToEndSeq
<1>6. Used' = Cache!MoveToEnd(Used, p)
  <2>1. /\ recency' \in Seq(Ref)
        /\ Len(recency') = m
        /\ \A j \in 1..m :
             recency'[j] = IF j < p THEN recency[j]
                           ELSE IF j < m THEN recency[j + 1] ELSE recency[p]
    BY <1>1, <1>3, <1>2, MoveToEndSeq
  <2>2. \A j \in 1..m :
          recency'[j].seq + 1 = IF j < p THEN Used[j]
                                ELSE IF j < m THEN Used[j + 1] ELSE Used[p]
    BY <1>3, <1>4, <2>1 DEF Used
  <2>3. QED
    BY <1>4, <2>1, <2>2 DEF Used, Cache!MoveToEnd
<1>7. Used[p] = r.seq + 1 /\ Given[Used[p]] = entries[i].content
  <2>1. Used[p] = r.seq + 1
    BY <1>1, <1>4, <1>2 DEF Used
  <2>2. entries[i] \in Entry
    BY <1>3
  <2>3. r.seq \in Nat
    BY <1>1, <2>2 DEF Entry, Ref
  <2>4. r.seq < counter /\ entries[i] = log[r.seq + 1]
    BY <1>1 DEF Inv, EntriesInv
  <2>5. r.seq + 1 \in 1..Len(log)
    BY <2>3, <2>4, MappedTypes
  <2>6. QED
    BY <2>1, <2>4, <2>5 DEF Given
<1>8. Returned' = [kind |-> "hit", id |-> Used[p], content |-> Given[Used[p]]]
  BY <1>1, <1>7 DEF Returned
<1>9. Given' = Given
  BY <1>1 DEF Given
<1>10. Cache!CacheHit(p)
  BY <1>4, <1>5, <1>6, <1>8, <1>9 DEF Cache!CacheHit, Given, Used, Returned
<1>11. p \in 1..Len(Used)
  BY <1>4
<1>12. QED
  BY <1>10, <1>11

LEMMA MissMapped ==
  ASSUME NEW r, GetMiss(r)
  PROVE  Cache!CacheMiss
  BY DEF GetMiss, Cache!CacheMiss

\* Every behaviour of the store is one of the abstract cache: it forgets the
\* least recently used first, what it forgot stays forgotten, and a fetch never
\* returns another put's content.
THEOREM StoreImplementsCache == StoreSpec => ImplementsCache
<1>1. ASSUME Inv, [StoreNext]_storeVars PROVE [Cache!CacheNext]_(Cache!cacheVars)
  <2>1. ASSUME NEW c \in Content, NEW stamp \in Stamps, Put(c, stamp)
        PROVE  Cache!CacheNext
    BY <1>1, <2>1, PutMapped DEF Cache!CacheNext
  <2>2. ASSUME NEW r \in Askable, Get(r)
        PROVE  Cache!CacheNext
    BY <1>1, <2>2, HitMapped, MissMapped DEF Get, Cache!CacheNext, Used
  <2>3. CASE UNCHANGED storeVars
    BY <2>3 DEF storeVars, Cache!cacheVars
  <2>4. QED
    BY <1>1, <2>1, <2>2, <2>3 DEF StoreNext
<1>2. QED
  BY <1>1, MappedInit, Invariance, PTL DEF StoreSpec, ImplementsCache, Cache!CacheSpec

-----------------------------------------------------------------------------
(* The byte count.  HeadSize is recursive, so its facts need induction; the *)
(* induction is over a set of naturals (Induction.tla).                     *)

\* The size of a content is a natural number.
LEMMA SizeType == \A c \in Content : Size[c] \in Nat
  BY StoreAssumption DEF StoreAssumption

\* What the recursive definition of HeadSize defines.
LEMMA HeadSizeRec ==
  ASSUME NEW es \in Seq(Entry)
  PROVE  /\ \A k \in 0..Len(es) : HeadSize(es, k) \in Nat
         /\ HeadSize(es, 0) = 0
         /\ \A k \in 1..Len(es) :
              HeadSize(es, k) = HeadSize(es, k - 1) + Size[es[k].content]
<1> DEFINE size(k) == Size[es[k].content]
           Sums(h, n) == h = [k \in 1..n |-> size(k) + (IF k = 1 THEN 0 ELSE h[k - 1])]
           Typed(h, n) == h \in [1..n -> Nat]
           T == {n \in Nat : n <= Len(es) => \E h : Typed(h, n) /\ Sums(h, n)}
<1>1. \A k \in 1..Len(es) : size(k) \in Nat
  <2>1. \A k \in 1..Len(es) : es[k] \in Entry
    OBVIOUS
  <2>2. \A k \in 1..Len(es) : es[k].content \in Content
    BY <2>1 DEF Entry
  <2>3. QED
    BY <2>2, SizeType
<1> HIDE DEF size
<1>2. 0 \in T
  <2> DEFINE h == [k \in 1..0 |-> 0]
  <2>1. Typed(h, 0) /\ Sums(h, 0)
    OBVIOUS
  <2> HIDE DEF h, Typed, Sums
  <2>2. \E g : Typed(g, 0) /\ Sums(g, 0)
    BY <2>1
  <2>3. QED
    BY <2>2
<1>3. ASSUME NEW n \in T PROVE n + 1 \in T
  <2> HIDE DEF Typed, Sums
  <2>1. n \in Nat
    OBVIOUS
  <2>2. ASSUME n + 1 <= Len(es)
        PROVE  \E h : Typed(h, n + 1) /\ Sums(h, n + 1)
    <3>1. PICK h : Typed(h, n) /\ Sums(h, n)
      BY <2>1, <2>2
    <3> DEFINE g == [k \in 1..(n + 1) |->
                       IF k = n + 1 THEN size(k) + (IF k = 1 THEN 0 ELSE h[k - 1])
                                    ELSE h[k]]
    <3>2. Typed(g, n + 1)
      BY <1>1, <2>1, <2>2, <3>1 DEF Typed
    <3>3. \A k \in 1..n : h[k] = size(k) + (IF k = 1 THEN 0 ELSE h[k - 1])
      BY <3>1 DEF Sums
    <3>4. \A k \in 1..(n + 1) : g[k] = size(k) + (IF k = 1 THEN 0 ELSE g[k - 1])
      <4> SUFFICES ASSUME NEW k \in 1..(n + 1)
                   PROVE g[k] = size(k) + (IF k = 1 THEN 0 ELSE g[k - 1])
        OBVIOUS
      <4>1. k # 1 => g[k - 1] = h[k - 1]
        BY <2>1
      <4>2. CASE k = n + 1
        BY <2>1, <4>1, <4>2
      <4>3. CASE k \in 1..n
        <5>1. g[k] = h[k]
          BY <2>1, <4>3
        <5>2. QED
          BY <3>3, <4>1, <4>3, <5>1
      <4>4. QED
        BY <2>1, <4>2, <4>3
    <3>5. Sums(g, n + 1)
      BY <3>4 DEF Sums
    <3> HIDE DEF g
    <3>6. QED
      BY <3>2, <3>5
  <2>3. QED
    BY <2>1, <2>2
<1>4. Len(es) \in Nat
  OBVIOUS
<1> HIDE DEF Typed, Sums
<1>5. T \in SUBSET Nat
  OBVIOUS
<1> HIDE DEF T
<1>6. Len(es) \in T
  BY <1>2, <1>3, <1>4, <1>5, NatSetInduction
<1>7. PICK h : Typed(h, Len(es)) /\ Sums(h, Len(es))
  BY <1>4, <1>6 DEF T
<1> DEFINE sum == CHOOSE g : Sums(g, Len(es))
<1>8. Sums(sum, Len(es))
  BY <1>7
<1>9. \A k : HeadSize(es, k) = IF k = 0 THEN 0 ELSE sum[k]
  BY DEF HeadSize, Sums, size
<1>10. \A k \in 1..Len(es) : sum[k] = size(k) + (IF k = 1 THEN 0 ELSE sum[k - 1])
  BY <1>8 DEF Sums
<1> HIDE DEF sum
<1> DEFINE U == {n \in Nat : n <= Len(es) => HeadSize(es, n) \in Nat}
<1>11. 0 \in U
  BY <1>9
<1>12. ASSUME NEW n \in U PROVE n + 1 \in U
  <2>1. n \in Nat /\ (n <= Len(es) => HeadSize(es, n) \in Nat)
    OBVIOUS
  <2>2. ASSUME n + 1 <= Len(es) PROVE HeadSize(es, n + 1) \in Nat
    <3>1. n + 1 \in 1..Len(es) /\ (n + 1) - 1 = n
      BY <2>1, <2>2, <1>4
    <3>2. HeadSize(es, n + 1) = size(n + 1) + (IF n + 1 = 1 THEN 0 ELSE sum[n])
      BY <1>9, <1>10, <2>1, <3>1
    <3>3. HeadSize(es, n) = IF n = 0 THEN 0 ELSE sum[n]
      BY <1>9
    <3>4. QED
      BY <1>1, <1>4, <2>1, <2>2, <3>1, <3>2, <3>3
  <2>3. QED
    BY <2>1, <2>2
<1>13. U \in SUBSET Nat
  OBVIOUS
<1> HIDE DEF U
<1>14. \A n \in Nat : n \in U
  BY <1>11, <1>12, <1>13, NatSetInduction
<1>15. \A k \in 0..Len(es) : HeadSize(es, k) \in Nat
  BY <1>4, <1>14 DEF U
<1>16. \A k \in 1..Len(es) : HeadSize(es, k) = HeadSize(es, k - 1) + size(k)
  <2> SUFFICES ASSUME NEW k \in 1..Len(es)
               PROVE HeadSize(es, k) = HeadSize(es, k - 1) + size(k)
    OBVIOUS
  <2>1. HeadSize(es, k) = size(k) + (IF k = 1 THEN 0 ELSE sum[k - 1])
    BY <1>9, <1>10
  <2>2. HeadSize(es, k - 1) = IF k = 1 THEN 0 ELSE sum[k - 1]
    BY <1>9
  <2>3. HeadSize(es, k - 1) \in Nat /\ size(k) \in Nat
    BY <1>1, <1>4, <1>15
  <2>4. QED
    BY <2>1, <2>2, <2>3
<1>17. QED
  BY <1>9, <1>15, <1>16 DEF size

\* Dropping the k oldest entries drops their sizes from the total.
LEMMA HeadSizeDrop ==
  ASSUME NEW es \in Seq(Entry), NEW k \in 0..Len(es)
  PROVE  LET rest == SubSeq(es, k + 1, Len(es))
         IN  HeadSize(rest, Len(rest)) = HeadSize(es, Len(es)) - HeadSize(es, k)
<1> DEFINE rest == SubSeq(es, k + 1, Len(es))
           T == {j \in Nat : j <= Len(es) - k =>
                   HeadSize(rest, j) = HeadSize(es, k + j) - HeadSize(es, k)}
<1>1. /\ rest \in Seq(Entry) /\ Len(rest) = Len(es) - k
      /\ \A i \in 1..(Len(es) - k) : rest[i] = es[k + i]
  BY DropSeq
<1> HIDE DEF rest
<1>2. 0 \in T
  BY <1>1, HeadSizeRec
<1>3. ASSUME NEW j \in T PROVE j + 1 \in T
  <2>1. j \in Nat /\ Len(es) \in Nat
    OBVIOUS
  <2>2. ASSUME j + 1 <= Len(es) - k
        PROVE  HeadSize(rest, j + 1) = HeadSize(es, k + (j + 1)) - HeadSize(es, k)
    <3>1. /\ j + 1 \in 1..Len(rest) /\ k + (j + 1) \in 1..Len(es)
          /\ k + j \in 0..Len(es) /\ (j + 1) - 1 = j /\ (k + (j + 1)) - 1 = k + j
      BY <1>1, <2>1, <2>2
    <3>2. HeadSize(rest, j) = HeadSize(es, k + j) - HeadSize(es, k)
      BY <2>1, <2>2
    <3>3. HeadSize(rest, j + 1) = HeadSize(rest, j) + Size[rest[j + 1].content]
      BY <1>1, <3>1, HeadSizeRec
    <3>4. HeadSize(es, k + (j + 1)) = HeadSize(es, k + j) + Size[es[k + (j + 1)].content]
      BY <3>1, HeadSizeRec
    <3>5. rest[j + 1] = es[k + (j + 1)]
      BY <1>1, <2>1, <2>2
    <3>6. /\ HeadSize(es, k + j) \in Nat /\ HeadSize(es, k) \in Nat
          /\ es[k + (j + 1)].content \in Content
      <4>1. es[k + (j + 1)] \in Entry
        BY <3>1
      <4>2. QED
        BY <3>1, <4>1, HeadSizeRec DEF Entry
    <3>7. Size[es[k + (j + 1)].content] \in Nat
      BY <3>6, SizeType
    <3>8. QED
      BY <3>2, <3>3, <3>4, <3>5, <3>6, <3>7
  <2>3. QED
    BY <2>1, <2>2
<1>4. T \in SUBSET Nat
  OBVIOUS
<1>5. Len(es) - k \in Nat
  OBVIOUS
<1> HIDE DEF T
<1>6. Len(es) - k \in T
  BY <1>2, <1>3, <1>4, <1>5, NatSetInduction
<1>7. HeadSize(rest, Len(es) - k) = HeadSize(es, k + (Len(es) - k)) - HeadSize(es, k)
  BY <1>5, <1>6 DEF T
<1>8. HeadSize(rest, Len(rest)) = HeadSize(es, Len(es)) - HeadSize(es, k)
  <2>1. k + (Len(es) - k) = Len(es)
    OBVIOUS
  <2>2. QED
    BY <1>1, <1>7, <2>1
<1>9. QED
  BY <1>8 DEF rest

\* The prefix sums of two sequences that agree on a prefix agree.
LEMMA HeadSizePrefix ==
  ASSUME NEW es \in Seq(Entry), NEW fs \in Seq(Entry), NEW n \in Nat,
         n <= Len(es), n <= Len(fs), \A i \in 1..n : es[i] = fs[i]
  PROVE  HeadSize(es, n) = HeadSize(fs, n)
<1> DEFINE T == {j \in Nat : j <= n => HeadSize(es, j) = HeadSize(fs, j)}
<1>1. 0 \in T
  BY HeadSizeRec
<1>2. ASSUME NEW j \in T PROVE j + 1 \in T
  <2>1. j \in Nat /\ (j <= n => HeadSize(es, j) = HeadSize(fs, j))
    OBVIOUS
  <2>2. ASSUME j + 1 <= n PROVE HeadSize(es, j + 1) = HeadSize(fs, j + 1)
    <3>1. j + 1 \in 1..Len(es) /\ j + 1 \in 1..Len(fs) /\ (j + 1) - 1 = j /\ j + 1 \in 1..n
      BY <2>1, <2>2
    <3>2. HeadSize(es, j + 1) = HeadSize(es, j) + Size[es[j + 1].content]
      BY <3>1, HeadSizeRec
    <3>3. HeadSize(fs, j + 1) = HeadSize(fs, j) + Size[fs[j + 1].content]
      BY <3>1, HeadSizeRec
    <3>4. QED
      BY <2>1, <2>2, <3>1, <3>2, <3>3
  <2>3. QED
    BY <2>1, <2>2
<1>3. T \in SUBSET Nat
  OBVIOUS
<1> HIDE DEF T
<1>4. n \in T
  BY <1>1, <1>2, <1>3, NatSetInduction
<1>5. QED
  BY <1>4 DEF T

\* Moving an entry to the end does not change the total.
LEMMA HeadSizeMove ==
  ASSUME NEW es \in Seq(Entry), NEW k \in 1..Len(es)
  PROVE  LET moved == Cache!MoveToEnd(es, k)
         IN  HeadSize(moved, Len(moved)) = HeadSize(es, Len(es))
<1> DEFINE moved == Cache!MoveToEnd(es, k)
           n == Len(es)
           w == Size[es[k].content]
           T == {j \in Nat : j <= n - k =>
                   HeadSize(moved, k - 1 + j) = HeadSize(es, k + j) - w}
<1>1. /\ moved \in Seq(Entry) /\ Len(moved) = n
      /\ \A i \in 1..n : moved[i] = IF i < k THEN es[i]
                                      ELSE IF i < n THEN es[i + 1] ELSE es[k]
  BY MoveToEndSeq
<1> HIDE DEF moved
<1>2. \A i \in 1..n : es[i].content \in Content /\ Size[es[i].content] \in Nat
  <2>1. \A i \in 1..n : es[i] \in Entry
    OBVIOUS
  <2>2. \A i \in 1..n : es[i].content \in Content
    BY <2>1 DEF Entry
  <2>3. QED
    BY <2>2, SizeType
<1>3. n \in Nat /\ k \in Nat /\ w \in Nat /\ k - 1 \in Nat /\ n - k \in Nat /\ n - 1 \in Nat
  BY <1>2
<1>4. HeadSize(es, k) = HeadSize(es, k - 1) + w /\ HeadSize(es, k - 1) \in Nat
  BY <1>3, HeadSizeRec
<1>5. HeadSize(moved, k - 1) = HeadSize(es, k - 1)
  BY <1>1, <1>3, HeadSizePrefix
<1> HIDE DEF w
<1>6. 0 \in T
  BY <1>3, <1>4, <1>5
<1>7. ASSUME NEW j \in T PROVE j + 1 \in T
  <2>1. j \in Nat /\ (j <= n - k => HeadSize(moved, k - 1 + j) = HeadSize(es, k + j) - w)
    OBVIOUS
  <2>2. ASSUME j + 1 <= n - k
        PROVE  HeadSize(moved, k - 1 + (j + 1)) = HeadSize(es, k + (j + 1)) - w
    <3> DEFINE q == k + j
    <3>1. /\ q \in 1..n /\ q + 1 \in 1..n /\ q < n /\ ~(q < k) /\ (q + 1) - 1 = q
          /\ k - 1 + (j + 1) = q /\ k + (j + 1) = q + 1 /\ q - 1 = k - 1 + j
      BY <1>3, <2>1, <2>2
    <3> HIDE DEF q
    <3>2. HeadSize(moved, q) = HeadSize(moved, q - 1) + Size[moved[q].content]
      BY <1>1, <3>1, HeadSizeRec
    <3>3. HeadSize(es, q + 1) = HeadSize(es, q) + Size[es[q + 1].content]
      BY <3>1, HeadSizeRec
    <3>4. moved[q] = es[q + 1]
      BY <1>1, <3>1
    <3>5. HeadSize(moved, q - 1) = HeadSize(es, q) - w
      BY <1>3, <2>1, <2>2, <3>1 DEF q
    <3>6. HeadSize(es, q) \in Nat
      BY <3>1, HeadSizeRec
    <3>7. QED
      BY <1>2, <1>3, <3>1, <3>2, <3>3, <3>4, <3>5, <3>6
  <2>3. QED
    BY <2>1, <2>2
<1>8. T \in SUBSET Nat
  OBVIOUS
<1> HIDE DEF T
<1>9. n - k \in T
  BY <1>3, <1>6, <1>7, <1>8, NatSetInduction
<1>10. HeadSize(moved, n - 1) = HeadSize(es, n) - w
  <2>1. HeadSize(moved, k - 1 + (n - k)) = HeadSize(es, k + (n - k)) - w
    BY <1>3, <1>9 DEF T
  <2>2. k - 1 + (n - k) = n - 1 /\ k + (n - k) = n
    BY <1>3
  <2>3. QED
    BY <2>1, <2>2
<1>11. HeadSize(moved, n) = HeadSize(moved, n - 1) + w
  <2>1. n \in 1..Len(moved) /\ moved[n] = es[k]
    BY <1>1, <1>3
  <2>2. QED
    BY <1>1, <2>1, HeadSizeRec DEF w
<1>12. HeadSize(es, n) \in Nat
  BY <1>3, HeadSizeRec
<1>13. HeadSize(moved, Len(moved)) = HeadSize(es, n)
  BY <1>1, <1>3, <1>10, <1>11, <1>12
<1>14. QED
  BY <1>13 DEF moved

-----------------------------------------------------------------------------
(* The caps.                                                                *)

\* A put, in terms of the sizes: what it keeps, and when it stopped.
LEMMA PutSizes ==
  ASSUME Inv, ByteAccounting, NEW c \in Content, NEW stamp \in Stamps, Put(c, stamp)
  PROVE  LET all  == Append(entries, log'[Len(log')])
             Rest(k) == SubSeq(all, k + 1, Len(all))
         IN  /\ all \in Seq(Entry)
             /\ \E k \in 0..Len(all) :
                  /\ entries' = Rest(k)
                  /\ bytes' = HeadSize(Rest(k), Len(Rest(k)))
                  /\ \A j \in 0..(k - 1) :
                       \/ Len(Rest(j)) > MaxEntries
                       \/ HeadSize(Rest(j), Len(Rest(j))) > MaxBytes
                  /\ \/ k = Len(all)
                     \/ Len(Rest(k)) <= MaxEntries /\ bytes' <= MaxBytes
<1> DEFINE e  == [ref |-> [stamp |-> stamp, seq |-> counter], content |-> c]
           es == Append(entries, e)
           total == bytes + Size[c]
           Rest(k) == SubSeq(es, k + 1, Len(es))
<1>1. /\ e \in Entry /\ e.content = c /\ log' = Append(log, e)
      /\ EvictFrom(Append(entries, e), bytes + Size[c])
  BY PutShape
<1>2. entries \in Seq(Entry) /\ log \in Seq(Entry)
  BY DEF Inv, TypeOK
<1>4. PICK k \in 0..(Len(entries) + 1) :
        /\ Evicts(es, total, k)
        /\ entries' = SubSeq(es, k + 1, Len(entries) + 1)
        /\ bytes' = total - HeadSize(es, k)
  <2>1. Len(es) = Len(entries) + 1
    BY <1>1, <1>2
  <2>2. QED
    BY <1>1, <2>1 DEF EvictFrom
<1> HIDE DEF e
<1>3. log'[Len(log')] = e
  BY <1>1, <1>2
<1>5. /\ es \in Seq(Entry)
      /\ Len(es) = Len(entries) + 1
      /\ \A i \in 1..Len(entries) : es[i] = entries[i]
      /\ es[Len(es)] = e
      /\ Len(entries) \in Nat /\ k \in 0..Len(es) /\ k \in Nat
  BY <1>1, <1>2, <1>4
<1> HIDE DEF es
<1>6. total = HeadSize(es, Len(es)) /\ total \in Nat
  <2>1. HeadSize(es, Len(entries)) = HeadSize(entries, Len(entries))
    <3>1. Len(entries) \in 0..Len(entries) /\ Len(entries) <= Len(es)
      BY <1>5
    <3>2. QED
      BY <1>2, <1>5, <3>1, HeadSizePrefix
  <2>2. HeadSize(es, Len(es)) = HeadSize(es, Len(entries)) + Size[c]
    <3>1. Len(es) \in 1..Len(es) /\ Len(es) - 1 = Len(entries)
      BY <1>5
    <3>2. QED
      BY <1>1, <1>5, <3>1, HeadSizeRec
  <2>3. Len(es) \in 0..Len(es)
    BY <1>5
  <2>4. QED
    BY <1>5, <2>1, <2>2, <2>3, HeadSizeRec DEF ByteAccounting
<1> HIDE DEF total
<1>7. \A j \in 0..Len(es) :
        /\ HeadSize(Rest(j), Len(Rest(j))) = total - HeadSize(es, j)
        /\ Len(Rest(j)) = Len(es) - j
        /\ HeadSize(es, j) \in Nat
  <2> SUFFICES ASSUME NEW j \in 0..Len(es)
               PROVE /\ HeadSize(Rest(j), Len(Rest(j))) = total - HeadSize(es, j)
                     /\ Len(Rest(j)) = Len(es) - j
                     /\ HeadSize(es, j) \in Nat
    OBVIOUS
  <2>1. HeadSize(Rest(j), Len(Rest(j))) = HeadSize(es, Len(es)) - HeadSize(es, j)
    BY <1>5, HeadSizeDrop
  <2>2. Len(Rest(j)) = Len(es) - j
    BY <1>5, DropSeq
  <2>3. HeadSize(es, j) \in Nat
    BY <1>5, HeadSizeRec
  <2>4. QED
    BY <1>6, <2>1, <2>2, <2>3
<1>8. entries' = Rest(k)
  BY <1>4, <1>5
<1> HIDE DEF Rest
<1>9. bytes' = HeadSize(Rest(k), Len(Rest(k)))
  BY <1>4, <1>5, <1>7
<1>10. \A j \in 0..(k - 1) :
         Len(Rest(j)) > MaxEntries \/ HeadSize(Rest(j), Len(Rest(j))) > MaxBytes
  <2>1. \A j \in 0..(k - 1) : j \in 0..Len(es) /\ OverCap(es, total, j)
    BY <1>4, <1>5 DEF Evicts
  <2>2. QED
    BY <1>7, <2>1 DEF OverCap
<1>11. k = Len(es) \/ (Len(Rest(k)) <= MaxEntries /\ bytes' <= MaxBytes)
  <2>1. CASE OverCap(es, total, k)
    BY <1>4, <2>1 DEF Evicts
  <2>2. CASE ~OverCap(es, total, k)
    <3>1. /\ ~(Len(es) - k > MaxEntries) /\ ~(total - HeadSize(es, k) > MaxBytes)
          /\ MaxEntries \in Nat /\ MaxBytes \in Nat
      BY <2>2, StoreAssumption DEF OverCap, StoreAssumption
    <3>2. Len(Rest(k)) = Len(es) - k /\ HeadSize(es, k) \in Nat
      BY <1>5, <1>7
    <3>3. QED
      BY <1>4, <1>5, <1>6, <3>1, <3>2
  <2>3. QED
    BY <2>1, <2>2
<1>12. QED
  BY <1>3, <1>5, <1>8, <1>9, <1>10, <1>11 DEF es, Rest

CapInv == Inv /\ ByteAccounting /\ WithinCaps

\* The size of nothing is nothing.
LEMMA EmptySize ==
  ASSUME NEW s \in Seq(Entry), Len(s) = 0
  PROVE  HeadSize(s, Len(s)) = 0
  BY HeadSizeRec

LEMMA CapInit == StoreInit => CapInv
<1> SUFFICES ASSUME StoreInit PROVE CapInv
  OBVIOUS
<1>1. Inv
  BY InitInv
<1>2. entries = <<>> /\ bytes = 0
  BY DEF StoreInit
<1>3. entries \in Seq(Entry) /\ Len(entries) = 0
  BY <1>2
<1>4. HeadSize(entries, Len(entries)) = 0
  BY <1>3, EmptySize
<1>5. QED
  BY <1>1, <1>2, <1>3, <1>4, StoreAssumption
     DEF CapInv, ByteAccounting, WithinCaps, StoreAssumption

LEMMA PutCaps ==
  ASSUME CapInv, NEW c \in Content, NEW stamp \in Stamps, Put(c, stamp)
  PROVE  ByteAccounting' /\ WithinCaps'
<1> DEFINE all == Append(entries, log'[Len(log')])
           Rest(k) == SubSeq(all, k + 1, Len(all))
<1>1. /\ all \in Seq(Entry)
      /\ \E k \in 0..Len(all) :
           /\ entries' = Rest(k)
           /\ bytes' = HeadSize(Rest(k), Len(Rest(k)))
           /\ k = Len(all) \/ (Len(Rest(k)) <= MaxEntries /\ bytes' <= MaxBytes)
  BY PutSizes DEF CapInv
<1>2. PICK k \in 0..Len(all) :
        /\ entries' = Rest(k)
        /\ bytes' = HeadSize(Rest(k), Len(Rest(k)))
        /\ k = Len(all) \/ (Len(Rest(k)) <= MaxEntries /\ bytes' <= MaxBytes)
  BY <1>1
<1>3. Rest(k) \in Seq(Entry) /\ Len(Rest(k)) = Len(all) - k
  BY <1>1, DropSeq
<1> HIDE DEF all, Rest
<1>4. bytes' = HeadSize(entries', Len(entries'))
  BY <1>2
<1>5. Len(entries') <= MaxEntries /\ bytes' <= MaxBytes
  <2>1. CASE k = Len(all)
    <3>1. entries' \in Seq(Entry) /\ Len(entries') = 0
      BY <1>2, <1>3, <2>1
    <3>2. bytes' = 0
      BY <1>4, <3>1, EmptySize
    <3>3. QED
      BY <3>1, <3>2, StoreAssumption DEF StoreAssumption
  <2>2. CASE k # Len(all)
    BY <1>2, <2>2
  <2>3. QED
    BY <2>1, <2>2
<1>6. QED
  BY <1>4, <1>5 DEF ByteAccounting, WithinCaps, HeadSize

LEMMA HitCaps ==
  ASSUME CapInv, NEW r \in Askable, GetHit(r)
  PROVE  ByteAccounting' /\ WithinCaps'
<1>1. PICK i \in 1..Len(entries) :
        entries' = Cache!MoveToEnd(entries, i) /\ bytes' = bytes
  BY HitShape DEF CapInv
<1>2. entries \in Seq(Entry)
  BY DEF CapInv, Inv, TypeOK
<1>3. Len(entries') = Len(entries)
  BY <1>1, <1>2, MoveToEndSeq
<1>4. HeadSize(entries', Len(entries')) = HeadSize(entries, Len(entries))
  BY <1>1, <1>2, HeadSizeMove
<1>5. QED
  BY <1>1, <1>3, <1>4 DEF CapInv, ByteAccounting, WithinCaps, HeadSize

LEMMA CapNext == CapInv /\ [StoreNext]_storeVars => CapInv'
<1> SUFFICES ASSUME CapInv, [StoreNext]_storeVars PROVE CapInv'
  OBVIOUS
<1>1. Inv'
  BY NextInv DEF CapInv
<1>2. ASSUME NEW c \in Content, NEW stamp \in Stamps, Put(c, stamp)
      PROVE  ByteAccounting' /\ WithinCaps'
  BY <1>2, PutCaps
<1>3. ASSUME NEW r \in Askable, Get(r)
      PROVE  ByteAccounting' /\ WithinCaps'
  <2>1. CASE GetHit(r)
    BY <2>1, HitCaps
  <2>2. CASE GetMiss(r)
    BY <2>2 DEF CapInv, GetMiss, ByteAccounting, WithinCaps, HeadSize
  <2>3. QED
    BY <1>3, <2>1, <2>2 DEF Get
<1>4. ASSUME UNCHANGED storeVars
      PROVE  ByteAccounting' /\ WithinCaps'
  BY <1>4 DEF CapInv, storeVars, ByteAccounting, WithinCaps, HeadSize
<1>5. ByteAccounting' /\ WithinCaps'
  BY <1>2, <1>3, <1>4 DEF StoreNext
<1>6. QED
  BY <1>1, <1>5 DEF CapInv

LEMMA CapInvariance == StoreSpec => []CapInv
  BY CapInit, CapNext, PTL DEF StoreSpec

\* The running total is always the size of what the Map holds.
THEOREM StoreCountsBytes == StoreSpec => []ByteAccounting
<1>1. CapInv => ByteAccounting
  BY DEF CapInv
<1>2. QED
  BY <1>1, CapInvariance, PTL

\* Between calls the store never exceeds a cap, whatever the sizes.
THEOREM StoreStaysWithinCaps == StoreSpec => []WithinCaps
<1>1. CapInv => WithinCaps
  BY DEF CapInv
<1>2. QED
  BY <1>1, CapInvariance, PTL

\* A put evicts no entry that the caps would have let stay.
THEOREM StoreKeepsWhatFits == StoreSpec => KeepsWhatFits
<1> DEFINE all     == Append(entries, log'[Len(log')])
           dropped == Len(all) - Len(entries')
           spared  == SubSeq(all, dropped, Len(all))
           Rest(k) == SubSeq(all, k + 1, Len(all))
           Kept    == dropped > 0 => \/ Len(spared) > MaxEntries
                                     \/ HeadSize(spared, Len(spared)) > MaxBytes
<1>1. ASSUME CapInv, NEW c \in Content, NEW stamp \in Stamps, Put(c, stamp)
      PROVE  Kept
  <2>1. /\ all \in Seq(Entry)
        /\ \E k \in 0..Len(all) :
             /\ entries' = Rest(k)
             /\ \A j \in 0..(k - 1) :
                  \/ Len(Rest(j)) > MaxEntries
                  \/ HeadSize(Rest(j), Len(Rest(j))) > MaxBytes
    BY <1>1, PutSizes DEF CapInv
  <2>2. PICK k \in 0..Len(all) :
          /\ entries' = Rest(k)
          /\ \A j \in 0..(k - 1) :
               \/ Len(Rest(j)) > MaxEntries
               \/ HeadSize(Rest(j), Len(Rest(j))) > MaxBytes
    BY <2>1
  <2>3. Len(Rest(k)) = Len(all) - k
    BY <2>1, DropSeq
  <2> HIDE DEF all
  <2>4. dropped = k /\ k \in Nat
    <3>1. Len(all) \in Nat /\ Len(entries') = Len(all) - k
      BY <2>1, <2>2, <2>3, SMTT(30)
    <3>2. QED
      BY <3>1
  <2>5. ASSUME k > 0
        PROVE  Len(spared) > MaxEntries \/ HeadSize(spared, Len(spared)) > MaxBytes
    <3>1. k - 1 \in 0..(k - 1) /\ k - 1 + 1 = k
      BY <2>4, <2>5
    <3>2. Rest(k - 1) = spared
      BY <2>4, <3>1
    <3> HIDE DEF Rest, spared
    <3>3. QED
      BY <2>2, <3>1, <3>2
  <2>6. QED
    BY <2>4, <2>5
<1>2. ASSUME CapInv, [StoreNext]_storeVars, counter' # counter
      PROVE  Kept
  <2>1. ~UNCHANGED storeVars
    BY <1>2 DEF storeVars
  <2>2. \A r \in Askable : ~Get(r)
    BY <1>2 DEF Get, GetHit, GetMiss
  <2>3. PICK c \in Content, stamp \in Stamps : Put(c, stamp)
    BY <1>2, <2>1, <2>2 DEF StoreNext
  <2>4. QED
    BY <1>1, <1>2, <2>3
<1>3. CapInv /\ [StoreNext]_storeVars => [counter' # counter => Kept]_storeVars
  BY <1>2
<1>4. QED
  BY <1>3, CapInvariance, PTL DEF StoreSpec, KeepsWhatFits

-----------------------------------------------------------------------------
(* The proxy.                                                               *)

-----------------------------------------------------------------------------
(* The life of one request: where it may be found, and what is then true.   *)

\* Nothing has been done about the request.
Untouched(r) ==
  /\ handler[r] = "idle" /\ answer[r] = Nothing /\ r \notin aborted
  /\ Message("forward", r) \notin wire /\ ResultOf(r) = {}
  /\ alive => upstream[r] = "idle"

BeforeHandling(r) ==
  /\ client[r] = "idle" => Untouched(r)
  /\ Message("request", r) \in wire => client[r] # "idle" /\ Untouched(r)
  /\ client[r] # "idle" => asked[r] \in Query

\* The request is upstream, on its way or in the server.
IsUpstream(r) == Message("forward", r) \in wire \/ upstream[r] = "working"

WhileUpstream(r) ==
  /\ Message("forward", r) \in wire => upstream[r] = "idle"
  /\ IsUpstream(r) =>
       /\ alive /\ handler[r] # "idle" /\ ResultOf(r) = {}
       /\ answer[r].kind \notin {"verbatim", "compressed"}

AfterResponse(r) ==
  \A m \in ResultOf(r) :
    /\ told[r] = m.result
    /\ m.result \in Result /\ m.result \in ResultsFor(asked[r])
    /\ handler[r] # "idle"

\* Only a request that was forwarded without the signal outlives its abort.
Awaited(r) ==
  handler[r] = "awaiting" =>
    answer[r] = Nothing /\ (r \in aborted => asked[r].op = "list")

Stopped(r) ==
  r \in aborted /\ asked[r].op # "list" /\ IsUpstream(r) => Message("stop", r) \in wire

Answered(r) ==
  /\ answer[r].kind = "verbatim" => told[r] = answer[r].result
  /\ answer[r].kind = "compressed" =>
       told[r].kind = "tool" /\ told[r].content = answer[r].content

RequestInv(r) ==
  /\ BeforeHandling(r) /\ WhileUpstream(r) /\ AfterResponse(r)
  /\ Awaited(r) /\ Stopped(r) /\ Answered(r)

ProxyVariables ==
  /\ client \in [Requests -> {"idle", "waiting", "cancelled", "served", "lost"}]
  /\ handler \in [Requests -> {"idle", "awaiting", "over"}]
  /\ upstream \in [Requests -> {"idle", "working", "over"}]
  /\ DOMAIN asked = Requests /\ DOMAIN answer = Requests /\ DOMAIN told = Requests
  /\ aborted \subseteq Requests
  /\ alive \in BOOLEAN

RequestsInv == ProxyVariables /\ \A r \in Requests : RequestInv(r)

LEMMA RequestsInit == ProxyInit => RequestsInv
<1> SUFFICES ASSUME ProxyInit PROVE RequestsInv
  OBVIOUS
<1>1. ProxyVariables
  BY DEF ProxyInit, ProxyVariables
<1>2. ASSUME NEW r \in Requests PROVE RequestInv(r)
  BY DEF ProxyInit, RequestInv, BeforeHandling, Untouched, WhileUpstream, IsUpstream,
         AfterResponse, Awaited, Stopped, Answered, ResultOf, Nothing
<1>3. QED
  BY <1>1, <1>2 DEF RequestsInv

\* A step that leaves everything of a request alone keeps its invariant.
LEMMA Undisturbed ==
  ASSUME NEW q \in Requests, RequestInv(q), alive' = alive,
         client'[q] = client[q], asked'[q] = asked[q], handler'[q] = handler[q],
         upstream'[q] = upstream[q], answer'[q] = answer[q], told'[q] = told[q],
         q \in aborted' <=> q \in aborted,
         Message("request", q) \in wire' => Message("request", q) \in wire,
         Message("forward", q) \in wire' => Message("forward", q) \in wire,
         Message("stop", q) \in wire => Message("stop", q) \in wire',
         ResultOf(q)' \subseteq ResultOf(q)
  PROVE  RequestInv(q)'
<1> USE DEF RequestInv
<1>1. BeforeHandling(q)'
  BY DEF BeforeHandling, Untouched
<1>2. WhileUpstream(q)'
  BY DEF WhileUpstream, IsUpstream
<1>3. AfterResponse(q)'
  BY DEF AfterResponse, ResultsFor
<1>4. Awaited(q)' /\ Stopped(q)' /\ Answered(q)'
  BY DEF Awaited, Stopped, Answered, IsUpstream
<1>5. QED
  BY <1>1, <1>2, <1>3, <1>4

-----------------------------------------------------------------------------
(* Each step keeps it.                                                      *)

\* A step on the wire that adds and takes away messages of one request r only,
\* and no result, leaves every other request as it was.
LEMMA OtherRequests ==
  ASSUME RequestsInv, NEW r \in Requests, alive' = alive,
         \A q \in Requests \ {r} :
           /\ client'[q] = client[q] /\ asked'[q] = asked[q] /\ handler'[q] = handler[q]
           /\ upstream'[q] = upstream[q] /\ answer'[q] = answer[q] /\ told'[q] = told[q]
           /\ q \in aborted' <=> q \in aborted,
         \A m \in wire' : m \in wire \/ m.req = r,
         \A m \in wire : m \in wire' \/ m.req = r
  PROVE  \A q \in Requests \ {r} : RequestInv(q)'
<1> SUFFICES ASSUME NEW q \in Requests \ {r} PROVE RequestInv(q)'
  OBVIOUS
<1>1. \A t : Message(t, q).req = q
  BY DEF Message
<1>2. \A t : Message(t, q) \in wire' <=> Message(t, q) \in wire
  BY <1>1
<1>3. ResultOf(q)' \subseteq ResultOf(q)
  BY DEF ResultOf
<1>4. RequestInv(q)
  BY DEF RequestsInv
<1>5. QED
  BY <1>2, <1>3, <1>4, Undisturbed

LEMMA AskKeeps ==
  ASSUME RequestsInv, NEW r \in Requests, NEW q \in Query, Ask(r, q)
  PROVE  RequestsInv'
<1>1. ProxyVariables'
  BY DEF RequestsInv, ProxyVariables, Ask
<1>2. \A other \in Requests \ {r} : RequestInv(other)'
  BY OtherRequests DEF Ask, RequestsInv, ProxyVariables, Message
<1>3. RequestInv(r)'
  <2>1. /\ client[r] = "idle" /\ Untouched(r) /\ alive' = alive
        /\ client'[r] = "waiting" /\ asked'[r] = q
        /\ handler' = handler /\ upstream' = upstream /\ answer' = answer
        /\ told' = told /\ aborted' = aborted
        /\ wire' = wire \cup {Message("request", r)}
        /\ WhileUpstream(r)
    BY DEF Ask, RequestsInv, ProxyVariables, RequestInv, BeforeHandling
  <2>2. /\ Message("forward", r) \notin wire' /\ ResultOf(r)' = {} /\ Untouched(r)'
    BY <2>1 DEF Untouched, Message, ResultOf
  <2>3. ~IsUpstream(r)'
    BY <2>1, <2>2 DEF Untouched, IsUpstream, WhileUpstream
  <2>4. QED
    BY <2>1, <2>2, <2>3
       DEF RequestInv, BeforeHandling, WhileUpstream, AfterResponse, Awaited, Stopped,
           Answered, Untouched, Nothing
<1>4. QED
  BY <1>1, <1>2, <1>3 DEF RequestsInv

LEMMA CancelKeeps ==
  ASSUME RequestsInv, NEW r \in Requests, Cancel(r)
  PROVE  RequestsInv'
<1>1. ProxyVariables'
  BY DEF RequestsInv, ProxyVariables, Cancel
<1>2. \A other \in Requests \ {r} : RequestInv(other)'
  BY OtherRequests DEF Cancel, RequestsInv, ProxyVariables, Message
<1>3. RequestInv(r)'
  <2>1. /\ client[r] = "waiting" /\ client'[r] = "cancelled"
        /\ UNCHANGED <<asked, handler, aborted, upstream, alive, answer, told>>
        /\ wire' = wire \cup {Message("cancel", r)}
        /\ RequestInv(r)
    BY DEF Cancel, RequestsInv, ProxyVariables
  <2>2. /\ \A t : t # "cancel" => (Message(t, r) \in wire' <=> Message(t, r) \in wire)
        /\ ResultOf(r)' = ResultOf(r)
    BY <2>1 DEF Message, ResultOf
  <2>3. BeforeHandling(r)' /\ WhileUpstream(r)' /\ Awaited(r)' /\ Stopped(r)' /\ Answered(r)'
    BY <2>1, <2>2
       DEF RequestInv, BeforeHandling, WhileUpstream, Awaited, Stopped, Answered,
           Untouched, IsUpstream
  <2>4. AfterResponse(r)'
    BY <2>1, <2>2 DEF RequestInv, AfterResponse
  <2>5. QED
    BY <2>3, <2>4 DEF RequestInv
<1>4. QED
  BY <1>1, <1>2, <1>3 DEF RequestsInv

LEMMA TakeAnswerKeeps ==
  ASSUME RequestsInv, NEW r \in Requests, TakeAnswer(r)
  PROVE  RequestsInv'
<1>1. ProxyVariables'
  BY DEF RequestsInv, ProxyVariables, TakeAnswer
<1>2. \A other \in Requests \ {r} : RequestInv(other)'
  BY OtherRequests DEF TakeAnswer, RequestsInv, ProxyVariables, Message
<1>3. RequestInv(r)'
  <2>1. /\ client'[r] = "idle" <=> client[r] = "idle"
        /\ UNCHANGED <<asked, handler, aborted, upstream, alive, answer, told>>
        /\ wire' = wire \ {Message("answer", r)}
        /\ RequestInv(r)
    BY DEF TakeAnswer, RequestsInv, ProxyVariables
  <2>2. /\ \A t : t # "answer" => (Message(t, r) \in wire' <=> Message(t, r) \in wire)
        /\ ResultOf(r)' = ResultOf(r)
    BY <2>1 DEF Message, ResultOf
  <2>3. BeforeHandling(r)' /\ WhileUpstream(r)' /\ Awaited(r)' /\ Stopped(r)' /\ Answered(r)'
    BY <2>1, <2>2
       DEF RequestInv, BeforeHandling, WhileUpstream, Awaited, Stopped, Answered,
           Untouched, IsUpstream
  <2>4. AfterResponse(r)'
    BY <2>1, <2>2 DEF RequestInv, AfterResponse
  <2>5. QED
    BY <2>3, <2>4 DEF RequestInv
<1>4. QED
  BY <1>1, <1>2, <1>3 DEF RequestsInv

\* A request that is answered before it goes upstream, with a failure or with
\* an answer of the proxy's own.
LEMMA OwnAnswerKeeps ==
  ASSUME RequestsInv, NEW r \in Requests, Message("request", r) \in wire, NEW a,
         a.kind \notin {"verbatim", "compressed"},
         Return(r, a, wire \ {Message("request", r)}),
         UNCHANGED <<asked, client, aborted, upstream, alive, told>>
  PROVE  RequestsInv'
<1>1. RequestInv(r) /\ Untouched(r) /\ client[r] # "idle"
  BY DEF RequestsInv, RequestInv, BeforeHandling
<1>2. /\ handler' = [handler EXCEPT ![r] = "over"]
      /\ answer' = [answer EXCEPT ![r] = a]
      /\ wire' = (wire \ {Message("request", r)}) \cup {Message("answer", r)}
  BY <1>1 DEF Return, Untouched
<1>3. ProxyVariables'
  BY <1>2 DEF RequestsInv, ProxyVariables
<1>4. \A other \in Requests \ {r} : RequestInv(other)'
  BY <1>2, OtherRequests DEF RequestsInv, ProxyVariables, Message
<1>5. RequestInv(r)'
  <2>1. handler'[r] = "over" /\ answer'[r] = a
    BY <1>2 DEF RequestsInv, ProxyVariables
  <2>2. /\ Message("request", r) \notin wire' /\ Message("forward", r) \notin wire'
        /\ ResultOf(r)' = {}
    BY <1>1, <1>2 DEF Untouched, Message, ResultOf
  <2>3. ~IsUpstream(r)'
    BY <1>1, <2>2 DEF Untouched, IsUpstream, RequestInv, WhileUpstream
  <2>4. QED
    BY <1>1, <2>1, <2>2, <2>3
       DEF RequestInv, BeforeHandling, WhileUpstream, AfterResponse, Awaited, Stopped, Answered
<1>6. QED
  BY <1>3, <1>4, <1>5 DEF RequestsInv

LEMMA ForwardKeeps ==
  ASSUME RequestsInv, NEW r \in Requests, Forward(r)
  PROVE  RequestsInv'
<1>1. /\ Message("request", r) \in wire
      /\ RequestInv(r) /\ Untouched(r) /\ client[r] # "idle"
      /\ UNCHANGED <<asked, client, aborted, upstream, alive, told>>
  BY DEF RequestsInv, RequestInv, BeforeHandling, Forward
<1>2. CASE ~alive
  <2>1. Return(r, Failure, wire \ {Message("request", r)})
    BY <1>2 DEF Forward
  <2>2. QED
    BY <1>1, <2>1, OwnAnswerKeeps DEF Failure
<1>3. CASE alive
  <2>1. /\ handler' = [handler EXCEPT ![r] = "awaiting"]
        /\ wire' = (wire \ {Message("request", r)}) \cup {Message("forward", r)}
        /\ answer' = answer
    BY <1>3 DEF Forward
  <2>2. ProxyVariables'
    BY <1>1, <2>1 DEF RequestsInv, ProxyVariables
  <2>3. \A other \in Requests \ {r} : RequestInv(other)'
    BY <1>1, <2>1, OtherRequests DEF RequestsInv, ProxyVariables, Message
  <2>4. RequestInv(r)'
    <3>1. handler'[r] = "awaiting"
      BY <2>1 DEF RequestsInv, ProxyVariables
    <3>2. Message("request", r) \notin wire' /\ ResultOf(r)' = {}
      BY <1>1, <2>1 DEF Untouched, Message, ResultOf
    <3>3. answer'[r] = Nothing /\ upstream'[r] = "idle" /\ r \notin aborted'
      BY <1>1, <1>3, <2>1 DEF Untouched
    <3>4. QED
      BY <1>1, <1>3, <3>1, <3>2, <3>3
         DEF RequestInv, BeforeHandling, WhileUpstream, AfterResponse, Awaited, Stopped,
             Answered, Nothing
  <2>5. QED
    BY <2>2, <2>3, <2>4 DEF RequestsInv
<1>4. QED
  BY <1>2, <1>3 DEF RequestsInv, ProxyVariables

\* The handler that awaited a result returns what is true of that result.
LEMMA AnswerKeeps ==
  ASSUME RequestsInv, NEW r \in Requests, NEW m \in ResultOf(r), NEW a,
         a.kind = "verbatim" => told[r] = a.result,
         a.kind = "compressed" => told[r].kind = "tool" /\ told[r].content = a.content,
         handler[r] = "awaiting", Return(r, a, wire \ {m}),
         UNCHANGED <<asked, client, aborted, upstream, alive, told>>
  PROVE  RequestsInv'
<1>1. RequestInv(r) /\ client[r] # "idle" /\ answer[r] = Nothing /\ m.type = "result" /\ m.req = r
  BY DEF RequestsInv, RequestInv, BeforeHandling, Untouched, Awaited, ResultOf
<1>2. ~IsUpstream(r)
  BY <1>1 DEF RequestInv, WhileUpstream
<1>3. /\ handler' = [handler EXCEPT ![r] = "over"]
      /\ answer' = [answer EXCEPT ![r] = IF r \in aborted THEN @ ELSE a]
      /\ \/ wire' = wire \ {m}
         \/ wire' = (wire \ {m}) \cup {Message("answer", r)}
  BY DEF Return
<1>4. ProxyVariables'
  BY <1>3 DEF RequestsInv, ProxyVariables
<1>5. \A other \in Requests \ {r} : RequestInv(other)'
  BY <1>1, <1>3, OtherRequests DEF RequestsInv, ProxyVariables, Message
<1>6. RequestInv(r)'
  <2>1. handler'[r] = "over" /\ answer'[r] \in {Nothing, a}
    BY <1>1, <1>3 DEF RequestsInv, ProxyVariables
  <2>2. /\ Message("request", r) \notin wire
        /\ Message("request", r) \notin wire' /\ Message("forward", r) \notin wire'
        /\ ResultOf(r)' \subseteq ResultOf(r)
    BY <1>1, <1>2, <1>3
       DEF Untouched, Message, ResultOf, IsUpstream, RequestInv, BeforeHandling
  <2>3. ~IsUpstream(r)'
    BY <1>2, <2>2 DEF IsUpstream
  <2>4. AfterResponse(r)'
    BY <1>1, <2>1, <2>2 DEF RequestInv, AfterResponse
  <2>5. QED
    BY <1>1, <2>1, <2>2, <2>3, <2>4
       DEF RequestInv, BeforeHandling, WhileUpstream, Awaited, Stopped, Answered, Nothing
<1>7. QED
  BY <1>4, <1>5, <1>6 DEF RequestsInv

\* A result that nobody awaits is dropped.
LEMMA DropKeeps ==
  ASSUME RequestsInv, NEW r \in Requests, NEW m \in ResultOf(r), wire' = wire \ {m},
         UNCHANGED <<asked, client, handler, aborted, upstream, alive, answer, told>>
  PROVE  RequestsInv'
<1>1. m.type = "result" /\ m.req = r /\ RequestInv(r)
  BY DEF ResultOf, RequestsInv
<1>2. ProxyVariables'
  BY DEF RequestsInv, ProxyVariables
<1>3. \A other \in Requests \ {r} : RequestInv(other)'
  BY <1>1, OtherRequests DEF RequestsInv
<1>4. RequestInv(r)'
  <2>1. /\ \A t : t # "result" => (Message(t, r) \in wire' <=> Message(t, r) \in wire)
        /\ ResultOf(r)' \subseteq ResultOf(r)
    BY <1>1 DEF Message, ResultOf
  <2>2. QED
    BY <1>1, <2>1, Undisturbed
<1>5. QED
  BY <1>2, <1>3, <1>4 DEF RequestsInv

LEMMA TakeResultKeeps ==
  ASSUME RequestsInv, NEW r \in Requests, TakeResult(r)
  PROVE  RequestsInv'
<1>1. PICK m \in ResultOf(r) :
        /\ IF handler[r] = "awaiting"
           THEN \/ Compress(r, m.result, wire \ {m})
                \/ PassOn(r, m.result, wire \ {m})
                \/ Reject(r, m.result, wire \ {m})
           ELSE /\ wire' = wire \ {m}
                /\ UNCHANGED <<storeVars, handler, answer>>
        /\ UNCHANGED <<life, config, asked, client, aborted, upstream, alive, told>>
  BY DEF TakeResult
<1>2. told[r] = m.result
  BY DEF RequestsInv, RequestInv, AfterResponse
<1>3. CASE handler[r] # "awaiting"
  BY <1>1, <1>3, DropKeeps
<1>4. CASE handler[r] = "awaiting"
  <2>1. CASE Compress(r, m.result, wire \ {m})
    <3>1. PICK a : /\ a.kind = "compressed" /\ a.content = m.result.content
                   /\ Return(r, a, wire \ {m})
      BY <2>1 DEF Compress
    <3>2. m.result.kind = "tool"
      BY <2>1 DEF Compress
    <3>3. QED
      BY <1>1, <1>2, <1>4, <3>1, <3>2, AnswerKeeps
  <2>2. CASE PassOn(r, m.result, wire \ {m})
    <3>1. PICK a : /\ a.kind = "verbatim" /\ a.result = m.result
                   /\ Return(r, a, wire \ {m})
      BY <2>2 DEF PassOn
    <3>2. QED
      BY <1>1, <1>2, <1>4, <3>1, AnswerKeeps
  <2>3. CASE Reject(r, m.result, wire \ {m})
    <3>1. PICK a : a.kind = "error" /\ Return(r, a, wire \ {m})
      BY <2>3 DEF Reject, Failure
    <3>2. QED
      BY <1>1, <1>4, <3>1, AnswerKeeps
  <2>4. QED
    BY <1>1, <1>4, <2>1, <2>2, <2>3
<1>5. QED
  BY <1>3, <1>4

LEMMA TakeCancelKeeps ==
  ASSUME RequestsInv, NEW r \in Requests, TakeCancel(r)
  PROVE  RequestsInv'
<1>1. /\ RequestInv(r) /\ Message("request", r) \notin wire
      /\ UNCHANGED <<asked, client, upstream, alive, answer, told>>
  BY DEF RequestsInv, TakeCancel
<1>2. /\ \A q \in Requests \ {r} :
           handler'[q] = handler[q] /\ (q \in aborted' <=> q \in aborted)
      /\ wire' \in {wire \ {Message("cancel", r)},
                    (wire \ {Message("cancel", r)}) \cup {Message("stop", r)}}
      /\ handler' = handler \/ handler' = [handler EXCEPT ![r] = "over"]
      /\ client[r] # "idle" \/ (handler' = handler /\ aborted' = aborted)
      /\ aborted' \subseteq aborted \cup {r}
  BY <1>1 DEF TakeCancel, StopMessages, RequestsInv, ProxyVariables, RequestInv,
              BeforeHandling, Untouched
<1>3. ProxyVariables'
  BY <1>1, <1>2 DEF RequestsInv, ProxyVariables
<1>4. \A other \in Requests \ {r} : RequestInv(other)'
  BY <1>1, <1>2, OtherRequests DEF Message
<1>5. RequestInv(r)'
  <2>1. /\ \A t : t \notin {"cancel", "stop"} => (Message(t, r) \in wire' <=> Message(t, r) \in wire)
        /\ Message("stop", r) \in wire => Message("stop", r) \in wire'
        /\ ResultOf(r)' = ResultOf(r)
    BY <1>2 DEF Message, ResultOf
  <2>2. CASE handler[r] # "awaiting"
    <3>1. handler' = handler /\ aborted' = aborted
      BY <2>2 DEF TakeCancel
    <3>2. QED
      BY <1>1, <2>1, <3>1, Undisturbed
  <2>3. CASE handler[r] = "awaiting"
    <3>1. /\ client[r] # "idle" /\ aborted' = aborted \cup {r}
          /\ handler'[r] \in {"awaiting", "over"}
          /\ handler'[r] = "awaiting" => ~Signalled(asked[r])
          /\ Signalled(asked[r]) /\ alive => Message("stop", r) \in wire'
      BY <1>1, <2>3
         DEF TakeCancel, StopMessages, RequestsInv, ProxyVariables, RequestInv,
             BeforeHandling, Untouched
    <3>2. BeforeHandling(r)' /\ WhileUpstream(r)'
      BY <1>1, <2>1, <3>1 DEF RequestInv, BeforeHandling, WhileUpstream, IsUpstream
    <3>3. AfterResponse(r)' /\ Answered(r)'
      BY <1>1, <2>1, <3>1 DEF RequestInv, AfterResponse, Answered
    <3>4. Awaited(r)' /\ Stopped(r)'
      BY <1>1, <2>1, <2>3, <3>1
         DEF RequestInv, Awaited, Stopped, Signalled, IsUpstream, WhileUpstream
    <3>5. QED
      BY <3>2, <3>3, <3>4 DEF RequestInv
  <2>4. QED
    BY <2>2, <2>3
<1>6. QED
  BY <1>3, <1>4, <1>5 DEF RequestsInv

LEMMA TimeoutKeeps ==
  ASSUME RequestsInv, NEW r \in Requests, Timeout(r)
  PROVE  RequestsInv'
<1>1. /\ RequestInv(r) /\ handler[r] = "awaiting"
      /\ UNCHANGED <<asked, client, aborted, upstream, alive, told>>
      /\ client[r] # "idle" /\ answer[r] = Nothing
      /\ Message("request", r) \notin wire
  BY DEF RequestsInv, RequestInv, BeforeHandling, Untouched, Awaited, Timeout
<1>2. /\ handler' = [handler EXCEPT ![r] = "over"]
      /\ answer' = [answer EXCEPT ![r] = IF r \in aborted THEN @ ELSE Failure]
      /\ wire \subseteq wire'
      /\ wire' \subseteq wire \cup {Message("answer", r), Message("stop", r)}
  BY DEF Timeout, Return, StopMessages
<1>3. ProxyVariables'
  BY <1>1, <1>2 DEF RequestsInv, ProxyVariables
<1>4. \A other \in Requests \ {r} : RequestInv(other)'
  BY <1>1, <1>2, OtherRequests DEF RequestsInv, ProxyVariables, Message
<1>5. RequestInv(r)'
  <2>1. handler'[r] = "over" /\ answer'[r] \in {Nothing, Failure}
    BY <1>1, <1>2 DEF RequestsInv, ProxyVariables
  <2>2. /\ \A t : t \notin {"answer", "stop"} => (Message(t, r) \in wire' <=> Message(t, r) \in wire)
        /\ Message("stop", r) \in wire => Message("stop", r) \in wire'
        /\ ResultOf(r)' = ResultOf(r)
    BY <1>2 DEF Message, ResultOf
  <2>3. BeforeHandling(r)' /\ WhileUpstream(r)'
    BY <1>1, <2>1, <2>2
       DEF RequestInv, BeforeHandling, WhileUpstream, IsUpstream, Nothing, Failure
  <2>4. AfterResponse(r)'
    BY <1>1, <2>1, <2>2 DEF RequestInv, AfterResponse
  <2>5. Awaited(r)' /\ Stopped(r)' /\ Answered(r)'
    BY <1>1, <2>1, <2>2 DEF RequestInv, Awaited, Stopped, Answered, IsUpstream, Nothing, Failure
  <2>6. QED
    BY <2>3, <2>4, <2>5 DEF RequestInv
<1>6. QED
  BY <1>3, <1>4, <1>5 DEF RequestsInv

LEMMA TakeForwardKeeps ==
  ASSUME RequestsInv, NEW r \in Requests, TakeForward(r)
  PROVE  RequestsInv'
<1>1. /\ RequestInv(r) /\ Message("forward", r) \in wire
      /\ wire' = wire \ {Message("forward", r)}
      /\ upstream' = [upstream EXCEPT ![r] = "working"]
      /\ UNCHANGED <<asked, client, handler, aborted, alive, answer, told>>
  BY DEF RequestsInv, TakeForward
<1>2. ProxyVariables'
  BY <1>1 DEF RequestsInv, ProxyVariables
<1>3. \A other \in Requests \ {r} : RequestInv(other)'
  BY <1>1, OtherRequests DEF RequestsInv, ProxyVariables, Message
<1>4. RequestInv(r)'
  <2>1. /\ IsUpstream(r) /\ handler[r] # "idle" /\ alive /\ ResultOf(r) = {}
        /\ client[r] # "idle" /\ Message("request", r) \notin wire
    BY <1>1 DEF IsUpstream, RequestInv, WhileUpstream, BeforeHandling, Untouched
  <2>2. /\ \A t : t # "forward" => (Message(t, r) \in wire' <=> Message(t, r) \in wire)
        /\ Message("forward", r) \notin wire'
        /\ ResultOf(r)' = {}
    BY <1>1, <2>1 DEF Message, ResultOf
  <2>3. BeforeHandling(r)' /\ WhileUpstream(r)' /\ AfterResponse(r)'
    BY <1>1, <2>1, <2>2
       DEF RequestInv, BeforeHandling, WhileUpstream, IsUpstream, AfterResponse
  <2>4. Awaited(r)' /\ Stopped(r)' /\ Answered(r)'
    BY <1>1, <2>1, <2>2 DEF RequestInv, Awaited, Stopped, Answered
  <2>5. QED
    BY <2>3, <2>4 DEF RequestInv
<1>5. QED
  BY <1>2, <1>3, <1>4 DEF RequestsInv

LEMMA RespondKeeps ==
  ASSUME RequestsInv, NEW r \in Requests, NEW res \in Result, Respond(r, res)
  PROVE  RequestsInv'
<1> DEFINE m == [type |-> "result", req |-> r, result |-> res]
<1>1. /\ RequestInv(r) /\ upstream[r] = "working" /\ res \in ResultsFor(asked[r])
      /\ upstream' = [upstream EXCEPT ![r] = "over"]
      /\ told' = [told EXCEPT ![r] = res]
      /\ wire' = wire \cup {m}
      /\ UNCHANGED <<asked, client, handler, aborted, alive, answer>>
  BY DEF RequestsInv, Respond
<1>2. ProxyVariables'
  BY <1>1 DEF RequestsInv, ProxyVariables
<1>3. \A other \in Requests \ {r} : RequestInv(other)'
  BY <1>1, OtherRequests DEF RequestsInv, ProxyVariables
<1>4. RequestInv(r)'
  <2>1. /\ IsUpstream(r) /\ handler[r] # "idle" /\ alive /\ ResultOf(r) = {}
        /\ client[r] # "idle" /\ Message("forward", r) \notin wire
        /\ Message("request", r) \notin wire
        /\ answer[r].kind \notin {"verbatim", "compressed"}
    BY <1>1 DEF IsUpstream, RequestInv, WhileUpstream, BeforeHandling, Untouched
  <2>2. told'[r] = res /\ upstream'[r] = "over"
    BY <1>1 DEF RequestsInv, ProxyVariables
  <2>3. /\ \A t : t # "result" => (Message(t, r) \in wire' <=> Message(t, r) \in wire)
        /\ ResultOf(r)' = {m}
    BY <1>1, <2>1 DEF Message, ResultOf
  <2>4. BeforeHandling(r)' /\ WhileUpstream(r)' /\ Stopped(r)'
    BY <1>1, <2>1, <2>2, <2>3
       DEF RequestInv, BeforeHandling, WhileUpstream, IsUpstream, Stopped
  <2>5. AfterResponse(r)'
    BY <1>1, <2>1, <2>2, <2>3 DEF RequestInv, AfterResponse
  <2>6. Awaited(r)' /\ Answered(r)'
    BY <1>1, <2>1 DEF RequestInv, Awaited, Answered
  <2>7. QED
    BY <2>4, <2>5, <2>6 DEF RequestInv
<1>5. QED
  BY <1>2, <1>3, <1>4 DEF RequestsInv

LEMMA TakeStopKeeps ==
  ASSUME RequestsInv, NEW r \in Requests, TakeStop(r)
  PROVE  RequestsInv'
<1>1. /\ RequestInv(r) /\ Message("forward", r) \notin wire
      /\ wire' = wire \ {Message("stop", r)}
      /\ upstream' = [upstream EXCEPT ![r] = IF @ = "working" THEN "over" ELSE @]
      /\ UNCHANGED <<asked, client, handler, aborted, alive, answer, told>>
  BY DEF RequestsInv, TakeStop
<1>2. ProxyVariables'
  BY <1>1 DEF RequestsInv, ProxyVariables
<1>3. \A other \in Requests \ {r} : RequestInv(other)'
  BY <1>1, OtherRequests DEF RequestsInv, ProxyVariables, Message
<1>4. RequestInv(r)'
  <2>1. /\ upstream'[r] # "working" /\ (upstream[r] = "idle" => upstream'[r] = "idle")
    BY <1>1 DEF RequestsInv, ProxyVariables
  <2>2. /\ \A t : t # "stop" => (Message(t, r) \in wire' <=> Message(t, r) \in wire)
        /\ ResultOf(r)' = ResultOf(r)
    BY <1>1 DEF Message, ResultOf
  <2>3. ~IsUpstream(r)'
    BY <1>1, <2>1, <2>2 DEF IsUpstream
  <2>4. BeforeHandling(r)' /\ WhileUpstream(r)'
    BY <1>1, <2>1, <2>2, <2>3 DEF RequestInv, BeforeHandling, Untouched, WhileUpstream
  <2>5. AfterResponse(r)'
    BY <1>1, <2>2 DEF RequestInv, AfterResponse
  <2>6. Awaited(r)' /\ Stopped(r)' /\ Answered(r)'
    BY <1>1, <2>3 DEF RequestInv, Awaited, Stopped, Answered
  <2>7. QED
    BY <2>4, <2>5, <2>6 DEF RequestInv
<1>5. QED
  BY <1>2, <1>3, <1>4 DEF RequestsInv

LEMMA DieKeeps ==
  ASSUME RequestsInv, Die
  PROVE  RequestsInv'
<1> DEFINE pending == {r \in Requests : handler[r] = "awaiting"}
<1>1. /\ alive /\ alive' = FALSE
      /\ upstream' = [r \in Requests |-> "over"]
      /\ handler' = [r \in Requests |-> IF r \in pending THEN "over" ELSE handler[r]]
      /\ answer' = [r \in Requests |-> IF r \in pending \ aborted THEN Failure ELSE answer[r]]
      /\ wire' = (wire \ UpstreamWire(wire)) \cup {Message("answer", r) : r \in pending \ aborted}
      /\ UNCHANGED <<asked, client, aborted, told>>
  BY DEF Die, RequestsInv, ProxyVariables
<1>2. ProxyVariables'
  <2>1. ProxyVariables
    BY DEF RequestsInv
  <2>2. handler' \in [Requests -> {"idle", "awaiting", "over"}]
    BY <1>1, <2>1 DEF ProxyVariables
  <2>3. upstream' \in [Requests -> {"idle", "working", "over"}] /\ DOMAIN answer' = Requests
    BY <1>1
  <2>4. UNCHANGED <<asked, client, aborted, told>> /\ alive' \in BOOLEAN
    BY <1>1
  <2>5. QED
    BY <2>1, <2>2, <2>3, <2>4 DEF ProxyVariables
<1>3. ASSUME NEW r \in Requests PROVE RequestInv(r)'
  <2>1. RequestInv(r)
    BY DEF RequestsInv
  <2>2. /\ \A t : t # "answer" => (Message(t, r) \in wire' => Message(t, r) \in wire)
        /\ Message("forward", r) \notin wire' /\ ResultOf(r)' = {}
    <3>1. \A m \in wire' : m.type = "answer" \/ (m \in wire /\ m.type \notin {"forward", "stop", "result"})
      BY <1>1 DEF Message, UpstreamWire
    <3>2. \A t : Message(t, r).type = t
      BY DEF Message
    <3>3. QED
      BY <3>1, <3>2 DEF ResultOf
  <2>3. ~IsUpstream(r)'
    BY <1>1, <2>2 DEF IsUpstream
  <2>4. /\ handler'[r] = IF handler[r] = "awaiting" THEN "over" ELSE handler[r]
        /\ answer'[r] \in {answer[r], Failure}
        /\ handler[r] # "awaiting" => answer'[r] = answer[r]
    BY <1>1
  <2>5. BeforeHandling(r)' /\ WhileUpstream(r)' /\ AfterResponse(r)'
    BY <1>1, <2>1, <2>2, <2>3, <2>4
       DEF RequestInv, BeforeHandling, Untouched, WhileUpstream, AfterResponse
  <2>6. Awaited(r)' /\ Stopped(r)' /\ Answered(r)'
    BY <1>1, <2>1, <2>3, <2>4
       DEF RequestInv, Awaited, Stopped, Answered, Failure
  <2>7. QED
    BY <2>5, <2>6 DEF RequestInv
<1>4. QED
  BY <1>2, <1>3 DEF RequestsInv

LEMMA RestartKeeps ==
  ASSUME RequestsInv, Restart
  PROVE  RequestsInv'
<1>1. /\ client' = [r \in Requests |-> IF client[r] = "waiting" THEN "lost" ELSE client[r]]
      /\ handler' = [r \in Requests |-> IF client[r] = "idle" THEN "idle" ELSE "over"]
      /\ upstream' = [r \in Requests |-> IF client[r] = "idle" THEN "idle" ELSE "over"]
      /\ aborted' = {} /\ alive' = TRUE /\ wire' = {}
      /\ UNCHANGED <<asked, answer, told>>
  BY DEF Restart
<1>2. ProxyVariables'
  BY <1>1 DEF RequestsInv, ProxyVariables
<1>3. ASSUME NEW r \in Requests PROVE RequestInv(r)'
  <2>1. RequestInv(r)
    BY DEF RequestsInv
  <2>2. Message("request", r) \notin wire' /\ Message("forward", r) \notin wire' /\ ResultOf(r)' = {}
    BY <1>1 DEF ResultOf
  <2>3. ~IsUpstream(r)'
    BY <1>1, <2>2 DEF IsUpstream
  <2>4. QED
    BY <1>1, <2>1, <2>2, <2>3
       DEF RequestInv, BeforeHandling, Untouched, WhileUpstream, AfterResponse, Awaited,
           Stopped, Answered, RequestsInv, ProxyVariables
<1>4. QED
  BY <1>2, <1>3 DEF RequestsInv

-----------------------------------------------------------------------------

LEMMA RequestsNext == RequestsInv /\ [ProxyNext]_proxyVars => RequestsInv'
<1> SUFFICES ASSUME RequestsInv, [ProxyNext]_proxyVars PROVE RequestsInv'
  OBVIOUS
<1>1. ASSUME NEW r \in Requests, HandleExpand(r) PROVE RequestsInv'
  <2>1. PICK a : /\ a.kind \in {"original", "miss"}
                 /\ Return(r, a, wire \ {Message("request", r)})
    <3>1. CASE reply'.kind = "hit"
      BY <1>1, <3>1 DEF HandleExpand
    <3>2. CASE reply'.kind # "hit"
      BY <1>1, <3>2 DEF HandleExpand
    <3>3. QED
      BY <3>1, <3>2
  <2>2. QED
    BY <1>1, <2>1, OwnAnswerKeeps DEF HandleExpand
<1>2. ASSUME NEW r \in Requests, HandleLocally(r) PROVE RequestsInv'
  <2>1. PICK a \in LocalAnswers(asked[r]) : Return(r, a, wire \ {Message("request", r)})
    BY <1>2 DEF HandleLocally
  <2>2. a.kind \in {"noTools", "ownList", "error"}
    BY DEF LocalAnswers, Failure
  <2>3. QED
    BY <1>2, <2>1, <2>2, OwnAnswerKeeps DEF HandleLocally
<1>3. CASE UNCHANGED proxyVars
  <2>1. ProxyVariables'
    BY <1>3 DEF proxyVars, sessionVars, RequestsInv, ProxyVariables
  <2>2. \A r \in Requests : RequestInv(r)'
    BY <1>3, Undisturbed DEF proxyVars, sessionVars, RequestsInv, ResultOf
  <2>3. QED
    BY <2>1, <2>2 DEF RequestsInv
<1>4. QED
  BY <1>1, <1>2, <1>3, AskKeeps, CancelKeeps, TakeAnswerKeeps, ForwardKeeps, TakeResultKeeps,
     TakeCancelKeeps, TimeoutKeeps, TakeForwardKeeps, TakeStopKeeps, RespondKeeps, DieKeeps,
     RestartKeeps
     DEF ProxyNext

LEMMA RequestsInvariance == ProxySpec => []RequestsInv
  BY RequestsInit, RequestsNext, PTL DEF ProxySpec

\* Whatever the order of results, cancellations, timeouts, lost connections
\* and restarts: an answer that quotes an upstream result quotes the one that
\* the upstream server gave to this request.
THEOREM ProxyAnswersAreUpstreams == ProxySpec => []AnswersAreUpstreams
<1>1. RequestsInv => AnswersAreUpstreams
  BY DEF RequestsInv, RequestInv, Answered, AnswersAreUpstreams
<1>2. QED
  BY <1>1, RequestsInvariance, PTL

\* While the upstream server works for a client that has cancelled, word of
\* the cancellation is on its way, for every request but tools/list.
THEOREM ProxyCancelReachesUpstream == ProxySpec => []CancelReachesUpstream
<1>1. RequestsInv => CancelReachesUpstream
  BY DEF RequestsInv, ProxyVariables, RequestInv, Stopped, IsUpstream, CancelReachesUpstream
<1>2. QED
  BY <1>1, RequestsInvariance, PTL

-----------------------------------------------------------------------------
(* The books: what the answers quote against what the store has been given. *)

Quotes(r) == answer[r].kind = "compressed"
Quoting == {r \in Requests : Quotes(r) /\ answer[r].life = life}
Note(r) == [ref |-> answer[r].ref, content |-> answer[r].content]

\* A note was given its ref in its own life; the log of this life holds the
\* notes of this life, one for each put; no two notes of a life share a ref.
NotesInv ==
  /\ \A r \in Requests : Quotes(r) =>
       answer[r].life \in 0..life /\ answer[r].ref.stamp \in ClockReads[answer[r].life]
  /\ \A r \in Quoting : \E i \in 1..Len(log) : log[i] = Note(r)
  /\ \A i \in 1..Len(log) : \E r \in Quoting : log[i] = Note(r)
  /\ \A r, s \in Requests :
       r # s /\ Quotes(r) /\ Quotes(s) /\ answer[r].life = answer[s].life
         => answer[r].ref # answer[s].ref

CountInv == IsFiniteSet(Quoting) /\ Len(log) = Cardinality(Quoting)

\* What leanprompt_expand returned is what some note of the same life quoted.
OriginalsInv ==
  \A e \in Requests : answer[e].kind = "original" =>
    \E r \in Requests :
      /\ Quotes(r) /\ answer[r].ref = asked[e].ref
      /\ answer[r].life = answer[e].life /\ answer[r].content = answer[e].content

BooksInv ==
  /\ CapInv
  /\ life \in 0..MaxRestarts
  /\ config.expand => NotesInv /\ CountInv /\ OriginalsInv
  /\ \A e \in Requests : answer[e].kind = "original" => config.expand

LEMMA BooksInit == ProxyInit => BooksInv
<1> SUFFICES ASSUME ProxyInit PROVE BooksInv
  OBVIOUS
<1>1. CapInv
  BY CapInit DEF ProxyInit
<1>2. life \in 0..MaxRestarts
  BY ProxyAssumption DEF ProxyInit, ProxyAssumption
<1>3. \A r \in Requests : answer[r].kind = "none"
  BY DEF ProxyInit, Nothing
<1>4. log = <<>> /\ Quoting = {}
  BY <1>3 DEF ProxyInit, StoreInit, Quoting, Quotes
<1>5. NotesInv /\ OriginalsInv
  BY <1>3, <1>4 DEF NotesInv, OriginalsInv, Quotes
<1>6. CountInv
  BY <1>4, FS_EmptySet DEF CountInv
<1>7. QED
  BY <1>1, <1>2, <1>3, <1>5, <1>6 DEF BooksInv

\* What a step does to r does not concern the books.
Still(r) ==
  \/ answer'[r] = answer[r] /\ (asked'[r] = asked[r] \/ answer[r].kind # "original")
  \/ /\ answer[r].kind \notin {"compressed", "original"}
     /\ answer'[r].kind # "original"
     /\ config.expand => answer'[r].kind # "compressed"

LEMMA StillKeeps ==
  ASSUME BooksInv, UNCHANGED storeVars, UNCHANGED <<life, config>>,
         \A r \in Requests : Still(r)
  PROVE  BooksInv'
<1>1. CapInv'
  BY CapNext DEF BooksInv
<1>2. ASSUME config.expand
      PROVE  NotesInv' /\ CountInv' /\ OriginalsInv'
  <2>1. \A r \in Requests :
          /\ Quotes(r)' <=> Quotes(r)
          /\ Quotes(r) => answer'[r] = answer[r]
          /\ answer'[r].kind = "original" => answer'[r] = answer[r] /\ asked'[r] = asked[r]
    BY <1>2 DEF Still, Quotes
  <2>2. Quoting' = Quoting
    BY <2>1 DEF Quoting
  <2>3. log' = log
    BY DEF storeVars
  <2>4. \A r \in Quoting : Note(r)' = Note(r)
    BY <2>1 DEF Quoting, Note
  <2>5. NotesInv /\ CountInv /\ OriginalsInv
    BY <1>2 DEF BooksInv
  <2>6. NotesInv'
    BY <2>1, <2>2, <2>3, <2>4, <2>5 DEF NotesInv
  <2>7. CountInv'
    BY <2>2, <2>3, <2>5 DEF CountInv
  <2>8. OriginalsInv'
    BY <2>1, <2>5 DEF OriginalsInv
  <2>9. QED
    BY <2>6, <2>7, <2>8
<1>3. \A e \in Requests : answer'[e].kind = "original" => config'.expand
  BY DEF Still, BooksInv
<1>4. QED
  BY <1>1, <1>2, <1>3 DEF BooksInv

\* A put is quoted in the answer that is returned with it.
LEMMA QuoteKeeps ==
  ASSUME BooksInv, config.expand, DOMAIN answer = Requests,
         NEW r \in Requests, NEW c \in Content, NEW stamp \in ClockReads[life],
         Put(c, stamp), answer[r] = Nothing,
         answer' = [answer EXCEPT ![r] = [kind |-> "compressed", content |-> c,
                                          ref |-> reply'.ref, life |-> life]],
         UNCHANGED <<life, config, asked>>
  PROVE  BooksInv'
<1> DEFINE e == [ref |-> [stamp |-> stamp, seq |-> counter], content |-> c]
<1>1. stamp \in Stamps
  BY ProxyAssumption DEF ProxyAssumption, BooksInv
<1>2. CapInv'
  BY <1>1, CapNext DEF BooksInv, StoreNext
<1>3. /\ log \in Seq(Entry) /\ e \in Entry /\ log' = Append(log, e)
      /\ reply' = [kind |-> "ref", ref |-> e.ref]
      /\ Len(log) = counter /\ \A i \in 1..Len(log) : log[i].ref.seq = i - 1
  BY <1>1, PutShape DEF BooksInv, CapInv, Inv, TypeOK, LogInv
<1>4. e.ref.seq = counter /\ e.ref.stamp = stamp /\ e.content = c
  OBVIOUS
<1> HIDE DEF e
<1>5. /\ answer'[r] = [kind |-> "compressed", content |-> c, ref |-> e.ref, life |-> life]
      /\ \A s \in Requests \ {r} : answer'[s] = answer[s]
  BY <1>3
<1>6. /\ Quotes(r)' /\ ~Quotes(r)
      /\ \A s \in Requests \ {r} : Quotes(s)' <=> Quotes(s)
      /\ r \notin Quoting /\ Quoting' = Quoting \cup {r}
  BY <1>5 DEF Quotes, Quoting, Nothing
<1>7. Note(r)' = e /\ \A s \in Requests \ {r} : Note(s)' = Note(s)
  BY <1>3, <1>4, <1>5 DEF Note, Entry
<1>8. /\ Len(log') = Len(log) + 1 /\ log'[Len(log) + 1] = e
      /\ \A i \in 1..Len(log) : log'[i] = log[i]
      /\ Len(log) \in Nat
  BY <1>3
<1>9. NotesInv /\ CountInv /\ OriginalsInv /\ life \in 0..MaxRestarts
  BY DEF BooksInv
<1>10. NotesInv'
  <2>1. \A s \in Requests : Quotes(s)' =>
          answer'[s].life \in 0..life' /\ answer'[s].ref.stamp \in ClockReads[answer'[s].life]
    BY <1>4, <1>5, <1>6, <1>9 DEF NotesInv
  <2>2. \A s \in Quoting' : \E i \in 1..Len(log') : log'[i] = Note(s)'
    <3> SUFFICES ASSUME NEW s \in Quoting' PROVE \E i \in 1..Len(log') : log'[i] = Note(s)'
      OBVIOUS
    <3>1. CASE s = r
      BY <1>7, <1>8, <3>1
    <3>2. CASE s # r
      <4>1. s \in Quoting /\ s \in Requests \ {r}
        BY <1>6, <3>2 DEF Quoting
      <4>2. PICK i \in 1..Len(log) : log[i] = Note(s)
        BY <1>9, <4>1 DEF NotesInv
      <4>3. i \in 1..Len(log') /\ log'[i] = Note(s)'
        BY <1>7, <1>8, <4>1, <4>2
      <4>4. QED
        BY <4>3
    <3>3. QED
      BY <3>1, <3>2
  <2>3. \A i \in 1..Len(log') : \E s \in Quoting' : log'[i] = Note(s)'
    <3> SUFFICES ASSUME NEW i \in 1..Len(log') PROVE \E s \in Quoting' : log'[i] = Note(s)'
      OBVIOUS
    <3>1. CASE i = Len(log) + 1
      BY <1>6, <1>7, <1>8, <3>1
    <3>2. CASE i \in 1..Len(log)
      <4>1. PICK s \in Quoting : log[i] = Note(s)
        BY <1>9, <3>2 DEF NotesInv
      <4>2. s \in Requests \ {r} /\ s \in Quoting'
        BY <1>6 DEF Quoting
      <4>3. QED
        BY <1>7, <1>8, <3>2, <4>1, <4>2
    <3>3. QED
      BY <1>8, <3>1, <3>2
  <2>4. \A s \in Requests \ {r} : Quotes(s) /\ answer[s].life = life => answer[s].ref # e.ref
    <3> SUFFICES ASSUME NEW s \in Requests \ {r}, Quotes(s), answer[s].life = life
                 PROVE  answer[s].ref # e.ref
      OBVIOUS
    <3>1. PICK i \in 1..Len(log) : log[i] = Note(s)
      BY <1>9 DEF NotesInv, Quoting
    <3>2. answer[s].ref.seq = i - 1
      BY <1>3, <3>1 DEF Note
    <3>3. QED
      BY <1>3, <1>4, <3>2
  <2>5. \A s, t \in Requests :
          s # t /\ Quotes(s)' /\ Quotes(t)' /\ answer'[s].life = answer'[t].life
            => answer'[s].ref # answer'[t].ref
    BY <1>5, <1>6, <1>9, <2>4 DEF NotesInv
  <2>6. QED
    BY <2>1, <2>2, <2>3, <2>5 DEF NotesInv
<1>11. CountInv'
  <2>1. IsFiniteSet(Quoting') /\ Cardinality(Quoting') = Cardinality(Quoting) + 1
    BY <1>6, <1>9, FS_AddElement DEF CountInv
  <2>2. QED
    BY <1>8, <1>9, <2>1 DEF CountInv
<1>12. OriginalsInv'
  BY <1>5, <1>6, <1>9 DEF OriginalsInv, Quotes
<1>13. \A s \in Requests : answer'[s].kind = "original" => config'.expand
  OBVIOUS
<1>14. QED
  BY <1>2, <1>9, <1>10, <1>11, <1>12, <1>13 DEF BooksInv

\* leanprompt_expand answers with an entry of the store, which some note of
\* this life quotes.
LEMMA ExpandKeeps ==
  ASSUME RequestsInv, BooksInv, NEW e \in Requests, HandleExpand(e)
  PROVE  BooksInv'
<1>1. /\ config.expand /\ asked[e].op = "expand" /\ Message("request", e) \in wire
      /\ Get(asked[e].ref)
      /\ UNCHANGED <<life, config, asked>>
  BY DEF HandleExpand
<1>2. Untouched(e) /\ asked[e] \in Query /\ DOMAIN answer = Requests
  BY <1>1 DEF RequestsInv, ProxyVariables, RequestInv, BeforeHandling
<1>3. asked[e].ref \in Askable
  BY <1>1, <1>2, ProxyAssumption DEF Query, ProxyAssumption
<1>4. CapInv'
  BY <1>1, <1>3, CapNext DEF BooksInv, StoreNext
<1>5. answer[e] = Nothing /\ e \notin aborted
  BY <1>2 DEF Untouched
<1>6. log' = log
  BY <1>1 DEF Get, GetHit, GetMiss
<1>7. \A r \in Requests \ {e} : answer'[r] = answer[r]
  BY DEF HandleExpand, Return
<1>8. NotesInv /\ CountInv /\ OriginalsInv
  BY <1>1 DEF BooksInv
<1>9. /\ answer'[e].kind \in {"original", "miss"}
      /\ answer'[e].kind = "original" =>
           \E i \in 1..Len(entries) :
             /\ entries[i].ref = asked[e].ref
             /\ answer'[e].content = entries[i].content /\ answer'[e].life = life
  <2>1. answer' = [answer EXCEPT ![e] = IF reply'.kind = "hit"
                     THEN [kind |-> "original", content |-> reply'.content, life |-> life]
                     ELSE [kind |-> "miss"]]
    BY <1>5 DEF HandleExpand, Return
  <2>2. CASE GetHit(asked[e].ref)
    <3>1. PICK i \in 1..Len(entries) :
            /\ entries[i].ref = asked[e].ref
            /\ reply' = [kind |-> "hit", ref |-> asked[e].ref, content |-> entries[i].content]
      BY <2>2 DEF GetHit
    <3>2. answer'[e] = [kind |-> "original", content |-> entries[i].content, life |-> life]
      BY <1>2, <2>1, <3>1
    <3>3. QED
      BY <3>1, <3>2
  <2>3. CASE GetMiss(asked[e].ref)
    BY <1>2, <2>1, <2>3 DEF GetMiss
  <2>4. QED
    BY <1>1, <2>2, <2>3 DEF Get
<1>10. /\ \A r \in Requests : Quotes(r)' <=> Quotes(r)
       /\ \A r \in Requests : Quotes(r) => answer'[r] = answer[r]
       /\ ~Quotes(e)
  BY <1>5, <1>7, <1>9 DEF Quotes, Nothing
<1>11. Quoting' = Quoting
  BY <1>1, <1>10 DEF Quoting
<1>12. \A r \in Quoting : Note(r)' = Note(r)
  BY <1>10 DEF Quoting, Note
<1>13. NotesInv'
  BY <1>1, <1>6, <1>8, <1>10, <1>11, <1>12 DEF NotesInv
<1>14. CountInv'
  BY <1>6, <1>8, <1>11 DEF CountInv
<1>15. OriginalsInv'
  <2> SUFFICES ASSUME NEW x \in Requests, answer'[x].kind = "original"
               PROVE  \E r \in Requests :
                        /\ Quotes(r)' /\ answer'[r].ref = asked'[x].ref
                        /\ answer'[r].life = answer'[x].life
                        /\ answer'[r].content = answer'[x].content
    BY DEF OriginalsInv
  <2>1. CASE x # e
    BY <1>1, <1>7, <1>8, <1>10, <2>1 DEF OriginalsInv
  <2>2. CASE x = e
    <3>1. PICK i \in 1..Len(entries) :
            /\ entries[i].ref = asked[e].ref
            /\ answer'[e].content = entries[i].content /\ answer'[e].life = life
      BY <1>9, <2>2
    <3>2. \E k \in 1..Len(log) : entries[i] = log[k]
      <4>1. Len(log) = counter /\ entries \in Seq(Entry)
            /\ entries[i].ref.seq < counter /\ entries[i] = log[entries[i].ref.seq + 1]
        BY DEF BooksInv, CapInv, Inv, TypeOK, LogInv, EntriesInv
      <4>2. entries[i].ref.seq \in Nat
        <5>1. entries[i] \in Entry
          BY <4>1
        <5>2. QED
          BY <5>1 DEF Entry, Ref
      <4>3. counter \in Nat
        BY DEF BooksInv, CapInv, Inv, TypeOK
      <4>4. QED
        BY <4>1, <4>2, <4>3
    <3>3. PICK r \in Quoting : entries[i] = Note(r)
      BY <1>8, <3>2 DEF NotesInv
    <3>4. /\ r \in Requests /\ Quotes(r) /\ answer[r].life = life
          /\ answer[r].ref = asked[e].ref /\ answer[r].content = entries[i].content
      BY <3>1, <3>3 DEF Quoting, Note
    <3>5. answer'[r] = answer[r] /\ Quotes(r)'
      BY <1>10, <3>4
    <3>6. QED
      BY <1>1, <2>2, <3>1, <3>4, <3>5
  <2>3. QED
    BY <2>1, <2>2
<1>16. QED
  BY <1>1, <1>4, <1>13, <1>14, <1>15 DEF BooksInv

\* The books of a life end with it.
LEMMA RestartBooks ==
  ASSUME BooksInv, Restart
  PROVE  BooksInv'
<1>1. /\ life' = life + 1 /\ life < MaxRestarts
      /\ entries' = <<>> /\ bytes' = 0 /\ counter' = 0 /\ reply' = [kind |-> "none"]
      /\ log' = <<>> /\ recency' = <<>>
      /\ UNCHANGED <<config, asked, answer, told>>
  BY DEF Restart, Nothing
<1>2. life' \in 0..MaxRestarts /\ life \in Nat
  BY <1>1, ProxyAssumption DEF BooksInv, ProxyAssumption
<1>3. CapInv'
  <2>1. StoreInit'
    BY <1>1 DEF StoreInit
  <2>2. (StoreInit => CapInv)'
    BY CapInit, PTL
  <2>3. QED
    BY <2>1, <2>2
<1>4. ASSUME config.expand
      PROVE  NotesInv' /\ CountInv' /\ OriginalsInv'
  <2>1. NotesInv /\ OriginalsInv
    BY <1>4 DEF BooksInv
  <2>2. Quoting' = {}
    BY <1>1, <1>2, <2>1 DEF Quoting, Quotes, NotesInv
  <2>3. CountInv'
    BY <1>1, <2>2, FS_EmptySet DEF CountInv
  <2>4. NotesInv'
    BY <1>1, <1>2, <2>1, <2>2 DEF NotesInv, Quotes
  <2>5. OriginalsInv'
    BY <1>1, <2>1 DEF OriginalsInv, Quotes
  <2>6. QED
    BY <2>3, <2>4, <2>5
<1>5. QED
  BY <1>1, <1>2, <1>3, <1>4 DEF BooksInv

\* A result that compression shortens: the content is put into the store, and
\* since no tools/call outlives its abort, the answer that quotes it is sent.
LEMMA TakeResultBooks ==
  ASSUME RequestsInv, BooksInv, NEW r \in Requests, TakeResult(r)
  PROVE  BooksInv'
<1>1. PICK m \in ResultOf(r) :
        /\ IF handler[r] = "awaiting"
           THEN \/ Compress(r, m.result, wire \ {m})
                \/ PassOn(r, m.result, wire \ {m})
                \/ Reject(r, m.result, wire \ {m})
           ELSE /\ wire' = wire \ {m}
                /\ UNCHANGED <<storeVars, handler, answer>>
        /\ UNCHANGED <<life, config, asked, client, aborted, upstream, alive, told>>
  BY DEF TakeResult
<1>2. /\ RequestInv(r) /\ DOMAIN answer = Requests
      /\ m.result \in Result /\ m.result \in ResultsFor(asked[r])
  BY DEF RequestsInv, ProxyVariables, RequestInv, AfterResponse
<1>3. CASE handler[r] # "awaiting"
  BY <1>1, <1>3, StillKeeps DEF Still
<1>4. CASE handler[r] = "awaiting"
  <2>1. answer[r] = Nothing /\ (r \in aborted => asked[r].op = "list")
    BY <1>2, <1>4 DEF RequestInv, Awaited
  <2>2. ASSUME NEW a, Return(r, a, wire \ {m}), UNCHANGED storeVars,
               a.kind # "original", config.expand => a.kind # "compressed"
        PROVE  BooksInv'
    <3>1. answer' = [answer EXCEPT ![r] = IF r \in aborted THEN @ ELSE a]
      BY <2>2 DEF Return
    <3>2. answer'[r] \in {Nothing, a} /\ \A s \in Requests \ {r} : answer'[s] = answer[s]
      BY <1>2, <2>1, <3>1
    <3>3. \A s \in Requests : Still(s)
      BY <1>1, <2>1, <2>2, <3>2 DEF Still, Nothing
    <3>4. QED
      BY <1>1, <2>2, <3>3, StillKeeps
  <2>3. CASE Compress(r, m.result, wire \ {m})
    <3>1. m.result.kind = "tool" /\ m.result.content \in Content
      BY <1>2, <2>3 DEF Compress, Result
    <3>2. CASE config.expand
      <4>1. asked[r].op # "list"
        BY <1>2, <3>1 DEF ResultsFor
      <4>2. PICK stamp \in ClockReads[life] :
              /\ Put(m.result.content, stamp)
              /\ Return(r, [kind |-> "compressed", content |-> m.result.content,
                            ref |-> reply'.ref, life |-> life], wire \ {m})
        BY <2>3, <3>2 DEF Compress
      <4>3. answer' = [answer EXCEPT ![r] =
                         [kind |-> "compressed", content |-> m.result.content,
                          ref |-> reply'.ref, life |-> life]]
        BY <2>1, <4>1, <4>2 DEF Return
      <4>4. QED
        BY <1>1, <1>2, <2>1, <3>1, <3>2, <4>2, <4>3, QuoteKeeps
    <3>3. CASE ~config.expand
      BY <2>2, <2>3, <3>3 DEF Compress
    <3>4. QED
      BY <3>2, <3>3
  <2>4. CASE PassOn(r, m.result, wire \ {m})
    BY <2>2, <2>4 DEF PassOn
  <2>5. CASE Reject(r, m.result, wire \ {m})
    BY <2>2, <2>5 DEF Reject, Failure
  <2>6. QED
    BY <1>1, <1>4, <2>3, <2>4, <2>5
<1>5. QED
  BY <1>3, <1>4

\* Every other step returns nothing that concerns the store.
LEMMA QuietBooks ==
  ASSUME RequestsInv, BooksInv, NEW r \in Requests,
         \/ \E q \in Query : Ask(r, q)
         \/ Cancel(r) \/ TakeAnswer(r) \/ HandleLocally(r) \/ Forward(r)
         \/ TakeCancel(r) \/ Timeout(r) \/ TakeForward(r) \/ TakeStop(r)
         \/ \E res \in Result : Respond(r, res)
  PROVE  BooksInv'
<1>1. UNCHANGED storeVars /\ UNCHANGED <<life, config>>
  BY DEF Ask, Cancel, TakeAnswer, HandleLocally, Forward, TakeCancel, Timeout, TakeForward,
         TakeStop, Respond
<1>2. RequestInv(r) /\ DOMAIN answer = Requests /\ DOMAIN asked = Requests
  BY DEF RequestsInv, ProxyVariables
<1>3. CASE \E q \in Query : Ask(r, q)
  <2>1. PICK q \in Query : Ask(r, q)
    BY <1>3
  <2>2. answer[r] = Nothing /\ answer' = answer /\ \A s \in Requests \ {r} : asked'[s] = asked[s]
    BY <1>2, <2>1 DEF Ask, RequestInv, BeforeHandling, Untouched
  <2>3. \A s \in Requests : Still(s)
    BY <2>2 DEF Still, Nothing
  <2>4. QED
    BY <1>1, <2>3, StillKeeps
<1>4. CASE \/ Cancel(r) \/ TakeAnswer(r) \/ TakeCancel(r) \/ TakeForward(r) \/ TakeStop(r)
           \/ \E res \in Result : Respond(r, res)
  <2>1. UNCHANGED <<asked, answer>>
    BY <1>4 DEF Cancel, TakeAnswer, TakeCancel, TakeForward, TakeStop, Respond
  <2>2. QED
    BY <1>1, <2>1, StillKeeps DEF Still
<1>5. ASSUME NEW a, NEW ms, Return(r, a, ms), a.kind \notin {"original", "compressed"},
             answer[r] = Nothing, UNCHANGED asked
      PROVE  BooksInv'
  <2>1. answer' = [answer EXCEPT ![r] = IF r \in aborted THEN @ ELSE a]
    BY <1>5 DEF Return
  <2>2. \A s \in Requests : Still(s)
    BY <1>2, <1>5, <2>1 DEF Still, Nothing
  <2>3. QED
    BY <1>1, <2>2, StillKeeps
<1>6. CASE HandleLocally(r) \/ Forward(r)
  <2>1. answer[r] = Nothing /\ UNCHANGED asked
    BY <1>2, <1>6 DEF HandleLocally, Forward, RequestInv, BeforeHandling, Untouched
  <2>2. CASE HandleLocally(r)
    <3>1. PICK a \in LocalAnswers(asked[r]) : Return(r, a, wire \ {Message("request", r)})
      BY <2>2 DEF HandleLocally
    <3>2. a.kind \in {"noTools", "ownList", "error"}
      BY DEF LocalAnswers, Failure
    <3>3. QED
      BY <1>5, <2>1, <3>1, <3>2
  <2>3. CASE Forward(r) /\ alive
    BY <1>1, <2>1, <2>3, StillKeeps DEF Forward, Still
  <2>4. CASE Forward(r) /\ ~alive
    <3>1. Return(r, Failure, wire \ {Message("request", r)})
      BY <2>4 DEF Forward
    <3>2. QED
      BY <1>5, <2>1, <3>1 DEF Failure
  <2>5. QED
    BY <1>6, <2>2, <2>3, <2>4
<1>7. CASE Timeout(r)
  <2>1. answer[r] = Nothing /\ UNCHANGED asked
    BY <1>2, <1>7 DEF Timeout, RequestInv, Awaited
  <2>2. Return(r, Failure, wire \cup StopMessages(r))
    BY <1>7 DEF Timeout
  <2>3. QED
    BY <1>5, <2>1, <2>2 DEF Failure
<1>8. QED
  BY <1>3, <1>4, <1>6, <1>7

LEMMA DieBooks ==
  ASSUME RequestsInv, BooksInv, Die
  PROVE  BooksInv'
<1>1. UNCHANGED storeVars /\ UNCHANGED <<life, config, asked>>
  BY DEF Die
<1>2. \A r \in Requests :
        answer'[r] = answer[r] \/ (answer[r] = Nothing /\ answer'[r] = Failure)
  BY DEF Die, RequestsInv, RequestInv, Awaited
<1>3. \A r \in Requests : Still(r)
  BY <1>1, <1>2 DEF Still, Nothing, Failure
<1>4. QED
  BY <1>1, <1>3, StillKeeps

-----------------------------------------------------------------------------

LEMMA BooksNext == RequestsInv /\ BooksInv /\ [ProxyNext]_proxyVars => BooksInv'
<1> SUFFICES ASSUME RequestsInv, BooksInv, [ProxyNext]_proxyVars PROVE BooksInv'
  OBVIOUS
<1>1. CASE UNCHANGED proxyVars
  BY <1>1, StillKeeps DEF proxyVars, sessionVars, Still
<1>2. CASE ProxyNext
  BY <1>2, ExpandKeeps, TakeResultBooks, QuietBooks, DieBooks, RestartBooks DEF ProxyNext
<1>3. QED
  BY <1>1, <1>2

LEMMA BooksInvariance == ProxySpec => []BooksInv
  BY BooksInit, BooksNext, RequestsInvariance, PTL DEF ProxySpec

\* Each put of the process that runs is quoted in exactly one answer, however
\* a cancellation races with the result that was put.
THEOREM ProxyPutsAreQuoted == ProxySpec => []PutsAreQuoted
<1>1. BooksInv => PutsAreQuoted
  <2> SUFFICES ASSUME BooksInv, config.expand
               PROVE  /\ \A i \in 1..Len(log) : \E r \in Quoting : answer[r].ref = log[i].ref
                      /\ Len(log) = Cardinality(Quoting)
    BY DEF PutsAreQuoted, Quoting, Quotes
  <2>1. NotesInv /\ CountInv
    BY DEF BooksInv
  <2>2. \A r : Note(r).ref = answer[r].ref
    BY DEF Note
  <2>3. QED
    BY <2>1, <2>2 DEF NotesInv, CountInv
<1>2. QED
  BY <1>1, BooksInvariance, PTL

\* When the clock reads no stamp in two lives of the process, what
\* leanprompt_expand returns is the whole content of the one result whose note
\* quoted the ref, in the life that is asked.
THEOREM ProxyExpandIsOriginal ==
  ASSUME \A m, n \in 0..MaxRestarts : m # n => ClockReads[m] \cap ClockReads[n] = {}
  PROVE  ProxySpec => []ExpandIsOriginal
<1>1. ASSUME RequestsInv, BooksInv PROVE ExpandIsOriginal
  <2> SUFFICES ASSUME NEW e \in Requests, answer[e].kind = "original"
               PROVE  \E r \in Requests :
                        /\ answer[r].kind = "compressed" /\ answer[r].ref = asked[e].ref
                        /\ answer[r].life = answer[e].life
                        /\ told[r].content = answer[e].content
                        /\ \A other \in Requests \ {r} :
                             answer[other].kind = "compressed"
                               => answer[other].ref # asked[e].ref
    BY DEF ExpandIsOriginal
  <2>1. NotesInv /\ OriginalsInv /\ life \in 0..MaxRestarts
    BY <1>1 DEF BooksInv
  <2>2. PICK r \in Requests :
          /\ Quotes(r) /\ answer[r].ref = asked[e].ref
          /\ answer[r].life = answer[e].life /\ answer[r].content = answer[e].content
    BY <2>1 DEF OriginalsInv
  <2>3. told[r].content = answer[r].content
    BY <1>1, <2>2 DEF RequestsInv, RequestInv, Answered, Quotes
  <2>4. ASSUME NEW s \in Requests \ {r}, Quotes(s) PROVE answer[s].ref # answer[r].ref
    <3>1. CASE answer[s].life = answer[r].life
      BY <2>1, <2>2, <2>4, <3>1 DEF NotesInv
    <3>2. CASE answer[s].life # answer[r].life
      <4>1. /\ answer[s].life \in 0..MaxRestarts /\ answer[r].life \in 0..MaxRestarts
            /\ answer[s].ref.stamp \in ClockReads[answer[s].life]
            /\ answer[r].ref.stamp \in ClockReads[answer[r].life]
        BY <2>1, <2>2, <2>4, ProxyAssumption DEF NotesInv, ProxyAssumption
      <4>2. QED
        BY <3>2, <4>1
    <3>3. QED
      BY <3>1, <3>2
  <2>5. QED
    BY <2>2, <2>3, <2>4 DEF Quotes
<1>2. QED
  BY <1>1, RequestsInvariance, BooksInvariance, PTL

\* In the proxy, too, the store stays within its caps.
THEOREM ProxyStoreStaysWithinCaps == ProxySpec => []WithinCaps
<1>1. BooksInv => WithinCaps
  BY DEF BooksInv, CapInv
<1>2. QED
  BY <1>1, BooksInvariance, PTL
=============================================================================
