---------------------------- MODULE ExpandStore ----------------------------
(***************************************************************************)
(* class ExpandStore (mcp-proxy/src/expand-store.ts): the originals of the *)
(* compressed tool results, in a Map that keeps insertion order, capped by *)
(* a number of entries and by a total of JSON characters.                  *)
(*                                                                         *)
(* A ref is `lp-<stamp><seq>`: the last digits of the clock, which wrap    *)
(* around, and a per-process counter, which does not.  The model keeps the *)
(* two parts and lets the clock read anything at every put.                *)
(***************************************************************************)
EXTENDS Integers, Sequences

CONSTANTS
  Content,      \* the contents that tool results can have
  Size,         \* Size[c] = JSON.stringify(c).length
  MaxEntries,   \* the entry cap (--expand-cache)
  MaxBytes,     \* the byte cap
  Stamps,       \* the values of Date.now().toString(36).slice(-4)
  MaxPuts       \* bound of the model: puts made by one process

ASSUME StoreAssumption ==
  /\ Size \in [Content -> Nat]
  /\ MaxEntries \in Nat
  /\ MaxBytes \in Nat
  /\ MaxPuts \in Nat

VARIABLES
  entries,   \* the Map: its entries in insertion order, oldest first
  bytes,     \* the running total of JSON characters
  counter,   \* puts made so far
  reply,     \* what the last call returned
  log,       \* history: the entry made by each put, in order
  recency    \* history: the refs of all puts, least recently used first

storeVars == <<entries, bytes, counter, reply, log, recency>>

Ref == [stamp : Stamps, seq : Nat]
Entry == [ref : Ref, content : Content]

Reply == [kind : {"none"}]
    \cup [kind : {"ref", "miss"}, ref : Ref]
    \cup [kind : {"hit"}, ref : Ref, content : Content]

StoreInit ==
  /\ entries = <<>>
  /\ bytes = 0
  /\ counter = 0
  /\ reply = [kind |-> "none"]
  /\ log = <<>>
  /\ recency = <<>>

Cache == INSTANCE ExpandCache WITH
  given   <- [i \in 1..Len(log) |-> log[i].content],
  recency <- [i \in 1..Len(recency) |-> recency[i].seq + 1],
  kept    <- Len(entries),
  answer  <- CASE reply.kind = "none" -> reply
               [] reply.kind = "ref"  -> [kind |-> "ref", id |-> reply.ref.seq + 1]
               [] reply.kind = "miss" -> [kind |-> "miss"]
               [] reply.kind = "hit"  -> [kind    |-> "hit",
                                          id      |-> reply.ref.seq + 1,
                                          content |-> reply.content]

-----------------------------------------------------------------------------

\* Map.set: a key that is present keeps its place, a new one goes last.
SetEntry(es, e) ==
  IF \E i \in 1..Len(es) : es[i].ref = e.ref
  THEN [i \in 1..Len(es) |-> IF es[i].ref = e.ref THEN e ELSE es[i]]
  ELSE Append(es, e)

\* (mutant) evict subtracts the sizes of the young end.
HeadSizeOfYoungest(es, k) ==
  LET sum[i \in 1..Len(es)] ==
        Size[es[Len(es) + 1 - i].content] + (IF i = 1 THEN 0 ELSE sum[i - 1])
  IN  IF k = 0 THEN 0 ELSE sum[k]

\* The total size of the k oldest entries.
HeadSize(es, k) ==
  LET sum[i \in 1..Len(es)] ==
        Size[es[i].content] + (IF i = 1 THEN 0 ELSE sum[i - 1])
  IN  IF k = 0 THEN 0 ELSE sum[k]

\* (mutant) A full store counts as over its cap.
OverCapWhenFull(es, total, k) ==
  \/ Len(es) - k >= MaxEntries
  \/ total - HeadSize(es, k) > MaxBytes

\* The test of evict's loop, after k entries have been deleted.
OverCap(es, total, k) ==
  \/ Len(es) - k > MaxEntries
  \/ total - HeadSize(es, k) > MaxBytes

\* evict deletes k entries from the old end: the loop goes on while a cap is
\* exceeded and there is an entry left.
Evicts(es, total, k) ==
  /\ \A j \in 0..(k - 1) : OverCap(es, total, j)
  /\ OverCap(es, total, k) => k = Len(es)

EvictFrom(es, total) ==
  \E k \in 0..Len(es) :
    /\ Evicts(es, total, k)
    /\ entries' = SubSeq(es, k + 1, Len(es))
    /\ bytes' = total - HeadSize(es, k)

\* (mutant) The counter is cut to its low digits, as the stamp is.
RefCut(stamp, n) == [stamp |-> stamp, seq |-> n % 2]

\* (mutant) The ref is the counter alone.
RefUnstamped(stamp, n) == [stamp |-> CHOOSE s \in Stamps : TRUE, seq |-> n]

\* padStart never cuts: the counter may outgrow its four digits.
RefOf(stamp, n) == [stamp |-> stamp, seq |-> n]

Put(c, stamp) ==
  LET e == [ref |-> RefOf(stamp, counter), content |-> c]
  IN  /\ counter < MaxPuts
      /\ counter' = counter + 1
      /\ EvictFrom(SetEntry(entries, e), bytes + Size[c])
      /\ reply' = [kind |-> "ref", ref |-> e.ref]
      /\ log' = Append(log, e)
      /\ recency' = Append(recency, e.ref)

PlaceOf(s, r) == CHOOSE i \in 1..Len(s) : s[i] = r

\* (mutant) A hit leaves the entry where it is.
NoTouch(es, i) == es

\* A hit is deleted and set again, which moves it to the young end.
Touch(es, i) == Cache!MoveToEnd(es, i)

GetHit(r) ==
  \E i \in 1..Len(entries) :
    /\ entries[i].ref = r
    /\ entries' = Touch(entries, i)
    /\ reply' = [kind |-> "hit", ref |-> r, content |-> entries[i].content]
    /\ recency' = Cache!MoveToEnd(recency, PlaceOf(recency, r))
    /\ UNCHANGED <<bytes, counter, log>>

\* (mutant) get does not look whether there is an entry.
GetMissUnchecked(r) ==
  /\ \A i \in 1..Len(entries) : entries[i].ref # r
  /\ reply' = [kind |-> "hit", ref |-> r]
  /\ UNCHANGED <<entries, bytes, counter, log, recency>>

GetMiss(r) ==
  /\ \A i \in 1..Len(entries) : entries[i].ref # r
  /\ reply' = [kind |-> "miss", ref |-> r]
  /\ UNCHANGED <<entries, bytes, counter, log, recency>>

Get(r) == GetHit(r) \/ GetMiss(r)

\* A caller may ask for any ref it was ever given, or make one up.
Askable == [stamp : Stamps, seq : 0..MaxPuts]

StoreNext ==
  \/ \E c \in Content, stamp \in Stamps : Put(c, stamp)
  \/ \E r \in Askable : Get(r)

StoreSpec == StoreInit /\ [][StoreNext]_storeVars

-----------------------------------------------------------------------------

TypeOK ==
  /\ entries \in Seq(Entry)
  /\ counter \in 0..MaxPuts
  /\ reply \in Reply
  /\ log \in Seq(Entry)
  /\ recency \in Seq(Ref)

\* A fetch that succeeds returns what was put under that ref, and no other
\* put was ever given the same ref -- although the stamp repeats.
Truthful ==
  reply.kind = "hit" =>
    /\ \E i \in 1..Len(log) : log[i].ref = reply.ref
    /\ \A i \in 1..Len(log) :
         log[i].ref = reply.ref => log[i].content = reply.content

\* The running total, adjusted by every put and every eviction, is the size of
\* what the Map holds: get's delete-and-set does not disturb it.
ByteAccounting == bytes = HeadSize(entries, Len(entries))

\* Between calls the store is within both caps, by what it really holds.
WithinCaps == Len(entries) <= MaxEntries /\ ByteAccounting /\ bytes <= MaxBytes

\* Eviction stops as soon as it may: had a put spared the last entry it
\* dropped, the store would be over one of its caps.
KeepsWhatFits ==
  [][counter' # counter =>
       LET all     == Append(entries, log'[Len(log')])
           dropped == Len(all) - Len(entries')
           spared  == SubSeq(all, dropped, Len(all))
       IN  dropped > 0 => \/ Len(spared) > MaxEntries
                          \/ HeadSize(spared, Len(spared)) > MaxBytes]_storeVars

\* The store implements the promise: least recently used first, gone stays
\* gone, and never another put's content.
ImplementsCache == Cache!CacheSpec
=============================================================================
