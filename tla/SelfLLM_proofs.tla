--------------------------- MODULE SelfLLM_proofs ---------------------------
(***************************************************************************)
(* Proofs about SelfLLM, for any number of messages, whatever lists they   *)
(* hold and however deep.                                                  *)
(***************************************************************************)
EXTENDS SelfLLM, TLAPS

\* What a message resolved to, and that only settled messages differ from
\* what they were.
ClosedInv ==
  \A m \in Messages :
    /\ message[m] = "done" =>
         \A s \in SpansOf(m) : call[s] \in Through /\ result[s] = call[s]
    /\ message[m] = "fallback" =>
         /\ \E s \in SpansOf(m) : call[s] = "rejected"
         /\ \A s \in SpansOf(m) : result[s] = "original"

\* Promises wait for what they are made of, and nobody walks before the start.
OrderInv ==
  /\ outcome = "idle" => /\ \A m \in Messages : message[m] = "pending"
                         /\ at = <<>> /\ ret = "none"
  /\ outcome = "resolved" => \A m \in Messages : message[m] \in {"done", "fallback"}

\* The path s leads through the place p.
Below(p, s) == Len(p) <= Len(s) /\ \A k \in 1..Len(p) : s[k] = p[k]

\* The loops: what is before their place is through, what is after it is
\* untouched, what is within it is through once its call has returned and
\* untouched until then.
LoopInv ==
  mode.sending = "inTurn" =>
    \A s \in Spans :
      /\ Earlier(s, at) => call[s] \in Through
      /\ Earlier(at, s) => call[s] = "idle"
      /\ ret = "ok" /\ Below(at, s) => call[s] \in Through
      /\ ret = "none" /\ Below(at, s) /\ s # at => call[s] = "idle"

\* The outermost loop has closed the messages it has passed.
PassedInv ==
  mode.sending = "inTurn" =>
    /\ at # <<>> => \A m \in Messages : m < at[1] => message[m] = "done"
    /\ at = <<>> /\ ret = "ok" => \A m \in Messages : message[m] = "done"

SelfInv == SelfTypeOK /\ ClosedInv /\ OrderInv /\ LoopInv /\ PassedInv /\ InTurn

-----------------------------------------------------------------------------
(* Paths.                                                                    *)

LEMMA SpanShape ==
  /\ \A m \in Messages : \A s \in SpansOf(m) : s \in Spans /\ s[1] = m
  /\ \A m, o \in Messages : \A s \in SpansOf(m) : m # o => s \notin SpansOf(o)
  BY DEF SpansOf

LEMMA PathShape ==
  ASSUME NEW p \in Paths
  PROVE  /\ p \in Seq(Nat \ {0}) /\ Len(p) \in Nat
         /\ \A k \in 1..Len(p) : p[k] \in Nat \ {0}
  BY SelfAssumption

\* q is the n-th member of the list p.
Member(q, p, n) == Len(q) = Len(p) + 1 /\ q[Len(p) + 1] = n /\ \A k \in 1..Len(p) : q[k] = p[k]

LEMMA MemberIsThere ==
  ASSUME NEW p \in Lists, NEW n \in 1..Width[p]
  PROVE  Append(p, n) \in Paths /\ Member(Append(p, n), p, n)
<1>1. p \in Seq(Nat \ {0}) /\ Width[p] \in Nat
  BY PathShape, SelfAssumption DEF Paths
<1>2. n \in Nat \ {0} /\ Len(p) \in Nat
  BY <1>1
<1>3. Member(Append(p, n), p, n)
  BY <1>1, <1>2 DEF Member
<1>4. QED
  BY <1>3, SelfAssumption

LEMMA ListAround ==
  ASSUME NEW q \in Paths, q # <<>>
  PROVE  /\ Front(q) \in Lists /\ Last(q) \in 1..Width[Front(q)]
         /\ Member(q, Front(q), Last(q)) /\ Len(q) # 0
<1>1. q \in Seq(Nat \ {0}) /\ Len(q) \in Nat \ {0}
  BY PathShape
<1>2. Len(q) - 1 \in 0..(Len(q) - 1) /\ Front(q) = SubSeq(q, 1, Len(q) - 1) /\ Last(q) = q[Len(q)]
  BY <1>1 DEF Front, Last
<1>3. Front(q) \in Lists /\ q[(Len(q) - 1) + 1] <= Width[Front(q)]
  BY <1>2, SelfAssumption
<1>4. (Len(q) - 1) + 1 = Len(q) /\ q[Len(q)] \in Nat \ {0} /\ Width[Front(q)] \in Nat
  BY <1>1, <1>3, PathShape, SelfAssumption
<1>5. Last(q) \in 1..Width[Front(q)]
  BY <1>2, <1>3, <1>4
<1>6. Len(Front(q)) = Len(q) - 1 /\ \A k \in 1..(Len(q) - 1) : Front(q)[k] = q[k]
  <2>1. PICK n \in Nat : n = Len(q) - 1
    BY <1>1
  <2>2. Len(SubSeq(q, 1, n)) = n /\ \A k \in 1..n : SubSeq(q, 1, n)[k] = q[k]
    BY <1>1, <2>1
  <2>3. QED
    BY <1>2, <2>1, <2>2
<1>7. Member(q, Front(q), Last(q))
  BY <1>1, <1>2, <1>6 DEF Member
<1>8. QED
  BY <1>1, <1>3, <1>5, <1>7

\* A span that leads through a list leads through one of its members.
LEMMA SpanWithin ==
  ASSUME NEW p \in Lists, NEW s \in Spans, Below(p, s)
  PROVE  Len(p) < Len(s) /\ s[Len(p) + 1] \in 1..Width[p]
<1>1. /\ p \in Seq(Nat \ {0}) /\ s \in Seq(Nat \ {0}) /\ Len(p) \in Nat /\ Len(s) \in Nat
      /\ s \in Paths /\ p # s
  BY PathShape, SelfAssumption DEF Paths
<1>2. Len(p) < Len(s)
  <2> SUFFICES ASSUME Len(p) = Len(s) PROVE FALSE
    BY <1>1 DEF Below
  <2>1. \A k \in 1..Len(p) : s[k] = p[k]
    BY DEF Below
  <2>2. s = p
    BY <1>1, <2>1
  <2>3. QED
    BY <1>1, <2>2
<1>3. SubSeq(s, 1, Len(p)) = p
  <2>1. /\ SubSeq(s, 1, Len(p)) \in Seq(Nat \ {0}) /\ Len(SubSeq(s, 1, Len(p))) = Len(p)
        /\ \A k \in 1..Len(p) : SubSeq(s, 1, Len(p))[k] = s[k]
    BY <1>1, <1>2
  <2>2. \A k \in 1..Len(p) : s[k] = p[k]
    BY DEF Below
  <2>3. QED
    BY <1>1, <2>1, <2>2
<1>4. Len(p) \in 0..(Len(s) - 1)
  BY <1>1, <1>2
<1>5. s[Len(p) + 1] <= Width[p]
  BY <1>1, <1>3, <1>4, SelfAssumption
<1>6. Len(p) + 1 \in 1..Len(s) /\ Width[p] \in Nat
  BY <1>1, <1>4, SelfAssumption
<1>7. s[Len(p) + 1] \in Nat \ {0}
  BY <1>1, <1>6, PathShape
<1>8. QED
  BY <1>2, <1>5, <1>6, <1>7

\* What is before or after a list is so of its members; where else a span can
\* be that is before or after a member.
LEMMA MemberOrder ==
  ASSUME NEW p \in Paths, NEW q \in Paths, NEW n, Member(q, p, n), NEW s \in Paths
  PROVE  /\ Earlier(s, p) => Earlier(s, q)
         /\ Earlier(p, s) => Earlier(q, s)
         /\ Earlier(s, q) => Earlier(s, p) \/ (Len(p) < Len(s) /\ Below(p, s) /\ s[Len(p) + 1] < n)
         /\ Earlier(q, s) => Earlier(p, s) \/ (Len(p) < Len(s) /\ Below(p, s) /\ n < s[Len(p) + 1])
         /\ Below(p, s) /\ Len(p) < Len(s) /\ s[Len(p) + 1] < n => Earlier(s, q)
         /\ Below(p, s) /\ Len(p) < Len(s) /\ n < s[Len(p) + 1] => Earlier(q, s)
         /\ Below(q, s) <=> Below(p, s) /\ Len(p) < Len(s) /\ s[Len(p) + 1] = n
<1>1. /\ Len(p) \in Nat /\ Len(q) = Len(p) + 1 /\ Len(s) \in Nat
      /\ q[Len(p) + 1] = n /\ \A k \in 1..Len(p) : q[k] = p[k]
  BY PathShape DEF Member
<1>2. ASSUME Earlier(s, p) PROVE Earlier(s, q)
  <2>1. PICK k \in 1..Len(s) : k <= Len(p) /\ s[k] < p[k] /\ \A j \in 1..(k - 1) : s[j] = p[j]
    BY <1>2 DEF Earlier
  <2>2. k <= Len(q) /\ s[k] < q[k] /\ \A j \in 1..(k - 1) : s[j] = q[j]
    BY <1>1, <2>1
  <2>3. QED
    BY <2>2 DEF Earlier
<1>3. ASSUME Earlier(p, s) PROVE Earlier(q, s)
  <2>1. PICK k \in 1..Len(p) : k <= Len(s) /\ p[k] < s[k] /\ \A j \in 1..(k - 1) : p[j] = s[j]
    BY <1>3 DEF Earlier
  <2>2. k \in 1..Len(q) /\ k <= Len(s) /\ q[k] < s[k] /\ \A j \in 1..(k - 1) : q[j] = s[j]
    BY <1>1, <2>1
  <2>3. QED
    BY <2>2 DEF Earlier
<1>4. ASSUME Earlier(s, q), ~Earlier(s, p)
      PROVE  Len(p) < Len(s) /\ Below(p, s) /\ s[Len(p) + 1] < n
  <2>1. PICK k \in 1..Len(s) : k <= Len(q) /\ s[k] < q[k] /\ \A j \in 1..(k - 1) : s[j] = q[j]
    BY <1>4 DEF Earlier
  <2>2. k = Len(p) + 1
    <3> SUFFICES ASSUME k <= Len(p) PROVE FALSE
      BY <1>1, <2>1
    <3>1. s[k] < p[k] /\ \A j \in 1..(k - 1) : s[j] = p[j]
      BY <1>1, <2>1
    <3>2. QED
      BY <1>4, <3>1 DEF Earlier
  <2>3. \A j \in 1..Len(p) : s[j] = p[j]
    BY <1>1, <2>1, <2>2
  <2>4. QED
    BY <1>1, <2>1, <2>2, <2>3 DEF Below
<1>5. ASSUME Earlier(q, s), ~Earlier(p, s)
      PROVE  Len(p) < Len(s) /\ Below(p, s) /\ n < s[Len(p) + 1]
  <2>1. PICK k \in 1..Len(q) : k <= Len(s) /\ q[k] < s[k] /\ \A j \in 1..(k - 1) : q[j] = s[j]
    BY <1>5 DEF Earlier
  <2>2. k = Len(p) + 1
    <3> SUFFICES ASSUME k <= Len(p) PROVE FALSE
      BY <1>1, <2>1
    <3>1. k \in 1..Len(p) /\ p[k] < s[k] /\ \A j \in 1..(k - 1) : p[j] = s[j]
      BY <1>1, <2>1
    <3>2. QED
      BY <1>5, <2>1, <3>1 DEF Earlier
  <2>3. \A j \in 1..Len(p) : s[j] = p[j]
    BY <1>1, <2>1, <2>2
  <2>4. QED
    BY <1>1, <2>1, <2>2, <2>3 DEF Below
<1>6. ASSUME Below(p, s), Len(p) < Len(s), s[Len(p) + 1] < n PROVE Earlier(s, q)
  <2>1. Len(p) + 1 \in 1..Len(s) /\ Len(p) + 1 <= Len(q) /\ s[Len(p) + 1] < q[Len(p) + 1]
    BY <1>1, <1>6
  <2>2. \A j \in 1..((Len(p) + 1) - 1) : s[j] = q[j]
    BY <1>1, <1>6 DEF Below
  <2>3. QED
    BY <2>1, <2>2 DEF Earlier
<1>7. ASSUME Below(p, s), Len(p) < Len(s), n < s[Len(p) + 1] PROVE Earlier(q, s)
  <2>1. Len(p) + 1 \in 1..Len(q) /\ Len(p) + 1 <= Len(s) /\ q[Len(p) + 1] < s[Len(p) + 1]
    BY <1>1, <1>7
  <2>2. \A j \in 1..((Len(p) + 1) - 1) : q[j] = s[j]
    BY <1>1, <1>7 DEF Below
  <2>3. QED
    BY <2>1, <2>2 DEF Earlier
<1>8. Below(q, s) <=> Below(p, s) /\ Len(p) < Len(s) /\ s[Len(p) + 1] = n
  BY <1>1 DEF Below
<1>9. QED
  BY <1>2, <1>3, <1>4, <1>5, <1>6, <1>7, <1>8

\* Of two different places one is not before the other and after it at once.
LEMMA NotBoth ==
  ASSUME NEW s \in Paths, NEW t \in Paths, Earlier(s, t)
  PROVE  ~Earlier(t, s) /\ ~Below(t, s) /\ s # t
<1>1. /\ Len(s) \in Nat /\ Len(t) \in Nat
      /\ \A k \in 1..Len(s) : s[k] \in Nat
      /\ \A k \in 1..Len(t) : t[k] \in Nat
  BY PathShape
<1>2. PICK n \in 1..Len(s) : n <= Len(t) /\ s[n] < t[n] /\ \A k \in 1..(n - 1) : s[k] = t[k]
  BY DEF Earlier
<1>3. n \in 1..Len(t) /\ s[n] # t[n] /\ ~(t[n] < s[n])
  BY <1>1, <1>2
<1>4. ~Earlier(t, s)
  <2> SUFFICES ASSUME NEW m \in 1..Len(t), m <= Len(s), t[m] < s[m],
                      \A k \in 1..(m - 1) : t[k] = s[k]
               PROVE  FALSE
    BY DEF Earlier
  <2>1. m \in 1..Len(s) /\ t[m] # s[m]
    BY <1>1
  <2>2. CASE m < n
    BY <1>1, <1>2, <2>1, <2>2
  <2>3. CASE m = n
    BY <1>3, <2>3
  <2>4. CASE m > n
    BY <1>1, <1>3, <2>4
  <2>5. QED
    BY <1>1, <2>2, <2>3, <2>4
<1>5. ~Below(t, s) /\ s # t
  BY <1>3 DEF Below
<1>6. QED
  BY <1>4, <1>5

\* Nothing leads through a span but the span itself.
LEMMA SpanIsLeaf ==
  ASSUME NEW s \in Spans, NEW t \in Spans, Below(s, t)
  PROVE  s = t
<1>1. /\ s \in Seq(Nat \ {0}) /\ t \in Seq(Nat \ {0}) /\ Len(s) \in Nat /\ Len(t) \in Nat
      /\ s \in Paths /\ t \in Paths
  BY PathShape DEF Paths
<1>2. Len(s) <= Len(t) /\ \A k \in 1..Len(s) : t[k] = s[k]
  BY DEF Below
<1>3. CASE Len(s) < Len(t)
  <2>1. /\ SubSeq(t, 1, Len(s)) \in Seq(Nat \ {0}) /\ Len(SubSeq(t, 1, Len(s))) = Len(s)
        /\ \A k \in 1..Len(s) : SubSeq(t, 1, Len(s))[k] = t[k]
    BY <1>1, <1>3
  <2>2. SubSeq(t, 1, Len(s)) = s
    BY <1>1, <1>2, <2>1
  <2>3. Len(s) \in 0..(Len(t) - 1)
    BY <1>1, <1>3
  <2>4. s \in Lists
    BY <1>1, <2>2, <2>3, SelfAssumption
  <2>5. QED
    BY <2>4, SelfAssumption
<1>4. CASE Len(s) = Len(t)
  BY <1>1, <1>2, <1>4
<1>5. QED
  BY <1>1, <1>2, <1>3, <1>4

-----------------------------------------------------------------------------
(* The requests.                                                             *)

LEMMA SelfInitInv == SelfInit => SelfInv
<1> SUFFICES ASSUME SelfInit PROVE SelfInv
  OBVIOUS
<1>1. SelfTypeOK
  BY SelfAssumption DEF SelfInit, SelfTypeOK, Paths
<1>2. ClosedInv /\ OrderInv /\ InTurn
  BY DEF SelfInit, ClosedInv, OrderInv, InTurn
<1>3. LoopInv
  BY DEF SelfInit, LoopInv, Earlier
<1>4. PassedInv
  BY DEF SelfInit, PassedInv
<1>5. QED
  BY <1>1, <1>2, <1>3, <1>4 DEF SelfInv

LEMMA StartInv == ASSUME SelfInv, Start PROVE SelfInv'
<1>1. SelfTypeOK'
  BY DEF Start, walkVars, SelfInv, SelfTypeOK, InFlight, Settled
<1>2. ClosedInv' /\ OrderInv' /\ PassedInv'
  BY DEF Start, walkVars, SelfInv, ClosedInv, OrderInv, PassedInv
<1>3. LoopInv' /\ InTurn'
  <2>1. mode' = mode /\ at' = at /\ ret' = ret /\ (mode.sending = "inTurn" => call' = call)
    BY DEF Start, walkVars
  <2>2. QED
    BY <2>1 DEF SelfInv, LoopInv, InTurn, Earlier, Below
<1>4. QED
  BY <1>1, <1>2, <1>3 DEF SelfInv

\* No closed message depends on a request that is in flight, but for one that
\* fell back, which a rejection does not leave; nor does the place of a loop.
LEMMA SettleInv ==
  ASSUME SelfInv, NEW s \in Spans, call[s] \in InFlight,
         NEW v \in InFlight \cup Settled, Settle(s, v)
  PROVE  SelfInv'
<1>1. /\ \A t \in Spans : t # s => call'[t] = call[t]
      /\ call'[s] = v /\ call[s] \notin Through \cup {"idle"}
      /\ UNCHANGED <<mode, message, result, outcome, at, ret>>
  BY DEF Settle, walkVars, SelfInv, SelfTypeOK, InFlight, Through
<1>2. SelfTypeOK'
  BY DEF Settle, walkVars, SelfInv, SelfTypeOK
<1>3. ClosedInv'
  <2>1. \A m \in Messages : \A t \in SpansOf(m) :
          call[t] \in Through \cup {"rejected"} => call'[t] = call[t]
    BY <1>1, SpanShape DEF InFlight
  <2>2. QED
    BY <1>1, <2>1 DEF SelfInv, ClosedInv
<1>4. OrderInv' /\ PassedInv'
  BY <1>1 DEF SelfInv, OrderInv, PassedInv
<1>5. \A t \in Spans : /\ call[t] \in Through => call'[t] \in Through
                       /\ call[t] = "idle" <=> call'[t] = "idle"
  BY <1>1 DEF InFlight, Settled
<1>6. LoopInv'
  BY <1>1, <1>5 DEF SelfInv, LoopInv, Earlier, Below
<1>7. InTurn'
  BY <1>1, <1>5 DEF SelfInv, InTurn, Earlier
<1>8. QED
  BY <1>2, <1>3, <1>4, <1>6, <1>7 DEF SelfInv

-----------------------------------------------------------------------------
(* The promises.                                                             *)

\* Closing one message leaves the spans of the others alone.
LEMMA CloseClosed ==
  ASSUME SelfInv, NEW m \in Messages, NEW how \in {"done", "fallback"},
         NEW spans, Close(m, how, spans), call' = call,
         \A s \in SpansOf(m) : spans[s] \in {"summary", "original"},
         how = "done" => \A s \in SpansOf(m) : call[s] \in Through /\ spans[s] = call[s],
         how = "fallback" => /\ \E s \in SpansOf(m) : call[s] = "rejected"
                             /\ \A s \in SpansOf(m) : spans[s] = "original"
  PROVE  /\ ClosedInv'
         /\ message' \in [Messages -> {"pending", "done", "fallback", "rejected"}]
         /\ result' \in [Spans -> {"summary", "original"}]
         /\ message'[m] = how /\ \A o \in Messages : o # m => message'[o] = message[o]
<1>1. \A s \in SpansOf(m) : result'[s] = spans[s]
  BY SpanShape DEF Close
<1>2. \A o \in Messages : o # m => \A s \in SpansOf(o) : result'[s] = result[s]
  BY SpanShape DEF Close
<1>3. /\ message'[m] = how
      /\ \A o \in Messages : o # m => message'[o] = message[o]
      /\ message' \in [Messages -> {"pending", "done", "fallback", "rejected"}]
  BY DEF Close, SelfInv, SelfTypeOK
<1>4. result' \in [Spans -> {"summary", "original"}]
  BY DEF Close, SelfInv, SelfTypeOK
<1>5. ClosedInv'
  <2> SUFFICES ASSUME NEW o \in Messages
               PROVE  /\ message'[o] = "done" =>
                           \A s \in SpansOf(o) : call[s] \in Through /\ result'[s] = call[s]
                      /\ message'[o] = "fallback" =>
                           /\ \E s \in SpansOf(o) : call[s] = "rejected"
                           /\ \A s \in SpansOf(o) : result'[s] = "original"
    BY DEF ClosedInv
  <2>1. CASE o = m
    BY <1>1, <1>3, <2>1
  <2>2. CASE o # m
    BY <1>2, <1>3, <2>2 DEF SelfInv, ClosedInv
  <2>3. QED
    BY <2>1, <2>2
<1>6. QED
  BY <1>3, <1>4, <1>5

\* What the promises do is nothing to the ports.
LEMMA TogetherInv ==
  ASSUME SelfInv, mode.sending = "together", UNCHANGED <<mode, call, outcome, walkVars>>
  PROVE  LoopInv' /\ PassedInv' /\ InTurn'
<1>1. mode' = mode /\ mode.sending # "inTurn"
  OBVIOUS
<1>2. QED
  BY <1>1 DEF LoopInv, PassedInv, InTurn

LEMMA ResolveInv == ASSUME SelfInv, NEW m \in Messages, Resolve(m) PROVE SelfInv'
<1>1. /\ \A s \in SpansOf(m) : call[s] \in Through
      /\ Close(m, "done", call) /\ UNCHANGED <<mode, call, outcome, walkVars>>
      /\ mode.sending = "together" /\ outcome # "idle"
  BY DEF Resolve, Pending
<1>2. /\ ClosedInv' /\ message'[m] = "done"
      /\ message' \in [Messages -> {"pending", "done", "fallback", "rejected"}]
      /\ result' \in [Spans -> {"summary", "original"}]
      /\ \A o \in Messages : o # m => message'[o] = message[o]
  BY <1>1, CloseClosed DEF Through
<1>3. SelfTypeOK'
  BY <1>1, <1>2 DEF SelfInv, SelfTypeOK, walkVars
<1>4. OrderInv'
  BY <1>1, <1>2 DEF SelfInv, OrderInv
<1>5. QED
  BY <1>1, <1>2, <1>3, <1>4, TogetherInv DEF SelfInv

LEMMA RejectInv == ASSUME SelfInv, NEW m \in Messages, Reject(m) PROVE SelfInv'
<1>1. /\ \E s \in SpansOf(m) : call[s] = "rejected"
      /\ UNCHANGED <<mode, call, outcome, walkVars>>
      /\ mode.sending = "together" /\ outcome # "idle" /\ message[m] = "pending"
  BY DEF Reject, Pending
<1>2. ASSUME mode.onError # "throw" PROVE SelfInv'
  <2> DEFINE originals == [s \in Spans |-> "original"]
  <2>1. \A s \in SpansOf(m) : originals[s] = "original"
    BY SpanShape
  <2>2. Close(m, "fallback", originals)
    BY <1>2 DEF Reject, FallBack
  <2> HIDE DEF originals
  <2>3. /\ ClosedInv' /\ message'[m] = "fallback"
        /\ message' \in [Messages -> {"pending", "done", "fallback", "rejected"}]
        /\ result' \in [Spans -> {"summary", "original"}]
        /\ \A o \in Messages : o # m => message'[o] = message[o]
    BY <1>1, <2>1, <2>2, CloseClosed
  <2>4. SelfTypeOK'
    BY <1>1, <2>3 DEF SelfInv, SelfTypeOK, walkVars
  <2>5. OrderInv'
    BY <1>1, <2>3 DEF SelfInv, OrderInv
  <2>6. QED
    BY <1>1, <2>3, <2>4, <2>5, TogetherInv DEF SelfInv
<1>3. ASSUME mode.onError = "throw" PROVE SelfInv'
  <2>1. message' = [message EXCEPT ![m] = "rejected"] /\ UNCHANGED result
    BY <1>3 DEF Reject
  <2>2. SelfTypeOK'
    BY <1>1, <2>1 DEF SelfInv, SelfTypeOK, walkVars
  <2>3. ClosedInv'
    BY <1>1, <2>1 DEF SelfInv, SelfTypeOK, ClosedInv
  <2>4. OrderInv'
    BY <1>1, <2>1 DEF SelfInv, SelfTypeOK, OrderInv
  <2>5. QED
    BY <1>1, <2>2, <2>3, <2>4, TogetherInv DEF SelfInv
<1>4. QED
  BY <1>2, <1>3

LEMMA FinishInv == ASSUME SelfInv, Finish PROVE SelfInv'
<1>1. SelfTypeOK' /\ ClosedInv' /\ OrderInv'
  BY DEF Finish, walkVars, SelfInv, SelfTypeOK, ClosedInv, OrderInv
<1>2. mode' = mode /\ mode.sending # "inTurn"
  BY DEF Finish
<1>3. LoopInv' /\ PassedInv' /\ InTurn'
  BY <1>2 DEF LoopInv, PassedInv, InTurn
<1>4. QED
  BY <1>1, <1>3 DEF SelfInv

-----------------------------------------------------------------------------
(* The loops of the ports.                                                   *)

\* A step of the loops that sends nothing leaves what has been sent as it is.
LEMMA WalkInv ==
  ASSUME SelfInv, UNCHANGED <<mode, call>>
  PROVE  InTurn'
  BY DEF SelfInv, InTurn, Earlier

LEMMA EnterLoopInv == ASSUME SelfInv, EnterLoop PROVE SelfInv'
<1>1. /\ mode.sending = "inTurn" /\ outcome = "pending" /\ ret = "none" /\ at \in Lists
      /\ at \in Paths /\ UNCHANGED <<mode, call, message, result, outcome>>
  BY DEF EnterLoop, Walking, Paths
<1>2. Width[at] \in Nat
  BY <1>1, SelfAssumption
<1>3. /\ \A s \in Spans : Earlier(s, at) => call[s] \in Through
      /\ \A s \in Spans : Earlier(at, s) => call[s] = "idle"
      /\ \A s \in Spans : Below(at, s) => call[s] = "idle"
  BY <1>1, SelfAssumption DEF SelfInv, LoopInv
<1>4. ClosedInv' /\ OrderInv' /\ InTurn'
  BY <1>1, WalkInv DEF SelfInv, ClosedInv, OrderInv
<1>5. CASE Width[at] = 0
  <2>1. ret' = "ok" /\ at' = at
    BY <1>5 DEF EnterLoop
  <2>2. SelfTypeOK'
    BY <1>1, <2>1 DEF SelfInv, SelfTypeOK
  <2>3. \A s \in Spans : ~Below(at, s)
    BY <1>1, <1>5, SpanWithin
  <2>4. LoopInv'
    BY <1>1, <1>3, <2>1, <2>3 DEF LoopInv
  <2>5. PassedInv'
    BY <1>1, <1>5, <2>1 DEF SelfInv, PassedInv, Messages
  <2>6. QED
    BY <1>4, <2>2, <2>4, <2>5 DEF SelfInv
<1>6. CASE Width[at] # 0
  <2>1. at' = Append(at, 1) /\ ret' = ret /\ 1 \in 1..Width[at]
    BY <1>2, <1>6 DEF EnterLoop
  <2>2. at' \in Paths /\ Member(at', at, 1)
    BY <1>1, <2>1, MemberIsThere
  <2>3. SelfTypeOK'
    BY <1>1, <2>1, <2>2 DEF SelfInv, SelfTypeOK
  <2>4. ASSUME NEW s \in Spans
        PROVE  /\ Earlier(s, at') => Earlier(s, at)
               /\ Earlier(at', s) => Earlier(at, s) \/ Below(at, s)
               /\ Below(at', s) => Below(at, s)
    <3>1. s \in Paths
      BY DEF Paths
    <3>2. Below(at, s) => s[Len(at) + 1] \in Nat \ {0}
      BY <1>1, <1>2, SpanWithin
    <3> DEFINE q == at'
    <3>3. q \in Paths /\ Member(q, at, 1)
      BY <2>2
    <3> HIDE DEF q
    <3>4. /\ Earlier(s, q) => Earlier(s, at) \/ (Below(at, s) /\ s[Len(at) + 1] < 1)
          /\ Earlier(q, s) => Earlier(at, s) \/ Below(at, s)
          /\ Below(q, s) => Below(at, s)
      BY <1>1, <3>1, <3>3, MemberOrder
    <3>5. QED
      BY <3>2, <3>4 DEF q
  <2>5. LoopInv'
    BY <1>1, <1>3, <2>1, <2>4 DEF LoopInv
  <2>6. PassedInv'
    <3>1. Len(at) \in Nat /\ (at = <<>> => Len(at) = 0) /\ (at # <<>> => Len(at) # 0)
      BY <1>1, PathShape
    <3>2. at # <<>> => at'[1] = at[1]
      BY <2>2, <3>1 DEF Member
    <3>3. at = <<>> => at'[1] = 1
      BY <2>2, <3>1 DEF Member
    <3>4. Messages \subseteq Nat \ {0}
      BY SelfAssumption DEF Messages
    <3>5. ret' # "ok"
      BY <1>1, <2>1
    <3>6. at # <<>> => \A m \in Messages : m < at[1] => message[m] = "done"
      BY <1>1 DEF SelfInv, PassedInv
    <3>7. ASSUME NEW m \in Messages, m < at'[1] PROVE message'[m] = "done"
      BY <1>1, <3>2, <3>3, <3>4, <3>6, <3>7
    <3>8. QED
      BY <3>5, <3>7 DEF PassedInv
  <2>7. QED
    BY <1>4, <2>3, <2>5, <2>6 DEF SelfInv
<1>7. QED
  BY <1>5, <1>6

\* The only step that sends: all before the place of the loops is through, and
\* nothing after it has been sent.
LEMMA SummarizeTextInv == ASSUME SelfInv, SummarizeText PROVE SelfInv'
<1>1. /\ mode.sending = "inTurn" /\ outcome = "pending" /\ ret = "none"
      /\ at \in Spans /\ call[at] = "idle" /\ at \in Paths
      /\ UNCHANGED <<mode, message, result, outcome, at, ret>>
  BY DEF SummarizeText, Walking, Paths, walkVars
<1>2. /\ \A s \in Spans : s # at => call'[s] = call[s]
      /\ call'[at] \in {"original", "headers"}
  BY <1>1 DEF SummarizeText, SelfInv, SelfTypeOK
<1>3. SelfTypeOK'
  <2>1. call' \in [Spans -> {"idle"} \cup InFlight \cup Settled]
    BY <1>1 DEF SummarizeText, SelfInv, SelfTypeOK, InFlight, Settled
  <2>2. QED
    BY <1>1, <2>1 DEF SelfInv, SelfTypeOK
<1>4. ClosedInv'
  <2>1. \A m \in Messages : \A s \in SpansOf(m) : call[s] # "idle" => call'[s] = call[s]
    BY <1>1, <1>2, SpanShape
  <2>2. QED
    BY <1>1, <2>1 DEF SelfInv, ClosedInv, Through
<1>5. OrderInv' /\ PassedInv'
  BY <1>1 DEF SelfInv, OrderInv, PassedInv
<1>6. \A s \in Spans : s \in Paths
  BY DEF Paths
<1>7. LoopInv'
  <2> SUFFICES ASSUME NEW s \in Spans
               PROVE  /\ Earlier(s, at) => call'[s] \in Through
                      /\ Earlier(at, s) => call'[s] = "idle"
                      /\ Below(at, s) /\ s # at => call'[s] = "idle"
    BY <1>1 DEF LoopInv
  <2>1. Earlier(s, at) \/ Earlier(at, s) => s # at
    BY <1>1, <1>6, NotBoth
  <2>2. /\ Earlier(s, at) => call[s] \in Through
        /\ Earlier(at, s) => call[s] = "idle"
        /\ Below(at, s) /\ s # at => call[s] = "idle"
    BY <1>1 DEF SelfInv, LoopInv
  <2>3. QED
    BY <1>2, <2>1, <2>2
<1>8. InTurn'
  <2> SUFFICES ASSUME NEW s \in Spans, NEW t \in Spans, Earlier(s, t), call'[t] # "idle"
               PROVE  call'[s] \in Through
    BY DEF InTurn
  <2>1. CASE t = at
    <3>1. call[s] \in Through /\ s # at
      BY <1>1, <1>6, <2>1, NotBoth DEF SelfInv, LoopInv
    <3>2. QED
      BY <1>2, <3>1
  <2>2. CASE t # at
    <3>1. call[s] \in Through
      BY <1>1, <1>2, <2>2 DEF SelfInv, InTurn
    <3>2. s # at
      BY <1>1, <3>1 DEF Through
    <3>3. QED
      BY <1>2, <3>1, <3>2
  <2>3. QED
    BY <2>1, <2>2
<1>9. QED
  BY <1>3, <1>4, <1>5, <1>7, <1>8 DEF SelfInv

LEMMA ReturnSpanInv == ASSUME SelfInv, ReturnSpan PROVE SelfInv'
<1>1. /\ mode.sending = "inTurn" /\ outcome = "pending" /\ ret = "none"
      /\ at \in Spans /\ call[at] \in Settled /\ at \in Paths
      /\ UNCHANGED <<mode, call, message, result, outcome, at>>
      /\ ret' = IF call[at] = "rejected" THEN "error" ELSE "ok"
  BY DEF ReturnSpan, Walking, Paths
<1>2. SelfTypeOK'
  BY <1>1 DEF SelfInv, SelfTypeOK
<1>3. ClosedInv' /\ OrderInv' /\ InTurn'
  BY <1>1, WalkInv DEF SelfInv, ClosedInv, OrderInv
<1>4. LoopInv'
  <2>1. \A s \in Spans : Below(at, s) => s = at
    BY <1>1, SpanIsLeaf
  <2>2. ret' = "ok" => call[at] \in Through
    BY <1>1 DEF Settled, Through
  <2>3. ret' # "none"
    BY <1>1
  <2>4. QED
    BY <1>1, <2>1, <2>2, <2>3 DEF SelfInv, LoopInv
<1>5. PassedInv'
  <2>1. at # <<>>
    BY <1>1, SelfAssumption
  <2>2. QED
    BY <1>1, <2>1 DEF SelfInv, PassedInv
<1>6. QED
  BY <1>2, <1>3, <1>4, <1>5 DEF SelfInv

\* Where a span can be that is before, after or within the list around at.
LEMMA AroundOrder ==
  ASSUME at \in Paths, at # <<>>, NEW s \in Spans
  PROVE  /\ Front(at) \in Lists /\ Front(at) \in Paths /\ Last(at) \in 1..Width[Front(at)]
         /\ Earlier(s, Front(at)) => Earlier(s, at)
         /\ Earlier(Front(at), s) => Earlier(at, s)
         /\ Below(Front(at), s) =>
              /\ Len(Front(at)) < Len(s)
              /\ s[Len(Front(at)) + 1] \in 1..Width[Front(at)]
              /\ s[Len(Front(at)) + 1] < Last(at) => Earlier(s, at)
              /\ s[Len(Front(at)) + 1] = Last(at) => Below(at, s)
              /\ Last(at) < s[Len(Front(at)) + 1] => Earlier(at, s)
<1> DEFINE list == Front(at)
           n == Last(at)
<1>1. list \in Lists /\ n \in 1..Width[list] /\ Member(at, list, n)
  BY ListAround
<1>2. list \in Paths /\ s \in Paths
  BY <1>1 DEF Paths
<1> HIDE DEF list, n
<1>3. Below(list, s) => Len(list) < Len(s) /\ s[Len(list) + 1] \in 1..Width[list]
  BY <1>1, SpanWithin
<1>4. /\ Earlier(s, list) => Earlier(s, at)
      /\ Earlier(list, s) => Earlier(at, s)
      /\ Below(list, s) /\ Len(list) < Len(s) /\ s[Len(list) + 1] < n => Earlier(s, at)
      /\ Below(list, s) /\ Len(list) < Len(s) /\ n < s[Len(list) + 1] => Earlier(at, s)
      /\ Below(at, s) <=> Below(list, s) /\ Len(list) < Len(s) /\ s[Len(list) + 1] = n
  BY <1>1, <1>2, MemberOrder
<1>5. QED
  BY <1>1, <1>2, <1>3, <1>4 DEF list, n

LEMMA NextMemberLoop == ASSUME SelfInv, NextMember PROVE LoopInv' /\ at' \in Paths
<1>1. /\ mode.sending = "inTurn" /\ ret = "ok" /\ at # <<>> /\ at \in Paths
      /\ UNCHANGED <<mode, call, outcome>>
  BY DEF NextMember, Walking, SelfInv, SelfTypeOK
<1>2. /\ \A s \in Spans : Earlier(s, at) => call[s] \in Through
      /\ \A s \in Spans : Earlier(at, s) => call[s] = "idle"
      /\ \A s \in Spans : Below(at, s) => call[s] \in Through
  BY <1>1 DEF SelfInv, LoopInv
<1> DEFINE list == Front(at)
           n == Last(at)
<1>3. list \in Lists /\ list \in Paths /\ n \in 1..Width[list] /\ Width[list] \in Nat
  <2>1. list \in Lists /\ n \in 1..Width[list]
    BY <1>1, ListAround
  <2>2. QED
    BY <2>1, SelfAssumption DEF Paths
<1>4. /\ \A s \in Spans : Earlier(s, list) => Earlier(s, at)
      /\ \A s \in Spans : Earlier(list, s) => Earlier(at, s)
      /\ \A s \in Spans : Below(list, s) =>
           /\ Len(list) < Len(s) /\ s[Len(list) + 1] \in 1..Width[list]
           /\ s[Len(list) + 1] < n => Earlier(s, at)
           /\ s[Len(list) + 1] = n => Below(at, s)
           /\ n < s[Len(list) + 1] => Earlier(at, s)
  BY <1>1, AroundOrder
<1>5. /\ n < Width[list] => at' = Append(list, n + 1) /\ ret' = "none"
      /\ ~(n < Width[list]) => at' = list /\ ret' = ret
  BY DEF NextMember
<1> HIDE DEF list, n
<1>6. CASE n < Width[list]
  <2> DEFINE q == Append(list, n + 1)
  <2>1. n + 1 \in 1..Width[list]
    BY <1>3, <1>6
  <2>2. q \in Paths /\ Member(q, list, n + 1)
    BY <1>3, <2>1, MemberIsThere
  <2>3. at' = q /\ ret' = "none"
    BY <1>5, <1>6
  <2> HIDE DEF q
  <2>4. ASSUME NEW s \in Spans
        PROVE  /\ Earlier(s, q) => call[s] \in Through
               /\ Earlier(q, s) => call[s] = "idle"
               /\ Below(q, s) => call[s] = "idle"
    <3>1. s \in Paths
      BY DEF Paths
    <3>2. /\ Earlier(s, q) => Earlier(s, list) \/ (Below(list, s) /\ s[Len(list) + 1] < n + 1)
          /\ Earlier(q, s) => Earlier(list, s) \/ (Below(list, s) /\ n + 1 < s[Len(list) + 1])
          /\ Below(q, s) => Below(list, s) /\ s[Len(list) + 1] = n + 1
      BY <1>3, <2>2, <3>1, MemberOrder
    <3>3. Below(list, s) =>
            /\ s[Len(list) + 1] < n + 1 => Earlier(s, at) \/ Below(at, s)
            /\ n + 1 <= s[Len(list) + 1] => Earlier(at, s)
      <4>1. SUFFICES ASSUME Below(list, s)
                     PROVE  /\ s[Len(list) + 1] < n + 1 => Earlier(s, at) \/ Below(at, s)
                            /\ n + 1 <= s[Len(list) + 1] => Earlier(at, s)
        OBVIOUS
      <4>2. PICK x \in Nat : x = s[Len(list) + 1]
        BY <1>3, <1>4, <4>1
      <4>3. n \in Nat /\ (x < n + 1 => x < n \/ x = n) /\ (n + 1 <= x => n < x)
        BY <1>3, <4>2
      <4>4. QED
        BY <1>4, <4>1, <4>2, <4>3
    <3>4. Below(list, s) => s[Len(list) + 1] \in Nat /\ n \in Nat
      BY <1>3, <1>4
    <3>5. QED
      BY <1>2, <1>4, <3>2, <3>3, <3>4
  <2>5. QED
    BY <1>1, <2>2, <2>3, <2>4 DEF LoopInv
<1>7. CASE ~(n < Width[list])
  <2>1. at' = list /\ ret' = "ok" /\ n = Width[list]
    BY <1>1, <1>3, <1>5, <1>7
  <2>2. ASSUME NEW s \in Spans
        PROVE  /\ Earlier(s, list) => call[s] \in Through
               /\ Earlier(list, s) => call[s] = "idle"
               /\ Below(list, s) => call[s] \in Through
    <3>1. Below(list, s) => Earlier(s, at) \/ Below(at, s)
      BY <1>3, <1>4, <2>1
    <3>2. QED
      BY <1>2, <1>4, <3>1
  <2>3. QED
    BY <1>1, <1>3, <2>1, <2>2 DEF LoopInv
<1>8. QED
  BY <1>6, <1>7

LEMMA NextMemberInv == ASSUME SelfInv, NextMember PROVE SelfInv'
<1>1. /\ mode.sending = "inTurn" /\ outcome = "pending" /\ ret = "ok" /\ at # <<>> /\ at \in Paths
      /\ UNCHANGED <<mode, call, outcome>>
  BY DEF NextMember, Walking, SelfInv, SelfTypeOK
<1>2. LoopInv' /\ at' \in Paths /\ InTurn'
  BY <1>1, NextMemberLoop, WalkInv
<1> DEFINE list == Front(at)
           n == Last(at)
<1>3. list \in Lists /\ n \in 1..Width[list] /\ Width[list] \in Nat /\ Member(at, list, n)
  BY <1>1, ListAround, SelfAssumption
<1>4. /\ n < Width[list] => at' = Append(list, n + 1) /\ ret' = "none"
      /\ ~(n < Width[list]) => at' = list /\ ret' = "ok"
  BY <1>1 DEF NextMember
<1> HIDE DEF list, n
<1>5. Len(list) \in Nat /\ Len(at) = Len(list) + 1 /\ n \in Nat \ {0}
      /\ (Len(list) = 0 <=> list = <<>>)
  <2>1. list \in Paths
    BY <1>3 DEF Paths
  <2>2. QED
    BY <1>3, <2>1, PathShape DEF Member
<1>6. n < Width[list] => Member(at', list, n + 1)
  <2> SUFFICES ASSUME n < Width[list] PROVE Member(at', list, n + 1)
    OBVIOUS
  <2>1. n + 1 \in 1..Width[list]
    BY <1>3
  <2>2. Member(Append(list, n + 1), list, n + 1)
    BY <1>3, <2>1, MemberIsThere
  <2>3. QED
    BY <1>4, <2>2
<1>8. ret' \in {"none", "ok"}
  BY <1>4
<1>9. /\ \A m \in Messages : m < at[1] => message[m] = "done"
      /\ \A s \in Spans : Below(at, s) => call[s] \in Through
      /\ Messages = 1..Width[<<>>] /\ Width[<<>>] \in Nat
  BY <1>1, SelfAssumption DEF SelfInv, PassedInv, LoopInv, Messages
<1>10. CASE Len(at) = 1
  <2>1. list = <<>> /\ at[1] = n /\ n \in Messages
    <3>1. Len(list) = 0
      <4>1. PICK l \in Nat : l = Len(list)
        BY <1>5
      <4>2. l + 1 = 1
        BY <1>5, <1>10, <4>1
      <4>3. l = 0
        BY <4>2
      <4>4. QED
        BY <4>1, <4>3
    <3>2. list = <<>>
      BY <1>5, <3>1
    <3>3. at[1] = n
      BY <1>3, <3>1 DEF Member
    <3>4. n \in Messages
      BY <1>3, <1>9, <3>2
    <3>5. QED
      BY <3>2, <3>3, <3>4
  <2>2. Close(n, "done", call)
    BY <1>10, <2>1 DEF NextMember
  <2>3. \A s \in SpansOf(n) : Below(at, s)
    <3> SUFFICES ASSUME NEW s \in SpansOf(n) PROVE Below(at, s)
      OBVIOUS
    <3>1. s \in Spans /\ s[1] = n /\ s # <<>>
      BY <2>1, SpanShape, SelfAssumption
    <3>2. Len(s) \in Nat \ {0}
      BY <3>1, PathShape DEF Paths
    <3>3. QED
      BY <1>10, <2>1, <3>1, <3>2 DEF Below
  <2>4. \A s \in SpansOf(n) : call[s] \in Through
    BY <1>9, <2>1, <2>3, SpanShape
  <2>5. /\ ClosedInv' /\ message'[n] = "done"
        /\ message' \in [Messages -> {"pending", "done", "fallback", "rejected"}]
        /\ result' \in [Spans -> {"summary", "original"}]
        /\ \A o \in Messages : o # n => message'[o] = message[o]
    BY <1>1, <2>1, <2>2, <2>4, CloseClosed DEF Through
  <2>6. SelfTypeOK'
    BY <1>1, <1>2, <1>8, <2>5 DEF SelfInv, SelfTypeOK
  <2>7. OrderInv'
    BY <1>1 DEF OrderInv
  <2>8. \A m \in Messages : m < n \/ m = n => message'[m] = "done"
    BY <1>9, <2>1, <2>5
  <2>9. PassedInv'
    <3>1. CASE n < Width[list]
      <4>1. at'[1] = n + 1 /\ ret' # "ok"
        BY <1>4, <1>5, <1>6, <2>1, <3>1 DEF Member
      <4>2. \A m \in Messages : m < n + 1 => m < n \/ m = n
        BY <1>5, <1>9
      <4>3. QED
        BY <2>8, <4>1, <4>2 DEF PassedInv
    <3>2. CASE ~(n < Width[list])
      <4>1. at' = <<>> /\ n = Width[<<>>]
        BY <1>3, <1>4, <2>1, <3>2
      <4>2. \A m \in Messages : m < n \/ m = n
        BY <1>9, <4>1
      <4>3. QED
        BY <2>8, <4>1, <4>2 DEF PassedInv
    <3>3. QED
      BY <3>1, <3>2
  <2>10. QED
    BY <1>2, <2>5, <2>6, <2>7, <2>9 DEF SelfInv
<1>11. CASE Len(at) # 1
  <2>1. UNCHANGED <<message, result>>
    BY <1>11 DEF NextMember
  <2>2. SelfTypeOK' /\ ClosedInv' /\ OrderInv'
    BY <1>1, <1>2, <1>8, <2>1 DEF SelfInv, SelfTypeOK, ClosedInv, OrderInv
  <2>3. list # <<>> /\ Len(list) \in Nat \ {0}
    BY <1>5, <1>11
  <2>4. at'[1] = at[1] /\ at' # <<>>
    <3>1. at[1] = list[1]
      BY <1>3, <2>3 DEF Member
    <3>2. CASE n < Width[list]
      <4>1. Len(at') = Len(list) + 1 /\ at'[1] = list[1]
        BY <1>6, <2>3, <3>2 DEF Member
      <4>2. QED
        BY <2>3, <3>1, <4>1
    <3>3. CASE ~(n < Width[list])
      BY <1>4, <2>3, <3>1, <3>3
    <3>4. QED
      BY <3>2, <3>3
  <2>5. PassedInv'
    BY <1>1, <1>9, <2>1, <2>4 DEF PassedInv
  <2>6. QED
    BY <1>2, <2>2, <2>5 DEF SelfInv
<1>12. QED
  BY <1>10, <1>11

LEMMA LeaveLoopInv == ASSUME SelfInv, LeaveLoop PROVE SelfInv'
<1>1. /\ mode.sending = "inTurn" /\ outcome = "pending" /\ ret = "error" /\ at # <<>> /\ at \in Paths
      /\ at' = Front(at) /\ UNCHANGED <<mode, call, message, result, outcome, ret>>
  BY DEF LeaveLoop, Walking, SelfInv, SelfTypeOK
<1> DEFINE list == Front(at)
<1>2. list \in Lists /\ list \in Paths /\ Member(at, list, Last(at))
  BY <1>1, ListAround DEF Paths
<1>3. /\ \A s \in Spans : Earlier(s, list) => Earlier(s, at)
      /\ \A s \in Spans : Earlier(list, s) => Earlier(at, s)
  BY <1>1, AroundOrder
<1>4. at' = list
  BY <1>1
<1> HIDE DEF list
<1>5. SelfTypeOK' /\ ClosedInv' /\ OrderInv' /\ InTurn'
  BY <1>1, <1>2, <1>4, WalkInv DEF SelfInv, SelfTypeOK, ClosedInv, OrderInv
<1>6. LoopInv'
  <2>1. \A s \in Spans : /\ Earlier(s, list) => call[s] \in Through
                         /\ Earlier(list, s) => call[s] = "idle"
    BY <1>1, <1>3 DEF SelfInv, LoopInv
  <2>2. QED
    BY <1>1, <1>4, <2>1 DEF LoopInv
<1>7. PassedInv'
  <2>1. list # <<>> => list[1] = at[1]
    <3>1. list # <<>> => Len(list) \in Nat \ {0}
      BY <1>2, PathShape
    <3>2. QED
      BY <1>2, <3>1 DEF Member
  <2>2. QED
    BY <1>1, <1>4, <2>1 DEF SelfInv, PassedInv
<1>8. QED
  BY <1>5, <1>6, <1>7 DEF SelfInv

LEMMA ReturnInv == ASSUME SelfInv, Return PROVE SelfInv'
<1>1. /\ mode.sending = "inTurn" /\ at = <<>> /\ UNCHANGED <<mode, call, message, result, at, ret>>
      /\ \/ ret = "ok" /\ outcome' = "resolved"
         \/ ret = "error" /\ outcome' = "rejected"
  BY DEF Return, Walking, walkVars
<1>2. OrderInv'
  <2>1. ret = "ok" => \A m \in Messages : message[m] = "done"
    BY <1>1 DEF SelfInv, PassedInv
  <2>2. QED
    BY <1>1, <2>1 DEF OrderInv
<1>3. SelfTypeOK' /\ ClosedInv'
  BY <1>1 DEF SelfInv, SelfTypeOK, ClosedInv
<1>4. LoopInv' /\ PassedInv' /\ InTurn'
  BY <1>1 DEF SelfInv, LoopInv, PassedInv, InTurn
<1>5. QED
  BY <1>2, <1>3, <1>4 DEF SelfInv

-----------------------------------------------------------------------------

LEMMA SelfNextInv == SelfInv /\ [SelfNext]_selfVars => SelfInv'
<1> SUFFICES ASSUME SelfInv, [SelfNext]_selfVars PROVE SelfInv'
  OBVIOUS
<1>1. ASSUME NEW s \in Spans,
             Headers(s) \/ Body(s) \/ Refusal(s) \/ NetworkError(s) \/ Timer(s)
      PROVE  SelfInv'
  <2>1. /\ call[s] \in InFlight
        /\ \E v \in InFlight \cup Settled : Settle(s, v)
    BY <1>1 DEF Headers, Body, Refusal, NetworkError, Timer, TimerRunning, InFlight, Settled
  <2>2. QED
    BY <2>1, SettleInv
<1>2. ASSUME NEW m \in Messages, Resolve(m) \/ Reject(m) PROVE SelfInv'
  BY <1>2, ResolveInv, RejectInv
<1>3. CASE UNCHANGED selfVars
  <2>1. SelfTypeOK' /\ ClosedInv' /\ OrderInv'
    BY <1>3 DEF selfVars, walkVars, SelfInv, SelfTypeOK, ClosedInv, OrderInv
  <2>2. LoopInv' /\ PassedInv' /\ InTurn'
    BY <1>3 DEF selfVars, walkVars, SelfInv, LoopInv, PassedInv, InTurn
  <2>3. QED
    BY <2>1, <2>2 DEF SelfInv
<1>4. ASSUME EnterLoop \/ SummarizeText \/ ReturnSpan \/ NextMember \/ LeaveLoop \/ Return
      PROVE  SelfInv'
  BY <1>4, EnterLoopInv, SummarizeTextInv, ReturnSpanInv, NextMemberInv, LeaveLoopInv, ReturnInv
<1>5. QED
  BY <1>1, <1>2, <1>3, <1>4, StartInv, FinishInv DEF SelfNext

LEMMA SelfInvariance == SelfSpec => []SelfInv
  BY SelfInitInv, SelfNextInv, PTL DEF SelfSpec

\* The variables keep their types.
THEOREM SelfTypes == SelfSpec => []SelfTypeOK
<1>1. SelfInv => SelfTypeOK
  BY DEF SelfInv
<1>2. QED
  BY <1>1, SelfInvariance, PTL

\* When the request resolves, a message of which any span failed is the
\* original one, however many of its other spans were summarized; every other
\* message has exactly the summaries it was given.
THEOREM FailureIsWhole == SelfSpec => []FallbackIsWhole
<1>1. SelfInv => FallbackIsWhole
  <2> SUFFICES ASSUME SelfInv, outcome = "resolved", NEW m \in Messages
               PROVE  \/ /\ \E s \in SpansOf(m) : call[s] = "rejected"
                         /\ \A s \in SpansOf(m) : result[s] = "original"
                      \/ /\ ~\E s \in SpansOf(m) : call[s] = "rejected"
                         /\ \A s \in SpansOf(m) : result[s] = call[s]
    BY DEF FallbackIsWhole
  <2>1. message[m] \in {"done", "fallback"}
    BY DEF SelfInv, OrderInv
  <2>2. QED
    BY <2>1 DEF SelfInv, ClosedInv, Through
<1>2. QED
  BY <1>1, SelfInvariance, PTL

\* The loops of the ports, however deep they are nested: no span is sent before
\* all those before it in the text are through, nor after any of them has
\* failed, since each loop that is left by an error leaves the one around it.
THEOREM PortsSendInTurn == SelfSpec => []InTurn
<1>1. SelfInv => InTurn
  BY DEF SelfInv
<1>2. QED
  BY <1>1, SelfInvariance, PTL

\* Nothing that is still in flight writes to what the caller has been given.
THEOREM ResultIsFinal == SelfSpec => NoLateWrites
<1>1. SelfInv /\ [SelfNext]_selfVars => [outcome = "resolved" => result' = result]_selfVars
  <2> SUFFICES ASSUME SelfInv, [SelfNext]_selfVars, outcome = "resolved"
               PROVE  result' = result
    OBVIOUS
  <2>1. ASSUME NEW m \in Messages, Resolve(m) \/ Reject(m) PROVE FALSE
    BY <2>1 DEF Resolve, Reject, Pending, SelfInv, OrderInv
  <2>2. ~NextMember
    BY DEF NextMember, Walking
  <2>3. QED
    BY <2>1, <2>2 DEF SelfNext, Start, Headers, Body, Refusal, NetworkError, Timer, Settle,
                Finish, EnterLoop, SummarizeText, ReturnSpan, LeaveLoop, Return, selfVars
<1>2. QED
  BY <1>1, SelfInvariance, PTL DEF SelfSpec, NoLateWrites
=============================================================================
