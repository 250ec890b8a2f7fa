------------------------------ MODULE Induction ------------------------------
(* Induction over the naturals in the two forms that the other proofs use:   *)
(* a set of numbers that is closed under successor, and a function that is   *)
(* defined from its value at the number before.  Both are stated about sets  *)
(* and functions, so that they can be cited without an operator to supply.   *)
(* They show what Select computes.                                           *)
EXTENDS Selection, WellFoundedInduction, TLAPS

\* A set that holds 0, and the successor of whatever it holds, holds Nat.
LEMMA NatSetInduction ==
  ASSUME NEW T \in SUBSET Nat, 0 \in T, \A n \in T : n + 1 \in T
  PROVE  \A n \in Nat : n \in T
<1> SUFFICES ASSUME Nat \ T # {} PROVE FALSE
  OBVIOUS
<1>1. PICK x \in Nat \ T : \A y \in Nat \ T : <<y, x>> \notin OpToRel(<, Nat)
  BY NatLessThanWellFounded, WFMin, Zenon
<1>2. x # 0 /\ x - 1 \in Nat
  OBVIOUS
<1>3. <<x - 1, x>> \in OpToRel(<, Nat)
  BY <1>2 DEF OpToRel
<1>4. x - 1 \in T
  BY <1>1, <1>2, <1>3
<1>5. QED
  BY <1>2, <1>4

\* The same up to a bound.
LEMMA InductionUpTo ==
  ASSUME NEW n \in Nat, NEW T, 0 \in T, \A i \in 1..n : i - 1 \in T => i \in T
  PROVE  \A i \in 0..n : i \in T
<1> DEFINE U == {i \in Nat : i <= n => i \in T}
<1>1. ASSUME NEW i \in U PROVE i + 1 \in U
  <2>1. i \in Nat /\ (i + 1) - 1 = i /\ (i <= n => i \in T)
    OBVIOUS
  <2>2. i + 1 <= n => i + 1 \in 1..n /\ i <= n
    BY <2>1
  <2>3. i + 1 <= n => i + 1 \in T
    BY <2>1, <2>2
  <2>4. QED
    BY <2>1, <2>3
<1>2. 0 \in U /\ U \in SUBSET Nat
  OBVIOUS
<1> HIDE DEF U
<1>3. \A i \in Nat : i \in U
  BY <1>1, <1>2, NatSetInduction
<1>4. QED
  BY <1>3 DEF U

\* A non-empty set of naturals has a least member.
LEMMA LeastMember ==
  ASSUME NEW T \in SUBSET Nat, T # {}
  PROVE  \E x \in T : \A y \in T : x <= y
<1>1. PICK x \in T : \A y \in T : <<y, x>> \notin OpToRel(<, Nat)
  BY NatLessThanWellFounded, WFMin, Zenon
<1>2. \A y \in T : ~(y < x)
  BY <1>1 DEF OpToRel
<1>3. QED
  BY <1>2

\* What is defined at 0, and at each number from the value before, is defined.
Follows(f, base, n, step) == f[0] = base /\ \A i \in 1..n : f[i] = step[i][f[i - 1]]

LEMMA RecursionExists ==
  ASSUME NEW V, NEW base \in V, NEW n \in Nat, NEW step \in [1..n -> [V -> V]]
  PROVE  \E f \in [0..n -> V] : Follows(f, base, n, step)
<1> DEFINE Good(f, m) == f[0] = base /\ \A i \in 1..m : f[i] = step[i][f[i - 1]]
           T == {m \in Nat : m <= n => \E f \in [0..m -> V] : Good(f, m)}
<1>1. 0 \in T
  <2> DEFINE f == [i \in 0..0 |-> base]
  <2>1. f \in [0..0 -> V] /\ Good(f, 0)
    OBVIOUS
  <2> HIDE DEF f, Good
  <2>2. QED
    BY <2>1
<1>2. ASSUME NEW m \in T PROVE m + 1 \in T
  <2> HIDE DEF Good
  <2>0. m \in Nat /\ (m <= n => \E f \in [0..m -> V] : Good(f, m))
    OBVIOUS
  <2> SUFFICES ASSUME m + 1 <= n PROVE \E f \in [0..(m + 1) -> V] : Good(f, m + 1)
    BY <2>0
  <2>1. PICK f \in [0..m -> V] : Good(f, m)
    BY <2>0
  <2> USE DEF Good
  <2> DEFINE g == [i \in 0..(m + 1) |-> IF i = m + 1 THEN step[m + 1][f[m]] ELSE f[i]]
  <2>2. m + 1 \in 1..n /\ m \in 0..m /\ m \in Nat
    BY <2>0
  <2>3. g \in [0..(m + 1) -> V]
    BY <2>2
  <2>4. g[0] = base
    BY <2>1, <2>2
  <2>5. ASSUME NEW i \in 1..(m + 1) PROVE g[i] = step[i][g[i - 1]]
    <3>1. g[i - 1] = f[i - 1]
      BY <2>2
    <3>2. CASE i = m + 1
      BY <2>2, <3>1, <3>2
    <3>3. CASE i \in 1..m
      <4>1. f[i] = step[i][f[i - 1]]
        BY <2>1, <3>3
      <4>2. g[i] = f[i]
        BY <2>2, <3>3
      <4>3. QED
        BY <3>1, <4>1, <4>2
    <3>4. QED
      BY <2>2, <3>2, <3>3
  <2>6. Good(g, m + 1)
    BY <2>4, <2>5
  <2> HIDE DEF g, Good
  <2>7. QED
    BY <2>3, <2>6
<1>3. T \in SUBSET Nat
  OBVIOUS
<1> HIDE DEF T
<1>4. n \in T
  BY <1>1, <1>2, <1>3, NatSetInduction
<1>5. QED
  BY <1>4 DEF T, Follows

-----------------------------------------------------------------------------
(* Select: the elements at some places, in their order.                      *)

\* Its recursive definition, as a function of the length that has been read.
Selects(upTo, s, places) ==
  /\ upTo[0] = <<>> /\ Select(s, places) = upTo[Len(s)]
  /\ \A i \in 1..Len(s) :
       upTo[i] = IF i \in places THEN Append(upTo[i - 1], s[i]) ELSE upTo[i - 1]

LEMMA SelectRec ==
  ASSUME NEW S, NEW s \in Seq(S), NEW places
  PROVE  \E upTo \in [0..Len(s) -> Seq(S)] : Selects(upTo, s, places)
<1> DEFINE step == [i \in 1..Len(s) |-> [v \in Seq(S) |->
                      IF i \in places THEN Append(v, s[i]) ELSE v]]
           Body(f) == [i \in 0..Len(s) |->
                         IF i = 0 THEN <<>>
                         ELSE IF i \in places THEN Append(f[i - 1], s[i]) ELSE f[i - 1]]
           upTo == CHOOSE f : f = Body(f)
<1>1. step \in [1..Len(s) -> [Seq(S) -> Seq(S)]] /\ <<>> \in Seq(S) /\ Len(s) \in Nat
  OBVIOUS
<1> HIDE DEF step
<1>2. PICK g \in [0..Len(s) -> Seq(S)] : Follows(g, <<>>, Len(s), step)
  BY <1>1, RecursionExists
<1> USE DEF step
<1>3. \A i \in 1..Len(s) : g[i] = IF i \in places THEN Append(g[i - 1], s[i]) ELSE g[i - 1]
  <2> SUFFICES ASSUME NEW i \in 1..Len(s)
               PROVE  g[i] = IF i \in places THEN Append(g[i - 1], s[i]) ELSE g[i - 1]
    OBVIOUS
  <2>1. g[i - 1] \in Seq(S)
    BY <1>1
  <2>2. QED
    BY <1>2, <2>1 DEF Follows
<1>4. g = Body(g)
  <2>1. \A i \in 0..Len(s) : Body(g)[i] = g[i]
    <3> SUFFICES ASSUME NEW i \in 0..Len(s) PROVE Body(g)[i] = g[i]
      OBVIOUS
    <3>1. i = 0 \/ i \in 1..Len(s)
      BY <1>1
    <3>2. QED
      BY <1>2, <1>3, <3>1 DEF Follows
  <2>2. DOMAIN Body(g) = 0..Len(s) /\ Body(g) = [i \in 0..Len(s) |-> Body(g)[i]]
    OBVIOUS
  <2> HIDE DEF Body
  <2>3. QED
    BY <2>1, <2>2
<1> HIDE DEF Body
<1>5. upTo = Body(upTo)
  BY <1>4
<1> HIDE DEF upTo
<1> USE DEF Body
<1>6. /\ upTo[0] = <<>>
      /\ \A i \in 1..Len(s) :
           upTo[i] = IF i \in places THEN Append(upTo[i - 1], s[i]) ELSE upTo[i - 1]
  <2>1. upTo[0] = Body(upTo)[0] /\ \A i \in 1..Len(s) : upTo[i] = Body(upTo)[i]
    BY <1>5
  <2>2. 0 \in 0..Len(s) /\ \A i \in 1..Len(s) : i \in 0..Len(s) /\ i # 0
    BY <1>1
  <2>3. \A i \in 0..Len(s) :
          Body(upTo)[i] = IF i = 0 THEN <<>>
                          ELSE IF i \in places THEN Append(upTo[i - 1], s[i]) ELSE upTo[i - 1]
    OBVIOUS
  <2> HIDE DEF Body
  <2>4. QED
    BY <2>1, <2>2, <2>3
<1>7. Select(s, places) = upTo[Len(s)]
  BY DEF Select, upTo
<1>8. \A i \in 0..Len(s) : upTo[i] \in Seq(S)
  <2> DEFINE T == {i \in 0..Len(s) : upTo[i] \in Seq(S)}
  <2> HIDE DEF Body
  <2>1. 0 \in T
    <3>1. 0 \in 0..Len(s) /\ upTo[0] \in Seq(S)
      BY <1>1, <1>6
    <3>2. QED
      BY <3>1
  <2>2. ASSUME NEW i \in 1..Len(s), i - 1 \in T PROVE i \in T
    <3>1. upTo[i - 1] \in Seq(S) /\ i \in 0..Len(s)
      BY <1>1, <2>2
    <3>2. upTo[i] = IF i \in places THEN Append(upTo[i - 1], s[i]) ELSE upTo[i - 1]
      BY <1>6
    <3>3. upTo[i] \in Seq(S)
      BY <3>1, <3>2
    <3>4. QED
      BY <3>1, <3>3
  <2> HIDE DEF T
  <2>3. \A i \in 0..Len(s) : i \in T
    BY <1>1, <2>1, <2>2, InductionUpTo
  <2>4. QED
    BY <2>3 DEF T
<1>9. upTo \in [0..Len(s) -> Seq(S)]
  BY <1>5, <1>8
<1>10. QED
  BY <1>6, <1>7, <1>9 DEF Selects

\* What is selected comes from the selected places, in their order, and nothing
\* that is selected is missing.
Picks(place, s, places) ==
  LET t == Select(s, places)
  IN  /\ \A k \in 1..Len(t) : place[k] \in places /\ t[k] = s[place[k]]
      /\ \A k, n \in 1..Len(t) : k < n => place[k] < place[n]
      /\ \A i \in 1..Len(s) : i \in places => \E k \in 1..Len(t) : place[k] = i

LEMMA SelectShape ==
  ASSUME NEW S, NEW s \in Seq(S), NEW places
  PROVE  /\ Select(s, places) \in Seq(S)
         /\ \E place \in [1..Len(Select(s, places)) -> 1..Len(s)] : Picks(place, s, places)
<1>0. PICK upTo \in [0..Len(s) -> Seq(S)] : Selects(upTo, s, places)
  BY SelectRec
<1>1. /\ upTo[0] = <<>> /\ Select(s, places) = upTo[Len(s)]
      /\ \A i \in 1..Len(s) :
           upTo[i] = IF i \in places THEN Append(upTo[i - 1], s[i]) ELSE upTo[i - 1]
  BY <1>0 DEF Selects
<1> DEFINE Places(p, t, m) ==
             /\ p \in [1..Len(t) -> 1..m]
             /\ \A k \in 1..Len(t) : p[k] \in places /\ t[k] = s[p[k]]
             /\ \A k, n \in 1..Len(t) : k < n => p[k] < p[n]
             /\ \A i \in 1..m : i \in places => \E k \in 1..Len(t) : p[k] = i
           T == {m \in Nat : m <= Len(s) => \E p : Places(p, upTo[m], m)}
<1>2. Len(s) \in Nat
  OBVIOUS
<1>3. 0 \in T
  <2> DEFINE p == [k \in 1..0 |-> 0]
  <2>1. Len(upTo[0]) = 0
    BY <1>1
  <2>2. p \in [1..0 -> 1..0]
    OBVIOUS
  <2>3. Places(p, upTo[0], 0)
    BY <2>1, <2>2
  <2> HIDE DEF p, Places
  <2>4. QED
    BY <2>3
<1>4. ASSUME NEW m \in T PROVE m + 1 \in T
  <2> HIDE DEF Places
  <2>0. m \in Nat /\ (m <= Len(s) => \E p : Places(p, upTo[m], m))
    OBVIOUS
  <2> SUFFICES ASSUME m + 1 <= Len(s) PROVE \E p : Places(p, upTo[m + 1], m + 1)
    BY <2>0
  <2>1. PICK p : Places(p, upTo[m], m)
    BY <1>2, <2>0
  <2>2. /\ m + 1 \in 1..Len(s) /\ (m + 1) - 1 = m /\ m \in 0..Len(s)
    BY <1>2, <2>0
  <2>3. /\ upTo[m] \in Seq(S) /\ s[m + 1] \in S
        /\ upTo[m + 1] = IF m + 1 \in places THEN Append(upTo[m], s[m + 1]) ELSE upTo[m]
    <3>1. upTo[m] \in Seq(S)
      BY <2>2
    <3>2. s[m + 1] \in S
      BY <2>2
    <3>3. PICK i : i = m + 1
      OBVIOUS
    <3>4. i \in 1..Len(s) /\ i - 1 = m
      BY <2>2, <3>3
    <3>5. upTo[i] = IF i \in places THEN Append(upTo[i - 1], s[i]) ELSE upTo[i - 1]
      BY <1>1, <3>4
    <3>6. QED
      BY <3>1, <3>2, <3>3, <3>4, <3>5
  <2> DEFINE t == upTo[m]
             q == [k \in 1..(Len(t) + 1) |-> IF k = Len(t) + 1 THEN m + 1 ELSE p[k]]
  <2>4. CASE m + 1 \notin places
    <3>1. /\ p \in [1..Len(upTo[m]) -> 1..m] /\ 1..m \subseteq 1..(m + 1)
          /\ \A i \in 1..(m + 1) : i \in places => i \in 1..m
      BY <2>0, <2>1, <2>4 DEF Places
    <3>2. p \in [1..Len(upTo[m]) -> 1..(m + 1)]
      BY <3>1
    <3>3. Places(p, upTo[m], m + 1)
      BY <2>1, <3>1, <3>2 DEF Places
    <3>4. QED
      BY <2>3, <2>4, <3>3
  <2>5. CASE m + 1 \in places
    <3>1. /\ Len(t) \in Nat /\ upTo[m + 1] = Append(t, s[m + 1])
          /\ Len(upTo[m + 1]) = Len(t) + 1
          /\ \A k \in 1..Len(t) : upTo[m + 1][k] = t[k]
          /\ upTo[m + 1][Len(t) + 1] = s[m + 1]
      BY <2>3, <2>5
    <3> HIDE DEF t
    <3>2. /\ p \in [1..Len(t) -> 1..m]
          /\ \A k \in 1..Len(t) : p[k] \in places /\ t[k] = s[p[k]]
          /\ \A k, n \in 1..Len(t) : k < n => p[k] < p[n]
          /\ \A i \in 1..m : i \in places => \E k \in 1..Len(t) : p[k] = i
      BY <2>1 DEF Places, t
    <3>3. /\ q[Len(t) + 1] = m + 1 /\ \A k \in 1..Len(t) : q[k] = p[k]
          /\ DOMAIN q = 1..(Len(t) + 1)
      BY <3>1
    <3>4. q \in [1..(Len(t) + 1) -> 1..(m + 1)]
      BY <2>0, <3>1, <3>2
    <3> HIDE DEF q
    <3>5. \A k \in 1..(Len(t) + 1) : q[k] \in places /\ upTo[m + 1][k] = s[q[k]]
      BY <2>5, <3>1, <3>2, <3>3
    <3>6. \A k, n \in 1..(Len(t) + 1) : k < n => q[k] < q[n]
      <4> SUFFICES ASSUME NEW k \in 1..(Len(t) + 1), NEW n \in 1..(Len(t) + 1), k < n
                   PROVE  q[k] < q[n]
        OBVIOUS
      <4>0. k \in 1..Len(t)
        BY <3>1
      <4>1. p[k] \in 1..m /\ q[k] = p[k]
        BY <3>2, <3>3, <4>0
      <4>2. CASE n = Len(t) + 1
        BY <2>0, <3>3, <4>1, <4>2
      <4>3. CASE n \in 1..Len(t)
        BY <3>2, <3>3, <4>0, <4>3
      <4>4. QED
        BY <3>1, <4>2, <4>3
    <3>7. \A i \in 1..(m + 1) : i \in places => \E k \in 1..(Len(t) + 1) : q[k] = i
      <4> SUFFICES ASSUME NEW i \in 1..(m + 1), i \in places
                   PROVE  \E k \in 1..(Len(t) + 1) : q[k] = i
        OBVIOUS
      <4>1. CASE i = m + 1
        BY <3>1, <3>3, <4>1
      <4>2. CASE i \in 1..m
        <5>1. PICK k \in 1..Len(t) : p[k] = i
          BY <3>2, <4>2
        <5>2. QED
          BY <3>1, <3>3, <5>1
      <4>3. QED
        BY <2>0, <4>1, <4>2
    <3>8. Places(q, upTo[m + 1], m + 1)
      BY <3>1, <3>4, <3>5, <3>6, <3>7 DEF Places
    <3>9. QED
      BY <3>8
  <2>6. QED
    BY <2>4, <2>5
<1>5. T \in SUBSET Nat
  OBVIOUS
<1> HIDE DEF T
<1>6. Len(s) \in T
  BY <1>2, <1>3, <1>4, <1>5, NatSetInduction
<1>7. PICK p : Places(p, upTo[Len(s)], Len(s))
  <2> HIDE DEF Places
  <2>1. Len(s) <= Len(s)
    BY <1>2
  <2>2. QED
    BY <1>6, <2>1 DEF T
<1>8. upTo[Len(s)] \in Seq(S)
  BY <1>1, <1>2
<1> DEFINE t == Select(s, places)
<1>9. t = upTo[Len(s)]
  BY <1>1
<1> HIDE DEF t
<1>10. Places(p, t, Len(s)) /\ t \in Seq(S)
  BY <1>7, <1>8, <1>9
<1>11. p \in [1..Len(t) -> 1..Len(s)] /\ Picks(p, s, places)
  BY <1>10 DEF t, Picks
<1>12. QED
  BY <1>10, <1>11 DEF t

\* A sequence, and one that it begins, from which the same places are selected.
LEMMA SelectPrefix ==
  ASSUME NEW S, NEW s \in Seq(S), NEW t \in Seq(S), NEW P, NEW Q,
         Len(s) <= Len(t), \A i \in 1..Len(s) : s[i] = t[i] /\ (i \in P <=> i \in Q)
  PROVE  /\ Len(Select(s, P)) <= Len(Select(t, Q))
         /\ \A k \in 1..Len(Select(s, P)) : Select(s, P)[k] = Select(t, Q)[k]
<1>0. Len(s) \in Nat /\ Len(t) \in Nat
  OBVIOUS
<1>1. PICK f \in [0..Len(s) -> Seq(S)] : Selects(f, s, P)
  BY SelectRec
<1>2. PICK g \in [0..Len(t) -> Seq(S)] : Selects(g, t, Q)
  BY SelectRec
<1>3. \A i \in 1..Len(t) :
        g[i] = IF i \in Q THEN Append(g[i - 1], t[i]) ELSE g[i - 1]
  BY <1>2 DEF Selects
<1>4. \A i \in 0..Len(s) : f[i] = g[i]
  <2> DEFINE T == {i \in 0..Len(s) : f[i] = g[i]}
  <2>1. 0 \in T
    BY <1>0, <1>1, <1>2 DEF Selects
  <2>2. ASSUME NEW i \in 1..Len(s), i - 1 \in T PROVE i \in T
    <3>1. i \in 1..Len(t) /\ f[i - 1] = g[i - 1] /\ i \in 0..Len(s)
      BY <1>0, <2>2
    <3>2. f[i] = IF i \in P THEN Append(f[i - 1], s[i]) ELSE f[i - 1]
      BY <1>1 DEF Selects
    <3>3. g[i] = IF i \in Q THEN Append(g[i - 1], t[i]) ELSE g[i - 1]
      BY <1>3, <3>1
    <3>4. f[i] = g[i]
      BY <3>1, <3>2, <3>3
    <3>5. QED
      BY <3>1, <3>4
  <2> HIDE DEF T
  <2>3. \A i \in 0..Len(s) : i \in T
    BY <1>0, <2>1, <2>2, InductionUpTo
  <2>4. QED
    BY <2>3 DEF T
<1> DEFINE a == f[Len(s)]
           T == {m \in Nat : Len(s) + m <= Len(t) =>
                   Len(a) <= Len(g[Len(s) + m]) /\ \A k \in 1..Len(a) : a[k] = g[Len(s) + m][k]}
<1>5. a \in Seq(S) /\ Len(a) \in Nat
  BY <1>0
<1>6. 0 \in T
  BY <1>0, <1>4
<1>7. ASSUME NEW m \in T PROVE m + 1 \in T
  <2> DEFINE n == Len(s) + m
  <2>1. m \in Nat /\ n \in Nat /\ Len(s) + (m + 1) = n + 1 /\ (n + 1) - 1 = n
    BY <1>0
  <2>2. ASSUME n + 1 <= Len(t)
        PROVE  Len(a) <= Len(g[n + 1]) /\ \A k \in 1..Len(a) : a[k] = g[n + 1][k]
    <3>1. Len(a) <= Len(g[n]) /\ \A k \in 1..Len(a) : a[k] = g[n][k]
      BY <2>1, <2>2
    <3> HIDE DEF a, n
    <3>2. n + 1 \in 1..Len(t) /\ n \in 0..Len(t)
      BY <1>0, <2>1, <2>2
    <3>3. /\ g[n] \in Seq(S) /\ t[n + 1] \in S
          /\ g[n + 1] = IF n + 1 \in Q THEN Append(g[n], t[n + 1]) ELSE g[n]
      BY <1>3, <2>1, <3>2
    <3>4. QED
      BY <1>5, <3>1, <3>3
  <2> HIDE DEF a, n
  <2>3. Len(s) + (m + 1) <= Len(t) =>
          /\ Len(a) <= Len(g[Len(s) + (m + 1)])
          /\ \A k \in 1..Len(a) : a[k] = g[Len(s) + (m + 1)][k]
    BY <2>1, <2>2
  <2>4. QED
    BY <2>1, <2>3
<1>8. T \in SUBSET Nat
  OBVIOUS
<1>9. Len(t) - Len(s) \in Nat /\ Len(s) + (Len(t) - Len(s)) = Len(t)
  BY <1>0
<1> HIDE DEF T
<1>10. Len(t) - Len(s) \in T
  BY <1>6, <1>7, <1>8, <1>9, NatSetInduction
<1>11. Select(s, P) = a /\ Select(t, Q) = g[Len(t)]
  BY <1>1, <1>2 DEF Selects
<1> HIDE DEF a
<1>12. Len(a) <= Len(g[Len(t)]) /\ \A k \in 1..Len(a) : a[k] = g[Len(t)][k]
  BY <1>9, <1>10 DEF T
<1>13. QED
  BY <1>11, <1>12

\* Everything is selected.
LEMMA SelectAll ==
  ASSUME NEW S, NEW s \in Seq(S), NEW P, 1..Len(s) \subseteq P
  PROVE  Select(s, P) = s
<1>0. Len(s) \in Nat
  OBVIOUS
<1>1. PICK f \in [0..Len(s) -> Seq(S)] : Selects(f, s, P)
  BY SelectRec
<1> DEFINE T == {i \in 0..Len(s) : Len(f[i]) = i /\ \A k \in 1..i : f[i][k] = s[k]}
<1>2. 0 \in T
  BY <1>0, <1>1 DEF Selects
<1>3. ASSUME NEW i \in 1..Len(s), i - 1 \in T PROVE i \in T
  <2>1. /\ i \in 0..Len(s) /\ i - 1 \in 0..Len(s) /\ s[i] \in S
        /\ Len(f[i - 1]) = i - 1 /\ \A k \in 1..(i - 1) : f[i - 1][k] = s[k]
    BY <1>0, <1>3
  <2>2. f[i - 1] \in Seq(S) /\ f[i] = Append(f[i - 1], s[i])
    BY <1>1, <2>1 DEF Selects
  <2>3. Len(f[i]) = i /\ \A k \in 1..i : f[i][k] = s[k]
    BY <2>1, <2>2
  <2>4. QED
    BY <2>1, <2>3
<1> HIDE DEF T
<1>4. \A i \in 0..Len(s) : i \in T
  BY <1>0, <1>2, <1>3, InductionUpTo
<1>5. Len(f[Len(s)]) = Len(s) /\ \A k \in 1..Len(s) : f[Len(s)][k] = s[k]
  BY <1>0, <1>4 DEF T
<1>6. f[Len(s)] = s
  BY <1>0, <1>5
<1>7. QED
  BY <1>1, <1>6 DEF Selects

LEMMA SelectLen ==
  ASSUME NEW S, NEW s \in Seq(S), NEW P
  PROVE  Len(Select(s, P)) <= Len(s)
<1>0. Len(s) \in Nat
  OBVIOUS
<1>1. PICK f \in [0..Len(s) -> Seq(S)] : Selects(f, s, P)
  BY SelectRec
<1> DEFINE T == {i \in 0..Len(s) : Len(f[i]) <= i}
<1>2. 0 \in T
  BY <1>0, <1>1 DEF Selects
<1>3. ASSUME NEW i \in 1..Len(s), i - 1 \in T PROVE i \in T
  <2>1. /\ i \in 0..Len(s) /\ i - 1 \in 0..Len(s) /\ s[i] \in S /\ Len(f[i - 1]) <= i - 1
    BY <1>0, <1>3
  <2>2. f[i - 1] \in Seq(S) /\ f[i] = IF i \in P THEN Append(f[i - 1], s[i]) ELSE f[i - 1]
    BY <1>1, <2>1 DEF Selects
  <2>3. Len(f[i]) <= i
    BY <2>1, <2>2
  <2>4. QED
    BY <2>1, <2>3
<1> HIDE DEF T
<1>4. \A i \in 0..Len(s) : i \in T
  BY <1>0, <1>2, <1>3, InductionUpTo
<1>5. Len(f[Len(s)]) <= Len(s)
  BY <1>0, <1>4 DEF T
<1>6. QED
  BY <1>1, <1>5 DEF Selects
=============================================================================
