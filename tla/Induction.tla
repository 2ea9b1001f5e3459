----------------------------- MODULE Induction ------------------------------
(***************************************************************************)
(* Induction over the naturals in a form without operator parameters: the  *)
(* property is a set.  It rests on finite sets alone: if some n were not   *)
(* reached from 0, then taking 1 away would be an injection of the numbers *)
(* up to n that are not reached into those other than n.                   *)
(***************************************************************************)
EXTENDS Integers, Sequences, FiniteSetTheorems, TLAPS

\* A set that has 0 and with every number the next one has every natural number.
LEMMA ByInduction ==
  ASSUME NEW S, 0 \in S, \A n \in Nat : n \in S => n + 1 \in S
  PROVE  Nat \subseteq S
<1> SUFFICES ASSUME NEW n \in Nat, n \notin S PROVE FALSE
  OBVIOUS
<1> DEFINE T == {m \in 0 .. n : m \notin S}
           U == T \ {n}
           f == [m \in T |-> m - 1]
<1>1. IsFiniteSet(T)
  <2>1. IsFiniteSet(0 .. n) BY FS_Interval
  <2>2. T \in SUBSET (0 .. n) OBVIOUS
  <2> HIDE DEF T
  <2> QED BY <2>1, <2>2, FS_Subset
<1>2. n \in T
  OBVIOUS
<1>3. IsFiniteSet(U) /\ Cardinality(U) = Cardinality(T) - 1 /\ Cardinality(T) \in Nat
  BY <1>1, <1>2, FS_RemoveElement, FS_CardinalityType
<1>4. \A m \in T : m - 1 \in U
  <2> TAKE m \in T
  <2>1. m # 0 /\ m \in Nat /\ m <= n /\ m \notin S OBVIOUS
  <2>2. m - 1 \in Nat /\ (m - 1) + 1 = m BY <2>1
  <2>3. m - 1 \notin S BY <2>1, <2>2
  <2> QED BY <2>1, <2>2, <2>3
<1>5. f \in Injection(T, U)
  BY <1>4 DEF Injection, IsInjective
<1>6. Cardinality(T) <= Cardinality(U)
  BY <1>1, <1>3, <1>5, FS_Injection
<1> QED BY <1>3, <1>6

\* A loop: f[i] is what it has computed after i of its n turns.
Loop(f, n, base, turn) == f[0] = base /\ \A i \in 1 .. n : f[i] = turn[i][f[i - 1]]

\* A loop computes something.
LEMMA LoopExists ==
  ASSUME NEW N \in Nat, NEW V, NEW base \in V, NEW turn \in [1 .. N -> [V -> V]]
  PROVE  \E f \in [0 .. N -> V] : Loop(f, N, base, turn)
<1> DEFINE S == {n \in Nat : n <= N => \E f \in [0 .. n -> V] : Loop(f, n, base, turn)}
<1>1. 0 \in S
  <2> DEFINE f == [i \in 0 .. 0 |-> base]
  <2>1. f \in [0 .. 0 -> V] /\ Loop(f, 0, base, turn) BY DEF Loop
  <2> QED BY <2>1
<1>2. ASSUME NEW n \in Nat, n \in S PROVE n + 1 \in S
  <2> SUFFICES ASSUME n + 1 <= N PROVE \E g \in [0 .. n + 1 -> V] : Loop(g, n + 1, base, turn)
    OBVIOUS
  <2>1. PICK f \in [0 .. n -> V] : Loop(f, n, base, turn) BY <1>2
  <2> DEFINE g == [i \in 0 .. n + 1 |-> IF i = n + 1 THEN turn[n + 1][f[n]] ELSE f[i]]
  <2>2. turn[n + 1] \in [V -> V] /\ f[n] \in V OBVIOUS
  <2>3. g \in [0 .. n + 1 -> V] BY <2>2
  <2>4. g[0] = base BY <2>1 DEF Loop
  <2>5. \A i \in 1 .. n + 1 : g[i] = turn[i][g[i - 1]] BY <2>1 DEF Loop
  <2> QED BY <2>3, <2>4, <2>5 DEF Loop
<1> HIDE DEF S
<1>3. N \in S BY <1>1, <1>2, ByInduction
<1> QED BY <1>3 DEF S

\* Two loops that start alike and take the same turns compute the same.
LEMMA LoopUnique ==
  ASSUME NEW N \in Nat, NEW base, NEW turn, NEW f, NEW g,
         Loop(f, N, base, turn), Loop(g, N, base, turn)
  PROVE  \A i \in 0 .. N : f[i] = g[i]
<1> DEFINE S == {i \in Nat : i <= N => f[i] = g[i]}
<1>1. 0 \in S BY DEF Loop
<1>2. ASSUME NEW i \in Nat, i \in S PROVE i + 1 \in S
  <2> SUFFICES ASSUME i + 1 <= N PROVE f[i + 1] = g[i + 1]
    OBVIOUS
  <2>1. i + 1 \in 1 .. N /\ (i + 1) - 1 = i /\ f[i] = g[i] BY <1>2
  <2> QED BY <2>1 DEF Loop
<1> HIDE DEF S
<1>3. Nat \subseteq S BY <1>1, <1>2, ByInduction
<1> QED BY <1>3 DEF S

\* The first elements of a sequence, and one more.
LEMMA OneMore ==
    ASSUME NEW S, NEW a \in Seq(S), NEW b \in Seq(S), NEW m \in 0 .. Len(b) - 1
    PROVE  /\ m + 1 \in 1 .. Len(b) /\ b[m + 1] \in S
           /\ SubSeq(b, 1, m) \in Seq(S) /\ SubSeq(b, 1, 0) = <<>>
           /\ SubSeq(b, 1, m + 1) = Append(SubSeq(b, 1, m), b[m + 1])
           /\ a \o SubSeq(b, 1, m) \in Seq(S)
           /\ a \o SubSeq(b, 1, m + 1) = Append(a \o SubSeq(b, 1, m), b[m + 1])
<1>1. m + 1 \in 1 .. Len(b) /\ b[m + 1] \in S /\ m \in Nat OBVIOUS
<1> DEFINE p == SubSeq(b, 1, m)
           q == SubSeq(b, 1, m + 1)
<1>2. /\ p \in Seq(S) /\ Len(p) = m /\ \A i \in 1 .. m : p[i] = b[i]
      /\ q \in Seq(S) /\ Len(q) = m + 1 /\ \A i \in 1 .. m + 1 : q[i] = b[i]
    BY <1>1
<1>3. SubSeq(b, 1, 0) = <<>> OBVIOUS
<1> HIDE DEF p, q
<1>4. q = Append(p, b[m + 1])
    <2> DEFINE r == Append(p, b[m + 1])
    <2>1. /\ r \in Seq(S) /\ Len(r) = m + 1 /\ r[m + 1] = b[m + 1]
          /\ \A i \in 1 .. m : r[i] = p[i]
        BY <1>1, <1>2
    <2> HIDE DEF r
    <2>2. \A i \in 1 .. m + 1 : q[i] = r[i] BY <1>1, <1>2, <2>1
    <2> QED BY <1>1, <1>2, <2>1, <2>2 DEF r
<1>5. a \o p \in Seq(S) BY <1>2
<1>6. a \o Append(p, b[m + 1]) = Append(a \o p, b[m + 1]) BY <1>1, <1>2
<1> QED BY <1>1, <1>2, <1>3, <1>4, <1>5, <1>6 DEF p, q

=============================================================================
