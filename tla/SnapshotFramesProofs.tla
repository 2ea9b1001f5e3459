------------------------ MODULE SnapshotFramesProofs ------------------------
(***************************************************************************)
(* How a rewrite cuts values into commands, proved for every limit and for *)
(* entries of every length: it fails only on what no command can hold, no  *)
(* chunk is shorter than it could be, and the commands rebuild the entry.  *)
(***************************************************************************)
EXTENDS SnapshotFrames, SequenceTheorems, Induction

-----------------------------------------------------------------------------
(***************************************************************************)
(* Lengths.                                                                *)
(***************************************************************************)

\* f has the decimal length of each number up to n.
Decimals(f, n) ==
    \A k \in 0 .. n : f[k] = IF k < 10 THEN 1 ELSE 1 + f[k \div 10]

\* Dividing by ten makes a number smaller.
LEMMA Tenth ==
    ASSUME NEW n \in Nat, n >= 10
    PROVE  n \div 10 \in Nat /\ n \div 10 < n
OBVIOUS

LEMMA DecimalsExist ==
    ASSUME NEW N \in Nat
    PROVE  \E f : Decimals(f, N)
<1> DEFINE S == {n \in Nat : \E f : Decimals(f, n)}
<1>1. 0 \in S
    <2> DEFINE f == [k \in 0 .. 0 |-> 1]
    <2>1. Decimals(f, 0) BY DEF Decimals
    <2> QED BY <2>1
<1>2. ASSUME NEW n \in Nat, n \in S PROVE n + 1 \in S
    <2>1. PICK f : Decimals(f, n) BY <1>2
    <2> DEFINE last == IF n + 1 < 10 THEN 1 ELSE 1 + f[(n + 1) \div 10]
               g == [k \in 0 .. n + 1 |-> IF k = n + 1 THEN last ELSE f[k]]
    <2>2. ASSUME NEW k \in 0 .. n + 1
          PROVE  g[k] = IF k < 10 THEN 1 ELSE 1 + g[k \div 10]
        <3>1. CASE k < 10
            <4>1. k = n + 1 \/ k \in 0 .. n OBVIOUS
            <4> QED BY <2>1, <3>1, <4>1 DEF Decimals
        <3>2. CASE k >= 10
            <4>1. k \in Nat OBVIOUS
            <4>2. k \div 10 \in Nat /\ k \div 10 < k BY <3>2, <4>1, Tenth
            <4> DEFINE t == k \div 10
            <4>3. t \in 0 .. n + 1 /\ t # n + 1 /\ t \in 0 .. n BY <4>2
            <4>4. g[t] = f[t] BY <4>3
            <4>5. CASE k = n + 1 BY <3>2, <4>4, <4>5
            <4>6. CASE k # n + 1
                <5>1. k \in 0 .. n /\ g[k] = f[k] BY <4>6
                <5> QED BY <2>1, <3>2, <4>4, <5>1 DEF Decimals
            <4> QED BY <4>5, <4>6
        <3> QED BY <3>1, <3>2
    <2> HIDE DEF g
    <2>3. Decimals(g, n + 1) BY <2>2 DEF Decimals
    <2> QED BY <2>3
<1> HIDE DEF S
<1>3. N \in S BY <1>1, <1>2, ByInduction
<1> QED BY <1>3 DEF S

LEMMA DecimalsAgree ==
    ASSUME NEW N \in Nat, NEW M \in Nat, NEW f, NEW g, Decimals(f, N), Decimals(g, M),
           NEW k \in Nat, k <= N, k <= M
    PROVE  f[k] = g[k]
<1> DEFINE S == {n \in Nat : \A j \in 0 .. n : j <= N /\ j <= M => f[j] = g[j]}
<1>1. 0 \in S
    <2>1. f[0] = 1 /\ g[0] = 1 BY DEF Decimals
    <2> QED BY <2>1
<1>2. ASSUME NEW n \in Nat, n \in S PROVE n + 1 \in S
    <2> SUFFICES ASSUME NEW j \in 0 .. n + 1, j <= N, j <= M PROVE f[j] = g[j]
        OBVIOUS
    <2>1. /\ f[j] = IF j < 10 THEN 1 ELSE 1 + f[j \div 10]
          /\ g[j] = IF j < 10 THEN 1 ELSE 1 + g[j \div 10]
        BY DEF Decimals
    <2>2. CASE j < 10 BY <2>1, <2>2
    <2>3. CASE j >= 10
        <3>1. j \in Nat OBVIOUS
        <3>2. j \div 10 \in Nat /\ j \div 10 < j BY <2>3, <3>1, Tenth
        <3>3. j \div 10 \in 0 .. n /\ j \div 10 <= N /\ j \div 10 <= M BY <3>2
        <3>4. f[j \div 10] = g[j \div 10] BY <1>2, <3>3
        <3> QED BY <2>1, <2>3, <3>4
    <2> QED BY <2>2, <2>3
<1> HIDE DEF S
<1>3. k \in S BY <1>1, <1>2, ByInduction
<1> QED BY <1>3 DEF S

\* The recursive definition of DecimalLen is one of a function.
LEMMA DecimalDef ==
    \A n \in Nat : DecimalLen[n] = IF n < 10 THEN 1 ELSE 1 + DecimalLen[n \div 10]
<1> DEFINE F(n) == CHOOSE f : Decimals(f, n)
           G == [n \in Nat |-> F(n)[n]]
           Is(f) == f = [n \in Nat |-> IF n < 10 THEN 1 ELSE 1 + f[n \div 10]]
<1>1. \A n \in Nat : Decimals(F(n), n) BY DecimalsExist
<1> HIDE DEF F
<1>2. ASSUME NEW n \in Nat PROVE G[n] = IF n < 10 THEN 1 ELSE 1 + G[n \div 10]
    <2>1. F(n)[n] = IF n < 10 THEN 1 ELSE 1 + F(n)[n \div 10] BY <1>1 DEF Decimals
    <2>2. CASE n < 10 BY <2>1, <2>2
    <2>3. CASE n >= 10
        <3> DEFINE t == n \div 10
        <3>1. t \in Nat /\ t <= n /\ t <= t BY <2>3, Tenth
        <3>2. Decimals(F(n), n) /\ Decimals(F(t), t) BY <1>1, <3>1
        <3> HIDE DEF t
        <3>3. F(n)[t] = F(t)[t] BY <3>1, <3>2, DecimalsAgree
        <3>4. G[t] = F(t)[t] BY <3>1
        <3> QED BY <2>1, <2>3, <3>3, <3>4 DEF t
    <2> QED BY <2>2, <2>3
<1>3. Is(G)
    <2>1. G = [n \in Nat |-> G[n]] OBVIOUS
    <2> HIDE DEF G
    <2> QED BY <1>2, <2>1
<1> HIDE DEF G
<1>4. \E f : Is(f) BY <1>3
<1>5. DecimalLen = CHOOSE f : Is(f) BY DEF DecimalLen
<1>6. Is(DecimalLen) BY <1>4, <1>5
<1> QED BY <1>6

\* A longer number has no fewer digits, and each has one.
LEMMA DecimalGrows ==
    /\ \A n \in Nat : DecimalLen[n] \in Nat /\ DecimalLen[n] >= 1
    /\ \A n, m \in Nat : n <= m => DecimalLen[n] <= DecimalLen[m]
<1> DEFINE D(n) == DecimalLen[n]
           S == {n \in Nat : \A k \in 0 .. n : D(k) \in Nat /\ D(k) >= 1}
           T == {n \in Nat : \A m \in 0 .. n : \A k \in 0 .. m : D(k) <= D(m)}
<1>1. \A n \in Nat : D(n) = IF n < 10 THEN 1 ELSE 1 + D(n \div 10) BY DecimalDef
<1> HIDE DEF D
<1>2. 0 \in S BY <1>1
<1>3. ASSUME NEW n \in Nat, n \in S PROVE n + 1 \in S
    <2> SUFFICES ASSUME NEW k \in 0 .. n + 1 PROVE D(k) \in Nat /\ D(k) >= 1
        OBVIOUS
    <2>1. CASE k < 10 BY <1>1, <2>1
    <2>2. CASE k >= 10
        <3>1. k \in Nat OBVIOUS
        <3>2. k \div 10 \in Nat /\ k \div 10 < k BY <2>2, <3>1, Tenth
        <3>3. k \div 10 \in 0 .. n BY <3>2
        <3>4. D(k) = 1 + D(k \div 10) BY <1>1, <2>2
        <3> QED BY <1>3, <3>3, <3>4
    <2> QED BY <2>1, <2>2
<1> HIDE DEF S
<1>4. Nat \subseteq S BY <1>2, <1>3, ByInduction
<1>5. \A n \in Nat : D(n) \in Nat /\ D(n) >= 1 BY <1>4 DEF S
<1>6. 0 \in T BY <1>5
<1>7. ASSUME NEW n \in Nat, n \in T PROVE n + 1 \in T
    <2> SUFFICES ASSUME NEW m \in 0 .. n + 1, NEW k \in 0 .. m PROVE D(k) <= D(m)
        OBVIOUS
    <2>1. m \in Nat /\ k \in Nat /\ k <= m OBVIOUS
    <2>2. CASE k < 10 BY <1>1, <1>5, <2>1, <2>2
    <2>3. CASE k >= 10
        <3>1. m >= 10 BY <2>1, <2>3
        <3>2. D(k) = 1 + D(k \div 10) /\ D(m) = 1 + D(m \div 10)
            BY <1>1, <2>1, <2>3, <3>1
        <3>3. m \div 10 \in Nat /\ m \div 10 < m BY <2>1, <3>1, Tenth
        <3>4. k \div 10 \in Nat /\ k \div 10 <= m \div 10 BY <2>1
        <3>5. m \div 10 \in 0 .. n /\ k \div 10 \in 0 .. (m \div 10) BY <3>3, <3>4
        <3>6. D(k \div 10) <= D(m \div 10) BY <1>7, <3>5
        <3>7. D(k \div 10) \in Nat /\ D(m \div 10) \in Nat BY <1>5, <3>3, <3>4
        <3> QED BY <3>2, <3>6, <3>7
    <2> QED BY <2>2, <2>3
<1> HIDE DEF T
<1>8. Nat \subseteq T BY <1>6, <1>7, ByInduction
<1>9. ASSUME NEW n \in Nat, NEW m \in Nat, n <= m PROVE D(n) <= D(m)
    <2>1. m \in T /\ m \in 0 .. m /\ n \in 0 .. m BY <1>8, <1>9
    <2> QED BY <2>1 DEF T
<1> QED BY <1>5, <1>9 DEF D
\* Bulk strings and array headers have lengths that grow with what they hold.
LEMMA LengthsGrow ==
    /\ \A n \in Nat : BulkLen(n) \in Nat /\ BulkLen(n) >= n + 6
    /\ \A n, m \in Nat : n <= m => BulkLen(n) <= BulkLen(m)
    /\ \A n \in Nat : ArrayHeaderLen(n) \in Nat
    /\ \A n, m \in Nat : n <= m => ArrayHeaderLen(n) <= ArrayHeaderLen(m)
BY DecimalGrows DEF BulkLen, ArrayHeaderLen

\* The lengths of the command names.
LEMMA NameLengths ==
    /\ SetName \in ByteString /\ AppendName \in ByteString /\ RPushName \in ByteString
    /\ HSetName \in ByteString /\ PxAtName \in ByteString /\ PExpireAtName \in ByteString
    /\ PxName \in ByteString /\ PExpireName \in ByteString
    /\ Len(SetName) = 3 /\ Len(AppendName) = 6 /\ Len(RPushName) = 5
    /\ Len(HSetName) = 4 /\ Len(PxAtName) = 4 /\ Len(PExpireAtName) = 9
    /\ Len(PxName) = 2 /\ Len(PExpireName) = 7
<1>1. /\ "A" \in Byte /\ "D" \in Byte /\ "E" \in Byte /\ "H" \in Byte /\ "I" \in Byte
      /\ "N" \in Byte /\ "P" \in Byte /\ "R" \in Byte /\ "S" \in Byte /\ "T" \in Byte
      /\ "U" \in Byte /\ "X" \in Byte
    BY FramesAssumption
<1>2. /\ SetName \in ByteString /\ AppendName \in ByteString /\ RPushName \in ByteString
      /\ HSetName \in ByteString /\ PxAtName \in ByteString /\ PExpireAtName \in ByteString
      /\ PxName \in ByteString /\ PExpireName \in ByteString
    BY <1>1 DEF ByteString, SetName, AppendName, RPushName, HSetName, PxAtName, PExpireAtName,
                PxName, PExpireName
<1>3. /\ Len(SetName) = 3 /\ Len(AppendName) = 6 /\ Len(RPushName) = 5
      /\ Len(HSetName) = 4 /\ Len(PxAtName) = 4 /\ Len(PExpireAtName) = 9
      /\ Len(PxName) = 2 /\ Len(PExpireName) = 7
    BY DEF SetName, AppendName, RPushName, HSetName, PxAtName, PExpireAtName, PxName, PExpireName
<1> QED BY <1>1, <1>2, <1>3

Command == Seq(ByteString)

\* f has the length of each of the first arguments, and PayloadLen is the last.
Sums(f, args) ==
    /\ f[0] = 0
    /\ \A i \in 1 .. Len(args) : f[i] = f[i - 1] + BulkLen(Len(args[i]))
    /\ PayloadLen(args) = f[Len(args)]

\* The recursive definition of PayloadLen has such a function.
LEMMA SumLoop ==
    ASSUME NEW args, Len(args) \in Nat
    PROVE  \E f : Sums(f, args)
<1> DEFINE N == Len(args)
           B(i) == BulkLen(Len(args[i]))
           Is(f, n) == f = [i \in 0 .. n |-> IF i = 0 THEN 0 ELSE f[i - 1] + B(i)]
           S == {n \in Nat : \E f : Is(f, n)}
<1> HIDE DEF B
<1>1. 0 \in S
    <2> DEFINE f == [i \in 0 .. 0 |-> 0]
    <2>1. Is(f, 0) OBVIOUS
    <2> QED BY <2>1
<1>2. ASSUME NEW n \in Nat, n \in S PROVE n + 1 \in S
    <2>1. PICK f : Is(f, n) BY <1>2
    <2> DEFINE g == [i \in 0 .. n + 1 |-> IF i = n + 1 THEN f[n] + B(n + 1) ELSE f[i]]
    <2>2. \A i \in 0 .. n : f[i] = IF i = 0 THEN 0 ELSE f[i - 1] + B(i)
        BY <2>1
    <2>3. Is(g, n + 1)
        <3>1. ASSUME NEW i \in 0 .. n + 1
              PROVE  g[i] = IF i = 0 THEN 0 ELSE g[i - 1] + B(i)
            <4>1. CASE i = n + 1
                <5>1. g[i] = f[n] + B(n + 1) /\ g[n] = f[n] /\ i - 1 = n /\ i # 0 BY <4>1
                <5> QED BY <4>1, <5>1
            <4>2. CASE i \in 1 .. n
                <5>1. g[i] = f[i] /\ g[i - 1] = f[i - 1] /\ i # 0 /\ i \in 0 .. n BY <4>2
                <5> QED BY <5>1, <2>2
            <4>3. CASE i = 0 BY <4>3, <2>2
            <4> QED BY <4>1, <4>2, <4>3
        <3> QED BY <3>1
    <2> HIDE DEF g
    <2>4. \E h : Is(h, n + 1) BY <2>3
    <2> QED BY <2>4
<1> HIDE DEF S
<1>3. N \in S BY <1>1, <1>2, ByInduction
<1> DEFINE f == CHOOSE f : Is(f, N)
<1>4. Is(f, N) BY <1>3 DEF S
<1>5. PayloadLen(args) = f[N] BY DEF PayloadLen, B
<1> HIDE DEF f
<1>6. \A i \in 0 .. N : f[i] = IF i = 0 THEN 0 ELSE f[i - 1] + B(i)
    BY <1>4
<1>7. f[0] = 0 /\ \A i \in 1 .. N : f[i] = f[i - 1] + B(i)
    <2>1. 0 \in 0 .. N /\ \A i \in 1 .. N : i \in 0 .. N /\ i # 0 OBVIOUS
    <2> QED BY <1>6, <2>1
<1> QED BY <1>5, <1>7 DEF Sums, B

LEMMA PayloadNone == PayloadLen(<<>>) = 0
<1>1. Len(<<>>) = 0 OBVIOUS
<1>2. PICK f : Sums(f, <<>>) BY <1>1, SumLoop
<1> QED BY <1>1, <1>2 DEF Sums

\* One argument more adds its length.
LEMMA PayloadAppend ==
    ASSUME NEW S, NEW args \in Seq(S), NEW x \in S
    PROVE  PayloadLen(Append(args, x)) = PayloadLen(args) + BulkLen(Len(x))
<1> DEFINE n == Len(args)
           gs == Append(args, x)
<1>1. /\ n \in Nat /\ Len(gs) = n + 1 /\ gs[n + 1] = x
      /\ \A i \in 1 .. n : gs[i] = args[i]
    OBVIOUS
<1> HIDE DEF n, gs
<1>2. PICK f : Sums(f, args) BY <1>1, SumLoop DEF n
<1>3. PICK g : Sums(g, gs)
    <2>1. Len(gs) \in Nat BY <1>1
    <2> QED BY <2>1, SumLoop
<1> DEFINE T == {i \in Nat : i <= n => f[i] = g[i]}
<1>4. 0 \in T BY <1>2, <1>3 DEF Sums
<1>5. ASSUME NEW i \in Nat, i \in T PROVE i + 1 \in T
    <2> SUFFICES ASSUME i + 1 <= n PROVE f[i + 1] = g[i + 1] OBVIOUS
    <2>1. /\ i + 1 \in 1 .. n /\ i + 1 \in 1 .. n + 1 /\ (i + 1) - 1 = i /\ f[i] = g[i]
        BY <1>1, <1>5
    <2>2. f[i + 1] = f[i] + BulkLen(Len(args[i + 1])) BY <1>2, <2>1 DEF Sums, n
    <2>3. g[i + 1] = g[i] + BulkLen(Len(gs[i + 1])) BY <1>1, <1>3, <2>1 DEF Sums
    <2>4. gs[i + 1] = args[i + 1] BY <1>1, <2>1
    <2> QED BY <2>1, <2>2, <2>3, <2>4
<1> HIDE DEF T
<1>6. n \in T BY <1>1, <1>4, <1>5, ByInduction
<1>7. f[n] = g[n] BY <1>6, <1>1 DEF T
<1>8. n + 1 \in 1 .. n + 1 /\ (n + 1) - 1 = n BY <1>1
<1>9. g[n + 1] = g[n] + BulkLen(Len(x)) BY <1>1, <1>3, <1>8 DEF Sums
<1>10. PayloadLen(gs) = g[n + 1] BY <1>1, <1>3 DEF Sums
<1>11. PayloadLen(args) = f[n] BY <1>2 DEF Sums, n
<1> QED BY <1>7, <1>9, <1>10, <1>11 DEF gs

\* The length of arguments one after the other.
LEMMA PayloadConcat ==
    ASSUME NEW a \in Command, NEW b \in Command
    PROVE  /\ PayloadLen(a \o b) = PayloadLen(a) + PayloadLen(b)
           /\ PayloadLen(a) \in Nat /\ PayloadLen(b) \in Nat
<1> DEFINE P(s, m) == SubSeq(s, 1, m)
<1>1. ASSUME NEW c \in Command PROVE PayloadLen(c) \in Nat
    <2> DEFINE N == Len(c)
               T == {m \in Nat : m <= N => PayloadLen(P(c, m)) \in Nat}
    <2>1. N \in Nat /\ P(c, N) = c /\ P(c, 0) = <<>> BY DEF Command
    <2>2. 0 \in T
        <3>1. PayloadLen(P(c, 0)) = 0 BY <2>1, PayloadNone
        <3> HIDE DEF P
        <3> QED BY <3>1
    <2>3. ASSUME NEW m \in Nat, m \in T PROVE m + 1 \in T
        <3> SUFFICES ASSUME m + 1 <= N PROVE PayloadLen(P(c, m + 1)) \in Nat
            OBVIOUS
        <3> DEFINE x == c[m + 1]
                   p == P(c, m)
        <3>1. m \in 0 .. Len(c) - 1 /\ m <= N BY <2>1
        <3>2. x \in ByteString /\ p \in Seq(ByteString) /\ P(c, m + 1) = Append(p, x)
            BY <3>1, OneMore DEF Command
        <3>3. PayloadLen(p) \in Nat BY <2>3, <3>1
        <3> HIDE DEF x, p, P
        <3>4. PayloadLen(Append(p, x)) = PayloadLen(p) + BulkLen(Len(x)) BY <3>2, PayloadAppend
        <3>5. Len(x) \in Nat BY <3>2 DEF ByteString
        <3>6. BulkLen(Len(x)) \in Nat BY <3>5, LengthsGrow
        <3>7. PayloadLen(P(c, m + 1)) = PayloadLen(p) + BulkLen(Len(x)) BY <3>2, <3>4
        <3> QED BY <3>3, <3>6, <3>7
    <2> HIDE DEF T
    <2>4. N \in T BY <2>1, <2>2, <2>3, ByInduction
    <2>5. PayloadLen(P(c, N)) \in Nat BY <2>1, <2>4 DEF T
    <2> HIDE DEF P
    <2> QED BY <2>1, <2>5
<1> DEFINE N == Len(b)
           T == {m \in Nat : m <= N => PayloadLen(a \o P(b, m)) = PayloadLen(a) + PayloadLen(P(b, m))}
<1>2. N \in Nat /\ P(b, N) = b /\ P(b, 0) = <<>> /\ a \o <<>> = a BY DEF Command
<1>3. 0 \in T
    <2>1. PayloadLen(P(b, 0)) = 0 /\ PayloadLen(a \o P(b, 0)) = PayloadLen(a)
        BY <1>2, PayloadNone
    <2>2. PayloadLen(a) \in Nat BY <1>1
    <2> HIDE DEF P
    <2> QED BY <2>1, <2>2
<1>4. ASSUME NEW m \in Nat, m \in T PROVE m + 1 \in T
    <2> SUFFICES ASSUME m + 1 <= N
                 PROVE  PayloadLen(a \o P(b, m + 1)) = PayloadLen(a) + PayloadLen(P(b, m + 1))
        OBVIOUS
    <2> DEFINE x == b[m + 1]
               p == P(b, m)
               q == a \o P(b, m)
    <2>1. m \in 0 .. Len(b) - 1 /\ m <= N BY <1>2
    <2>2. /\ x \in ByteString /\ p \in Seq(ByteString) /\ q \in Seq(ByteString)
          /\ P(b, m + 1) = Append(p, x) /\ a \o P(b, m + 1) = Append(q, x)
        BY <2>1, OneMore DEF Command
    <2>3. PayloadLen(q) = PayloadLen(a) + PayloadLen(p) BY <1>4, <2>1
    <2> HIDE DEF x, p, q, P
    <2>4. PayloadLen(Append(q, x)) = PayloadLen(q) + BulkLen(Len(x)) BY <2>2, PayloadAppend
    <2>5. PayloadLen(Append(p, x)) = PayloadLen(p) + BulkLen(Len(x)) BY <2>2, PayloadAppend
    <2>6. PayloadLen(a) \in Nat /\ PayloadLen(p) \in Nat BY <1>1, <2>2 DEF Command
    <2>7. Len(x) \in Nat BY <2>2 DEF ByteString
    <2>8. BulkLen(Len(x)) \in Nat BY <2>7, LengthsGrow
    <2>9. PayloadLen(P(b, m + 1)) = PayloadLen(p) + BulkLen(Len(x)) BY <2>2, <2>5
    <2>10. PayloadLen(a \o P(b, m + 1)) = PayloadLen(a) + PayloadLen(p) + BulkLen(Len(x))
        BY <2>2, <2>3, <2>4
    <2> QED BY <2>6, <2>8, <2>9, <2>10
<1> HIDE DEF T
<1>5. N \in T BY <1>2, <1>3, <1>4, ByInduction
<1>6. PayloadLen(a \o P(b, N)) = PayloadLen(a) + PayloadLen(P(b, N)) BY <1>2, <1>5 DEF T
<1> HIDE DEF P
<1> QED BY <1>1, <1>2, <1>6

\* The length of up to three arguments.
LEMMA PayloadFew ==
    ASSUME NEW a \in ByteString, NEW b \in ByteString, NEW c \in ByteString
    PROVE  /\ PayloadLen(<<a>>) = BulkLen(Len(a))
           /\ PayloadLen(<<a, b>>) = BulkLen(Len(a)) + BulkLen(Len(b))
           /\ PayloadLen(<<a, b, c>>) = BulkLen(Len(a)) + BulkLen(Len(b)) + BulkLen(Len(c))
           /\ BulkLen(Len(a)) \in Nat /\ BulkLen(Len(b)) \in Nat /\ BulkLen(Len(c)) \in Nat
<1>1. BulkLen(Len(a)) \in Nat /\ BulkLen(Len(b)) \in Nat /\ BulkLen(Len(c)) \in Nat
    <2>1. Len(a) \in Nat /\ Len(b) \in Nat /\ Len(c) \in Nat BY DEF ByteString
    <2> QED BY <2>1, LengthsGrow
<1>2. /\ <<>> \in Seq(ByteString) /\ <<a>> \in Seq(ByteString) /\ <<a, b>> \in Seq(ByteString)
      /\ <<a>> = Append(<<>>, a) /\ <<a, b>> = Append(<<a>>, b)
      /\ <<a, b, c>> = Append(<<a, b>>, c)
    OBVIOUS
<1>3. PayloadLen(<<a>>) = 0 + BulkLen(Len(a)) BY <1>2, PayloadNone, PayloadAppend
<1>4. PayloadLen(<<a, b>>) = PayloadLen(<<a>>) + BulkLen(Len(b)) BY <1>2, PayloadAppend
<1>5. PayloadLen(<<a, b, c>>) = PayloadLen(<<a, b>>) + BulkLen(Len(c)) BY <1>2, PayloadAppend
<1> QED BY <1>1, <1>3, <1>4, <1>5

LEMMA ThreeLength ==
    ASSUME NEW a \in ByteString, NEW b \in ByteString, NEW c \in ByteString
    PROVE  /\ <<a, b, c>> \in Command
           /\ CommandLen(<<a, b, c>>) =
                  ArrayHeaderLen(3) + BulkLen(Len(a)) + BulkLen(Len(b)) + BulkLen(Len(c))
<1>1. <<a, b, c>> \in Command /\ Len(<<a, b, c>>) = 3 BY DEF Command
<1>2. PayloadLen(<<a, b, c>>) = BulkLen(Len(a)) + BulkLen(Len(b)) + BulkLen(Len(c))
    BY PayloadFew
<1>3. BulkLen(Len(a)) \in Nat /\ BulkLen(Len(b)) \in Nat /\ BulkLen(Len(c)) \in Nat
    BY PayloadFew
<1>4. ArrayHeaderLen(3) \in Nat BY LengthsGrow
<1>5. CommandLen(<<a, b, c>>) = ArrayHeaderLen(3) + PayloadLen(<<a, b, c>>)
    BY <1>1 DEF CommandLen
<1> QED BY <1>1, <1>2, <1>3, <1>4, <1>5

\* The lengths of the commands for an entry.
LEMMA CommandLengths ==
    ASSUME NEW x, x.key \in ByteString,
           NEW parts \in Command, NEW piece \in ByteString
    PROVE  /\ Chunk(x, parts) \in Command /\ Len(Chunk(x, parts)) = Len(parts) + 2
           /\ CommandLen(Chunk(x, parts)) = ChunkedLen(x, Len(parts), PayloadLen(parts))
           /\ AppendOf(x, piece) \in Command
           /\ CommandLen(AppendOf(x, piece)) = AppendBase(x.key) + BulkLen(Len(piece))
           /\ SetEmpty(x) \in Command
           /\ CommandLen(SetEmpty(x)) =
                ArrayHeaderLen(3) + BulkLen(3) + BulkLen(Len(x.key)) + BulkLen(0)
<1>0. /\ Name(x) \in ByteString /\ <<>> \in ByteString
      /\ SetName \in ByteString /\ AppendName \in ByteString
    <2>1. <<>> \in ByteString BY DEF ByteString
    <2> QED BY <2>1, NameLengths DEF Name
<1>1. Chunk(x, parts) \in Command /\ Len(Chunk(x, parts)) = Len(parts) + 2
    BY <1>0 DEF Chunk, Command
<1>2. CommandLen(Chunk(x, parts)) = ChunkedLen(x, Len(parts), PayloadLen(parts))
    <2> DEFINE h == <<Name(x), x.key>>
    <2>1. h \in Command BY <1>0 DEF Command
    <2>2. PayloadLen(h) = BulkLen(Len(Name(x))) + BulkLen(Len(x.key))
        BY <1>0, PayloadFew
    <2>3. /\ BulkLen(Len(Name(x))) \in Nat /\ BulkLen(Len(x.key)) \in Nat
        BY <1>0, PayloadFew
    <2> HIDE DEF h
    <2>4. PayloadLen(h \o parts) = PayloadLen(h) + PayloadLen(parts) /\ PayloadLen(parts) \in Nat
        BY <2>1, PayloadConcat
    <2>5. Len(parts) + 2 \in Nat BY DEF Command
    <2>6. ArrayHeaderLen(Len(parts) + 2) \in Nat BY <2>5, LengthsGrow
    <2>7. CommandLen(Chunk(x, parts)) = ArrayHeaderLen(Len(parts) + 2) + PayloadLen(h \o parts)
        BY <1>1 DEF CommandLen, Chunk, h
    <2> QED BY <2>2, <2>3, <2>4, <2>6, <2>7 DEF ChunkedLen
<1>4. /\ AppendOf(x, piece) \in Command
      /\ CommandLen(AppendOf(x, piece)) = AppendBase(x.key) + BulkLen(Len(piece))
    BY <1>0, ThreeLength DEF AppendOf, AppendBase
<1>5. /\ SetEmpty(x) \in Command
      /\ CommandLen(SetEmpty(x)) =
            ArrayHeaderLen(3) + BulkLen(3) + BulkLen(Len(x.key)) + BulkLen(0)
    <2>1. Len(<<>>) = 0 /\ Len(SetName) = 3 BY NameLengths
    <2>2. /\ <<SetName, x.key, <<>>>> \in Command
          /\ CommandLen(<<SetName, x.key, <<>>>>) =
                ArrayHeaderLen(3) + BulkLen(Len(SetName)) + BulkLen(Len(x.key)) + BulkLen(Len(<<>>))
        BY <1>0, ThreeLength
    <2> QED BY <2>1, <2>2 DEF SetEmpty
<1> QED BY <1>1, <1>2, <1>4, <1>5

ExpiryName(x) == IF IsLate(x) THEN PExpireName ELSE PExpireAtName

LEMMA ExpiryLength ==
    ASSUME NEW x, x.key \in ByteString, x.deadline[2] \in ByteString
    PROVE  /\ ExpiryOf(x) = <<ExpiryName(x), x.key, x.deadline[2]>>
           /\ ExpiryOf(x) \in Command
           /\ CommandLen(ExpiryOf(x)) =
                ArrayHeaderLen(3) + BulkLen(Len(ExpiryName(x))) + BulkLen(Len(x.key))
                    + BulkLen(Len(x.deadline[2]))
<1>1. ExpiryName(x) \in ByteString BY NameLengths DEF ExpiryName
<1>2. ExpiryOf(x) = <<ExpiryName(x), x.key, x.deadline[2]>> BY DEF ExpiryOf, ExpiryName
<1> QED BY <1>1, <1>2, ThreeLength

-----------------------------------------------------------------------------
(***************************************************************************)
(* Replaying the commands of an entry.                                     *)
(***************************************************************************)

Nothing(key) == Entry("none", key, <<>>, <<>>)

\* f has the entry after each of the commands, and Rebuilt is the last.
Rebuilds(f, key, cs) ==
    /\ f[0] = Nothing(key)
    /\ \A i \in 1 .. Len(cs) : f[i] = ReplayCommand(f[i - 1], cs[i])
    /\ Rebuilt(key, cs) = f[Len(cs)]

\* The recursive definition of Rebuilt has such a function.
LEMMA RebuiltLoop ==
    ASSUME NEW key, NEW cs, Len(cs) \in Nat
    PROVE  \E f : Rebuilds(f, key, cs)
<1> DEFINE N == Len(cs)
           base == Nothing(key)
           Is(f, n) == f = [i \in 0 .. n |-> IF i = 0 THEN base
                                ELSE ReplayCommand(f[i - 1], cs[i])]
           S == {n \in Nat : \E f : Is(f, n)}
<1> HIDE DEF base
<1>1. 0 \in S
    <2> DEFINE f == [i \in 0 .. 0 |-> base]
    <2>1. Is(f, 0) OBVIOUS
    <2> QED BY <2>1
<1>2. ASSUME NEW n \in Nat, n \in S PROVE n + 1 \in S
    <2>1. PICK f : Is(f, n) BY <1>2
    <2> DEFINE g == [i \in 0 .. n + 1 |-> IF i = n + 1 THEN ReplayCommand(f[n], cs[n + 1])
                                          ELSE f[i]]
    <2>2. \A i \in 0 .. n : f[i] = IF i = 0 THEN base ELSE ReplayCommand(f[i - 1], cs[i])
        BY <2>1
    <2>3. Is(g, n + 1)
        <3>1. ASSUME NEW i \in 0 .. n + 1
              PROVE  g[i] = IF i = 0 THEN base ELSE ReplayCommand(g[i - 1], cs[i])
            <4>1. CASE i = n + 1
                <5>1. g[i] = ReplayCommand(f[n], cs[n + 1]) /\ g[n] = f[n] /\ i - 1 = n /\ i # 0
                    BY <4>1
                <5> QED BY <4>1, <5>1
            <4>2. CASE i \in 1 .. n
                <5>1. g[i] = f[i] /\ g[i - 1] = f[i - 1] /\ i # 0 /\ i \in 0 .. n BY <4>2
                <5> QED BY <5>1, <2>2
            <4>3. CASE i = 0 BY <4>3, <2>2
            <4> QED BY <4>1, <4>2, <4>3
        <3> QED BY <3>1
    <2> HIDE DEF g
    <2>4. \E h : Is(h, n + 1) BY <2>3
    <2> QED BY <2>4
<1> HIDE DEF S
<1>3. N \in S BY <1>1, <1>2, ByInduction
<1> DEFINE f == CHOOSE f : Is(f, N)
<1>4. Is(f, N) BY <1>3 DEF S
<1>5. Rebuilt(key, cs) = f[N] BY DEF Rebuilt, Nothing, base
<1> HIDE DEF f
<1>6. \A i \in 0 .. N : f[i] = IF i = 0 THEN base ELSE ReplayCommand(f[i - 1], cs[i])
    BY <1>4
<1>7. f[0] = base /\ \A i \in 1 .. N : f[i] = ReplayCommand(f[i - 1], cs[i])
    <2>1. 0 \in 0 .. N /\ \A i \in 1 .. N : i \in 0 .. N /\ i # 0 OBVIOUS
    <2> QED BY <1>6, <2>1
<1> QED BY <1>5, <1>7 DEF Rebuilds, base

LEMMA RebuiltNone ==
    ASSUME NEW key
    PROVE  Rebuilt(key, <<>>) = Nothing(key)
<1>1. Len(<<>>) = 0 OBVIOUS
<1>2. PICK f : Rebuilds(f, key, <<>>) BY <1>1, RebuiltLoop
<1> QED BY <1>1, <1>2 DEF Rebuilds

\* One command more.
LEMMA RebuiltAppend ==
    ASSUME NEW S, NEW cs \in Seq(S), NEW x \in S, NEW key
    PROVE  Rebuilt(key, Append(cs, x)) = ReplayCommand(Rebuilt(key, cs), x)
<1> DEFINE n == Len(cs)
           gs == Append(cs, x)
<1>1. /\ n \in Nat /\ Len(gs) = n + 1 /\ gs[n + 1] = x
      /\ \A i \in 1 .. n : gs[i] = cs[i]
    OBVIOUS
<1> HIDE DEF n, gs
<1>2. PICK f : Rebuilds(f, key, cs) BY <1>1, RebuiltLoop DEF n
<1>3. PICK g : Rebuilds(g, key, gs)
    <2>1. Len(gs) \in Nat BY <1>1
    <2> QED BY <2>1, RebuiltLoop
<1> DEFINE T == {i \in Nat : i <= n => f[i] = g[i]}
<1>4. 0 \in T BY <1>2, <1>3 DEF Rebuilds
<1>5. ASSUME NEW i \in Nat, i \in T PROVE i + 1 \in T
    <2> SUFFICES ASSUME i + 1 <= n PROVE f[i + 1] = g[i + 1] OBVIOUS
    <2>1. /\ i + 1 \in 1 .. n /\ i + 1 \in 1 .. n + 1 /\ (i + 1) - 1 = i /\ f[i] = g[i]
        BY <1>1, <1>5
    <2>2. f[i + 1] = ReplayCommand(f[i], cs[i + 1]) BY <1>2, <2>1 DEF Rebuilds, n
    <2>3. g[i + 1] = ReplayCommand(g[i], gs[i + 1]) BY <1>1, <1>3, <2>1 DEF Rebuilds
    <2>4. gs[i + 1] = cs[i + 1] BY <1>1, <2>1
    <2> QED BY <2>1, <2>2, <2>3, <2>4
<1> HIDE DEF T
<1>6. n \in T BY <1>1, <1>4, <1>5, ByInduction
<1>7. f[n] = g[n] BY <1>6, <1>1 DEF T
<1>8. n + 1 \in 1 .. n + 1 /\ (n + 1) - 1 = n BY <1>1
<1>9. g[n + 1] = ReplayCommand(g[n], x) BY <1>1, <1>3, <1>8 DEF Rebuilds
<1>10. Rebuilt(key, gs) = g[n + 1] BY <1>1, <1>3 DEF Rebuilds
<1>11. Rebuilt(key, cs) = f[n] BY <1>2 DEF Rebuilds, n
<1> QED BY <1>7, <1>9, <1>10, <1>11 DEF gs

\* What comes behind the name and the key of a command.
LEMMA PartsOf ==
    ASSUME NEW S, NEW a \in S, NEW b \in S, NEW p \in Seq(S)
    PROVE  /\ <<a, b>> \o p \in Seq(S) /\ Len(<<a, b>> \o p) = Len(p) + 2
           /\ (<<a, b>> \o p)[1] = a /\ (<<a, b>> \o p)[2] = b
           /\ SubSeq(<<a, b>> \o p, 3, Len(<<a, b>> \o p)) = p
           /\ \A k \in 0 .. Len(p) : SubSeq(<<a, b>> \o p, 3, 2 + k) = SubSeq(p, 1, k)
<1> DEFINE c == <<a, b>> \o p
<1>1. /\ c \in Seq(S) /\ Len(c) = Len(p) + 2 /\ c[1] = a /\ c[2] = b /\ Len(p) \in Nat
      /\ \A i \in 1 .. Len(p) : c[i + 2] = p[i]
    OBVIOUS
<1> HIDE DEF c
<1>2. ASSUME NEW k \in 0 .. Len(p) PROVE SubSeq(c, 3, 2 + k) = SubSeq(p, 1, k)
    <2> DEFINE u == SubSeq(c, 3, 2 + k)
               v == SubSeq(p, 1, k)
    <2>1. u \in Seq(S) /\ Len(u) = k /\ \A i \in 1 .. k : u[i] = c[i + 2] BY <1>1
    <2>2. v \in Seq(S) /\ Len(v) = k /\ \A i \in 1 .. k : v[i] = p[i] BY <1>1
    <2>3. \A i \in 1 .. k : u[i] = v[i] BY <1>1, <2>1, <2>2
    <2> HIDE DEF u, v
    <2>4. u = v BY <2>1, <2>2, <2>3
    <2> QED BY <2>4 DEF u, v
<1>3. SubSeq(c, 3, Len(c)) = p
    <2>1. Len(p) \in 0 .. Len(p) /\ SubSeq(p, 1, Len(p)) = p /\ 2 + Len(p) = Len(c) BY <1>1
    <2> QED BY <1>2, <2>1
<1> QED BY <1>1, <1>2, <1>3 DEF c

\* The names are different.
LEMMA NamesDiffer ==
    /\ SetName # AppendName /\ SetName # RPushName /\ SetName # HSetName
    /\ SetName # PExpireAtName /\ AppendName # RPushName /\ AppendName # HSetName
    /\ AppendName # PExpireAtName /\ RPushName # HSetName /\ RPushName # PExpireAtName
    /\ HSetName # PExpireAtName
    /\ SetName # PExpireName /\ AppendName # PExpireName /\ RPushName # PExpireName
    /\ HSetName # PExpireName /\ PExpireAtName # PExpireName /\ PxAtName # PxName
BY NameLengths

Singles(parts) == [i \in 1 .. Len(parts) |-> <<parts[i]>>]
Pairs(parts) == [i \in 1 .. Len(parts) \div 2 |-> <<parts[2 * i - 1], parts[2 * i]>>]

\* The deadline that the arguments of a SET give.
GivenBy(p) == IF Len(p) # 3 THEN <<>> ELSE <<IF p[2] = PxName THEN "late" ELSE "at", p[3]>>

\* What a command makes of an entry, by its name.
LEMMA ReplaySet ==
    ASSUME NEW b \in ByteString, NEW p \in Command, NEW y
    PROVE  ReplayCommand(y, <<SetName, b>> \o p) =
             Entry("string", y.key, <<<<p[1]>>>>, GivenBy(p))
<1> DEFINE c == <<SetName, b>> \o p
<1>1. c[1] = SetName /\ SubSeq(c, 3, Len(c)) = p BY PartsOf, NameLengths DEF Command
<1> HIDE DEF c
<1>2. ReplayCommand(y, c) =
        Entry("string", y.key, <<<<p[1]>>>>, GivenBy(p))
    BY <1>1, NamesDiffer, Zenon DEF ReplayCommand, GivenBy
<1> QED BY <1>2 DEF c

LEMMA ReplayAppendCommand ==
    ASSUME NEW b \in ByteString, NEW p \in Command, NEW y
    PROVE  ReplayCommand(y, <<AppendName, b>> \o p) =
             [y EXCEPT !.items = <<<<y.items[1][1] \o p[1]>>>>]
<1> DEFINE c == <<AppendName, b>> \o p
<1>1. c[1] = AppendName /\ SubSeq(c, 3, Len(c)) = p BY PartsOf, NameLengths DEF Command
<1> HIDE DEF c
<1>2. ReplayCommand(y, c) = [y EXCEPT !.items = <<<<y.items[1][1] \o p[1]>>>>]
    BY <1>1, NamesDiffer DEF ReplayCommand
<1> QED BY <1>2 DEF c

LEMMA ReplayRPush ==
    ASSUME NEW b \in ByteString, NEW p \in Command, NEW y
    PROVE  ReplayCommand(y, <<RPushName, b>> \o p) =
             Entry("list", y.key, y.items \o Singles(p), y.deadline)
<1> DEFINE c == <<RPushName, b>> \o p
<1>1. c[1] = RPushName /\ SubSeq(c, 3, Len(c)) = p BY PartsOf, NameLengths DEF Command
<1> HIDE DEF c
<1>2. ReplayCommand(y, c) = Entry("list", y.key, y.items \o Singles(p), y.deadline)
    BY <1>1, NamesDiffer DEF ReplayCommand, Singles
<1> QED BY <1>2 DEF c

LEMMA ReplayHSet ==
    ASSUME NEW b \in ByteString, NEW p \in Command, NEW y
    PROVE  ReplayCommand(y, <<HSetName, b>> \o p) =
             Entry("hash", y.key, y.items \o Pairs(p), y.deadline)
<1> DEFINE c == <<HSetName, b>> \o p
<1>1. c[1] = HSetName /\ SubSeq(c, 3, Len(c)) = p BY PartsOf, NameLengths DEF Command
<1> HIDE DEF c
<1>2. ReplayCommand(y, c) = Entry("hash", y.key, y.items \o Pairs(p), y.deadline)
    BY <1>1, NamesDiffer DEF ReplayCommand, Pairs
<1> QED BY <1>2 DEF c

LEMMA ReplayPExpireAt ==
    ASSUME NEW b \in ByteString, NEW p \in Command, NEW y
    PROVE  ReplayCommand(y, <<PExpireAtName, b>> \o p) = [y EXCEPT !.deadline = <<"at", p[1]>>]
<1> DEFINE c == <<PExpireAtName, b>> \o p
<1>1. c[1] = PExpireAtName /\ SubSeq(c, 3, Len(c)) = p BY PartsOf, NameLengths DEF Command
<1> HIDE DEF c
<1>2. ReplayCommand(y, c) = [y EXCEPT !.deadline = <<"at", p[1]>>]
    BY <1>1, NamesDiffer DEF ReplayCommand
<1> QED BY <1>2 DEF c

LEMMA ReplayPExpire ==
    ASSUME NEW b \in ByteString, NEW p \in Command, NEW y
    PROVE  ReplayCommand(y, <<PExpireName, b>> \o p) = y
<1> DEFINE c == <<PExpireName, b>> \o p
<1>1. c[1] = PExpireName /\ SubSeq(c, 3, Len(c)) = p BY PartsOf, NameLengths DEF Command
<1> HIDE DEF c
<1>2. ReplayCommand(y, c) = y
    BY <1>1, NamesDiffer DEF ReplayCommand
<1> QED BY <1>2 DEF c

\* Commands of one argument behind the key, and SET with a deadline.
LEMMA ReplaySetPx ==
    ASSUME NEW key \in ByteString, NEW v \in ByteString, NEW n \in {PxName, PxAtName},
           NEW d \in ByteString, NEW y
    PROVE  ReplayCommand(y, <<SetName, key, v>> \o <<n, d>>)
             = Entry("string", y.key, <<<<v>>>>, <<IF n = PxName THEN "late" ELSE "at", d>>)
<1> DEFINE p == <<v, n, d>>
<1>1. <<SetName, key, v>> \o <<n, d>> = <<SetName, key>> \o p OBVIOUS
<1>2. n \in ByteString BY NameLengths
<1>3. p \in Command /\ p[1] = v /\ Len(p) = 3 /\ p[2] = n /\ p[3] = d BY <1>2 DEF Command
<1> HIDE DEF p
<1>4. ReplayCommand(y, <<SetName, key>> \o p) = Entry("string", y.key, <<<<p[1]>>>>, GivenBy(p))
    BY <1>3, ReplaySet
<1>5. GivenBy(p) = <<IF n = PxName THEN "late" ELSE "at", d>> BY <1>3 DEF GivenBy
<1> QED BY <1>1, <1>3, <1>4, <1>5

LEMMA ReplaySetShort ==
    ASSUME NEW key \in ByteString, NEW v \in ByteString, NEW y
    PROVE  ReplayCommand(y, <<SetName, key, v>>) = Entry("string", y.key, <<<<v>>>>, <<>>)
<1> DEFINE p == <<v>>
<1>1. p \in Command /\ p[1] = v /\ Len(p) # 3 BY DEF Command
<1>2. <<SetName, key, v>> = <<SetName, key>> \o p OBVIOUS
<1> HIDE DEF p
<1>3. ReplayCommand(y, <<SetName, key>> \o p) =
        Entry("string", y.key, <<<<p[1]>>>>, GivenBy(p))
    BY <1>1, ReplaySet
<1>4. GivenBy(p) = <<>> BY <1>1 DEF GivenBy
<1> QED BY <1>1, <1>2, <1>3, <1>4

LEMMA ReplayAppendShort ==
    ASSUME NEW key \in ByteString, NEW v \in ByteString, NEW y
    PROVE  ReplayCommand(y, <<AppendName, key, v>>) =
             [y EXCEPT !.items = <<<<y.items[1][1] \o v>>>>]
<1> DEFINE p == <<v>>
<1>1. p \in Command /\ p[1] = v /\ Len(p) # 3 BY DEF Command
<1>2. <<AppendName, key, v>> = <<AppendName, key>> \o p OBVIOUS
<1> HIDE DEF p
<1>3. ReplayCommand(y, <<AppendName, key>> \o p) =
        [y EXCEPT !.items = <<<<y.items[1][1] \o p[1]>>>>]
    BY <1>1, ReplayAppendCommand
<1> QED BY <1>1, <1>2, <1>3

LEMMA ReplayExpireShort ==
    ASSUME NEW key \in ByteString, NEW v \in ByteString, NEW y
    PROVE  /\ ReplayCommand(y, <<PExpireAtName, key, v>>) = [y EXCEPT !.deadline = <<"at", v>>]
           /\ ReplayCommand(y, <<PExpireName, key, v>>) = y
<1> DEFINE p == <<v>>
<1>1. p \in Command /\ p[1] = v /\ Len(p) # 3 BY DEF Command
<1>2. /\ <<PExpireAtName, key, v>> = <<PExpireAtName, key>> \o p
      /\ <<PExpireName, key, v>> = <<PExpireName, key>> \o p
    OBVIOUS
<1> HIDE DEF p
<1>3. ReplayCommand(y, <<PExpireAtName, key>> \o p) = [y EXCEPT !.deadline = <<"at", p[1]>>]
    BY <1>1, ReplayPExpireAt
<1>4. ReplayCommand(y, <<PExpireName, key>> \o p) = y
    BY <1>1, ReplayPExpire
<1> QED BY <1>1, <1>2, <1>3, <1>4

-----------------------------------------------------------------------------
(***************************************************************************)
(* The inductive invariant: for each part of the code what it has written  *)
(* of the entry so far, and that nothing on the way was too long.          *)
(***************************************************************************)
Group(x, parts) == IF x.kind = "list" THEN Singles(parts) ELSE Pairs(parts)
Width(x) == Len(x.items[1])

\* In the for loop over the items of x: the commands cs and the chunk cur
\* have the first t items, and the items that were taken fit.
ItemsOk(x, cs, cur, len, t) ==
    /\ x.kind \in {"list", "hash"} /\ t \in 0 .. Len(x.items)
    /\ cs \in Seq(Command) /\ cur \in Command /\ len = PayloadLen(cur)
    /\ \E k \in Nat : Len(cur) = Width(x) * k
    /\ t = 0 => cs = <<>> /\ cur = <<>>
    /\ t > 0 => Len(cur) >= Width(x) /\ Replayable(Chunk(x, cur))
    /\ \A i \in 1 .. t : Replayable(Chunk(x, x.items[i]))
    /\ Rebuilt(x.key, cs).key = x.key /\ Rebuilt(x.key, cs).deadline = <<>>
    /\ Rebuilt(x.key, cs).items \in Seq(Command)
    /\ Rebuilt(x.key, cs).items \o Group(x, cur) = SubSeq(x.items, 1, t)
    /\ FullChunks(x, cs)
    /\ cs # <<>> => ~Replayable(cs[Len(cs)] \o SubSeq(cur, 1, Width(x)))

\* In the binary search: l fits, what is beyond h does not.
SearchOk(x, cs, l, h) ==
    /\ x.kind = "string" /\ ~Replayable(SetWhole(x)) /\ Replayable(SetEmpty(x))
    /\ cs = <<SetEmpty(x)>>
    /\ l \in Nat /\ h \in Nat /\ l <= h
    /\ AppendBase(x.key) + BulkLen(l) <= MaxBuffered
    /\ AppendBase(x.key) + BulkLen(h + 1) > MaxBuffered

\* In the while loop over the pieces of a string: t bytes are written, in
\* pieces of l, of which the last may be shorter.
PiecesOk(x, cs, l, t) ==
    /\ x.kind = "string" /\ ~Replayable(SetWhole(x)) /\ Replayable(SetEmpty(x))
    /\ l \in Nat /\ t \in 0 .. Len(x.items[1][1]) /\ (l >= 1 \/ x.items[1][1] = <<>>)
    /\ AppendBase(x.key) + BulkLen(l) <= MaxBuffered
    /\ AppendBase(x.key) + BulkLen(l + 1) > MaxBuffered
    /\ cs \in Seq(Command) /\ cs # <<>> /\ cs[Len(cs)][1] \in {SetName, AppendName}
    /\ cs[Len(cs)][1] = AppendName =>
          /\ cs[Len(cs)][3] \in ByteString
          /\ t = Len(x.items[1][1]) \/ Len(cs[Len(cs)][3]) = l
    /\ Rebuilt(x.key, cs) = Entry("string", x.key, <<<<SubSeq(x.items[1][1], 1, t)>>>>, <<>>)
    /\ FullChunks(x, cs)

\* The value is written; what is left is the deadline.
ExpiryOk(x, cs) ==
    /\ x.kind = "string" => ~Replayable(SetWhole(x))
    /\ Unwritable(x) => ExpiryTooLong(x)
    /\ cs \in Seq(Command) /\ cs # <<>>
    /\ cs[Len(cs)][1] # PExpireAtName /\ cs[Len(cs)][1] # PExpireName
    /\ Rebuilt(x.key, cs) = Entry(x.kind, x.key, x.items, <<>>)
    /\ FullChunks(x, cs)

\* What comes back of an entry.
Back(x) == IF LateSplit(x) THEN [x EXCEPT !.deadline = <<>>] ELSE x

\* All of the entry is written.
EntryOk(x, cs) == ~Unwritable(x) /\ FullChunks(x, cs) /\ Rebuilt(x.key, cs) = Back(x)

SnapshotInv ==
    /\ entries \in Rewrites /\ file \in Seq(Seq(Command)) /\ Len(file) <= Len(entries)
    /\ \A i \in 1 .. Len(file) : EntryOk(entries[i], file[i])
    /\ stage \in {"entry", "items", "search", "pieces", "expiry", "failed"}
    /\ stage # "entry" => Len(file) < Len(entries)
    /\ stage = "entry" => cmds = <<>>
    /\ stage = "items" => ItemsOk(entry, cmds, current, payload, taken)
    /\ stage = "search" => SearchOk(entry, cmds, lo, hi)
    /\ stage = "pieces" => PiecesOk(entry, cmds, lo, taken)
    /\ stage = "expiry" => ExpiryOk(entry, cmds)
    /\ stage = "failed" => Unwritable(entry)

\* The parts of an entry.
LEMMA EntryFacts ==
    ASSUME NEW x, IsEntry(x)
    PROVE  /\ x.key \in ByteString
           /\ x.deadline # <<>> =>
                /\ x.deadline[2] \in ByteString
                /\ x.deadline = <<IF IsLate(x) THEN "late" ELSE "at", x.deadline[2]>>
           /\ IsLate(x) => x.kind = "string"
           /\ x.kind \in {"string", "list", "hash"}
           /\ x.items \in Seq(Command) /\ Len(x.items) \in Nat /\ Len(x.items) >= 1
           /\ Width(x) = (IF x.kind = "hash" THEN 2 ELSE 1)
           /\ \A i \in 1 .. Len(x.items) : x.items[i] \in Command /\ Len(x.items[i]) = Width(x)
           /\ x = Entry(x.kind, x.key, x.items, x.deadline)
<1>1. x \in [kind: {"string", "list", "hash"}, key: ByteString,
             items: Seq(Command), deadline: {<<>>} \cup ({"at", "late"} \X ByteString)]
    BY DEF IsEntry, Command
<1>2. /\ x.key \in ByteString /\ x.deadline \in {<<>>} \cup ({"at", "late"} \X ByteString)
      /\ x.kind \in {"string", "list", "hash"} /\ x.items \in Seq(Command)
      /\ x = Entry(x.kind, x.key, x.items, x.deadline)
    BY <1>1 DEF Entry
<1>3. Len(x.items) \in Nat /\ Len(x.items) >= 1
    <2>1. x.items # <<>> BY DEF IsEntry
    <2> QED BY <1>2, <2>1
<1>4. \A i \in 1 .. Len(x.items) :
        x.items[i] \in Command /\ Len(x.items[i]) = IF x.kind = "hash" THEN 2 ELSE 1
    BY <1>2 DEF IsEntry
<1>5. 1 \in 1 .. Len(x.items) BY <1>3
<1>6. ASSUME x.deadline # <<>>
      PROVE  /\ x.deadline[2] \in ByteString
             /\ x.deadline = <<IF IsLate(x) THEN "late" ELSE "at", x.deadline[2]>>
    <2>1. x.deadline \in {"at", "late"} \X ByteString BY <1>2, <1>6
    <2>2. PICK a \in {"at", "late"}, b \in ByteString : x.deadline = <<a, b>> BY <2>1
    <2>3. x.deadline[1] = a /\ x.deadline[2] = b BY <2>2
    <2>4. a = IF IsLate(x) THEN "late" ELSE "at" BY <1>6, <2>2, <2>3 DEF IsLate
    <2> QED BY <2>2, <2>3, <2>4
<1>7. IsLate(x) => x.kind = "string" BY DEF IsEntry
<1> QED BY <1>2, <1>3, <1>4, <1>5, <1>6, <1>7 DEF Width

LEMMA StringFacts ==
    ASSUME NEW x, IsEntry(x), x.kind = "string"
    PROVE  /\ x.items[1][1] \in ByteString
           /\ x.items = <<<<x.items[1][1]>>>>
<1>1. /\ x.items \in Seq(Command) /\ Len(x.items) = 1 /\ x.items[1] \in Command
      /\ Len(x.items[1]) = 1
    <2>1. Len(x.items) = 1 BY DEF IsEntry
    <2>2. 1 \in 1 .. Len(x.items) BY <2>1
    <2> QED BY <2>1, <2>2, EntryFacts
<1> DEFINE it == x.items
           one == x.items[1]
<1>2. one \in Seq(ByteString) /\ Len(one) = 1 BY <1>1 DEF Command
<1>3. it \in Seq(Command) /\ Len(it) = 1 /\ it[1] = one BY <1>1
<1> HIDE DEF it, one
<1>4. one = <<one[1]>> /\ one[1] \in ByteString BY <1>2
<1>5. it = <<one>> BY <1>3
<1>6. it = <<<<one[1]>>>> BY <1>4, <1>5
<1> QED BY <1>4, <1>6 DEF it, one

\* Chunks stay full when one more command comes behind them.
LEMMA FullAppend ==
    ASSUME NEW x, NEW cs \in Seq(Command), NEW c \in Command, FullChunks(x, cs),
           cs # <<>> =>
             (cs[Len(cs)][1] = c[1] =>
                ~Replayable(IF x.kind = "string"
                            THEN AppendOf(x, Append(cs[Len(cs)][3], c[3][1]))
                            ELSE cs[Len(cs)] \o SubSeq(c, 3, 2 + Len(x.items[1]))))
    PROVE  FullChunks(x, Append(cs, c))
<1> DEFINE n == Len(cs)
           gs == Append(cs, c)
           Full(a, b) ==
             a[1] = b[1] =>
                ~Replayable(IF x.kind = "string"
                            THEN AppendOf(x, Append(a[3], b[3][1]))
                            ELSE a \o SubSeq(b, 3, 2 + Len(x.items[1])))
<1>1. /\ n \in Nat /\ Len(gs) = n + 1 /\ gs[n + 1] = c
      /\ \A i \in 1 .. n : gs[i] = cs[i]
      /\ cs # <<>> <=> n # 0
    OBVIOUS
<1>2. \A i \in 1 .. n - 1 : Full(cs[i], cs[i + 1]) BY Zenon DEF FullChunks
<1>3. cs # <<>> => Full(cs[n], c) OBVIOUS
<1> HIDE DEF n, gs, Full
<1>4. ASSUME NEW i \in 1 .. Len(gs) - 1 PROVE Full(gs[i], gs[i + 1])
    <2>1. CASE i = n
        <3>1. n # 0 /\ n \in 1 .. n BY <1>1, <2>1
        <3>2. gs[i] = cs[n] /\ gs[i + 1] = c BY <1>1, <2>1, <3>1
        <3> QED BY <1>1, <1>3, <3>1, <3>2
    <2>2. CASE i # n
        <3>1. i \in 1 .. n - 1 /\ i \in 1 .. n /\ i + 1 \in 1 .. n BY <1>1, <2>2
        <3>2. gs[i] = cs[i] /\ gs[i + 1] = cs[i + 1] BY <1>1, <3>1
        <3> QED BY <1>2, <3>1, <3>2
    <2> QED BY <2>1, <2>2
<1>5. FullChunks(x, gs) <=> \A i \in 1 .. Len(gs) - 1 : Full(gs[i], gs[i + 1])
    BY Zenon DEF FullChunks, Full
<1> QED BY <1>4, <1>5 DEF gs

LEMMA FullFew ==
    ASSUME NEW x, NEW c
    PROVE  FullChunks(x, <<>>) /\ FullChunks(x, <<c>>)
<1>1. 1 .. Len(<<>>) - 1 = {} /\ 1 .. Len(<<c>>) - 1 = {} OBVIOUS
<1> QED BY <1>1, Zenon DEF FullChunks

\* What a chunk of items makes of an entry.
LEMMA ReplayChunk ==
    ASSUME NEW x, IsEntry(x), x.kind \in {"list", "hash"}, NEW cur \in Command, NEW y
    PROVE  ReplayCommand(y, Chunk(x, cur)) =
             Entry(x.kind, y.key, y.items \o Group(x, cur), y.deadline)
<1> DEFINE k == x.key
<1>1. k \in ByteString BY EntryFacts
<1> HIDE DEF k
<1>2. CASE x.kind = "list"
    <2>1. ReplayCommand(y, <<RPushName, k>> \o cur) =
            Entry("list", y.key, y.items \o Singles(cur), y.deadline)
        BY <1>1, ReplayRPush
    <2>2. Chunk(x, cur) = <<RPushName, k>> \o cur /\ Group(x, cur) = Singles(cur)
        BY <1>2 DEF Chunk, Name, Group, k
    <2> QED BY <1>2, <2>1, <2>2
<1>3. CASE x.kind = "hash"
    <2>1. ReplayCommand(y, <<HSetName, k>> \o cur) =
            Entry("hash", y.key, y.items \o Pairs(cur), y.deadline)
        BY <1>1, ReplayHSet
    <2>2. Chunk(x, cur) = <<HSetName, k>> \o cur /\ Group(x, cur) = Pairs(cur)
        BY <1>3 DEF Chunk, Name, Group, k
    <2> QED BY <1>3, <2>1, <2>2
<1> QED BY <1>2, <1>3

\* Short sequences.
LEMMA ShortSeq ==
    ASSUME NEW S, NEW a \in Seq(S)
    PROVE  /\ Len(a) = 1 => a = <<a[1]>> /\ a[1] \in S
           /\ Len(a) = 2 => a = <<a[1], a[2]>> /\ a[1] \in S /\ a[2] \in S
<1>1. ASSUME Len(a) = 1 PROVE a = <<a[1]>> /\ a[1] \in S
    <2>1. a[1] \in S BY <1>1
    <2> DEFINE b == <<a[1]>>
    <2>2. b \in Seq(S) /\ Len(b) = 1 /\ b[1] = a[1] BY <2>1
    <2> HIDE DEF b
    <2>3. a = b BY <1>1, <2>2
    <2> QED BY <2>1, <2>3 DEF b
<1>2. ASSUME Len(a) = 2 PROVE a = <<a[1], a[2]>> /\ a[1] \in S /\ a[2] \in S
    <2>1. a[1] \in S /\ a[2] \in S BY <1>2
    <2> DEFINE b == <<a[1], a[2]>>
    <2>2. b \in Seq(S) /\ Len(b) = 2 /\ b[1] = a[1] /\ b[2] = a[2] BY <2>1
    <2> HIDE DEF b
    <2>3. \A i \in 1 .. 2 : a[i] = b[i]
        <3> TAKE i \in 1 .. 2
        <3>1. i = 1 \/ i = 2 OBVIOUS
        <3> QED BY <2>2, <3>1
    <2>4. a = b BY <1>2, <2>2, <2>3
    <2> QED BY <2>1, <2>4 DEF b
<1> QED BY <1>1, <1>2

LEMMA SinglesAppend ==
    ASSUME NEW cur \in Command, NEW e \in ByteString
    PROVE  Singles(cur) \in Seq(Command) /\ Singles(cur \o <<e>>) = Append(Singles(cur), <<e>>)
<1> DEFINE n == Len(cur)
           item == <<e>>
           both == cur \o item
           s == Singles(cur)
           t == Singles(both)
<1>0. cur \in Seq(ByteString) BY DEF Command
<1>1. /\ n \in Nat /\ Len(both) = n + 1 /\ both[n + 1] = e
      /\ \A i \in 1 .. n : both[i] = cur[i] /\ cur[i] \in ByteString
    BY <1>0
<1>2. s = [i \in 1 .. n |-> <<cur[i]>>] BY DEF Singles
<1>3. t = [i \in 1 .. n + 1 |-> <<both[i]>>] BY <1>1 DEF Singles
<1>6. item \in Command /\ item = <<e>> BY DEF Command
<1> HIDE DEF n, both, item, s, t
<1>4. s \in Seq(Command) /\ Len(s) = n
    <2>1. \A i \in 1 .. n : <<cur[i]>> \in Command BY <1>1 DEF Command
    <2> QED BY <1>1, <1>2, <2>1
<1>5. t = Append(s, item)
    <2> DEFINE a == Append(s, item)
    <2>1. /\ a \in Seq(Command) /\ Len(a) = n + 1 /\ a[n + 1] = item
          /\ \A i \in 1 .. n : a[i] = s[i]
        BY <1>1, <1>4, <1>6
    <2> HIDE DEF a
    <2>2. ASSUME NEW i \in 1 .. n + 1 PROVE a[i] = t[i]
        <3>1. CASE i = n + 1 BY <1>1, <1>3, <1>6, <2>1, <3>1
        <3>2. CASE i # n + 1
            <4>1. i \in 1 .. n BY <1>1, <3>2
            <4> QED BY <1>1, <1>2, <1>3, <2>1, <3>2, <4>1
        <3> QED BY <3>1, <3>2
    <2>3. a = t BY <1>1, <1>3, <2>1, <2>2
    <2> QED BY <2>3 DEF a
<1> QED BY <1>4, <1>5 DEF s, t, both, item

LEMMA PairsAppend ==
    ASSUME NEW cur \in Command, NEW e \in ByteString, NEW f \in ByteString,
           NEW k \in Nat, Len(cur) = 2 * k
    PROVE  Pairs(cur) \in Seq(Command) /\ Pairs(cur \o <<e, f>>) = Append(Pairs(cur), <<e, f>>)
<1> DEFINE item == <<e, f>>
           both == cur \o item
           s == Pairs(cur)
           t == Pairs(both)
<1>0. cur \in Seq(ByteString) BY DEF Command
<1>1. /\ Len(both) = 2 * k + 2 /\ both[2 * k + 1] = e /\ both[2 * k + 2] = f
      /\ \A i \in 1 .. 2 * k : both[i] = cur[i] /\ cur[i] \in ByteString
    BY <1>0
<1>2. (2 * k) \div 2 = k /\ (2 * k + 2) \div 2 = k + 1 OBVIOUS
<1>3. s = [i \in 1 .. k |-> <<cur[2 * i - 1], cur[2 * i]>>] BY <1>2 DEF Pairs
<1>4. t = [i \in 1 .. k + 1 |-> <<both[2 * i - 1], both[2 * i]>>] BY <1>1, <1>2 DEF Pairs
<1>5. \A i \in 1 .. k : 2 * i \in 1 .. 2 * k /\ 2 * i - 1 \in 1 .. 2 * k OBVIOUS
<1>8. item \in Command /\ item = <<e, f>> BY DEF Command
<1> HIDE DEF both, item, s, t
<1>6. s \in Seq(Command) /\ Len(s) = k
    <2>1. \A i \in 1 .. k : <<cur[2 * i - 1], cur[2 * i]>> \in Command
        BY <1>1, <1>5 DEF Command
    <2> QED BY <1>3, <2>1
<1>7. t = Append(s, item)
    <2> DEFINE a == Append(s, item)
    <2>1. /\ a \in Seq(Command) /\ Len(a) = k + 1 /\ a[k + 1] = item
          /\ \A i \in 1 .. k : a[i] = s[i]
        BY <1>6, <1>8
    <2> HIDE DEF a
    <2>2. ASSUME NEW i \in 1 .. k + 1 PROVE a[i] = t[i]
        <3>1. CASE i = k + 1
            <4>1. 2 * i = 2 * k + 2 /\ 2 * i - 1 = 2 * k + 1 BY <3>1
            <4> QED BY <1>1, <1>4, <1>8, <2>1, <3>1, <4>1
        <3>2. CASE i # k + 1
            <4>1. i \in 1 .. k BY <3>2
            <4>2. both[2 * i] = cur[2 * i] /\ both[2 * i - 1] = cur[2 * i - 1] BY <1>1, <1>5, <4>1
            <4> QED BY <1>3, <1>4, <2>1, <3>2, <4>1, <4>2
        <3> QED BY <3>1, <3>2
    <2>4. a = [i \in 1 .. k + 1 |-> a[i]] BY <2>1
    <2>5. t = [i \in 1 .. k + 1 |-> t[i]] BY <1>4
    <2>3. a = t BY <2>2, <2>4, <2>5
    <2> QED BY <2>3 DEF a
<1> QED BY <1>6, <1>7 DEF s, t, both, item

\* A chunk with one more item.
LEMMA GroupAppend ==
    ASSUME NEW x, IsEntry(x), x.kind \in {"list", "hash"},
           NEW cur \in Command, NEW k \in Nat, Len(cur) = Width(x) * k,
           NEW item \in Command, Len(item) = Width(x)
    PROVE  /\ Group(x, cur) \in Seq(Command)
           /\ Group(x, cur \o item) = Append(Group(x, cur), item)
<1>1. CASE x.kind = "list"
    <2>1. Len(item) = 1 BY <1>1, EntryFacts
    <2>2. item = <<item[1]>> /\ item[1] \in ByteString BY <2>1, ShortSeq DEF Command
    <2> QED BY <1>1, <2>2, SinglesAppend DEF Group
<1>2. CASE x.kind = "hash"
    <2>1. Len(item) = 2 /\ Len(cur) = 2 * k BY <1>2, EntryFacts
    <2>2. item = <<item[1], item[2]>> /\ item[1] \in ByteString /\ item[2] \in ByteString
        BY <2>1, ShortSeq DEF Command
    <2> QED BY <1>2, <2>1, <2>2, PairsAppend DEF Group
<1> QED BY <1>1, <1>2

LEMMA GroupNone ==
    ASSUME NEW x
    PROVE  Group(x, <<>>) = <<>>
<1>1. Len(<<>>) = 0 /\ 0 \div 2 = 0 OBVIOUS
<1>2. Singles(<<>>) = <<>> BY <1>1 DEF Singles
<1>3. Pairs(<<>>) = <<>> BY <1>1 DEF Pairs
<1> QED BY <1>2, <1>3 DEF Group

-----------------------------------------------------------------------------
(***************************************************************************)
(* Lists and hashes.                                                       *)
(***************************************************************************)

\* The running length decides whether a chunk may be written.
LEMMA ChunkFits ==
    ASSUME NEW x, IsEntry(x), NEW cur \in Command
    PROVE  /\ ChunkedLen(x, Len(cur), PayloadLen(cur)) \in Nat
           /\ Replayable(Chunk(x, cur)) <=>
                ChunkedLen(x, Len(cur), PayloadLen(cur)) <= MaxBuffered
           /\ Chunk(x, cur) \in Command /\ Chunk(x, cur)[1] = Name(x)
           /\ SubSeq(Chunk(x, cur), 3, Len(Chunk(x, cur))) = cur
<1>1. x.key \in ByteString BY EntryFacts
<1>2. PICK p : p \in ByteString BY <1>1
<1>3. /\ Chunk(x, cur) \in Command
      /\ CommandLen(Chunk(x, cur)) = ChunkedLen(x, Len(cur), PayloadLen(cur))
    BY <1>1, CommandLengths
<1>4. Name(x) \in ByteString BY NameLengths DEF Name
<1>5. /\ Len(cur) + 2 \in Nat /\ Len(Name(x)) \in Nat /\ Len(x.key) \in Nat
    BY <1>1, <1>4 DEF Command, ByteString
<1>6. PayloadLen(cur) \in Nat BY PayloadConcat
<1>7. /\ ArrayHeaderLen(Len(cur) + 2) \in Nat /\ BulkLen(Len(Name(x))) \in Nat
      /\ BulkLen(Len(x.key)) \in Nat
    BY <1>5, LengthsGrow
<1>8. ChunkedLen(x, Len(cur), PayloadLen(cur)) \in Nat BY <1>6, <1>7 DEF ChunkedLen
<1>9. /\ Chunk(x, cur)[1] = Name(x)
      /\ SubSeq(Chunk(x, cur), 3, Len(Chunk(x, cur))) = cur
    <2> DEFINE nm == Name(x)
               k == x.key
    <2>1. nm \in ByteString /\ k \in ByteString /\ cur \in Seq(ByteString)
        BY <1>1, <1>4 DEF Command
    <2>2. Chunk(x, cur) = <<nm, k>> \o cur BY DEF Chunk
    <2> HIDE DEF nm, k
    <2>3. (<<nm, k>> \o cur)[1] = nm /\ SubSeq(<<nm, k>> \o cur, 3, Len(<<nm, k>> \o cur)) = cur
        BY <2>1, PartsOf
    <2>4. Chunk(x, cur)[1] = nm /\ SubSeq(Chunk(x, cur), 3, Len(Chunk(x, cur))) = cur
        BY <2>2, <2>3
    <2> QED BY <2>4 DEF nm
<1> QED BY <1>3, <1>8, <1>9 DEF Replayable

\* A chunk with the items of another behind its own.
LEMMA ChunkBehind ==
    ASSUME NEW x, IsEntry(x), NEW cur \in Command, NEW item \in Command
    PROVE  Chunk(x, cur) \o item = Chunk(x, cur \o item)
<1> DEFINE nm == Name(x)
           k == x.key
<1>1. nm \in ByteString /\ k \in ByteString
    BY EntryFacts, NameLengths DEF Name
<1>2. cur \in Seq(ByteString) /\ item \in Seq(ByteString) BY DEF Command
<1> HIDE DEF nm, k
<1>3. (<<nm, k>> \o cur) \o item = <<nm, k>> \o (cur \o item) BY <1>1, <1>2
<1> QED BY <1>3 DEF Chunk, nm, k

LEMMA ChunkConcat ==
    ASSUME NEW x, IsEntry(x), NEW cur \in Command, NEW item \in Command
    PROVE  /\ cur \o item \in Command /\ Len(cur \o item) = Len(cur) + Len(item)
           /\ PayloadLen(cur \o item) = PayloadLen(cur) + PayloadLen(item)
           /\ Replayable(Chunk(x, cur \o item)) <=>
                ChunkedLen(x, Len(cur) + Len(item), PayloadLen(cur) + PayloadLen(item))
                    <= MaxBuffered
           /\ Replayable(Chunk(x, cur \o item)) => Replayable(Chunk(x, item))
<1>1. cur \o item \in Command /\ Len(cur \o item) = Len(cur) + Len(item)
    BY DEF Command
<1>2. /\ PayloadLen(cur \o item) = PayloadLen(cur) + PayloadLen(item)
      /\ PayloadLen(cur) \in Nat /\ PayloadLen(item) \in Nat
    BY PayloadConcat
<1>4. Replayable(Chunk(x, cur \o item)) <=>
        ChunkedLen(x, Len(cur) + Len(item), PayloadLen(cur) + PayloadLen(item)) <= MaxBuffered
    BY <1>1, <1>2, ChunkFits
<1>5. ChunkedLen(x, Len(item), PayloadLen(item))
        <= ChunkedLen(x, Len(cur) + Len(item), PayloadLen(cur) + PayloadLen(item))
    <2> DEFINE m == Len(item) + 2
               n == Len(cur) + Len(item) + 2
    <2>1. m \in Nat /\ n \in Nat /\ m <= n BY DEF Command
    <2> HIDE DEF m, n
    <2>2. ArrayHeaderLen(m) \in Nat /\ ArrayHeaderLen(n) \in Nat
            /\ ArrayHeaderLen(m) <= ArrayHeaderLen(n)
        BY <2>1, LengthsGrow
    <2>3. x.key \in ByteString /\ Name(x) \in ByteString
        BY EntryFacts, NameLengths DEF Name
    <2>4. Len(Name(x)) \in Nat /\ Len(x.key) \in Nat BY <2>3 DEF ByteString
    <2>5. BulkLen(Len(Name(x))) \in Nat /\ BulkLen(Len(x.key)) \in Nat BY <2>4, LengthsGrow
    <2> QED BY <1>2, <2>2, <2>5 DEF ChunkedLen, m, n
<1>6. Replayable(Chunk(x, item)) <=> ChunkedLen(x, Len(item), PayloadLen(item)) <= MaxBuffered
    BY ChunkFits
<1>7. /\ ChunkedLen(x, Len(item), PayloadLen(item)) \in Nat
      /\ ChunkedLen(x, Len(cur) + Len(item), PayloadLen(cur) + PayloadLen(item)) \in Nat
    BY <1>1, <1>2, ChunkFits
<1>8. MaxBuffered \in Nat BY FramesAssumption
<1> QED BY <1>1, <1>2, <1>4, <1>5, <1>6, <1>7, <1>8

\* Before the first item.
LEMMA ItemsBegin ==
    ASSUME NEW x, IsEntry(x), x.kind \in {"list", "hash"}
    PROVE  ItemsOk(x, <<>>, <<>>, 0, 0)
<1>1. /\ 0 \in 0 .. Len(x.items) /\ Width(x) \in Nat BY EntryFacts
<1>2. <<>> \in Seq(Command) /\ <<>> \in Command /\ 0 = PayloadLen(<<>>)
    BY PayloadNone DEF Command
<1>3. Len(<<>>) = Width(x) * 0 /\ 0 \in Nat BY <1>1
<1>4. Rebuilt(x.key, <<>>) = Entry("none", x.key, <<>>, <<>>) BY RebuiltNone DEF Nothing
<1>5. /\ Rebuilt(x.key, <<>>).key = x.key /\ Rebuilt(x.key, <<>>).deadline = <<>>
      /\ Rebuilt(x.key, <<>>).items = <<>>
    BY <1>4 DEF Entry
<1>6. <<>> \o <<>> = <<>> /\ SubSeq(x.items, 1, 0) = <<>>
    <2>1. x.items \in Seq(Command) BY EntryFacts
    <2> QED BY <2>1
<1>7. Rebuilt(x.key, <<>>).items \o Group(x, <<>>) = SubSeq(x.items, 1, 0)
    BY <1>5, <1>6, GroupNone
<1>8. FullChunks(x, <<>>) BY FullFew
<1>9. \A i \in 1 .. 0 : Replayable(Chunk(x, x.items[i])) OBVIOUS
<1>10. \E k \in Nat : Len(<<>>) = Width(x) * k BY <1>3
<1>11. Rebuilt(x.key, <<>>).items \in Seq(Command) BY <1>2, <1>5, Zenon
<1>12. ~(0 > 0) OBVIOUS
<1> QED
    BY <1>1, <1>2, <1>5, <1>7, <1>8, <1>9, <1>10, <1>11, <1>12, Zenon DEF ItemsOk

LEMMA ConcatAppend ==
    ASSUME NEW S, NEW a \in Seq(S), NEW b \in Seq(S), NEW c \in S
    PROVE  a \o Append(b, c) = Append(a \o b, c)
OBVIOUS

\* The next item of x, and what has been taken with it.
LEMMA NextItem ==
    ASSUME NEW x, IsEntry(x), NEW t \in Nat, t < Len(x.items)
    PROVE  /\ t + 1 \in 0 .. Len(x.items) /\ t + 1 \in 1 .. Len(x.items)
           /\ x.items[t + 1] \in Command /\ Len(x.items[t + 1]) = Width(x)
           /\ SubSeq(x.items, 1, t) \in Seq(Command)
           /\ SubSeq(x.items, 1, t + 1) = Append(SubSeq(x.items, 1, t), x.items[t + 1])
<1> DEFINE it == x.items
           item == it[t + 1]
           done == SubSeq(it, 1, t)
<1>1. /\ it \in Seq(Command) /\ Len(it) \in Nat
      /\ \A i \in 1 .. Len(it) : it[i] \in Command /\ Len(it[i]) = Width(x)
    BY EntryFacts
<1>2. t + 1 \in 0 .. Len(it) /\ t + 1 \in 1 .. Len(it) /\ t \in 0 .. Len(it) - 1 BY <1>1
<1>3. item \in Command /\ Len(item) = Width(x) BY <1>1, <1>2
<1>4. done \in Seq(Command) /\ SubSeq(it, 1, t + 1) = Append(done, item)
    BY <1>1, <1>2, OneMore
<1> QED BY <1>2, <1>3, <1>4 DEF it, item, done

\* A turn of the loop that adds an item to the chunk.
LEMMA AddKeeps ==
    ASSUME NEW x, IsEntry(x), NEW cs, NEW cur, NEW len, NEW t,
           ItemsOk(x, cs, cur, len, t), t < Len(x.items), NEW item, item = x.items[t + 1],
           ChunkedLen(x, Len(cur) + Len(item), len + PayloadLen(item)) <= MaxBuffered
    PROVE  ItemsOk(x, cs, cur \o item, len + PayloadLen(item), t + 1)
<1> DEFINE R == Rebuilt(x.key, cs)
           W == Width(x)
<1>1. /\ x.kind \in {"list", "hash"} /\ t \in 0 .. Len(x.items)
      /\ cs \in Seq(Command) /\ cur \in Command /\ len = PayloadLen(cur)
      /\ t = 0 => cs = <<>> /\ cur = <<>>
      /\ t > 0 => Len(cur) >= W /\ Replayable(Chunk(x, cur))
      /\ \A i \in 1 .. t : Replayable(Chunk(x, x.items[i]))
      /\ R.key = x.key /\ R.deadline = <<>> /\ R.items \in Seq(Command)
      /\ R.items \o Group(x, cur) = SubSeq(x.items, 1, t)
      /\ FullChunks(x, cs)
      /\ cs # <<>> => ~Replayable(cs[Len(cs)] \o SubSeq(cur, 1, W))
    BY DEF ItemsOk
<1>2. PICK k \in Nat : Len(cur) = W * k BY DEF ItemsOk
<1>3. W \in {1, 2} /\ t \in Nat /\ Len(cur) \in Nat /\ Len(x.items) \in Nat
    BY <1>1, EntryFacts DEF Command
<1>11. item \in Command /\ Len(item) = W
    <2>1. t + 1 \in 1 .. Len(x.items) BY <1>3
    <2> QED BY <2>1, EntryFacts
<1> HIDE DEF R, W
<1>4. Group(x, cur) \in Seq(Command) /\ Group(x, cur \o item) = Append(Group(x, cur), item)
    BY <1>1, <1>2, <1>11, GroupAppend DEF W
<1>5. /\ t + 1 \in 0 .. Len(x.items)
      /\ R.items \o Append(Group(x, cur), item) = SubSeq(x.items, 1, t + 1)
    <2>1. /\ t + 1 \in 0 .. Len(x.items)
          /\ SubSeq(x.items, 1, t + 1) = Append(SubSeq(x.items, 1, t), item)
        BY <1>3, NextItem
    <2> DEFINE u == R.items
               v == Group(x, cur)
    <2>2. u \in Seq(Command) /\ v \in Seq(Command) /\ u \o v = SubSeq(x.items, 1, t)
        BY <1>1, <1>4
    <2> HIDE DEF u, v
    <2>3. u \in Seq(Command) /\ v \in Seq(Command) /\ item \in Command BY <1>11, <2>2
    <2>4. u \o Append(v, item) = Append(u \o v, item) BY <2>3, ConcatAppend
    <2> QED BY <2>1, <2>2, <2>4 DEF u, v
<1>6. /\ cur \o item \in Command /\ Len(cur \o item) = Len(cur) + Len(item)
      /\ PayloadLen(cur \o item) = PayloadLen(cur) + PayloadLen(item)
      /\ Replayable(Chunk(x, cur \o item)) /\ Replayable(Chunk(x, item))
    BY <1>1, <1>11, ChunkConcat
<1>7. \E j \in Nat : Len(cur \o item) = W * j
    <2>1. k + 1 \in Nat /\ Len(cur \o item) = W * (k + 1) BY <1>2, <1>3, <1>6, <1>11
    <2> QED BY <2>1
<1>8. Len(cur \o item) >= W BY <1>3, <1>6, <1>11
<1>9. \A i \in 1 .. t + 1 : Replayable(Chunk(x, x.items[i]))
    <2> TAKE i \in 1 .. t + 1
    <2>1. CASE i = t + 1 BY <1>6, <2>1
    <2>2. CASE i # t + 1
        <3>1. i \in 1 .. t BY <1>3, <2>2
        <3> QED BY <1>1, <3>1
    <2> QED BY <2>1, <2>2
<1>10. cs # <<>> => ~Replayable(cs[Len(cs)] \o SubSeq(cur \o item, 1, W))
    <2> SUFFICES ASSUME cs # <<>> PROVE SubSeq(cur \o item, 1, W) = SubSeq(cur, 1, W)
        BY <1>1
    <2>1. t > 0 /\ Len(cur) >= W BY <1>1, <1>3
    <2>2. cur \in Seq(ByteString) /\ item \in Seq(ByteString) BY <1>1, <1>11 DEF Command
    <2> DEFINE u == SubSeq(cur, 1, W)
               v == SubSeq(cur \o item, 1, W)
    <2>3. u \in Seq(ByteString) /\ Len(u) = W /\ \A i \in 1 .. W : u[i] = cur[i]
        BY <1>3, <2>1, <2>2
    <2>4. v \in Seq(ByteString) /\ Len(v) = W /\ \A i \in 1 .. W : v[i] = cur[i]
        BY <1>3, <2>1, <2>2
    <2> HIDE DEF u, v
    <2>5. u = v BY <2>3, <2>4
    <2> QED BY <2>5 DEF u, v
<1>12. t + 1 # 0 BY <1>3
<1> QED BY <1>1, <1>4, <1>5, <1>6, <1>7, <1>8, <1>9, <1>10, <1>12 DEF ItemsOk, R, W

LEMMA AppendLast ==
    ASSUME NEW S, NEW a \in Seq(S), NEW c \in S
    PROVE  /\ Append(a, c) \in Seq(S) /\ Append(a, c) # <<>>
           /\ Append(a, c)[Len(Append(a, c))] = c
OBVIOUS

\* A chunk is written: what is rebuilt then, and that all are full.
LEMMA ChunkWritten ==
    ASSUME NEW x, IsEntry(x), NEW cs, NEW cur, NEW len, NEW t,
           ItemsOk(x, cs, cur, len, t), t > 0
    PROVE  /\ cur # <<>> /\ Replayable(Chunk(x, cur))
           /\ Append(cs, Chunk(x, cur)) \in Seq(Command)
           /\ Append(cs, Chunk(x, cur))[Len(Append(cs, Chunk(x, cur)))] = Chunk(x, cur)
           /\ Append(cs, Chunk(x, cur)) # <<>>
           /\ Rebuilt(x.key, Append(cs, Chunk(x, cur))) =
                Entry(x.kind, x.key, SubSeq(x.items, 1, t), <<>>)
           /\ FullChunks(x, Append(cs, Chunk(x, cur)))
<1> DEFINE R == Rebuilt(x.key, cs)
           W == Width(x)
           c == Chunk(x, cur)
<1>1. /\ x.kind \in {"list", "hash"} /\ t \in 0 .. Len(x.items)
      /\ cs \in Seq(Command) /\ cur \in Command
      /\ Len(cur) >= W /\ Replayable(c)
      /\ R.key = x.key /\ R.deadline = <<>> /\ R.items \in Seq(Command)
      /\ R.items \o Group(x, cur) = SubSeq(x.items, 1, t)
      /\ FullChunks(x, cs)
      /\ cs # <<>> => ~Replayable(cs[Len(cs)] \o SubSeq(cur, 1, W))
    BY DEF ItemsOk
<1>2. W \in {1, 2} /\ Len(cur) \in Nat BY <1>1, EntryFacts DEF Command
<1>3. c \in Command /\ c[1] = Name(x) BY <1>1, ChunkFits
<1>4. ReplayCommand(R, c) = Entry(x.kind, R.key, R.items \o Group(x, cur), R.deadline)
    BY <1>1, ReplayChunk
<1>5. SubSeq(c, 3, 2 + Len(x.items[1])) = SubSeq(cur, 1, W)
    <2> DEFINE nm == Name(x)
               k == x.key
    <2>1. nm \in ByteString /\ k \in ByteString /\ cur \in Seq(ByteString)
        BY <1>1, EntryFacts, NameLengths DEF Command, Name
    <2>2. c = <<nm, k>> \o cur BY DEF Chunk
    <2> HIDE DEF nm, k, c
    <2>3. \A j \in 0 .. Len(cur) : SubSeq(<<nm, k>> \o cur, 3, 2 + j) = SubSeq(cur, 1, j)
        BY <2>1, PartsOf
    <2>4. W \in 0 .. Len(cur) BY <1>1, <1>2
    <2> HIDE DEF W
    <2>5. SubSeq(c, 3, 2 + W) = SubSeq(cur, 1, W) BY <2>2, <2>3, <2>4
    <2> QED BY <2>5 DEF W, Width
<1> HIDE DEF R, W, c
<1>6. Rebuilt(x.key, Append(cs, c)) = ReplayCommand(R, c) BY <1>1, <1>3, RebuiltAppend DEF R
<1>7. FullChunks(x, Append(cs, c))
    <2>1. x.kind # "string" BY <1>1
    <2>2. cs # <<>> =>
             (cs[Len(cs)][1] = c[1] =>
                ~Replayable(IF x.kind = "string"
                            THEN AppendOf(x, Append(cs[Len(cs)][3], c[3][1]))
                            ELSE cs[Len(cs)] \o SubSeq(c, 3, 2 + Len(x.items[1]))))
        BY <1>1, <1>5, <2>1
    <2> QED BY <1>1, <1>3, <2>2, FullAppend
<1>8. cur # <<>> BY <1>1, <1>2
<1>9. /\ Append(cs, c) \in Seq(Command) /\ Append(cs, c) # <<>>
      /\ Append(cs, c)[Len(Append(cs, c))] = c
    <2>1. cs \in Seq(Command) /\ c \in Command BY <1>1, <1>3
    <2> QED BY <2>1, AppendLast
<1> QED BY <1>1, <1>4, <1>6, <1>7, <1>8, <1>9 DEF c

\* A chunk that has no room for an item.
LEMMA TooLong ==
    ASSUME NEW x, IsEntry(x), NEW cur \in Command, NEW item \in Command,
           ChunkedLen(x, Len(cur) + Len(item), PayloadLen(cur) + PayloadLen(item)) > MaxBuffered
    PROVE  ~Replayable(Chunk(x, cur \o item)) /\ Chunk(x, cur) \o item = Chunk(x, cur \o item)
<1>1. /\ cur \o item \in Command
      /\ Len(cur \o item) = Len(cur) + Len(item)
      /\ PayloadLen(cur \o item) = PayloadLen(cur) + PayloadLen(item)
      /\ Replayable(Chunk(x, cur \o item)) <=>
           ChunkedLen(x, Len(cur) + Len(item), PayloadLen(cur) + PayloadLen(item)) <= MaxBuffered
    BY ChunkConcat
<1>2. ChunkedLen(x, Len(cur \o item), PayloadLen(cur \o item)) \in Nat BY <1>1, ChunkFits
<1>3. MaxBuffered \in Nat BY FramesAssumption
<1>4. Chunk(x, cur) \o item = Chunk(x, cur \o item) BY ChunkBehind
<1> QED BY <1>1, <1>2, <1>3, <1>4

\* A turn of the loop that writes the chunk and begins another.
LEMMA CloseKeeps ==
    ASSUME NEW x, IsEntry(x), NEW cs, NEW cur, NEW len, NEW t,
           ItemsOk(x, cs, cur, len, t), t < Len(x.items), NEW item, item = x.items[t + 1],
           ChunkedLen(x, Len(cur) + Len(item), len + PayloadLen(item)) > MaxBuffered
    PROVE  IF /\ cur # <<>> /\ Replayable(Chunk(x, cur))
              /\ ChunkedLen(x, Len(item), PayloadLen(item)) <= MaxBuffered
           THEN ItemsOk(x, Append(cs, Chunk(x, cur)), item, PayloadLen(item), t + 1)
           ELSE Unwritable(x)
<1> DEFINE gs == Append(cs, Chunk(x, cur))
           W == Width(x)
<1>1. /\ x.kind \in {"list", "hash"} /\ t \in 0 .. Len(x.items)
      /\ cs \in Seq(Command) /\ cur \in Command /\ len = PayloadLen(cur)
      /\ t = 0 => cur = <<>>
      /\ \A i \in 1 .. t : Replayable(Chunk(x, x.items[i]))
    BY DEF ItemsOk
<1>2. W \in {1, 2} /\ t \in Nat /\ Len(cur) \in Nat /\ Len(x.items) \in Nat
    BY <1>1, EntryFacts DEF Command
<1>3. /\ t + 1 \in 0 .. Len(x.items) /\ t + 1 \in 1 .. Len(x.items)
      /\ item \in Command /\ Len(item) = W
      /\ SubSeq(x.items, 1, t) \in Seq(Command)
      /\ SubSeq(x.items, 1, t + 1) = Append(SubSeq(x.items, 1, t), item)
    BY <1>2, NextItem
<1>4. /\ Replayable(Chunk(x, item)) <=> ChunkedLen(x, Len(item), PayloadLen(item)) <= MaxBuffered
      /\ ChunkedLen(x, Len(item), PayloadLen(item)) \in Nat
    BY <1>3, ChunkFits
<1>5. ~Replayable(Chunk(x, cur \o item)) /\ Chunk(x, cur) \o item = Chunk(x, cur \o item)
    BY <1>1, <1>3, TooLong
<1>6. ASSUME ~Replayable(Chunk(x, item)) PROVE Unwritable(x)
    <2>1. x.kind # "string" BY <1>1
    <2> QED BY <1>3, <1>6, <2>1 DEF Unwritable
<1>7. CASE t = 0
    <2>1. cur = <<>> /\ cur \o item = item
        <3>1. item \in Seq(ByteString) BY <1>3 DEF Command
        <3> QED BY <1>1, <1>7, <3>1
    <2>2. Unwritable(x) BY <1>5, <1>6, <2>1
    <2> QED BY <2>1, <2>2
<1>8. CASE t > 0
    <2>1. /\ cur # <<>> /\ Replayable(Chunk(x, cur)) /\ gs \in Seq(Command)
          /\ gs[Len(gs)] = Chunk(x, cur) /\ gs # <<>>
          /\ Rebuilt(x.key, gs) = Entry(x.kind, x.key, SubSeq(x.items, 1, t), <<>>)
          /\ FullChunks(x, gs)
        BY <1>8, ChunkWritten
    <2> HIDE DEF gs
    <2>2. CASE ~Replayable(Chunk(x, item)) BY <1>4, <1>6, <2>2
    <2>3. CASE Replayable(Chunk(x, item))
        <3> DEFINE R == Rebuilt(x.key, gs)
                   u == SubSeq(x.items, 1, t)
        <3>0. R = Entry(x.kind, x.key, u, <<>>) BY <2>1
        <3> HIDE DEF R, u
        <3>12. /\ R.key = x.key /\ R.deadline = <<>> /\ R.items = u BY <3>0 DEF Entry
        <3>1. /\ R.key = x.key /\ R.deadline = <<>> /\ R.items = SubSeq(x.items, 1, t)
            BY <3>12 DEF u
        <3>2. /\ Group(x, <<>>) = <<>>
              /\ Group(x, <<>> \o item) = Append(Group(x, <<>>), item)
            <4>1. <<>> \in Command /\ Len(<<>>) = W * 0 /\ 0 \in Nat BY <1>2 DEF Command
            <4> QED BY <1>1, <1>3, <4>1, GroupAppend, GroupNone DEF W
        <3>3. Group(x, item) = <<item>>
            <4>1. <<>> \o item = item
                <5>1. item \in Seq(ByteString) BY <1>3 DEF Command
                <5> QED BY <5>1
            <4>2. Append(<<>>, item) = <<item>> OBVIOUS
            <4> QED BY <3>2, <4>1, <4>2
        <3>4. R.items \o Group(x, item) = SubSeq(x.items, 1, t + 1)
            <4>1. u \in Seq(Command) BY <1>3 DEF u
            <4>2. u \o <<item>> = Append(u, item) BY <1>3, <4>1
            <4> QED BY <1>3, <3>1, <3>3, <4>2 DEF u
        <3>5. SubSeq(item, 1, W) = item
            <4>1. item \in Seq(ByteString) BY <1>3 DEF Command
            <4> QED BY <1>3, <4>1
        <3>6. ~Replayable(gs[Len(gs)] \o SubSeq(item, 1, W)) BY <1>5, <2>1, <3>5
        <3>7. \A i \in 1 .. t + 1 : Replayable(Chunk(x, x.items[i]))
            <4> TAKE i \in 1 .. t + 1
            <4>1. CASE i = t + 1 BY <2>3, <4>1
            <4>2. CASE i # t + 1
                <5>1. i \in 1 .. t BY <1>2, <4>2
                <5> QED BY <1>1, <5>1
            <4> QED BY <4>1, <4>2
        <3>8. \E j \in Nat : Len(item) = W * j
            <4>1. 1 \in Nat /\ Len(item) = W * 1 BY <1>2, <1>3
            <4> QED BY <4>1
        <3>9. t + 1 # 0 /\ Len(item) >= W BY <1>2, <1>3
        <3>10. R.items \in Seq(Command) BY <1>3, <3>1
        <3> HIDE DEF W
        <3>11. ItemsOk(x, gs, item, PayloadLen(item), t + 1)
            BY <1>1, <1>3, <2>1, <2>3, <3>1, <3>4, <3>6, <3>7, <3>8, <3>9, <3>10
            DEF ItemsOk, R, W
        <3> QED BY <1>4, <2>1, <2>3, <3>11 DEF gs
    <2> QED BY <2>2, <2>3
<1>9. t = 0 \/ t > 0 BY <1>2
<1> QED BY <1>7, <1>8, <1>9

\* The loop is over.
LEMMA EndKeeps ==
    ASSUME NEW x, IsEntry(x), NEW cs, NEW cur, NEW len, NEW t,
           ItemsOk(x, cs, cur, len, t), t = Len(x.items)
    PROVE  /\ cur # <<>> /\ Replayable(Chunk(x, cur))
           /\ ExpiryOk(x, Append(cs, Chunk(x, cur)))
<1> DEFINE gs == Append(cs, Chunk(x, cur))
<1>1. /\ x.kind \in {"list", "hash"} /\ cur \in Command
      /\ \A i \in 1 .. Len(x.items) : Replayable(Chunk(x, x.items[i]))
    BY DEF ItemsOk
<1>2. t > 0 /\ x.items \in Seq(Command) BY EntryFacts
<1>3. /\ cur # <<>> /\ Replayable(Chunk(x, cur)) /\ gs \in Seq(Command)
      /\ gs[Len(gs)] = Chunk(x, cur) /\ gs # <<>>
      /\ Rebuilt(x.key, gs) = Entry(x.kind, x.key, SubSeq(x.items, 1, t), <<>>)
      /\ FullChunks(x, gs)
    BY <1>2, ChunkWritten
<1> HIDE DEF gs
<1>4. SubSeq(x.items, 1, t) = x.items
    <2>1. SubSeq(x.items, 1, Len(x.items)) = x.items BY <1>2
    <2> QED BY <2>1
<1>5. gs[Len(gs)][1] # PExpireAtName /\ gs[Len(gs)][1] # PExpireName
    <2>1. Chunk(x, cur)[1] = Name(x) BY <1>1, ChunkFits
    <2>2. Name(x) # PExpireAtName /\ Name(x) # PExpireName BY NamesDiffer DEF Name
    <2> QED BY <1>3, <2>1, <2>2
<1>6. Unwritable(x) => ExpiryTooLong(x)
    <2>1. x.kind # "string" BY <1>1
    <2> QED BY <1>1, <2>1 DEF Unwritable
<1>7. ExpiryOk(x, gs) BY <1>1, <1>3, <1>4, <1>5, <1>6 DEF ExpiryOk
<1> QED BY <1>3, <1>7 DEF gs

-----------------------------------------------------------------------------
(***************************************************************************)
(* Strings.                                                                *)
(***************************************************************************)

\* APPEND: its parts, and when it may be written.
LEMMA AppendFits ==
    ASSUME NEW x, IsEntry(x), NEW piece \in ByteString
    PROVE  /\ AppendBase(x.key) \in Nat /\ AppendOf(x, piece) \in Command
           /\ AppendOf(x, piece)[1] = AppendName /\ AppendOf(x, piece)[3] = piece
           /\ Replayable(AppendOf(x, piece)) <=>
                AppendBase(x.key) + BulkLen(Len(piece)) <= MaxBuffered
<1>1. x.key \in ByteString BY EntryFacts
<1>2. <<>> \in Command BY DEF Command
<1>3. /\ AppendOf(x, piece) \in Command
      /\ CommandLen(AppendOf(x, piece)) = AppendBase(x.key) + BulkLen(Len(piece))
    BY <1>1, <1>2, CommandLengths
<1>4. AppendOf(x, piece)[1] = AppendName /\ AppendOf(x, piece)[3] = piece
    <2> DEFINE a == AppendName
               k == x.key
    <2>1. AppendOf(x, piece) = <<a, k, piece>> BY DEF AppendOf
    <2> HIDE DEF a, k
    <2>2. <<a, k, piece>>[1] = a /\ <<a, k, piece>>[3] = piece OBVIOUS
    <2>3. AppendOf(x, piece)[1] = a /\ AppendOf(x, piece)[3] = piece BY <2>1, <2>2
    <2> QED BY <2>3 DEF a
<1>5. AppendBase(x.key) \in Nat
    <2>1. Len(x.key) \in Nat /\ Len(AppendName) \in Nat
        BY <1>1, NameLengths DEF ByteString
    <2>2. ArrayHeaderLen(3) \in Nat /\ BulkLen(Len(AppendName)) \in Nat /\ BulkLen(Len(x.key)) \in Nat
        BY <2>1, LengthsGrow
    <2> QED BY <2>2 DEF AppendBase
<1> QED BY <1>3, <1>4, <1>5 DEF Replayable

\* SET with an empty value, and PEXPIREAT or PEXPIRE, longer than APPEND.
LEMMA SetEmptyFacts ==
    ASSUME NEW x, IsEntry(x)
    PROVE  /\ SetEmpty(x) \in Command /\ SetEmpty(x)[1] = SetName
           /\ ReplayCommand(Nothing(x.key), SetEmpty(x)) =
                Entry("string", x.key, <<<<<<>>>>>>, <<>>)
<1> DEFINE k == x.key
           b == <<>>
           a == SetName
<1>1. k \in ByteString /\ b \in ByteString /\ a \in ByteString
    BY EntryFacts, NameLengths DEF ByteString
<1>2. SetEmpty(x) = <<a, k, b>> BY DEF SetEmpty
<1> HIDE DEF k, b
<1> DEFINE y == Nothing(k)
<1>4. y.key = k BY DEF Nothing, Entry
<1> HIDE DEF y
<1>3. ReplayCommand(y, <<SetName, k, b>>) = Entry("string", y.key, <<<<b>>>>, <<>>)
    BY <1>1, ReplaySetShort
<1> HIDE DEF a
<1>5. <<a, k, b>> \in Command /\ <<a, k, b>>[1] = a BY <1>1 DEF Command
<1> QED BY <1>2, <1>3, <1>4, <1>5 DEF a, b, k, y

LEMMA ExpiryLonger ==
    ASSUME NEW x, IsEntry(x), x.deadline # <<>>, AppendBase(x.key) + BulkLen(0) > MaxBuffered
    PROVE  ~Replayable(ExpiryOf(x))
<1> DEFINE k == Len(x.key)
           d == Len(x.deadline[2])
           n == Len(ExpiryName(x))
<1>1. x.key \in ByteString /\ x.deadline[2] \in ByteString BY EntryFacts
<1>2. CommandLen(ExpiryOf(x)) = ArrayHeaderLen(3) + BulkLen(n) + BulkLen(k) + BulkLen(d)
    BY <1>1, ExpiryLength
<1>3. AppendBase(x.key) = ArrayHeaderLen(3) + BulkLen(6) + BulkLen(k)
    BY NameLengths DEF AppendBase
<1>4. k \in Nat /\ d \in Nat /\ 0 <= d BY <1>1 DEF ByteString
<1>5. n \in Nat /\ 6 <= n
    <2>1. ExpiryName(x) = PExpireName \/ ExpiryName(x) = PExpireAtName BY DEF ExpiryName
    <2>2. n = 7 \/ n = 9 BY <2>1, NameLengths
    <2> HIDE DEF n
    <2> QED BY <2>2
<1> HIDE DEF k, d, n
<1>6. ArrayHeaderLen(3) \in Nat /\ BulkLen(6) \in Nat /\ BulkLen(0) \in Nat
    BY LengthsGrow
<1>7. BulkLen(k) \in Nat /\ BulkLen(d) \in Nat /\ BulkLen(n) \in Nat BY <1>4, <1>5, LengthsGrow
<1>8. BulkLen(0) <= BulkLen(d) BY <1>4, LengthsGrow
<1>9. BulkLen(6) <= BulkLen(n) BY <1>5, LengthsGrow
<1>10. MaxBuffered \in Nat BY FramesAssumption
<1> QED BY <1>2, <1>3, <1>6, <1>7, <1>8, <1>9, <1>10 DEF Replayable

\* A value of which not one byte fits into an APPEND cannot be written.
LEMMA NoPiece ==
    ASSUME NEW x, IsEntry(x), x.kind = "string", ~Replayable(SetWhole(x)),
           x.items[1][1] # <<>>, AppendBase(x.key) + BulkLen(1) > MaxBuffered
    PROVE  Unwritable(x)
<1> DEFINE v == x.items[1][1]
<1>1. v \in Seq(Byte) /\ v # <<>> BY StringFacts DEF ByteString
<1>2. <<v[1]>> \in ByteString /\ Len(<<v[1]>>) = 1
    <2>1. v[1] \in Byte BY <1>1
    <2> HIDE DEF v
    <2> QED BY <2>1 DEF ByteString
<1>3. ~Replayable(AppendOf(x, <<v[1]>>))
    <2> DEFINE p == <<v[1]>>
    <2>1. p \in ByteString /\ Len(p) = 1 BY <1>2
    <2> HIDE DEF p
    <2>2. /\ Replayable(AppendOf(x, p)) <=> AppendBase(x.key) + BulkLen(Len(p)) <= MaxBuffered
          /\ AppendBase(x.key) \in Nat
        BY <2>1, AppendFits
    <2>3. BulkLen(1) \in Nat /\ MaxBuffered \in Nat BY LengthsGrow, FramesAssumption
    <2>4. ~Replayable(AppendOf(x, p)) BY <2>1, <2>2, <2>3
    <2> QED BY <2>4 DEF p
<1>4. v # <<>> /\ ~Replayable(AppendOf(x, <<v[1]>>)) BY <1>1, <1>3
<1>5. \E b \in {x.items[1][1]} : b # <<>> /\ ~Replayable(AppendOf(x, <<b[1]>>)) BY <1>4
<1> QED BY <1>5 DEF Unwritable

\* The search for the length of the pieces begins.
LEMMA SearchBegins ==
    ASSUME NEW x, IsEntry(x), x.kind = "string", ~Replayable(SetWhole(x))
    PROVE  IF Replayable(SetEmpty(x)) /\ AppendBase(x.key) + BulkLen(0) <= MaxBuffered
           THEN SearchOk(x, <<SetEmpty(x)>>, 0, MaxBuffered)
           ELSE Unwritable(x)
<1>0. MaxBuffered \in Nat /\ AppendBase(x.key) \in Nat
    <2>1. <<>> \in ByteString BY DEF ByteString
    <2> QED BY <2>1, FramesAssumption, AppendFits
<1>1. /\ BulkLen(0) \in Nat /\ BulkLen(1) \in Nat /\ BulkLen(0) <= BulkLen(1)
      /\ BulkLen(MaxBuffered + 1) \in Nat /\ BulkLen(MaxBuffered + 1) >= (MaxBuffered + 1) + 6
    <2>1. 0 \in Nat /\ 1 \in Nat /\ 0 <= 1 /\ MaxBuffered + 1 \in Nat BY <1>0
    <2>2. BulkLen(0) \in Nat /\ BulkLen(1) \in Nat BY <2>1, LengthsGrow
    <2>3. BulkLen(0) <= BulkLen(1) BY <2>1, LengthsGrow
    <2>4. BulkLen(MaxBuffered + 1) \in Nat /\ BulkLen(MaxBuffered + 1) >= (MaxBuffered + 1) + 6
        BY <2>1, LengthsGrow
    <2> QED BY <2>2, <2>3, <2>4
<1>2. CASE ~Replayable(SetEmpty(x)) BY <1>2 DEF Unwritable
<1>3. CASE AppendBase(x.key) + BulkLen(0) > MaxBuffered
    <2>1. CASE x.items[1][1] # <<>> BY <1>0, <1>1, <1>3, <2>1, NoPiece
    <2>2. CASE x.items[1][1] = <<>>
        <3>1. CASE x.deadline = <<>>
            <4> DEFINE k == x.key
                       a == SetName
                       b == <<>>
            <4>1. SetWhole(x) = <<a, k, b>> \o <<>> BY <2>2, <3>1 DEF SetWhole, SetExpiry
            <4>2. SetEmpty(x) = <<a, k, b>> BY DEF SetEmpty
            <4> HIDE DEF a, k, b
            <4>3. <<a, k, b>> \o <<>> = <<a, k, b>> OBVIOUS
            <4> QED BY <4>1, <4>2, <4>3 DEF Unwritable
        <3>2. CASE x.deadline # <<>>
            <4>1. ExpiryTooLong(x) BY <1>3, <3>2, ExpiryLonger DEF ExpiryTooLong
            <4>2. Unwritable(x) BY <4>1 DEF Unwritable
            <4> QED BY <1>0, <1>1, <1>3, <4>2
        <3> QED BY <3>1, <3>2
    <2> QED BY <2>1, <2>2
<1>4. CASE Replayable(SetEmpty(x)) /\ AppendBase(x.key) + BulkLen(0) <= MaxBuffered
    <2>1. AppendBase(x.key) + BulkLen(MaxBuffered + 1) > MaxBuffered BY <1>0, <1>1
    <2> QED BY <1>0, <1>4, <2>1 DEF SearchOk
<1> QED BY <1>0, <1>1, <1>2, <1>3, <1>4

\* A turn of the search.
LEMMA SearchKeeps ==
    ASSUME NEW x, NEW cs, NEW l, NEW h, SearchOk(x, cs, l, h), l < h,
           NEW m, m = l + (h - l + 1) \div 2, IsEntry(x)
    PROVE  IF AppendBase(x.key) + BulkLen(m) <= MaxBuffered
           THEN SearchOk(x, cs, m, h) ELSE SearchOk(x, cs, l, m - 1)
<1>1. l \in Nat /\ h \in Nat BY DEF SearchOk
<1>2. m \in Nat /\ l < m /\ m <= h /\ m - 1 \in Nat /\ l <= m - 1 /\ (m - 1) + 1 = m
    <2>1. (h - l + 1) \div 2 \in Nat /\ (h - l + 1) \div 2 >= 1 /\ (h - l + 1) \div 2 <= h - l
        BY <1>1
    <2> QED BY <1>1, <2>1
<1>3. BulkLen(m) \in Nat BY <1>2, LengthsGrow
<1>4. MaxBuffered \in Nat /\ AppendBase(x.key) \in Nat
    <2>1. <<>> \in ByteString BY DEF ByteString
    <2> QED BY <2>1, FramesAssumption, AppendFits
<1> HIDE DEF SearchOk
<1>5. CASE AppendBase(x.key) + BulkLen(m) <= MaxBuffered
    BY <1>2, <1>5 DEF SearchOk
<1>6. CASE ~(AppendBase(x.key) + BulkLen(m) <= MaxBuffered)
    <2>1. AppendBase(x.key) + BulkLen(m) > MaxBuffered BY <1>3, <1>4, <1>6
    <2> QED BY <1>2, <1>6, <2>1 DEF SearchOk
<1> QED BY <1>5, <1>6

\* The length of the pieces is found.
LEMMA PiecesBegin ==
    ASSUME NEW x, IsEntry(x), NEW cs, NEW l, NEW h, SearchOk(x, cs, l, h), l >= h
    PROVE  IF l = 0 /\ x.items[1][1] # <<>> THEN Unwritable(x) ELSE PiecesOk(x, cs, l, 0)
<1> DEFINE v == x.items[1][1]
           c == SetEmpty(x)
<1>1. /\ x.kind = "string" /\ ~Replayable(SetWhole(x)) /\ Replayable(c) /\ cs = <<c>>
      /\ l \in Nat /\ h = l
      /\ AppendBase(x.key) + BulkLen(l) <= MaxBuffered
      /\ AppendBase(x.key) + BulkLen(l + 1) > MaxBuffered
    <2>1. l \in Nat /\ h \in Nat /\ l <= h BY DEF SearchOk
    <2>2. h = l BY <2>1
    <2> QED BY <2>2 DEF SearchOk
<1>2. v \in ByteString BY <1>1, StringFacts
<1>3. CASE l = 0 /\ v # <<>>
    <2>1. l + 1 = 1 BY <1>3
    <2>2. AppendBase(x.key) + BulkLen(1) > MaxBuffered BY <1>1, <2>1
    <2>3. Unwritable(x) BY <1>1, <1>3, <2>2, NoPiece
    <2> QED BY <1>3, <2>3
<1>4. CASE ~(l = 0 /\ v # <<>>)
    <2>1. l >= 1 \/ v = <<>> BY <1>1, <1>4
    <2>2. /\ c \in Command /\ c[1] = SetName
          /\ ReplayCommand(Nothing(x.key), c) = Entry("string", x.key, <<<<<<>>>>>>, <<>>)
        BY SetEmptyFacts
    <2> HIDE DEF c
    <2>3. cs \in Seq(Command) /\ cs # <<>> /\ cs[Len(cs)] = c /\ cs = Append(<<>>, c)
        BY <1>1, <2>2
    <2>4. Rebuilt(x.key, Append(<<>>, c)) = ReplayCommand(Rebuilt(x.key, <<>>), c)
        <3>1. <<>> \in Seq(Command) OBVIOUS
        <3> QED BY <2>2, <3>1, RebuiltAppend
    <2>5. Rebuilt(x.key, cs) = Entry("string", x.key, <<<<<<>>>>>>, <<>>)
        BY <2>2, <2>3, <2>4, RebuiltNone
    <2>6. SubSeq(v, 1, 0) = <<>> /\ 0 \in 0 .. Len(v)
        <3> HIDE DEF v
        <3> QED BY <1>2 DEF ByteString
    <2>7. Rebuilt(x.key, cs) = Entry("string", x.key, <<<<SubSeq(v, 1, 0)>>>>, <<>>)
        BY <2>5, <2>6
    <2>8. FullChunks(x, cs) BY <1>1, FullFew
    <2>9. cs[Len(cs)][1] = SetName /\ SetName # AppendName BY <2>2, <2>3, NamesDiffer
    <2>10. PiecesOk(x, cs, l, 0)
        BY <1>1, <2>1, <2>3, <2>6, <2>7, <2>8, <2>9, Zenon DEF PiecesOk, c
    <2> QED BY <1>4, <2>10
<1> QED BY <1>3, <1>4

\* A piece of a sequence behind those before it.
LEMMA PieceOf ==
    ASSUME NEW S, NEW v \in Seq(S), NEW t \in Nat, NEW e \in Nat, t < e, e <= Len(v)
    PROVE  /\ SubSeq(v, t + 1, e) \in Seq(S) /\ Len(SubSeq(v, t + 1, e)) = e - t
           /\ SubSeq(v, t + 1, e)[1] \in S
           /\ SubSeq(v, 1, t) \o SubSeq(v, t + 1, e) = SubSeq(v, 1, e)
<1> DEFINE a == SubSeq(v, 1, t)
           b == SubSeq(v, t + 1, e)
           c == SubSeq(v, 1, e)
<1>1. a \in Seq(S) /\ Len(a) = t /\ \A i \in 1 .. t : a[i] = v[i] OBVIOUS
<1>2. b \in Seq(S) /\ Len(b) = e - t /\ \A i \in 1 .. e - t : b[i] = v[t + i] OBVIOUS
<1>3. c \in Seq(S) /\ Len(c) = e /\ \A i \in 1 .. e : c[i] = v[i] OBVIOUS
<1>4. b[1] \in S
    <2> HIDE DEF b
    <2>1. 1 \in 1 .. Len(b) BY <1>2
    <2> QED BY <1>2, <2>1
<1> HIDE DEF a, b, c
<1> DEFINE d == a \o b
<1>5. d \in Seq(S) /\ Len(d) = e
    <2>2. a \in Seq(S) /\ b \in Seq(S) BY <1>1, <1>2
    <2>1. d \in Seq(S) /\ Len(d) = Len(a) + Len(b) BY <2>2
    <2> HIDE DEF d
    <2> QED BY <1>1, <1>2, <2>1
<1>6. ASSUME NEW i \in 1 .. e PROVE d[i] = c[i]
    <2>1. CASE i <= t BY <1>1, <1>2, <1>3, <2>1
    <2>2. CASE i > t
        <3>1. d[i] = b[i - t] BY <1>1, <1>2, <2>2
        <3>2. i - t \in 1 .. e - t /\ t + (i - t) = i BY <2>2
        <3>3. b[i - t] = v[i] BY <1>2, <3>2
        <3> QED BY <1>3, <3>1, <3>3
    <2>3. i <= t \/ i > t OBVIOUS
    <2> QED BY <2>1, <2>2, <2>3
<1> HIDE DEF d
<1>7. d = c BY <1>3, <1>5, <1>6
<1> QED BY <1>2, <1>4, <1>7 DEF a, b, c, d

\* A turn of the loop over the pieces: no piece is too long to be written.
LEMMA PieceKeeps ==
    ASSUME NEW x, IsEntry(x), NEW cs, NEW l, NEW t, PiecesOk(x, cs, l, t),
           t < Len(x.items[1][1]), NEW e \in Nat, t < e, e <= Len(x.items[1][1]), e - t <= l,
           e = Len(x.items[1][1]) \/ e - t = l
    PROVE  /\ Replayable(AppendOf(x, SubSeq(x.items[1][1], t + 1, e)))
           /\ PiecesOk(x, Append(cs, AppendOf(x, SubSeq(x.items[1][1], t + 1, e))), l, e)
<1> DEFINE v == x.items[1][1]
           last == cs[Len(cs)]
           p == SubSeq(v, t + 1, e)
           c == AppendOf(x, p)
<1>1. /\ x.kind = "string" /\ ~Replayable(SetWhole(x)) /\ Replayable(SetEmpty(x))
      /\ l \in Nat /\ t \in 0 .. Len(v) /\ (l >= 1 \/ v = <<>>)
      /\ AppendBase(x.key) + BulkLen(l) <= MaxBuffered
      /\ AppendBase(x.key) + BulkLen(l + 1) > MaxBuffered
      /\ cs \in Seq(Command) /\ cs # <<>> /\ last[1] \in {SetName, AppendName}
      /\ last[1] = AppendName => last[3] \in ByteString /\ (t = Len(v) \/ Len(last[3]) = l)
      /\ Rebuilt(x.key, cs) = Entry("string", x.key, <<<<SubSeq(v, 1, t)>>>>, <<>>)
      /\ FullChunks(x, cs)
    BY DEF PiecesOk
<1>2. v \in Seq(Byte) /\ Len(v) \in Nat /\ t \in Nat /\ t < Len(v)
    BY <1>1, StringFacts DEF ByteString
<1>3. c = AppendOf(x, p) OBVIOUS
<1>5. e \in Nat /\ t < e /\ e <= Len(v) /\ e - t <= l /\ (e = Len(v) \/ e - t = l)
    OBVIOUS
<1> HIDE DEF v, last, c
<1>6. /\ p \in Seq(Byte) /\ Len(p) = e - t /\ p[1] \in Byte
      /\ SubSeq(v, 1, t) \o p = SubSeq(v, 1, e)
    BY <1>2, <1>5, PieceOf
<1> HIDE DEF p
<1>7. p \in ByteString /\ Len(p) \in Nat /\ Len(p) <= l BY <1>5, <1>6 DEF ByteString
<1>8. /\ AppendBase(x.key) \in Nat /\ c \in Command /\ c[1] = AppendName /\ c[3] = p
      /\ Replayable(c) <=> AppendBase(x.key) + BulkLen(Len(p)) <= MaxBuffered
    BY <1>3, <1>7, AppendFits
<1>9. MaxBuffered \in Nat BY FramesAssumption
<1>10. Replayable(c)
    <2>1. BulkLen(Len(p)) \in Nat /\ BulkLen(l) \in Nat /\ BulkLen(Len(p)) <= BulkLen(l)
        BY <1>1, <1>7, LengthsGrow
    <2> QED BY <1>1, <1>8, <1>9, <2>1
<1>11. FullChunks(x, Append(cs, c))
    <2>1. ASSUME last[1] = c[1] PROVE ~Replayable(AppendOf(x, Append(last[3], c[3][1])))
        <3>1. last[3] \in Seq(Byte) /\ Len(last[3]) = l
            BY <1>1, <1>2, <1>8, <2>1 DEF ByteString
        <3> DEFINE q == Append(last[3], c[3][1])
                   w == last[3]
                   b == c[3][1]
        <3>2. w \in Seq(Byte) /\ Len(w) = l /\ b \in Byte BY <1>6, <1>8, <3>1
        <3> HIDE DEF w, b
        <3>3. Append(w, b) \in Seq(Byte) /\ Len(Append(w, b)) = l + 1 BY <3>2
        <3>4. q \in ByteString /\ Len(q) = l + 1 BY <3>3 DEF w, b, ByteString
        <3> HIDE DEF q
        <3>5. Replayable(AppendOf(x, q)) <=> AppendBase(x.key) + BulkLen(Len(q)) <= MaxBuffered
            BY <3>4, AppendFits
        <3>6. l + 1 \in Nat BY <1>1
        <3>7. BulkLen(l + 1) \in Nat BY <3>6, LengthsGrow
        <3>8. ~Replayable(AppendOf(x, q)) BY <1>1, <1>8, <1>9, <3>4, <3>5, <3>7
        <3> QED BY <3>8 DEF q
    <2>2. cs # <<>> =>
             (cs[Len(cs)][1] = c[1] =>
                ~Replayable(IF x.kind = "string"
                            THEN AppendOf(x, Append(cs[Len(cs)][3], c[3][1]))
                            ELSE cs[Len(cs)] \o SubSeq(c, 3, 2 + Len(x.items[1]))))
        BY <1>1, <2>1, Zenon DEF last
    <2>3. cs \in Seq(Command) /\ FullChunks(x, cs) BY <1>1
    <2> QED BY <1>8, <2>2, <2>3, FullAppend
<1>12. Rebuilt(x.key, Append(cs, c)) = Entry("string", x.key, <<<<SubSeq(v, 1, e)>>>>, <<>>)
    <2> DEFINE y == Rebuilt(x.key, cs)
               k == x.key
               u == SubSeq(v, 1, t)
    <2>1. k \in ByteString BY EntryFacts
    <2>2. y = Entry("string", k, <<<<u>>>>, <<>>) BY <1>1
    <2>3. c = <<AppendName, k, p>> BY <1>3 DEF AppendOf
    <2>4. Rebuilt(k, Append(cs, c)) = ReplayCommand(y, c)
        <3>1. cs \in Seq(Command) BY <1>1
        <3> QED BY <1>8, <3>1, RebuiltAppend
    <2>5. u \o p = SubSeq(v, 1, e) BY <1>6
    <2> HIDE DEF y, k, u
    <2>6. ReplayCommand(y, <<AppendName, k, p>>) = [y EXCEPT !.items = <<<<y.items[1][1] \o p>>>>]
        BY <1>7, <2>1, ReplayAppendShort
    <2>7. y.items[1][1] = u
        <3>1. y.items = <<<<u>>>> BY <2>2 DEF Entry
        <3> QED BY <3>1
    <2>8. [y EXCEPT !.items = <<<<u \o p>>>>] = Entry("string", k, <<<<u \o p>>>>, <<>>)
        <3> DEFINE g == <<<<u \o p>>>>
                   f == <<<<u>>>>
        <3>1. y = Entry("string", k, f, <<>>) BY <2>2
        <3> HIDE DEF f, g
        <3>2. [y EXCEPT !.items = g] = Entry("string", k, g, <<>>) BY <3>1 DEF Entry
        <3> QED BY <3>2 DEF g
    <2>9. ReplayCommand(y, c) = Entry("string", k, <<<<u \o p>>>>, <<>>)
        BY <2>3, <2>6, <2>7, <2>8
    <2> QED BY <2>4, <2>5, <2>9 DEF k
<1>13. /\ Append(cs, c) \in Seq(Command) /\ Append(cs, c) # <<>>
       /\ Append(cs, c)[Len(Append(cs, c))] = c
    <2>1. cs \in Seq(Command) /\ c \in Command BY <1>1, <1>8
    <2> QED BY <2>1, AppendLast
<1> DEFINE gs == Append(cs, c)
<1>14. /\ gs[Len(gs)][1] = AppendName /\ gs[Len(gs)][3] \in ByteString
       /\ e = Len(v) \/ Len(gs[Len(gs)][3]) = l
    BY <1>5, <1>6, <1>7, <1>8, <1>13
<1>15. e \in 0 .. Len(v) BY <1>2, <1>5
<1> HIDE DEF gs
<1>16. PiecesOk(x, gs, l, e)
    BY <1>1, <1>11, <1>12, <1>13, <1>14, <1>15, Zenon DEF PiecesOk, v, gs
<1> QED BY <1>10, <1>16 DEF gs, c, p, v

\* All of a string is written.
LEMMA PiecesEnd ==
    ASSUME NEW x, IsEntry(x), NEW cs, NEW l, NEW t, PiecesOk(x, cs, l, t),
           t >= Len(x.items[1][1])
    PROVE  ExpiryOk(x, cs)
<1> DEFINE v == x.items[1][1]
<1>1. /\ x.kind = "string" /\ ~Replayable(SetWhole(x)) /\ Replayable(SetEmpty(x))
      /\ l \in Nat /\ t \in 0 .. Len(v) /\ (l >= 1 \/ v = <<>>)
      /\ AppendBase(x.key) + BulkLen(l) <= MaxBuffered
      /\ cs \in Seq(Command) /\ cs # <<>> /\ cs[Len(cs)][1] \in {SetName, AppendName}
      /\ Rebuilt(x.key, cs) = Entry("string", x.key, <<<<SubSeq(v, 1, t)>>>>, <<>>)
      /\ FullChunks(x, cs)
    BY DEF PiecesOk
<1>2. v \in Seq(Byte) /\ Len(v) \in Nat /\ t >= Len(v) /\ x.items = <<<<v>>>>
    BY <1>1, StringFacts DEF ByteString
<1> HIDE DEF v
<1>3. t = Len(v) BY <1>1, <1>2
<1>4. SubSeq(v, 1, t) = v
    <2>1. SubSeq(v, 1, Len(v)) = v BY <1>2
    <2> QED BY <1>3, <2>1
<1>5. Rebuilt(x.key, cs) = Entry(x.kind, x.key, x.items, <<>>) BY <1>1, <1>2, <1>4
<1>6. cs[Len(cs)][1] # PExpireAtName /\ cs[Len(cs)][1] # PExpireName BY <1>1, NamesDiffer
<1>7. ASSUME v # <<>> PROVE Replayable(AppendOf(x, <<v[1]>>))
    <2> DEFINE p == <<v[1]>>
    <2>1. p \in ByteString /\ Len(p) = 1
        <3>1. v[1] \in Byte BY <1>2, <1>7
        <3> QED BY <3>1 DEF ByteString
    <2> HIDE DEF p
    <2>2. /\ Replayable(AppendOf(x, p)) <=> AppendBase(x.key) + BulkLen(Len(p)) <= MaxBuffered
          /\ AppendBase(x.key) \in Nat
        BY <2>1, AppendFits
    <2>3. 1 \in Nat /\ 1 <= l BY <1>1, <1>7
    <2>4. BulkLen(1) \in Nat /\ BulkLen(l) \in Nat BY <1>1, <2>3, LengthsGrow
    <2>5. BulkLen(1) <= BulkLen(l) BY <1>1, <2>3, LengthsGrow
    <2>6. MaxBuffered \in Nat BY FramesAssumption
    <2>7. Replayable(AppendOf(x, p)) BY <1>1, <2>1, <2>2, <2>4, <2>5, <2>6
    <2> QED BY <2>7 DEF p
<1>8. Unwritable(x) => ExpiryTooLong(x)
    BY <1>1, <1>7, Zenon DEF Unwritable, v
<1> QED BY <1>1, <1>5, <1>6, <1>8, Zenon DEF ExpiryOk

\* The deadline is the last that is written.
LEMMA ExpiryKeeps ==
    ASSUME NEW x, IsEntry(x), NEW cs, ExpiryOk(x, cs)
    PROVE  /\ x.deadline = <<>> => EntryOk(x, cs) /\ cs \in Seq(Command)
           /\ x.deadline # <<>> /\ Replayable(ExpiryOf(x)) =>
                /\ EntryOk(x, Append(cs, ExpiryOf(x)))
                /\ Append(cs, ExpiryOf(x)) \in Seq(Command)
           /\ x.deadline # <<>> /\ ~Replayable(ExpiryOf(x)) => Unwritable(x)
<1> DEFINE c == ExpiryOf(x)
           k == x.key
           d == x.deadline[2]
           n == ExpiryName(x)
<1>1. /\ x.kind = "string" => ~Replayable(SetWhole(x))
      /\ Unwritable(x) => ExpiryTooLong(x)
      /\ cs \in Seq(Command) /\ cs # <<>>
      /\ cs[Len(cs)][1] # PExpireAtName /\ cs[Len(cs)][1] # PExpireName
      /\ Rebuilt(k, cs) = Entry(x.kind, k, x.items, <<>>)
      /\ FullChunks(x, cs)
    BY DEF ExpiryOk
<1>2. k \in ByteString /\ x = Entry(x.kind, k, x.items, x.deadline)
    BY EntryFacts
<1>3. LateSplit(x) <=> IsLate(x) BY <1>1, EntryFacts DEF LateSplit
<1>4. ASSUME x.deadline = <<>> PROVE EntryOk(x, cs)
    <2>1. ~ExpiryTooLong(x) BY <1>4 DEF ExpiryTooLong
    <2>2. Back(x) = x BY <1>3, <1>4 DEF Back, IsLate
    <2>3. Rebuilt(k, cs) = x BY <1>1, <1>2, <1>4
    <2> QED BY <1>1, <2>1, <2>2, <2>3 DEF EntryOk
<1>5. ASSUME x.deadline # <<>>, Replayable(c)
      PROVE  EntryOk(x, Append(cs, c)) /\ Append(cs, c) \in Seq(Command)
    <2>1. ~ExpiryTooLong(x) BY <1>5 DEF ExpiryTooLong
    <2>2. d \in ByteString /\ x.deadline = <<IF IsLate(x) THEN "late" ELSE "at", d>>
        BY <1>5, EntryFacts
    <2>3. c \in Command /\ c = <<n, k, d>> BY <1>2, <2>2, ExpiryLength
    <2>4. n \in {PExpireName, PExpireAtName} BY DEF ExpiryName
    <2>5. n = IF IsLate(x) THEN PExpireName ELSE PExpireAtName BY DEF ExpiryName
    <2> HIDE DEF c, d, k, n
    <2>6. c[1] = n BY <2>3
    <2>7. FullChunks(x, Append(cs, c)) BY <1>1, <2>3, <2>4, <2>6, FullAppend
    <2> DEFINE y == Rebuilt(k, cs)
    <2>8. Rebuilt(k, Append(cs, c)) = ReplayCommand(y, c) BY <1>1, <2>3, RebuiltAppend
    <2>9. y = Entry(x.kind, k, x.items, <<>>) BY <1>1
    <2> HIDE DEF y
    <2>10. /\ ReplayCommand(y, <<PExpireAtName, k, d>>) = [y EXCEPT !.deadline = <<"at", d>>]
           /\ ReplayCommand(y, <<PExpireName, k, d>>) = y
        <3>1. k \in ByteString /\ d \in ByteString BY <1>2, <2>2
        <3> QED BY <3>1, ReplayExpireShort
    <2>11. ReplayCommand(y, c) = Back(x)
        <3>1. CASE IsLate(x)
            <4>1. ReplayCommand(y, <<PExpireName, k, d>>) = y BY <2>10
            <4>2. c = <<PExpireName, k, d>> BY <2>3, <2>5, <3>1
            <4>3. Back(x) = [x EXCEPT !.deadline = <<>>] BY <1>3, <3>1 DEF Back
            <4>4. [x EXCEPT !.deadline = <<>>] = Entry(x.kind, k, x.items, <<>>)
                BY <1>2 DEF Entry
            <4> QED BY <2>9, <4>1, <4>2, <4>3, <4>4
        <3>2. CASE ~IsLate(x)
            <4>1. ReplayCommand(y, <<PExpireAtName, k, d>>) = [y EXCEPT !.deadline = <<"at", d>>]
                BY <2>10
            <4>2. c = <<PExpireAtName, k, d>> /\ x.deadline = <<"at", d>> BY <2>2, <2>3, <2>5, <3>2
            <4>3. Back(x) = x BY <1>3, <3>2 DEF Back
            <4>4. [y EXCEPT !.deadline = <<"at", d>>] = Entry(x.kind, k, x.items, <<"at", d>>)
                BY <2>9 DEF Entry
            <4> QED BY <1>2, <4>1, <4>2, <4>3, <4>4
        <3> QED BY <3>1, <3>2
    <2>12. Append(cs, c) \in Seq(Command) BY <1>1, <2>3
    <2> QED BY <1>1, <2>1, <2>7, <2>8, <2>11, <2>12 DEF EntryOk, k
<1>6. ASSUME x.deadline # <<>>, ~Replayable(c) PROVE Unwritable(x)
    BY <1>1, <1>6 DEF Unwritable, ExpiryTooLong
<1> QED BY <1>1, <1>4, <1>5, <1>6

\* A string in one SET.
LEMMA WholeKeeps ==
    ASSUME NEW x, IsEntry(x), x.kind = "string", Replayable(SetWhole(x))
    PROVE  EntryOk(x, <<SetWhole(x)>>) /\ <<SetWhole(x)>> \in Seq(Command)
<1> DEFINE v == x.items[1][1]
           d == x.deadline[2]
           k == x.key
           c == SetWhole(x)
           y == Nothing(k)
           n == IF IsLate(x) THEN PxName ELSE PxAtName
<1>1. /\ k \in ByteString /\ v \in ByteString
      /\ x.items = <<<<v>>>>
      /\ x = Entry("string", k, x.items, x.deadline)
    BY EntryFacts, StringFacts
<1>2. x.deadline # <<>> =>
        d \in ByteString /\ x.deadline = <<IF IsLate(x) THEN "late" ELSE "at", d>>
    BY EntryFacts
<1>3. y.key = k BY DEF Nothing, Entry
<1>4. /\ n \in {PxName, PxAtName} /\ n \in ByteString
      /\ (n = PxName) <=> IsLate(x)
    BY NameLengths, NamesDiffer
<1>5. /\ x.deadline = <<>> => c = <<SetName, k, v>> \o <<>>
      /\ x.deadline # <<>> => c = <<SetName, k, v>> \o <<n, d>>
    BY DEF SetWhole, SetExpiry
<1>12. SetName \in ByteString BY NameLengths
<1> HIDE DEF v, d, k, c, y, n
<1>6. c \in Command /\ ReplayCommand(y, c) = x
    <2>1. CASE x.deadline = <<>>
        <3> DEFINE a == SetName
        <3>1. ReplayCommand(y, <<SetName, k, v>>) = Entry("string", y.key, <<<<v>>>>, <<>>)
            BY <1>1, ReplaySetShort
        <3>2. c = <<a, k, v>> \o <<>> /\ a \in ByteString BY <1>5, <1>12, <2>1
        <3> HIDE DEF a
        <3>3. <<a, k, v>> \in Command /\ <<a, k, v>> \o <<>> = <<a, k, v>>
            BY <1>1, <3>2 DEF Command
        <3>4. c = <<a, k, v>> BY <3>2, <3>3
        <3> QED BY <1>1, <1>3, <2>1, <3>1, <3>3, <3>4 DEF a
    <2>2. CASE x.deadline # <<>>
        <3> DEFINE a == SetName
        <3>1. ReplayCommand(y, <<SetName, k, v>> \o <<n, d>>)
                = Entry("string", y.key, <<<<v>>>>, <<IF n = PxName THEN "late" ELSE "at", d>>)
            BY <1>1, <1>2, <1>4, <2>2, ReplaySetPx
        <3>2. c = <<a, k, v>> \o <<n, d>> /\ a \in ByteString BY <1>5, <1>12, <2>2
        <3> HIDE DEF a
        <3>3. <<a, k, v>> \o <<n, d>> \in Command BY <1>1, <1>2, <1>4, <2>2, <3>2 DEF Command
        <3>4. x.deadline = <<IF n = PxName THEN "late" ELSE "at", d>> BY <1>2, <1>4, <2>2
        <3> QED BY <1>1, <1>3, <3>1, <3>2, <3>3, <3>4 DEF a
    <2> QED BY <2>1, <2>2
<1>7. <<c>> \in Seq(Command) /\ <<c>> = Append(<<>>, c) /\ <<>> \in Seq(Command) BY <1>6
<1>8. Rebuilt(k, Append(<<>>, c)) = ReplayCommand(Rebuilt(k, <<>>), c)
    BY <1>6, <1>7, RebuiltAppend
<1>9. Rebuilt(k, <<c>>) = x BY <1>6, <1>7, <1>8, RebuiltNone DEF y
<1>13. Back(x) = x BY DEF Back, LateSplit
<1>10. ~Unwritable(x) BY DEF Unwritable
<1>11. FullChunks(x, <<c>>) BY FullFew
<1> QED BY <1>7, <1>9, <1>10, <1>11, <1>13 DEF EntryOk, c, k

-----------------------------------------------------------------------------
(***************************************************************************)
(* The steps of a rewrite.                                                 *)
(***************************************************************************)

\* The entry under way is one.
LEMMA UnderWay ==
    ASSUME SnapshotInv, Len(file) # Len(entries)
    PROVE  /\ Len(file) \in Nat /\ Len(entries) \in Nat /\ Len(file) < Len(entries)
           /\ IsEntry(entry)
<1>1. entries \in Rewrites /\ file \in Seq(Seq(Command)) /\ Len(file) <= Len(entries)
    BY DEF SnapshotInv
<1>2. Len(entries) \in Nat /\ \A i \in 1 .. Len(entries) : IsEntry(entries[i])
    BY <1>1, FramesAssumption
<1>3. Len(file) \in Nat BY <1>1
<1>4. Len(file) + 1 \in 1 .. Len(entries) BY <1>1, <1>2, <1>3
<1>5. IsEntry(entries[Len(file) + 1]) BY <1>2, <1>4
<1> QED BY <1>1, <1>2, <1>3, <1>5 DEF entry

LEMMA BelowEnd == SnapshotInv /\ stage # "entry" => Len(file) # Len(entries)
<1> SUFFICES ASSUME SnapshotInv, stage # "entry" PROVE Len(file) # Len(entries)
    OBVIOUS
<1>1. entries \in Rewrites /\ file \in Seq(Seq(Command)) /\ Len(file) < Len(entries)
    BY DEF SnapshotInv
<1>2. Len(entries) \in Nat /\ Len(file) \in Nat BY <1>1, FramesAssumption
<1> QED BY <1>1, <1>2

\* A step within an entry.
LEMMA StepWithin ==
    ASSUME SnapshotInv, Len(file) # Len(entries), UNCHANGED <<entries, file>>,
           stage' # "entry",
           stage' \in {"items", "search", "pieces", "expiry", "failed"},
           stage' = "items" => ItemsOk(entry, cmds', current', payload', taken'),
           stage' = "search" => SearchOk(entry, cmds', lo', hi'),
           stage' = "pieces" => PiecesOk(entry, cmds', lo', taken'),
           stage' = "expiry" => ExpiryOk(entry, cmds'),
           stage' = "failed" => Unwritable(entry)
    PROVE  SnapshotInv'
<1>1. entry' = entry BY DEF entry
<1>2. Len(file) < Len(entries) BY UnderWay
<1>3. /\ entries \in Rewrites /\ file \in Seq(Seq(Command)) /\ Len(file) <= Len(entries)
      /\ \A i \in 1 .. Len(file) : EntryOk(entries[i], file[i])
    BY DEF SnapshotInv
<1>4. /\ entries' \in Rewrites /\ file' \in Seq(Seq(Command)) /\ Len(file') <= Len(entries')
      /\ \A i \in 1 .. Len(file') : EntryOk(entries'[i], file'[i])
    BY <1>3, Zenon
<1>5. /\ stage' \in {"entry", "items", "search", "pieces", "expiry", "failed"}
      /\ stage' # "entry" => Len(file') < Len(entries')
    BY <1>2
<1>6. /\ stage' = "items" => ItemsOk(entry', cmds', current', payload', taken')
      /\ stage' = "search" => SearchOk(entry', cmds', lo', hi')
      /\ stage' = "pieces" => PiecesOk(entry', cmds', lo', taken')
      /\ stage' = "expiry" => ExpiryOk(entry', cmds')
      /\ stage' = "failed" => Unwritable(entry')
    BY <1>1, Zenon
<1>7. stage' = "entry" => cmds' = <<>> OBVIOUS
<1> QED BY <1>4, <1>5, <1>6, <1>7, Zenon DEF SnapshotInv

\* A step that finishes one.
LEMMA StepOn ==
    ASSUME SnapshotInv, Len(file) # Len(entries), UNCHANGED entries,
           NEW cs \in Seq(Command), EntryOk(entry, cs), file' = Append(file, cs),
           stage' = "entry", cmds' = <<>>
    PROVE  SnapshotInv'
<1>1. /\ Len(file) \in Nat /\ Len(entries) \in Nat /\ Len(file) < Len(entries) BY UnderWay
<1>2. /\ entries \in Rewrites /\ file \in Seq(Seq(Command))
      /\ \A i \in 1 .. Len(file) : EntryOk(entries[i], file[i])
    BY DEF SnapshotInv
<1> DEFINE n == Len(file)
           gs == Append(file, cs)
<1>3. /\ gs \in Seq(Seq(Command)) /\ Len(gs) = n + 1 /\ gs[n + 1] = cs
      /\ \A i \in 1 .. n : gs[i] = file[i]
    BY <1>2
<1>4. file' = gs OBVIOUS
<1> HIDE DEF gs
<1>5. ASSUME NEW i \in 1 .. n + 1 PROVE EntryOk(entries[i], gs[i])
    <2>1. CASE i = n + 1 BY <1>3, <2>1 DEF entry
    <2>2. CASE i # n + 1
        <3>1. i \in 1 .. n BY <1>1, <2>2
        <3> QED BY <1>2, <1>3, <3>1
    <2> QED BY <2>1, <2>2
<1>6. /\ entries' \in Rewrites /\ file' \in Seq(Seq(Command)) /\ Len(file') <= Len(entries')
    BY <1>1, <1>2, <1>3, <1>4
<1>7. \A i \in 1 .. Len(file') : EntryOk(entries'[i], file'[i])
    BY <1>3, <1>4, <1>5
<1>8. stage' \in {"entry", "items", "search", "pieces", "expiry", "failed"} OBVIOUS
<1>9. /\ stage' # "items" /\ stage' # "search" /\ stage' # "pieces" /\ stage' # "expiry"
      /\ stage' # "failed"
    OBVIOUS
<1> QED BY <1>6, <1>7, <1>8, <1>9, Zenon DEF SnapshotInv

LEMMA SnapshotStart == SnapshotInit => SnapshotInv
<1> SUFFICES ASSUME SnapshotInit PROVE SnapshotInv
    OBVIOUS
<1>1. entries \in Rewrites /\ file = <<>> /\ cmds = <<>> /\ stage = "entry"
    BY DEF SnapshotInit, Idle
<1>2. Len(entries) \in Nat BY <1>1, FramesAssumption
<1>3. /\ file \in Seq(Seq(Command)) /\ Len(file) = 0 BY <1>1
<1>4. Len(file) <= Len(entries) /\ 1 .. Len(file) = {} BY <1>2, <1>3
<1>5. stage \in {"entry", "items", "search", "pieces", "expiry", "failed"} BY <1>1
<1>6. /\ stage # "items" /\ stage # "search" /\ stage # "pieces" /\ stage # "expiry"
      /\ stage # "failed"
    BY <1>1
<1> QED BY <1>1, <1>3, <1>4, <1>5, <1>6, Zenon DEF SnapshotInv

LEMMA SnapshotStep == SnapshotInv /\ [SnapshotNext]_snapshotVars => SnapshotInv'
<1> SUFFICES ASSUME SnapshotInv, [SnapshotNext]_snapshotVars PROVE SnapshotInv'
    OBVIOUS
<1>1. CASE WriteWhole
    <2>1. Len(file) # Len(entries) BY <1>1 DEF WriteWhole, Complete
    <2>2. IsEntry(entry) BY <2>1, UnderWay
    <2>3. EntryOk(entry, <<SetWhole(entry)>>) /\ <<SetWhole(entry)>> \in Seq(Command)
        BY <1>1, <2>2, WholeKeeps DEF WriteWhole
    <2>4. cmds = <<>> /\ cmds' = cmds /\ stage' = "entry" /\ entries' = entries
        BY <1>1 DEF WriteWhole, SnapshotInv
    <2>5. file' = Append(file, <<SetWhole(entry)>>) BY <1>1 DEF WriteWhole
    <2> QED BY <2>1, <2>3, <2>4, <2>5, StepOn
<1>2. CASE BeginString
    <2>1. Len(file) # Len(entries) BY <1>2 DEF BeginString, Complete
    <2>2. IsEntry(entry) BY <2>1, UnderWay
    <2>3. IF Replayable(SetEmpty(entry)) /\ AppendBase(entry.key) + BulkLen(0) <= MaxBuffered
          THEN SearchOk(entry, <<SetEmpty(entry)>>, 0, MaxBuffered)
          ELSE Unwritable(entry)
        BY <1>2, <2>2, SearchBegins DEF BeginString
    <2>4. /\ cmds' = <<SetEmpty(entry)>> /\ lo' = 0 /\ hi' = MaxBuffered
          /\ UNCHANGED <<entries, file>>
          /\ stage' = IF Replayable(SetEmpty(entry))
                            /\ AppendBase(entry.key) + BulkLen(0) <= MaxBuffered
                      THEN "search" ELSE "failed"
        BY <1>2 DEF BeginString
    <2> QED BY <2>1, <2>3, <2>4, StepWithin
<1>3. CASE Halve
    <2>1. Len(file) # Len(entries) /\ SearchOk(entry, cmds, lo, hi) /\ stage = "search"
        BY <1>3, BelowEnd DEF Halve, SnapshotInv
    <2>2. IsEntry(entry) BY <2>1, UnderWay
    <2> DEFINE mid == lo + (hi - lo + 1) \div 2
    <2>3. IF AppendBase(entry.key) + BulkLen(mid) <= MaxBuffered
          THEN SearchOk(entry, cmds, mid, hi) ELSE SearchOk(entry, cmds, lo, mid - 1)
        BY <1>3, <2>1, <2>2, SearchKeeps DEF Halve
    <2>4. /\ IF AppendBase(entry.key) + BulkLen(mid) <= MaxBuffered
             THEN lo' = mid /\ hi' = hi ELSE lo' = lo /\ hi' = mid - 1
          /\ UNCHANGED <<entries, file>> /\ cmds' = cmds /\ stage' = "search"
        BY <1>3, <2>1 DEF Halve
    <2> HIDE DEF mid
    <2>5. SearchOk(entry, cmds', lo', hi') BY <2>3, <2>4
    <2> QED BY <2>1, <2>4, <2>5, StepWithin
<1>4. CASE BeginPieces
    <2>1. Len(file) # Len(entries) /\ SearchOk(entry, cmds, lo, hi)
        BY <1>4, BelowEnd DEF BeginPieces, SnapshotInv
    <2>2. IsEntry(entry) BY <2>1, UnderWay
    <2>3. IF lo = 0 /\ Value # <<>> THEN Unwritable(entry) ELSE PiecesOk(entry, cmds, lo, 0)
        BY <1>4, <2>1, <2>2, PiecesBegin DEF BeginPieces, Value
    <2>4. /\ stage' = IF lo = 0 /\ Value # <<>> THEN "failed" ELSE "pieces"
          /\ taken' = 0 /\ cmds' = cmds /\ lo' = lo /\ UNCHANGED <<entries, file>>
        BY <1>4 DEF BeginPieces
    <2> QED BY <2>1, <2>3, <2>4, StepWithin
<1>5. CASE AppendPiece
    <2>1. Len(file) # Len(entries) /\ PiecesOk(entry, cmds, lo, taken) /\ stage = "pieces"
        BY <1>5, BelowEnd DEF AppendPiece, SnapshotInv
    <2>2. IsEntry(entry) BY <2>1, UnderWay
    <2> DEFINE v == Value
               e == IF taken + lo < Len(v) THEN taken + lo ELSE Len(v)
               c == AppendOf(entry, SubSeq(v, taken + 1, e))
    <2>3. /\ entry.kind = "string" /\ lo \in Nat /\ taken \in 0 .. Len(v)
          /\ (lo >= 1 \/ v = <<>>)
        BY <2>1, Zenon DEF PiecesOk, Value
    <2>4. v \in Seq(Byte) /\ Len(v) \in Nat BY <2>2, <2>3, StringFacts DEF Value, ByteString
    <2>5. taken < Len(v) BY <1>5 DEF AppendPiece
    <2>6. /\ cmds' = Append(cmds, c) /\ stage' = (IF Replayable(c) THEN stage ELSE "failed")
          /\ taken' = e /\ lo' = lo /\ UNCHANGED <<entries, file>>
        BY <1>5, Zenon DEF AppendPiece
    <2>7. e \in Nat /\ taken < e /\ e <= Len(v) /\ e - taken <= lo /\ (e = Len(v) \/ e - taken = lo)
        <3> HIDE DEF v
        <3>1. lo >= 1 BY <2>3, <2>4, <2>5
        <3>2. taken \in Nat BY <2>3, <2>4
        <3> QED BY <2>3, <2>4, <2>5, <3>1, <3>2
    <2> HIDE DEF e
    <2>8. Replayable(c) /\ PiecesOk(entry, Append(cmds, c), lo, e)
        BY <2>1, <2>2, <2>5, <2>7, PieceKeeps DEF Value
    <2> HIDE DEF c
    <2>9. stage' = "pieces" /\ PiecesOk(entry, cmds', lo', taken') BY <2>1, <2>6, <2>8
    <2> QED BY <2>1, <2>6, <2>9, StepWithin
<1>6. CASE EndPieces
    <2>1. Len(file) # Len(entries) /\ PiecesOk(entry, cmds, lo, taken)
        BY <1>6, BelowEnd DEF EndPieces, SnapshotInv
    <2>2. IsEntry(entry) BY <2>1, UnderWay
    <2>3. ExpiryOk(entry, cmds) BY <1>6, <2>1, <2>2, PiecesEnd DEF EndPieces, Value
    <2>4. stage' = "expiry" /\ cmds' = cmds /\ UNCHANGED <<entries, file>>
        BY <1>6 DEF EndPieces
    <2> QED BY <2>1, <2>3, <2>4, StepWithin
<1>7. CASE BeginItems
    <2>1. Len(file) # Len(entries) /\ cmds = <<>>
        BY <1>7 DEF BeginItems, Complete, SnapshotInv
    <2>2. IsEntry(entry) BY <2>1, UnderWay
    <2>3. ItemsOk(entry, <<>>, <<>>, 0, 0) BY <1>7, <2>2, ItemsBegin DEF BeginItems
    <2>4. /\ stage' = "items" /\ taken' = 0 /\ current' = <<>> /\ payload' = 0 /\ cmds' = cmds
          /\ UNCHANGED <<entries, file>>
        BY <1>7 DEF BeginItems
    <2>5. ItemsOk(entry, cmds', current', payload', taken') BY <2>1, <2>3, <2>4, Zenon
    <2> QED BY <2>1, <2>4, <2>5, StepWithin
<1>8. CASE AddItem
    <2>1. Len(file) # Len(entries) /\ ItemsOk(entry, cmds, current, payload, taken)
            /\ stage = "items"
        BY <1>8, BelowEnd DEF AddItem, SnapshotInv
    <2>2. IsEntry(entry) BY <2>1, UnderWay
    <2> DEFINE item == entry.items[taken + 1]
    <2>3. /\ taken < Len(entry.items)
          /\ ChunkedLen(entry, Len(current) + Len(item), payload + PayloadLen(item)) <= MaxBuffered
          /\ current' = current \o item /\ payload' = payload + PayloadLen(item)
          /\ taken' = taken + 1 /\ cmds' = cmds /\ stage' = "items"
          /\ UNCHANGED <<entries, file>>
        BY <1>8, <2>1, Zenon DEF AddItem
    <2>4. ItemsOk(entry, cmds, current \o item, payload + PayloadLen(item), taken + 1)
        BY <2>1, <2>2, <2>3, AddKeeps
    <2> HIDE DEF item
    <2>5. ItemsOk(entry, cmds', current', payload', taken') BY <2>3, <2>4, Zenon
    <2> QED BY <2>1, <2>3, <2>5, StepWithin
<1>9. CASE CloseChunk
    <2>1. Len(file) # Len(entries) /\ ItemsOk(entry, cmds, current, payload, taken)
            /\ stage = "items"
        BY <1>9, BelowEnd DEF CloseChunk, SnapshotInv
    <2>2. IsEntry(entry) BY <2>1, UnderWay
    <2> DEFINE item == entry.items[taken + 1]
               c == Chunk(entry, current)
               fits == /\ current # <<>> /\ Replayable(c)
                       /\ ChunkedLen(entry, Len(item), PayloadLen(item)) <= MaxBuffered
    <2>3. /\ taken < Len(entry.items)
          /\ ChunkedLen(entry, Len(current) + Len(item), payload + PayloadLen(item)) > MaxBuffered
          /\ current' = item /\ payload' = PayloadLen(item) /\ cmds' = Append(cmds, c)
          /\ taken' = taken + 1 /\ stage' = (IF fits THEN stage ELSE "failed")
          /\ UNCHANGED <<entries, file>>
        BY <1>9, Zenon DEF CloseChunk
    <2>4. IF fits THEN ItemsOk(entry, Append(cmds, c), item, PayloadLen(item), taken + 1)
          ELSE Unwritable(entry)
        BY <2>1, <2>2, <2>3, CloseKeeps
    <2> HIDE DEF item, c, fits
    <2>5. CASE fits
        <3>1. stage' = "items" /\ ItemsOk(entry, cmds', current', payload', taken')
            BY <2>1, <2>3, <2>4, <2>5, Zenon
        <3> QED BY <2>1, <2>3, <3>1, StepWithin
    <2>6. CASE ~fits
        <3>1. stage' = "failed" /\ Unwritable(entry) BY <2>3, <2>4, <2>6
        <3> QED BY <2>1, <2>3, <3>1, StepWithin
    <2> QED BY <2>5, <2>6
<1>10. CASE EndItems
    <2>1. Len(file) # Len(entries) /\ ItemsOk(entry, cmds, current, payload, taken)
        BY <1>10, BelowEnd DEF EndItems, SnapshotInv
    <2>2. IsEntry(entry) BY <2>1, UnderWay
    <2>3. /\ current # <<>> /\ Replayable(Chunk(entry, current))
          /\ ExpiryOk(entry, Append(cmds, Chunk(entry, current)))
        BY <1>10, <2>1, <2>2, EndKeeps DEF EndItems
    <2>4. /\ stage' = "expiry" /\ cmds' = Append(cmds, Chunk(entry, current))
          /\ UNCHANGED <<entries, file>>
        BY <1>10, <2>3 DEF EndItems
    <2> QED BY <2>1, <2>3, <2>4, StepWithin
<1>11. CASE WriteExpiry
    <2>1. Len(file) # Len(entries) /\ ExpiryOk(entry, cmds)
        BY <1>11, BelowEnd DEF WriteExpiry, SnapshotInv
    <2>2. IsEntry(entry) BY <2>1, UnderWay
    <2>3. CASE entry.deadline = <<>>
        <3>1. EntryOk(entry, cmds) /\ cmds \in Seq(Command) BY <2>1, <2>2, <2>3, ExpiryKeeps
        <3>2. stage' = "entry" /\ file' = Append(file, cmds) /\ cmds' = <<>> /\ entries' = entries
            BY <1>11, <2>3 DEF WriteExpiry
        <3> QED BY <2>1, <3>1, <3>2, StepOn
    <2>4. CASE entry.deadline # <<>> /\ Replayable(ExpiryOf(entry))
        <3> DEFINE cs == Append(cmds, ExpiryOf(entry))
        <3>1. EntryOk(entry, cs) /\ cs \in Seq(Command)
            BY <2>1, <2>2, <2>4, ExpiryKeeps
        <3>2. stage' = "entry" /\ file' = Append(file, cs) /\ cmds' = <<>> /\ entries' = entries
            BY <1>11, <2>4 DEF WriteExpiry
        <3> HIDE DEF cs
        <3> QED BY <2>1, <3>1, <3>2, StepOn
    <2>5. CASE entry.deadline # <<>> /\ ~Replayable(ExpiryOf(entry))
        <3>1. Unwritable(entry) BY <2>1, <2>2, <2>5, ExpiryKeeps
        <3>2. stage' = "failed" /\ UNCHANGED <<entries, file>>
            BY <1>11, <2>5 DEF WriteExpiry
        <3> QED BY <2>1, <3>1, <3>2, StepWithin
    <2> QED BY <2>3, <2>4, <2>5
<1>12. CASE UNCHANGED snapshotVars
    BY <1>12, Zenon DEF SnapshotInv, snapshotVars, entry
<1> QED BY <1>1, <1>2, <1>3, <1>4, <1>5, <1>6, <1>7, <1>8, <1>9, <1>10, <1>11, <1>12 DEF SnapshotNext

\* A rewrite stays within the invariant.
THEOREM SnapshotInvariant == SnapshotSpec => []SnapshotInv
BY SnapshotStart, SnapshotStep, PTL DEF SnapshotSpec

\* A rewrite fails on the length of a frame only for an entry that no
\* commands within the limit can rebuild, and never writes such an entry:
\* the running lengths of write_list_snapshot and write_hash_snapshot and
\* the binary search of max_payload_len_for_frame are exact.
THEOREM SnapshotFailsOnlyIfUnwritable == SnapshotSpec => []FailsOnlyIfUnwritable
<1>1. SnapshotInv => FailsOnlyIfUnwritable
    BY Zenon DEF SnapshotInv, FailsOnlyIfUnwritable, EntryOk
<1> QED BY <1>1, SnapshotInvariant, PTL

\* No chunk of a value stops short of the limit while more of it follows.
THEOREM SnapshotChunksAreFull == SnapshotSpec => []ChunksAreFull
<1>1. SnapshotInv => ChunksAreFull
    BY Zenon DEF SnapshotInv, ChunksAreFull, EntryOk
<1> QED BY <1>1, SnapshotInvariant, PTL

\* The commands of a finished entry rebuild it, whatever its length, the
\* limit and the way the value was cut; exactly the deadlines of split strings
\* beyond the signed range are lost.
THEOREM SnapshotAlwaysRebuilds == SnapshotSpec => []SnapshotRebuilds
<1>1. SnapshotInv => SnapshotRebuilds
    BY Zenon DEF SnapshotInv, SnapshotRebuilds, EntryOk, Back
<1> QED BY <1>1, SnapshotInvariant, PTL


=============================================================================
