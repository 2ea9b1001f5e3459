--------------------------- MODULE RecoveryProofs ---------------------------
(***************************************************************************)
(* What a restart makes of the append-only file, proved for all values of  *)
(* the constants of Recovery: files of any length, any keys and commands.  *)
(*                                                                         *)
(* Commands look at a key only after expire_if_stale, so what a command    *)
(* does depends on what a reader sees and on nothing else (SameOutcome),   *)
(* and the time it runs at matters only if a deadline has passed since.    *)
(* Replay is a loop over the frames, a snapshot a concatenation over the   *)
(* keys; the induction over both is Induction's.                           *)
(***************************************************************************)
EXTENDS Recovery, CommandsProofs, Induction

-----------------------------------------------------------------------------
(***************************************************************************)
(* The loops.                                                              *)
(***************************************************************************)

\* The key space after a command has visited one more key.
AtKey(c, acc, k, t) ==
    LET r == Apply(c, acc.slots[k], t)
    IN  IF acc.err THEN acc
        ELSE [slots |-> [acc.slots EXCEPT ![k] = r.slot], err |-> r.err]

\* f has the key space after each of the keys of the command, and ApplyAll
\* is the last of them.
Visits(f, c, s, t) ==
    /\ f[0] = [slots |-> s, err |-> FALSE]
    /\ \A i \in 1 .. Len(c.keys) : f[i] = AtKey(c, f[i - 1], c.keys[i], t)
    /\ ApplyAll(c, s, t) = f[Len(c.keys)]

\* The recursive definition of ApplyAll has such a function.
LEMMA ApplyLoop ==
    ASSUME NEW c, Len(c.keys) \in Nat, NEW s, NEW t
    PROVE  \E f : Visits(f, c, s, t)
<1> DEFINE N == Len(c.keys)
           base == [slots |-> s, err |-> FALSE]
           Is(f, n) == f = [i \in 0 .. n |-> IF i = 0 THEN base
                                ELSE AtKey(c, f[i - 1], c.keys[i], t)]
           S == {n \in Nat : \E f : Is(f, n)}
<1>1. 0 \in S
    <2> DEFINE f == [i \in 0 .. 0 |-> base]
    <2>1. Is(f, 0) OBVIOUS
    <2> QED BY <2>1
<1>2. ASSUME NEW n \in Nat, n \in S PROVE n + 1 \in S
    <2>1. PICK f : Is(f, n) BY <1>2
    <2> DEFINE g == [i \in 0 .. n + 1 |-> IF i = n + 1 THEN AtKey(c, f[n], c.keys[n + 1], t)
                                          ELSE f[i]]
    <2> HIDE DEF base
    <2>2. \A i \in 0 .. n : f[i] = IF i = 0 THEN base ELSE AtKey(c, f[i - 1], c.keys[i], t)
        BY <2>1
    <2>3. Is(g, n + 1)
        <3>1. ASSUME NEW i \in 0 .. n + 1
              PROVE  g[i] = IF i = 0 THEN base ELSE AtKey(c, g[i - 1], c.keys[i], t)
            <4>1. CASE i = n + 1
                <5>1. g[i] = AtKey(c, f[n], c.keys[n + 1], t) /\ g[n] = f[n] /\ i - 1 = n /\ i # 0
                    BY <4>1
                <5> QED BY <4>1, <5>1
            <4>2. CASE i \in 1 .. n
                <5>1. g[i] = f[i] /\ g[i - 1] = f[i - 1] /\ i # 0 /\ i \in 0 .. n BY <4>2
                <5> QED BY <5>1, <2>2
            <4>3. CASE i = 0 BY <4>3, <2>2
            <4> QED BY <4>1, <4>2, <4>3
        <3> QED BY <3>1
    <2> HIDE DEF g
    <2>4. \E h : Is(h, n + 1) BY <2>3
    <2> QED BY <2>4
<1> HIDE DEF S
<1>3. N \in S BY <1>1, <1>2, ByInduction
<1> DEFINE f == CHOOSE f : Is(f, N)
<1>4. Is(f, N) BY <1>3 DEF S
<1>5. ApplyAll(c, s, t) = f[N] BY DEF ApplyAll, AtKey
<1> HIDE DEF f
<1>6. \A i \in 0 .. N : f[i] = IF i = 0 THEN base ELSE AtKey(c, f[i - 1], c.keys[i], t)
    BY <1>4
<1>7. f[0] = base /\ \A i \in 1 .. N : f[i] = AtKey(c, f[i - 1], c.keys[i], t)
    <2>1. 0 \in 0 .. N /\ \A i \in 1 .. N : i \in 0 .. N /\ i # 0 OBVIOUS
    <2> QED BY <1>6, <2>1
<1> QED BY <1>5, <1>7 DEF Visits

\* f has what replay has after each of the frames, and ReplayFrom is the last.
Replays(f, acc, fs, t) ==
    /\ f[0] = acc
    /\ \A i \in 1 .. Len(fs) : f[i] = ReplayFrame(f[i - 1], fs[i], t)
    /\ ReplayFrom(acc, fs, t) = f[Len(fs)]

\* The recursive definition of ReplayFrom has such a function.
LEMMA ReplayLoop ==
    ASSUME NEW acc, NEW fs, Len(fs) \in Nat, NEW t
    PROVE  \E f : Replays(f, acc, fs, t)
<1> DEFINE N == Len(fs)
           Is(f, n) == f = [i \in 0 .. n |-> IF i = 0 THEN acc
                                ELSE ReplayFrame(f[i - 1], fs[i], t)]
           S == {n \in Nat : \E f : Is(f, n)}
<1>1. 0 \in S
    <2> DEFINE f == [i \in 0 .. 0 |-> acc]
    <2>1. Is(f, 0) OBVIOUS
    <2> QED BY <2>1
<1>2. ASSUME NEW n \in Nat, n \in S PROVE n + 1 \in S
    <2>1. PICK f : Is(f, n) BY <1>2
    <2> DEFINE g == [i \in 0 .. n + 1 |-> IF i = n + 1 THEN ReplayFrame(f[n], fs[n + 1], t)
                                          ELSE f[i]]
    <2>2. \A i \in 0 .. n : f[i] = IF i = 0 THEN acc ELSE ReplayFrame(f[i - 1], fs[i], t)
        BY <2>1
    <2>3. Is(g, n + 1)
        <3>1. ASSUME NEW i \in 0 .. n + 1
              PROVE  g[i] = IF i = 0 THEN acc ELSE ReplayFrame(g[i - 1], fs[i], t)
            <4>1. CASE i = n + 1
                <5>1. g[i] = ReplayFrame(f[n], fs[n + 1], t) /\ g[n] = f[n] /\ i - 1 = n /\ i # 0
                    BY <4>1
                <5> QED BY <4>1, <5>1
            <4>2. CASE i \in 1 .. n
                <5>1. g[i] = f[i] /\ g[i - 1] = f[i - 1] /\ i # 0 /\ i \in 0 .. n BY <4>2
                <5> QED BY <5>1, <2>2
            <4>3. CASE i = 0 BY <4>3, <2>2
            <4> QED BY <4>1, <4>2, <4>3
        <3> QED BY <3>1
    <2> HIDE DEF g
    <2>4. \E h : Is(h, n + 1) BY <2>3
    <2> QED BY <2>4
<1> HIDE DEF S
<1>3. N \in S BY <1>1, <1>2, ByInduction
<1> DEFINE f == CHOOSE f : Is(f, N)
<1>4. Is(f, N) BY <1>3 DEF S
<1>5. ReplayFrom(acc, fs, t) = f[N] BY DEF ReplayFrom
<1> HIDE DEF f
<1>6. \A i \in 0 .. N : f[i] = IF i = 0 THEN acc ELSE ReplayFrame(f[i - 1], fs[i], t)
    BY <1>4
<1>7. f[0] = acc /\ \A i \in 1 .. N : f[i] = ReplayFrame(f[i - 1], fs[i], t)
    <2>1. 0 \in 0 .. N /\ \A i \in 1 .. N : i \in 0 .. N /\ i # 0 OBVIOUS
    <2> QED BY <1>6, <2>1
<1> QED BY <1>5, <1>7 DEF Replays

\* A file without frames changes nothing.
LEMMA ReplayNone ==
    ASSUME NEW acc, NEW t
    PROVE  ReplayFrom(acc, <<>>, t) = acc
<1>1. Len(<<>>) = 0 OBVIOUS
<1>2. PICK f : Replays(f, acc, <<>>, t) BY <1>1, ReplayLoop
<1> QED BY <1>1, <1>2 DEF Replays

\* One frame more is one turn more.
LEMMA ReplayAppend ==
    ASSUME NEW S, NEW fs \in Seq(S), NEW x \in S, NEW acc, NEW t
    PROVE  ReplayFrom(acc, Append(fs, x), t) = ReplayFrame(ReplayFrom(acc, fs, t), x, t)
<1> DEFINE n == Len(fs)
           gs == Append(fs, x)
<1>1. /\ n \in Nat /\ Len(gs) = n + 1 /\ gs[n + 1] = x
      /\ \A i \in 1 .. n : gs[i] = fs[i]
    OBVIOUS
<1> HIDE DEF n, gs
<1>2. PICK f : Replays(f, acc, fs, t) BY <1>1, ReplayLoop DEF n
<1>3. PICK g : Replays(g, acc, gs, t)
    <2>1. Len(gs) \in Nat BY <1>1
    <2> QED BY <2>1, ReplayLoop
<1> DEFINE T == {i \in Nat : i <= n => f[i] = g[i]}
<1>4. 0 \in T BY <1>2, <1>3 DEF Replays
<1>5. ASSUME NEW i \in Nat, i \in T PROVE i + 1 \in T
    <2> SUFFICES ASSUME i + 1 <= n PROVE f[i + 1] = g[i + 1] OBVIOUS
    <2>1. /\ i + 1 \in 1 .. n /\ i + 1 \in 1 .. n + 1 /\ (i + 1) - 1 = i /\ f[i] = g[i]
        BY <1>1, <1>5
    <2>2. f[i + 1] = ReplayFrame(f[i], fs[i + 1], t) BY <1>2, <2>1 DEF Replays, n
    <2>3. g[i + 1] = ReplayFrame(g[i], gs[i + 1], t) BY <1>1, <1>3, <2>1 DEF Replays
    <2>4. gs[i + 1] = fs[i + 1] BY <1>1, <2>1
    <2> QED BY <2>1, <2>2, <2>3, <2>4
<1> HIDE DEF T
<1>6. n \in T BY <1>1, <1>4, <1>5, ByInduction
<1>7. f[n] = g[n] BY <1>6, <1>1 DEF T
<1>8. n + 1 \in 1 .. n + 1 /\ (n + 1) - 1 = n BY <1>1
<1>9. g[n + 1] = ReplayFrame(g[n], x, t) BY <1>1, <1>3, <1>8 DEF Replays
<1>10. ReplayFrom(acc, gs, t) = g[n + 1] BY <1>1, <1>3 DEF Replays
<1>11. ReplayFrom(acc, fs, t) = f[n] BY <1>2 DEF Replays, n
<1> QED BY <1>7, <1>9, <1>10, <1>11 DEF gs

\* The frames of two files, one after the other.
LEMMA ReplayConcat ==
    ASSUME NEW S, NEW a \in Seq(S), NEW b \in Seq(S), NEW acc, NEW t
    PROVE  ReplayFrom(acc, a \o b, t) = ReplayFrom(ReplayFrom(acc, a, t), b, t)
<1> DEFINE N == Len(b)
           P(m) == SubSeq(b, 1, m)
           mid == ReplayFrom(acc, a, t)
           T == {m \in Nat : m <= N => ReplayFrom(acc, a \o P(m), t) = ReplayFrom(mid, P(m), t)}
<1>1. N \in Nat /\ P(N) = b /\ P(0) = <<>> /\ a \o <<>> = a OBVIOUS
<1>2. 0 \in T BY <1>1, ReplayNone
<1>3. ASSUME NEW m \in Nat, m \in T PROVE m + 1 \in T
    <2> SUFFICES ASSUME m + 1 <= N
                 PROVE  ReplayFrom(acc, a \o P(m + 1), t) = ReplayFrom(mid, P(m + 1), t)
        OBVIOUS
    <2> DEFINE x == b[m + 1]
               p == P(m)
               q == a \o P(m)
    <2>1. m \in 0 .. Len(b) - 1 /\ m <= N BY <1>1
    <2>2. /\ x \in S /\ p \in Seq(S) /\ q \in Seq(S)
          /\ P(m + 1) = Append(p, x) /\ a \o P(m + 1) = Append(q, x)
        BY <2>1, OneMore
    <2>3. ReplayFrom(acc, q, t) = ReplayFrom(mid, p, t) BY <1>3, <2>1
    <2> HIDE DEF x, p, q, P, mid
    <2>4. ReplayFrom(acc, Append(q, x), t) = ReplayFrame(ReplayFrom(acc, q, t), x, t)
        BY <2>2, ReplayAppend
    <2>5. ReplayFrom(mid, Append(p, x), t) = ReplayFrame(ReplayFrom(mid, p, t), x, t)
        BY <2>2, ReplayAppend
    <2> QED BY <2>2, <2>3, <2>4, <2>5
<1> HIDE DEF T
<1>4. N \in T BY <1>1, <1>2, <1>3, ByInduction
<1>5. ReplayFrom(acc, a \o P(N), t) = ReplayFrom(mid, P(N), t) BY <1>1, <1>4 DEF T
<1> HIDE DEF P
<1> QED BY <1>1, <1>5

\* f has the concatenation of each of the first sequences of q, and FlattenSeq
\* is that of all of them.
Flattens(f, q) ==
    /\ f[0] = <<>>
    /\ \A i \in 1 .. Len(q) : f[i] = f[i - 1] \o q[i]
    /\ FlattenSeq(q) = f[Len(q)]

\* The recursive definition of FlattenSeq has such a function.
LEMMA FlattenLoop ==
    ASSUME NEW S, NEW q \in Seq(Seq(S))
    PROVE  \E f : Flattens(f, q) /\ \A i \in 0 .. Len(q) : f[i] \in Seq(S)
<1> DEFINE N == Len(q)
           Is(f, n) == f = [i \in 1 .. n |-> IF i = 1 THEN q[i] ELSE f[i - 1] \o q[i]]
           T == {n \in Nat : \E f : Is(f, n)}
<1>0. N \in Nat /\ \A i \in 1 .. N : q[i] \in Seq(S) OBVIOUS
<1>1. 0 \in T
    <2> DEFINE f == [i \in 1 .. 0 |-> <<>>]
    <2>1. Is(f, 0) OBVIOUS
    <2> QED BY <2>1
<1>2. ASSUME NEW n \in Nat, n \in T PROVE n + 1 \in T
    <2>1. PICK f : Is(f, n) BY <1>2
    <2> DEFINE last == IF n = 0 THEN q[1] ELSE f[n] \o q[n + 1]
               g == [i \in 1 .. n + 1 |-> IF i = n + 1 THEN last ELSE f[i]]
    <2>2. \A i \in 1 .. n : f[i] = IF i = 1 THEN q[i] ELSE f[i - 1] \o q[i]
        BY <2>1
    <2>3. Is(g, n + 1)
        <3>1. ASSUME NEW i \in 1 .. n + 1
              PROVE  g[i] = IF i = 1 THEN q[i] ELSE g[i - 1] \o q[i]
            <4>1. CASE i = n + 1
                <5>1. g[i] = last BY <4>1
                <5>2. CASE n = 0 BY <4>1, <5>1, <5>2
                <5>3. CASE n # 0
                    <6>1. g[n] = f[n] /\ i - 1 = n /\ i # 1 BY <4>1, <5>3
                    <6> QED BY <4>1, <5>1, <5>3, <6>1
                <5> QED BY <5>2, <5>3
            <4>2. CASE i \in 2 .. n
                <5>1. g[i] = f[i] /\ g[i - 1] = f[i - 1] /\ i # 1 /\ i \in 1 .. n BY <4>2
                <5>2. f[i] = f[i - 1] \o q[i] BY <2>2, <5>1
                <5> QED BY <5>1, <5>2
            <4>3. CASE i = 1 /\ i # n + 1
                <5>1. g[i] = f[i] /\ i \in 1 .. n BY <4>3
                <5> QED BY <2>2, <4>3, <5>1
            <4> QED BY <4>1, <4>2, <4>3
        <3> QED BY <3>1
    <2> HIDE DEF g
    <2>4. \E h : Is(h, n + 1) BY <2>3
    <2>5. n + 1 \in Nat OBVIOUS
    <2> HIDE DEF Is
    <2> QED BY <2>4, <2>5
<1> HIDE DEF T
<1>3. N \in T BY <1>0, <1>1, <1>2, ByInduction
<1> DEFINE h == CHOOSE f : Is(f, N)
<1>4. Is(h, N) BY <1>3 DEF T
<1>5. FlattenSeq(q) = IF N = 0 THEN q ELSE h[N] BY DEF FlattenSeq
<1> HIDE DEF h
<1>6. \A i \in 1 .. N : h[i] = IF i = 1 THEN q[i] ELSE h[i - 1] \o q[i]
    BY <1>4
<1> DEFINE f == [i \in 0 .. N |-> IF i = 0 THEN <<>> ELSE h[i]]
<1>7. f[0] = <<>> BY <1>0
<1>8. \A i \in 1 .. N : f[i] = f[i - 1] \o q[i]
    <2> TAKE i \in 1 .. N
    <2>1. f[i] = h[i] BY <1>0
    <2>2. CASE i = 1
        <3>1. h[i] = q[i] BY <1>6, <2>2
        <3>2. f[i - 1] = <<>> BY <1>0, <2>2
        <3>3. <<>> \o q[i] = q[i] BY <1>0
        <3> QED BY <2>1, <3>1, <3>2, <3>3
    <2>3. CASE i # 1
        <3>1. h[i] = h[i - 1] \o q[i] BY <1>6, <2>3
        <3>2. f[i - 1] = h[i - 1] BY <1>0, <2>3
        <3> QED BY <2>1, <3>1, <3>2
    <2> QED BY <2>2, <2>3
<1>9. FlattenSeq(q) = f[N]
    <2>1. CASE N = 0
        <3>1. q = <<>> BY <2>1
        <3> QED BY <1>5, <1>7, <2>1, <3>1
    <2>2. CASE N # 0
        <3>1. f[N] = h[N] BY <1>0, <2>2
        <3> QED BY <1>5, <2>2, <3>1
    <2> QED BY <2>1, <2>2
<1> HIDE DEF f
<1> DEFINE U == {i \in Nat : i <= N => f[i] \in Seq(S)}
<1>10. 0 \in U
    <2>1. <<>> \in Seq(S) OBVIOUS
    <2> QED BY <1>7, <2>1
<1>11. ASSUME NEW i \in Nat, i \in U PROVE i + 1 \in U
    <2> SUFFICES ASSUME i + 1 <= N PROVE f[i + 1] \in Seq(S) OBVIOUS
    <2>1. i + 1 \in 1 .. N /\ (i + 1) - 1 = i /\ f[i] \in Seq(S) BY <1>0, <1>11
    <2>2. f[i + 1] = f[i] \o q[i + 1] /\ q[i + 1] \in Seq(S) BY <1>0, <1>8, <2>1
    <2> QED BY <2>1, <2>2
<1> HIDE DEF U
<1>12. Nat \subseteq U BY <1>10, <1>11, ByInduction
<1>13. \A i \in 0 .. N : f[i] \in Seq(S) BY <1>0, <1>12 DEF U
<1>14. Flattens(f, q) BY <1>7, <1>8, <1>9 DEF Flattens
<1> QED BY <1>13, <1>14

-----------------------------------------------------------------------------
(***************************************************************************)
(* One key.                                                                *)
(***************************************************************************)

\* The same reply, and the same slot unless the reply is an error.
Same(r, q) == r = q \/ (r.err = TRUE /\ q.err = TRUE)

\* expire_if_stale leaves what a reader sees, and its rows.
LEMMA StaleSlot ==
    ASSUME NEW sl, Good(sl), NEW n
    PROVE  ExpireIfStale(sl, n) = Indexed(Live(sl.entry, n))
<1> DEFINE s == ExpireIfStale(sl, n)
<1>1. Good(s) /\ s.entry = Live(sl.entry, n) BY Staling, StaleEntry
<1> HIDE DEF s
<1>2. s = Indexed(s.entry) BY <1>1 DEF Good
<1> QED BY <1>1, <1>2 DEF s

\* SET forgets what the slot held.
LEMMA SetSlot ==
    ASSUME NEW sl, Good(sl), NEW b \in Sendable, NEW t \in Deadlines
    PROVE  SetAt(sl, b, t) = Done(Indexed(StringEntry(b, t)))
<1> DEFINE e == StringEntry(b, t)
           u == UnindexExpiration(sl, sl.entry.expires)
<1>1. IsEntry(e) /\ e.expires = t BY DEF IsEntry, StringEntry
<1>2. u = [entry |-> sl.entry, rows |-> NoRows] BY Unindexing
<1>3. [u EXCEPT !.entry = e] = [entry |-> e, rows |-> NoRows] BY <1>2
<1>4. IndexExpiration([u EXCEPT !.entry = e], t) = Indexed(e)
    BY <1>1, <1>3, Indexing
<1>5. ~TooLarge(<<b>>) BY DEF Sendable
<1> HIDE DEF e
<1> QED BY <1>4, <1>5 DEF SetAt, e

\* Equal outcomes are the same.
LEMMA SameIfEqual == ASSUME NEW r, NEW q, r = q PROVE Same(r, q)
BY DEF Same

\* What a command does to a key depends on what a reader sees of it and on nothing
\* else: not on whether a stale entry is still there, and not on the time it runs at,
\* unless that is on the other side of the command's own deadline.
LEMMA SameOutcome ==
    ASSUME NEW a, Good(a), NEW b, Good(b), NEW u, NEW v,
           Live(a.entry, u) = Live(b.entry, v),
           NEW c \in Command, ~TooLarge(<<c.val>>),
           c.op = "expire" => (c.at <= u <=> c.at <= v)
    PROVE  Same(Apply(c, a, u), Apply(c, b, v))
<1>0. c.op \in Ops /\ c.val \in Sendable /\ c.at \in Deadlines BY DEF Command, Sendable
<1>s. ExpireIfStale(a, u) = ExpireIfStale(b, v) BY StaleSlot
<1>i. \A ty, d : OrInsert(a, u, ty, d) = OrInsert(b, v, ty, d) BY <1>s DEF OrInsert
<1>1. CASE c.op \in {"set", "mset"}
    <2>1. Apply(c, a, u) = SetAt(a, c.val, c.at) /\ Apply(c, b, v) = SetAt(b, c.val, c.at)
        BY <1>1 DEF Apply
    <2>2. SetAt(a, c.val, c.at) = SetAt(b, c.val, c.at) BY <1>0, SetSlot
    <2> QED BY <2>1, <2>2, SameIfEqual
<1>2. CASE c.op = "del"
    <2>1. Apply(c, a, u) = Del(a, u) /\ Apply(c, b, v) = Del(b, v) BY <1>2 DEF Apply
    <2>2. Del(a, u) = Del(b, v) BY <1>s DEF Del
    <2> QED BY <2>1, <2>2, SameIfEqual
<1>3. CASE c.op = "incr"
    <2>1. Apply(c, a, u) = Incr(a, c.n, u) /\ Apply(c, b, v) = Incr(b, c.n, v) BY <1>3 DEF Apply
    <2>2. Incr(a, c.n, u) = Incr(b, c.n, v) BY <1>i DEF Incr
    <2> QED BY <2>1, <2>2, SameIfEqual
<1>4. CASE c.op = "decrby"
    <2>1. Apply(c, a, u) = DecrBy(a, c.n, u) /\ Apply(c, b, v) = DecrBy(b, c.n, v)
        BY <1>4 DEF Apply
    <2>2. Incr(a, -c.n, u) = Incr(b, -c.n, v) BY <1>i DEF Incr
    <2>3. CASE c.n = MinInt BY <2>1, <2>3 DEF Same, DecrBy, Failed
    <2>4. CASE c.n # MinInt
        <3>1. DecrBy(a, c.n, u) = DecrBy(b, c.n, v) BY <2>2, <2>4 DEF DecrBy
        <3> QED BY <2>1, <3>1, SameIfEqual
    <2> QED BY <2>3, <2>4
<1>5. CASE c.op = "append"
    <2>1. Apply(c, a, u) = AppendBytes(a, c.val, u) /\ Apply(c, b, v) = AppendBytes(b, c.val, v)
        BY <1>5 DEF Apply
    <2>2. AppendBytes(a, c.val, u) = AppendBytes(b, c.val, v) BY <1>i DEF AppendBytes
    <2> QED BY <2>1, <2>2, SameIfEqual
<1>6. CASE c.op = "expire"
    <2>1. Apply(c, a, u) = ExpireAt(a, c.at, u) /\ Apply(c, b, v) = ExpireAt(b, c.at, v)
        BY <1>6 DEF Apply
    <2>2. ExpireAt(a, c.at, u) = ExpireAt(b, c.at, v)
        <3>1. CASE c.at <= u
            <4>1. c.at <= v BY <1>6, <3>1
            <4> QED BY <3>1, <4>1, <1>s DEF ExpireAt
        <3>2. CASE ~(c.at <= u)
            <4>1. ~(c.at <= v) BY <1>6, <3>2
            <4> QED BY <3>2, <4>1, <1>s DEF ExpireAt
        <3> QED BY <3>1, <3>2
    <2> QED BY <2>1, <2>2, SameIfEqual
<1>7. CASE c.op = "persist"
    <2>1. Apply(c, a, u) = Persist(a, u) /\ Apply(c, b, v) = Persist(b, v) BY <1>7 DEF Apply
    <2>2. Persist(a, u) = Persist(b, v) BY <1>s DEF Persist
    <2> QED BY <2>1, <2>2, SameIfEqual
<1>8. CASE c.op \in {"lpush", "rpush"}
    <2>1. /\ Apply(c, a, u) = Push(a, c.val, c.op = "lpush", u)
          /\ Apply(c, b, v) = Push(b, c.val, c.op = "lpush", v)
        BY <1>8 DEF Apply
    <2>2. Push(a, c.val, c.op = "lpush", u) = Push(b, c.val, c.op = "lpush", v)
        BY <1>i DEF Push
    <2> QED BY <2>1, <2>2, SameIfEqual
<1>9. CASE c.op \in {"lpop", "rpop"}
    <2>1. /\ Apply(c, a, u) = Pop(a, c.n, c.op = "lpop", u)
          /\ Apply(c, b, v) = Pop(b, c.n, c.op = "lpop", v)
        BY <1>9 DEF Apply
    <2>2. Pop(a, c.n, c.op = "lpop", u) = Pop(b, c.n, c.op = "lpop", v)
        BY <1>s DEF Pop
    <2> QED BY <2>1, <2>2, SameIfEqual
<1>10. CASE c.op = "hset"
    <2>1. /\ Apply(c, a, u) = HSet(a, c.field, c.val, u)
          /\ Apply(c, b, v) = HSet(b, c.field, c.val, v)
        BY <1>10 DEF Apply
    <2>2. HSet(a, c.field, c.val, u) = HSet(b, c.field, c.val, v) BY <1>i DEF HSet
    <2> QED BY <2>1, <2>2, SameIfEqual
<1>11. CASE c.op = "hdel"
    <2>1. Apply(c, a, u) = HDel(a, c.field, u) /\ Apply(c, b, v) = HDel(b, c.field, v)
        BY <1>11 DEF Apply
    <2>2. HDel(a, c.field, u) = HDel(b, c.field, v) BY <1>s DEF HDel
    <2> QED BY <2>1, <2>2, SameIfEqual
<1>12. CASE c.op = "hincrby"
    <2>1. /\ Apply(c, a, u) = HIncrBy(a, c.field, c.n, u)
          /\ Apply(c, b, v) = HIncrBy(b, c.field, c.n, v)
        BY <1>12 DEF Apply
    <2>2. HIncrBy(a, c.field, c.n, u) = HIncrBy(b, c.field, c.n, v) BY <1>i DEF HIncrBy
    <2> QED BY <2>1, <2>2, SameIfEqual
<1> QED
    BY <1>0, <1>1, <1>2, <1>3, <1>4, <1>5, <1>6, <1>7, <1>8, <1>9, <1>10, <1>11, <1>12
    DEF Ops

\* The entry has no deadline, or that of an entry of its type.
Inherits(e, old) ==
    e.expires = Never \/ (e.expires = old.expires /\ e.type = old.type)

\* Where the deadline of a key comes from: from what a reader saw of it, from SET, or
\* from EXPIRE.
Deadlined(r, sl, c, n) ==
    LET e == r.slot.entry
    IN  \/ r.err = TRUE /\ e = sl.entry
        \/ Inherits(e, Live(sl.entry, n))
        \/ e.expires = c.at /\ c.op \in {"set", "mset"} /\ e.type = "string"
        \/ e.expires = c.at /\ c.op = "expire" /\ e.type = Live(sl.entry, n).type

\* Both a change in place and the removal of the key keep that so.
LEMMA Inheriting ==
    ASSUME NEW s, Good(s), NEW old, Inherits(s.entry, old)
    PROVE  /\ \A d : Inherits([s EXCEPT !.entry.data = d].entry, old)
           /\ Inherits(RemoveEntry(s).entry, old)
<1>1. ASSUME NEW d PROVE Inherits([s EXCEPT !.entry.data = d].entry, old)
    <2> DEFINE x == [s EXCEPT !.entry.data = d]
    <2>1. x.entry = [type |-> s.entry.type, data |-> d, expires |-> s.entry.expires]
        BY ChangeEntry
    <2> HIDE DEF x
    <2>2. Inherits(x.entry, old) BY <2>1 DEF Inherits
    <2> QED BY <2>2 DEF x
<1>2. RemoveEntry(s).entry.expires = Never BY Removing DEF EmptySlot, Absent
<1> QED BY <1>1, <1>2 DEF Inherits

\* A key that a command has looked at, or inserted.
LEMMA Looking ==
    ASSUME NEW sl, Good(sl), NEW n
    PROVE  LET old == Live(sl.entry, n)
           IN  /\ Good(ExpireIfStale(sl, n)) /\ Inherits(ExpireIfStale(sl, n).entry, old)
               /\ ExpireIfStale(sl, n).entry = old
               /\ \A ty, d : ty # "none" => /\ Good(OrInsert(sl, n, ty, d))
                                            /\ Inherits(OrInsert(sl, n, ty, d).entry, old)
<1> DEFINE old == Live(sl.entry, n)
<1>1. Good(ExpireIfStale(sl, n)) /\ ExpireIfStale(sl, n).entry = old BY Staling, StaleEntry
<1>2. ASSUME NEW ty, NEW d, ty # "none"
      PROVE  Good(OrInsert(sl, n, ty, d)) /\ Inherits(OrInsert(sl, n, ty, d).entry, old)
    <2> DEFINE s == OrInsert(sl, n, ty, d)
    <2>1. Good(s) BY <1>2, Inserting
    <2>2. s.entry = old \/ s.entry = [type |-> ty, data |-> d, expires |-> Never] BY InsertEntry
    <2> HIDE DEF s, old
    <2>3. Inherits(s.entry, old) BY <2>2 DEF Inherits
    <2> QED BY <2>1, <2>3 DEF s
<1> HIDE DEF old
<1> QED BY <1>1, <1>2 DEF Inherits, old

\* EXPIRE sets the deadline of the entry a reader saw, or removes the key.
LEMMA ExpireSlot ==
    ASSUME NEW sl, Good(sl), NEW t \in Deadlines, NEW n
    PROVE  LET old == Live(sl.entry, n)
           IN  ExpireAt(sl, t, n) =
                 Done(IF old.type = "none" \/ t <= n THEN EmptySlot
                      ELSE Indexed([old EXCEPT !.expires = t]))
<1> DEFINE old == Live(sl.entry, n)
           s == ExpireIfStale(sl, n)
           u == UnindexExpiration(s, s.entry.expires)
           e == [old EXCEPT !.expires = t]
           v == [u EXCEPT !.entry.expires = t]
<1>1. Good(s) /\ s.entry = old BY Staling, StaleEntry
<1> HIDE DEF s, old
<1>2. RemoveEntry(s) = EmptySlot BY <1>1, Removing
<1>3. ASSUME old.type = "none" PROVE s = EmptySlot
    <2>1. old = Absent BY <1>1, <1>3 DEF Good, IsEntry
    <2>2. EmptySlot = Indexed(Absent) BY EmptyIsGood DEF Good, EmptySlot
    <2> QED BY <1>1, <2>1, <2>2 DEF Good
<1>4. ASSUME old.type # "none" PROVE IndexExpiration(v, t) = Indexed(e)
    <2>1. IsEntry(e) /\ e.expires = t BY <1>1, <1>4 DEF Good, IsEntry
    <2>2. u = [entry |-> old, rows |-> NoRows] BY <1>1, Unindexing
    <2>3. v = [entry |-> e, rows |-> NoRows] BY <2>2
    <2> HIDE DEF v, e, u
    <2> QED BY <2>1, <2>3, Indexing
<1> HIDE DEF e
<1>5. ExpireAt(sl, t, n) = Done(IF old.type = "none" THEN s
                                ELSE IF t <= n THEN RemoveEntry(s) ELSE IndexExpiration(v, t))
    BY <1>1 DEF ExpireAt, s
<1> HIDE DEF v
<1>6. CASE old.type = "none"
    <2>1. ExpireAt(sl, t, n) = Done(s) BY <1>5, <1>6
    <2> QED BY <1>3, <1>6, <2>1 DEF old
<1>7. CASE old.type # "none" /\ t <= n
    <2>1. ExpireAt(sl, t, n) = Done(RemoveEntry(s)) BY <1>5, <1>7
    <2> QED BY <1>2, <1>7, <2>1 DEF old
<1>8. CASE old.type # "none" /\ ~(t <= n)
    <2>1. ExpireAt(sl, t, n) = Done(IndexExpiration(v, t)) BY <1>5, <1>8
    <2> QED BY <1>4, <1>8, <2>1 DEF old, e
<1> QED BY <1>6, <1>7, <1>8

\* PERSIST leaves no deadline.
LEMMA PersistSlot ==
    ASSUME NEW sl, Good(sl), NEW n
    PROVE  Persist(sl, n).slot.entry.expires = Never
<1> DEFINE s == ExpireIfStale(sl, n)
           u == UnindexExpiration(s, s.entry.expires)
<1>1. Good(s) BY Staling
<1> HIDE DEF s
<1>2. u = [entry |-> s.entry, rows |-> NoRows] BY <1>1, Unindexing
<1>3. s.entry = [type |-> s.entry.type, data |-> s.entry.data, expires |-> s.entry.expires]
    BY <1>1 DEF Good, IsEntry
<1>4. [u EXCEPT !.entry.expires = Never].entry.expires = Never BY <1>2, <1>3
<1> QED BY <1>4 DEF Persist, Done, s

\* Command::apply gives a key no deadline from elsewhere.
LEMMA ApplyDeadline ==
    ASSUME NEW sl, Good(sl), NEW c \in Command, ~TooLarge(<<c.val>>), NEW n
    PROVE  Deadlined(Apply(c, sl, n), sl, c, n)
<1> DEFINE old == Live(sl.entry, n)
           s == ExpireIfStale(sl, n)
           i(ty, d) == OrInsert(sl, n, ty, d)
<1>0. c.op \in Ops /\ c.val \in Sendable /\ c.at \in Deadlines BY DEF Command, Sendable
<1>s. /\ Inherits(s.entry, old) /\ Inherits(RemoveEntry(s).entry, old)
      /\ \A d : Inherits([s EXCEPT !.entry.data = d].entry, old)
    <2>1. Good(s) /\ Inherits(s.entry, old) BY Looking
    <2> HIDE DEF s, old
    <2> QED BY <2>1, Inheriting
<1>i. ASSUME NEW ty, ty # "none", NEW d
      PROVE  /\ Inherits(i(ty, d).entry, old)
             /\ \A x : Inherits([i(ty, d) EXCEPT !.entry.data = x].entry, old)
    <2> DEFINE y == i(ty, d)
    <2>1. Good(y) /\ Inherits(y.entry, old) BY <1>i, Looking
    <2> HIDE DEF y, old
    <2>2. Inherits(y.entry, old) /\ \A x : Inherits([y EXCEPT !.entry.data = x].entry, old)
        BY <2>1, Inheriting
    <2> QED BY <2>2 DEF y
<1>n. ASSUME NEW d PROVE Inherits(Incr(sl, d, n).slot.entry, old)
    <2> DEFINE y == i("string", <<0>>)
    <2>1. /\ Inherits(y.entry, old) /\ \A x : Inherits([y EXCEPT !.entry.data = x].entry, old)
        BY <1>i
    <2>2. Incr(sl, d, n).slot \in {y, [y EXCEPT !.entry.data = <<y.entry.data[1] + d>>]}
        <3> HIDE DEF y
        <3> QED BY DEF Incr, Done, Failed, y
    <2> HIDE DEF y, old
    <2> QED BY <2>1, <2>2
<1> SUFFICES \/ Apply(c, sl, n).err = TRUE /\ Apply(c, sl, n).slot.entry = sl.entry
             \/ Inherits(Apply(c, sl, n).slot.entry, old)
             \/ /\ Apply(c, sl, n).slot.entry.expires = c.at
                /\ \/ c.op \in {"set", "mset"} /\ Apply(c, sl, n).slot.entry.type = "string"
                   \/ c.op = "expire" /\ Apply(c, sl, n).slot.entry.type = old.type
    BY DEF Deadlined
<1>1. CASE c.op \in {"set", "mset"}
    <2>1. Apply(c, sl, n) = SetAt(sl, c.val, c.at) BY <1>1 DEF Apply
    <2>2. Apply(c, sl, n) = Done(Indexed(StringEntry(c.val, c.at))) BY <1>0, <2>1, SetSlot
    <2> QED BY <1>1, <2>2 DEF Done, Indexed, StringEntry
<1>2. CASE c.op = "del"
    <2>1. Apply(c, sl, n) = Del(sl, n) BY <1>2 DEF Apply
    <2>2. Apply(c, sl, n).slot = RemoveEntry(s) BY <2>1 DEF Del, Done
    <2> QED BY <1>s, <2>2
<1>3. CASE c.op = "incr"
    <2>1. Apply(c, sl, n) = Incr(sl, c.n, n) BY <1>3 DEF Apply
    <2> QED BY <1>n, <2>1
<1>4. CASE c.op = "decrby"
    <2>1. Apply(c, sl, n) = DecrBy(sl, c.n, n) BY <1>4 DEF Apply
    <2>2. CASE c.n = MinInt
        <3>1. Apply(c, sl, n) = Failed(sl) BY <2>1, <2>2 DEF DecrBy
        <3> QED BY <3>1 DEF Failed
    <2>3. CASE c.n # MinInt
        <3>1. Apply(c, sl, n) = Incr(sl, -c.n, n) BY <2>1, <2>3 DEF DecrBy
        <3> QED BY <1>n, <3>1
    <2> QED BY <2>2, <2>3
<1>5. CASE c.op = "append"
    <2> DEFINE y == i("string", <<EmptyBytes>>)
    <2>1. Apply(c, sl, n) = AppendBytes(sl, c.val, n) BY <1>5 DEF Apply
    <2>2. /\ Inherits(y.entry, old) /\ \A x : Inherits([y EXCEPT !.entry.data = x].entry, old)
        BY <1>i
    <2>3. AppendBytes(sl, c.val, n).slot
            \in {y, [y EXCEPT !.entry.data = <<Concat(y.entry.data[1], c.val)>>]}
        <3> HIDE DEF y
        <3> QED BY DEF AppendBytes, Done, Failed, y
    <2> HIDE DEF y, old
    <2> QED BY <2>1, <2>2, <2>3
<1>6. CASE c.op = "expire"
    <2>1. Apply(c, sl, n) = ExpireAt(sl, c.at, n) BY <1>6 DEF Apply
    <2>2. \/ Apply(c, sl, n) = Done(EmptySlot)
          \/ Apply(c, sl, n) = Done(Indexed([old EXCEPT !.expires = c.at]))
        BY <1>0, <2>1, ExpireSlot
    <2>3. CASE Apply(c, sl, n) = Done(EmptySlot)
        BY <2>3 DEF Done, EmptySlot, Absent, Inherits
    <2>4. CASE Apply(c, sl, n) = Done(Indexed([old EXCEPT !.expires = c.at]))
        <3>1. old = [type |-> old.type, data |-> old.data, expires |-> old.expires]
            BY DEF Live, Absent, Good, IsEntry
        <3> HIDE DEF old
        <3> DEFINE e == [old EXCEPT !.expires = c.at]
        <3>2. e.expires = c.at /\ e.type = old.type BY <3>1
        <3>3. Apply(c, sl, n) = Done(Indexed(e)) BY <2>4
        <3> HIDE DEF e
        <3>4. Apply(c, sl, n).slot.entry = e BY <3>3 DEF Done, Indexed
        <3> QED BY <1>6, <3>2, <3>4
    <2> QED BY <2>2, <2>3, <2>4
<1>7. CASE c.op = "persist"
    <2>1. Apply(c, sl, n) = Persist(sl, n) BY <1>7 DEF Apply
    <2> QED BY <2>1, PersistSlot DEF Inherits
<1>8. CASE c.op \in {"lpush", "rpush"}
    <2> DEFINE y == i("list", <<>>)
    <2>1. Apply(c, sl, n) = Push(sl, c.val, c.op = "lpush", n) BY <1>8 DEF Apply
    <2>2. /\ Inherits(y.entry, old) /\ \A x : Inherits([y EXCEPT !.entry.data = x].entry, old)
        BY <1>i
    <2>3. \E x : Push(sl, c.val, c.op = "lpush", n).slot \in {y, [y EXCEPT !.entry.data = x]}
        <3> HIDE DEF y
        <3> QED BY DEF Push, Done, Failed, y
    <2> HIDE DEF y, old
    <2> QED BY <2>1, <2>2, <2>3
<1>9. CASE c.op \in {"lpop", "rpop"}
    <2>1. Apply(c, sl, n) = Pop(sl, c.n, c.op = "lpop", n) BY <1>9 DEF Apply
    <2>2. \E x : Pop(sl, c.n, c.op = "lpop", n).slot
                    \in {s, RemoveEntry(s), [s EXCEPT !.entry.data = x]}
        <3> HIDE DEF s
        <3> QED BY DEF Pop, Done, Failed, s
    <2> HIDE DEF s, old
    <2> QED BY <1>s, <2>1, <2>2
<1>10. CASE c.op = "hset"
    <2> DEFINE y == i("hash", <<>>)
    <2>1. Apply(c, sl, n) = HSet(sl, c.field, c.val, n) BY <1>10 DEF Apply
    <2>2. /\ Inherits(y.entry, old) /\ \A x : Inherits([y EXCEPT !.entry.data = x].entry, old)
        BY <1>i
    <2>3. \E x : HSet(sl, c.field, c.val, n).slot \in {y, [y EXCEPT !.entry.data = x]}
        <3> HIDE DEF y
        <3> QED BY DEF HSet, Done, Failed, y
    <2> HIDE DEF y, old
    <2> QED BY <2>1, <2>2, <2>3
<1>11. CASE c.op = "hdel"
    <2>1. Apply(c, sl, n) = HDel(sl, c.field, n) BY <1>11 DEF Apply
    <2>2. \E x : HDel(sl, c.field, n).slot \in {s, RemoveEntry(s), [s EXCEPT !.entry.data = x]}
        <3> HIDE DEF s
        <3> QED BY DEF HDel, Done, Failed, s
    <2> HIDE DEF s, old
    <2> QED BY <1>s, <2>1, <2>2
<1>12. CASE c.op = "hincrby"
    <2> DEFINE y == i("hash", <<>>)
    <2>1. Apply(c, sl, n) = HIncrBy(sl, c.field, c.n, n) BY <1>12 DEF Apply
    <2>2. /\ Inherits(y.entry, old) /\ \A x : Inherits([y EXCEPT !.entry.data = x].entry, old)
        BY <1>i
    <2>3. \E x : HIncrBy(sl, c.field, c.n, n).slot \in {y, [y EXCEPT !.entry.data = x]}
        <3> HIDE DEF y
        <3> QED BY DEF HIncrBy, Done, Failed, y
    <2> HIDE DEF y, old
    <2> QED BY <2>1, <2>2, <2>3
<1> QED
    BY <1>0, <1>1, <1>2, <1>3, <1>4, <1>5, <1>6, <1>7, <1>8, <1>9, <1>10, <1>11, <1>12
    DEF Ops

\* A command answers an error or does not.
LEMMA Answers ==
    ASSUME NEW sl, NEW c, c.op \in Ops, NEW n
    PROVE  Apply(c, sl, n).err \in BOOLEAN
<1> USE DEF Done, Failed
<1>1. CASE c.op \in {"set", "mset"} BY <1>1 DEF Apply, SetAt
<1>2. CASE c.op = "del" BY <1>2 DEF Apply, Del
<1>3. CASE c.op = "incr" BY <1>3 DEF Apply, Incr
<1>4. CASE c.op = "decrby" BY <1>4 DEF Apply, DecrBy, Incr
<1>5. CASE c.op = "append" BY <1>5 DEF Apply, AppendBytes
<1>6. CASE c.op = "expire" BY <1>6 DEF Apply, ExpireAt
<1>7. CASE c.op = "persist" BY <1>7 DEF Apply, Persist
<1>8. CASE c.op \in {"lpush", "rpush"} BY <1>8 DEF Apply, Push
<1>9. CASE c.op \in {"lpop", "rpop"} BY <1>9 DEF Apply, Pop
<1>10. CASE c.op = "hset" BY <1>10 DEF Apply, HSet
<1>11. CASE c.op = "hdel" BY <1>11 DEF Apply, HDel
<1>12. CASE c.op = "hincrby" BY <1>12 DEF Apply, HIncrBy
<1> QED
    BY <1>1, <1>2, <1>3, <1>4, <1>5, <1>6, <1>7, <1>8, <1>9, <1>10, <1>11, <1>12
    DEF Ops

\* The latest deadlines there are at a time: those beyond the signed range are of
\* strings, and none is further away than MAX_EXPIRE_AT_MS.
Dated(e, n) ==
    /\ e.expires <= n + MaxAbsolute
    /\ e.type \in {"list", "hash"} => e.expires <= MaxAbsolute

\* A slot as the commands leave it.
Fit(sl, n) == Good(sl) /\ WellFormed(sl.entry) /\ Dated(sl.entry, n)

\* A command as one was sent by a client, or read from a frame logged at time n.
Sent(c, n) ==
    /\ c \in Command /\ ~TooLarge(<<c.val>>)
    /\ c.at <= n + MaxAbsolute
    /\ c.op = "expire" => c.at <= MaxAbsolute

\* The times and the deadlines are numbers.
LEMMA Numbers ==
    /\ MaxAbsolute \in Nat /\ MaxAbsolute > 0 /\ MaxTime = MaxAbsolute + 1 /\ Times = 0 .. MaxTime
    /\ Deadlines \subseteq Int /\ Never = -1 /\ Times \subseteq Deadlines
    /\ \A d \in Deadlines : d = Never \/ d \in Times
BY CommandsAssumption, RecoveryAssumption DEF Deadlines, Times, Never

\* A slot without an entry is fit.
LEMMA EmptyIsFit == ASSUME NEW n \in Nat PROVE Fit(EmptySlot, n)
<1>1. WellFormed(Absent) BY MakeEntry
<1>2. Dated(Absent, n) BY Numbers DEF Dated, Absent
<1>3. EmptySlot.entry = Absent BY DEF EmptySlot
<1> QED BY <1>1, <1>2, <1>3, EmptyIsGood DEF Fit

\* A command leaves a fit slot, and an error leaves what a reader saw.
LEMMA ApplyFit ==
    ASSUME NEW n \in Nat, NEW sl, Fit(sl, n), NEW c, Sent(c, n), NEW t
    PROVE  LET r == Apply(c, sl, t)
           IN  /\ Fit(r.slot, n) /\ r.err \in BOOLEAN
               /\ r.err => Live(r.slot.entry, t) = Live(sl.entry, t)
<1> DEFINE r == Apply(c, sl, t)
           e == r.slot.entry
           old == Live(sl.entry, t)
<1>0. /\ c \in Command /\ c.op \in Ops /\ c.at \in Deadlines /\ ~TooLarge(<<c.val>>)
      /\ Good(sl) /\ WellFormed(sl.entry) /\ Dated(sl.entry, n)
    BY DEF Sent, Command, Fit
<1>1. Good(r.slot) BY <1>0, Applying
<1>2. Harmless(r, sl, t) BY <1>0, ApplyEntry
<1>3. Deadlined(r, sl, c, t) BY <1>0, ApplyDeadline
<1>4. r.err \in BOOLEAN BY <1>0, Answers
<1>5. Dated(old, n)
    <2>1. Dated(Absent, n) BY Numbers DEF Dated, Absent
    <2> QED BY <1>0, <2>1 DEF Live
<1>6. e.expires \in Deadlines BY <1>1 DEF Good, IsEntry
<1> HIDE DEF r, old
<1>7. Dated(e, n)
    <2>1. Never <= n + MaxAbsolute /\ Never <= MaxAbsolute BY Numbers
    <2>2. CASE r.err = TRUE /\ e = sl.entry BY <1>0, <2>2
    <2>3. CASE Inherits(e, old)
        <3>1. CASE e.expires = Never BY <2>1, <3>1 DEF Dated
        <3>2. CASE e.expires = old.expires /\ e.type = old.type BY <1>5, <3>2 DEF Dated
        <3> QED BY <2>3, <3>1, <3>2 DEF Inherits
    <2>4. CASE e.expires = c.at /\ c.op \in {"set", "mset"} /\ e.type = "string"
        BY <2>4 DEF Dated, Sent
    <2>5. CASE e.expires = c.at /\ c.op = "expire" /\ e.type = old.type
        BY <2>5 DEF Dated, Sent
    <2> QED BY <1>3, <2>2, <2>3, <2>4, <2>5 DEF Deadlined, old
<1> QED BY <1>1, <1>2, <1>4, <1>7 DEF Fit, Harmless, r

\* If no deadline of the key or the command is between two times, the command gives
\* the same at both, and none is there afterwards.
LEMMA ApplySame ==
    ASSUME NEW n \in Nat, NEW a, NEW b, Fit(a, n), Fit(b, n), NEW c, Sent(c, n),
           NEW u \in Nat, NEW v \in Nat, u <= v, c.at <= u \/ c.at > v,
           Live(a.entry, u) = Live(b.entry, v)
    PROVE  LET r == Apply(c, a, u)
               q == Apply(c, b, v)
           IN  /\ r.err = q.err
               /\ ~r.err => Live(r.slot.entry, u) = Live(q.slot.entry, v)
<1> DEFINE r == Apply(c, a, u)
           q == Apply(c, b, v)
           e == r.slot.entry
           old == Live(a.entry, u)
<1>0. /\ c \in Command /\ c.op \in Ops /\ c.at \in Int /\ ~TooLarge(<<c.val>>)
      /\ Good(a) /\ Good(b)
    BY Numbers DEF Sent, Command, Fit
<1>1. c.at <= u <=> c.at <= v BY <1>0
<1>2. Same(r, q) BY <1>0, <1>1, SameOutcome
<1>3. Deadlined(r, a, c, u) BY <1>0, ApplyDeadline
<1>4. Good(r.slot) /\ r.err \in BOOLEAN
    <2>1. Fit(r.slot, n) BY ApplyFit
    <2> QED BY <2>1, <1>0, Answers DEF Fit
<1>5. e.expires \in Deadlines /\ e.expires \in Int BY <1>4, Numbers DEF Good, IsEntry
<1>6. old.expires \in Int /\ ~(old.expires # Never /\ old.expires <= v)
    <2>1. a.entry.expires \in Int BY <1>0, Numbers DEF Good, IsEntry
    <2>2. old.expires \in Int BY <2>1, Numbers DEF Live, Absent
    <2>3. old = Live(b.entry, v) OBVIOUS
    <2>4. ~Expired(Absent, v) BY DEF Expired, Absent
    <2>5. ~Expired(old, v) BY <2>3, <2>4 DEF Live
    <2> QED BY <2>2, <2>5 DEF Expired
<1> HIDE DEF r, q, old
<1>7. r.err = q.err BY <1>2 DEF Same
<1>8. ASSUME ~r.err PROVE Live(r.slot.entry, u) = Live(q.slot.entry, v)
    <2>1. r = q BY <1>2, <1>8 DEF Same
    <2>2. e.expires = Never \/ e.expires = old.expires \/ e.expires = c.at
        BY <1>3, <1>8 DEF Deadlined, Inherits, old
    <2> DEFINE d == e.expires
    <2>3. d = Never \/ d <= u \/ d > v
        <3>1. CASE d = old.expires
            <4>1. d = Never \/ ~(d <= v) BY <1>6, <3>1
            <4> QED BY <1>5, <4>1
        <3>2. CASE d = c.at BY <3>2
        <3> QED BY <2>2, <3>1, <3>2
    <2> HIDE DEF d
    <2>4. d \in Int BY <1>5 DEF d
    <2>5. (d # Never /\ d <= u) <=> (d # Never /\ d <= v) BY <2>3, <2>4
    <2>6. Expired(e, u) <=> Expired(e, v) BY <2>5 DEF Expired, d
    <2>7. Live(e, u) = Live(e, v) BY <2>6 DEF Live
    <2> QED BY <2>1, <2>7
<1> QED BY <1>7, <1>8 DEF r, q

-----------------------------------------------------------------------------
(***************************************************************************)
(* One command.                                                            *)
(***************************************************************************)

\* The slots of all keys.
AllFit(s, n) == s = [k \in Keys |-> s[k]] /\ \A k \in Keys : Fit(s[k], n)

\* Readers at two times see the same.
Agree(a, u, b, v) == \A k \in Keys : Live(a[k].entry, u) = Live(b[k].entry, v)

\* Two key spaces agree when readers get the same views.
LEMMA ViewsAgree ==
    ASSUME NEW a, NEW b, NEW u, NEW v
    PROVE  LiveView(a, u) = LiveView(b, v) <=> Agree(a, u, b, v)
<1>1. ASSUME LiveView(a, u) = LiveView(b, v) PROVE Agree(a, u, b, v)
    <2> SUFFICES ASSUME NEW k \in Keys PROVE Live(a[k].entry, u) = Live(b[k].entry, v)
        BY DEF Agree
    <2>1. LiveView(a, u)[k] = Live(a[k].entry, u) /\ LiveView(b, v)[k] = Live(b[k].entry, v)
        BY DEF LiveView
    <2> QED BY <1>1, <2>1
<1>2. ASSUME Agree(a, u, b, v) PROVE LiveView(a, u) = LiveView(b, v)
    BY <1>2 DEF Agree, LiveView
<1> QED BY <1>1, <1>2

\* The slot of one key is replaced.
LEMMA PutSlot ==
    ASSUME NEW n, NEW s, AllFit(s, n), NEW k \in Keys, NEW sl, Fit(sl, n)
    PROVE  LET p == [s EXCEPT ![k] = sl]
           IN  AllFit(p, n) /\ p[k] = sl /\ \A j \in Keys \ {k} : p[j] = s[j]
<1> DEFINE p == [s EXCEPT ![k] = sl]
<1>1. s = [j \in Keys |-> s[j]] BY DEF AllFit
<1>2. p = [j \in Keys |-> IF j = k THEN sl ELSE s[j]] BY <1>1
<1> HIDE DEF p
<1>3. \A j \in Keys : p[j] = IF j = k THEN sl ELSE s[j] BY <1>2
<1>4. p = [j \in Keys |-> p[j]] BY <1>2
<1>5. \A j \in Keys : Fit(p[j], n) BY <1>3 DEF AllFit
<1> QED BY <1>3, <1>4, <1>5 DEF AllFit, p

\* One more key of a command.
LEMMA AtKeyFit ==
    ASSUME NEW n \in Nat, NEW acc, AllFit(acc.slots, n), ~acc.err, NEW k \in Keys,
           NEW c, Sent(c, n), NEW t
    PROVE  LET r == Apply(c, acc.slots[k], t)
               x == AtKey(c, acc, k, t)
           IN  /\ x = [slots |-> x.slots, err |-> x.err] /\ x.err = r.err /\ x.err \in BOOLEAN
               /\ AllFit(x.slots, n)
               /\ x.slots[k] = r.slot /\ \A j \in Keys \ {k} : x.slots[j] = acc.slots[j]
               /\ x.err => Agree(x.slots, t, acc.slots, t)
<1> DEFINE r == Apply(c, acc.slots[k], t)
           x == AtKey(c, acc, k, t)
           s == acc.slots
<1>1. x = [slots |-> [s EXCEPT ![k] = r.slot], err |-> r.err] BY DEF AtKey
<1>2. Fit(s[k], n) BY DEF AllFit
<1>3. /\ Fit(r.slot, n) /\ r.err \in BOOLEAN
      /\ r.err => Live(r.slot.entry, t) = Live(s[k].entry, t)
    BY <1>2, ApplyFit
<1> HIDE DEF r, s, x
<1>4. AllFit(s, n) BY DEF s
<1>5. /\ AllFit(x.slots, n) /\ x.slots[k] = r.slot /\ x.err = r.err
      /\ \A j \in Keys \ {k} : x.slots[j] = s[j]
    <2> DEFINE sl == r.slot
               p == [s EXCEPT ![k] = sl]
    <2>1. Fit(sl, n) BY <1>3
    <2>2. x.slots = p /\ x.err = r.err BY <1>1
    <2> HIDE DEF sl
    <2>3. AllFit(p, n) /\ p[k] = sl /\ \A j \in Keys \ {k} : p[j] = s[j]
        BY <1>4, <2>1, PutSlot
    <2> HIDE DEF p
    <2> QED BY <2>2, <2>3 DEF sl
<1>6. r.err => Agree(x.slots, t, s, t) BY <1>3, <1>5 DEF Agree
<1>7. x = [slots |-> x.slots, err |-> x.err] BY <1>1
<1> QED BY <1>3, <1>5, <1>6, <1>7 DEF r, s, x

\* MSET and DEL, the commands with several keys, do not fail.
LEMMA ManyDone ==
    ASSUME NEW n, NEW c, Sent(c, n), NEW sl, NEW t
    PROVE  /\ Len(c.keys) = 1 \/ Apply(c, sl, t).err = FALSE
           /\ Len(c.keys) \in Nat \ {0} /\ \A i \in 1 .. Len(c.keys) : c.keys[i] \in Keys
<1>1. /\ c \in Command /\ ~TooLarge(<<c.val>>) /\ c.op \in Ops
      /\ c.keys \in Seq(Keys) /\ c.keys # <<>>
    BY KeysOf DEF Sent, Command
<1>2. Apply(c, sl, t).err \in BOOLEAN BY <1>1, Answers
<1>3. Len(c.keys) \in Nat \ {0} /\ \A i \in 1 .. Len(c.keys) : c.keys[i] \in Keys BY <1>1
<1>4. \/ Len(c.keys) = 1
      \/ Apply(c, sl, t).err = FALSE
      \/ c.op = "mset" /\ (Apply(c, sl, t).err = TRUE <=> TooLarge(<<c.val>>))
    BY <1>1, ApplyMany
<1>5. Len(c.keys) = 1 \/ Apply(c, sl, t).err = FALSE BY <1>1, <1>2, <1>4
<1> QED BY <1>3, <1>5

\* One command, all its keys in turn: the slots stay fit, and an error leaves what a
\* reader saw.
LEMMA ApplyAllFit ==
    ASSUME NEW n \in Nat, NEW s, AllFit(s, n), NEW c, Sent(c, n), NEW t
    PROVE  LET r == ApplyAll(c, s, t)
           IN  /\ r = [slots |-> r.slots, err |-> r.err] /\ r.err \in BOOLEAN
               /\ AllFit(r.slots, n)
               /\ r.err => Agree(r.slots, t, s, t)
<1> DEFINE N == Len(c.keys)
<1>1. N \in Nat \ {0} /\ \A i \in 1 .. N : c.keys[i] \in Keys BY ManyDone
<1>2. PICK f : Visits(f, c, s, t) BY <1>1, ApplyLoop
<1> HIDE DEF N
<1> DEFINE Ok(x, i) ==
              /\ x = [slots |-> x.slots, err |-> x.err] /\ x.err \in BOOLEAN
              /\ AllFit(x.slots, n)
              /\ i = 0 => x = [slots |-> s, err |-> FALSE]
              /\ x.err => N = 1 /\ Agree(x.slots, t, s, t)
           T == {i \in Nat : i <= N => Ok(f[i], i)}
<1>3. 0 \in T
    <2>1. f[0] = [slots |-> s, err |-> FALSE] BY <1>2 DEF Visits
    <2>2. f[0].slots = s /\ f[0].err = FALSE BY <2>1
    <2>3. Ok(f[0], 0) BY <2>1, <2>2
    <2> HIDE DEF Ok
    <2> QED BY <2>3
<1>4. ASSUME NEW i \in Nat, i \in T PROVE i + 1 \in T
    <2> SUFFICES ASSUME i + 1 <= N PROVE Ok(f[i + 1], i + 1) OBVIOUS
    <2> DEFINE x == f[i + 1]
               k == c.keys[i + 1]
               r == Apply(c, f[i].slots[k], t)
    <2>1. i + 1 \in 1 .. N /\ (i + 1) - 1 = i /\ i + 1 # 0 /\ Ok(f[i], i) BY <1>1, <1>4
    <2>2. k \in Keys BY <1>1, <2>1
    <2>3. x = AtKey(c, f[i], k, t) BY <1>2, <2>1 DEF Visits, N
    <2> HIDE DEF x, k
    <2>4. CASE f[i].err
        <3>1. x = f[i] BY <2>3, <2>4 DEF AtKey
        <3>2. i # 0 BY <2>1, <2>4
        <3>3. N = 1 BY <2>1, <2>4
        <3> QED BY <3>2, <3>3
    <2>5. CASE ~f[i].err
        <3>1. /\ x = [slots |-> x.slots, err |-> x.err] /\ x.err = r.err /\ x.err \in BOOLEAN
              /\ AllFit(x.slots, n) /\ (x.err => Agree(x.slots, t, f[i].slots, t))
            BY <2>1, <2>2, <2>3, <2>5, AtKeyFit
        <3> HIDE DEF r
        <3>2. ASSUME x.err PROVE N = 1 /\ Agree(x.slots, t, s, t)
            <4>1. N = 1 \/ r.err = FALSE BY ManyDone DEF N, r
            <4>2. N = 1 BY <3>1, <3>2, <4>1
            <4>3. i = 0 BY <2>1, <4>2
            <4>4. f[i].slots = s BY <2>1, <4>3
            <4> QED BY <3>1, <3>2, <4>2, <4>4
        <3>3. Ok(x, i + 1) BY <2>1, <3>1, <3>2
        <3> QED BY <3>3 DEF x
    <2> QED BY <2>4, <2>5
<1> HIDE DEF T
<1>5. N \in T BY <1>1, <1>3, <1>4, ByInduction
<1>6. Ok(f[N], N) BY <1>1, <1>5 DEF T
<1>7. ApplyAll(c, s, t) = f[N] BY <1>2 DEF Visits, N
<1> QED BY <1>6, <1>7

\* One more key, at two times.
LEMMA AtKeySame ==
    ASSUME NEW n \in Nat, NEW x, NEW y, AllFit(x.slots, n), AllFit(y.slots, n), ~x.err, ~y.err,
           NEW k \in Keys, NEW c, Sent(c, n),
           NEW u \in Nat, NEW v \in Nat, u <= v, c.at <= u \/ c.at > v,
           Agree(x.slots, u, y.slots, v)
    PROVE  LET p == AtKey(c, x, k, u)
               q == AtKey(c, y, k, v)
           IN  p.err = q.err /\ (~p.err => Agree(p.slots, u, q.slots, v))
<1> DEFINE p == AtKey(c, x, k, u)
           q == AtKey(c, y, k, v)
           a == x.slots[k]
           b == y.slots[k]
           r == Apply(c, a, u)
           w == Apply(c, b, v)
<1>1. Fit(a, n) /\ Fit(b, n) /\ Live(a.entry, u) = Live(b.entry, v) BY DEF AllFit, Agree
<1>2. /\ p.err = r.err /\ p.slots[k] = r.slot
      /\ \A j \in Keys \ {k} : p.slots[j] = x.slots[j]
    BY AtKeyFit
<1>3. /\ q.err = w.err /\ q.slots[k] = w.slot
      /\ \A j \in Keys \ {k} : q.slots[j] = y.slots[j]
    BY AtKeyFit
<1> HIDE DEF a, b, p, q
<1>4. r.err = w.err /\ (~r.err => Live(r.slot.entry, u) = Live(w.slot.entry, v))
    BY <1>1, ApplySame
<1> HIDE DEF r, w
<1>5. ASSUME ~p.err PROVE Agree(p.slots, u, q.slots, v)
    <2> SUFFICES ASSUME NEW j \in Keys
                 PROVE  Live(p.slots[j].entry, u) = Live(q.slots[j].entry, v)
        BY DEF Agree
    <2>1. CASE j = k BY <1>2, <1>3, <1>4, <1>5, <2>1
    <2>2. CASE j # k
        <3>1. p.slots[j] = x.slots[j] /\ q.slots[j] = y.slots[j] BY <1>2, <1>3, <2>2
        <3> QED BY <3>1 DEF Agree
    <2> QED BY <2>1, <2>2
<1> QED BY <1>2, <1>3, <1>4, <1>5 DEF p, q

\* One command, at two times between which no deadline has lapsed.
LEMMA ApplyAllSame ==
    ASSUME NEW n \in Nat, NEW a, NEW b, AllFit(a, n), AllFit(b, n), NEW c, Sent(c, n),
           NEW u \in Nat, NEW v \in Nat, u <= v, c.at <= u \/ c.at > v,
           Agree(a, u, b, v)
    PROVE  LET r == ApplyAll(c, a, u)
               q == ApplyAll(c, b, v)
           IN  r.err = q.err /\ (~r.err => Agree(r.slots, u, q.slots, v))
<1> DEFINE N == Len(c.keys)
<1>1. N \in Nat \ {0} /\ \A i \in 1 .. N : c.keys[i] \in Keys BY ManyDone
<1>2. PICK f : Visits(f, c, a, u) BY <1>1, ApplyLoop
<1>3. PICK g : Visits(g, c, b, v) BY <1>1, ApplyLoop
<1> HIDE DEF N
<1> DEFINE Ok(x, y) ==
              /\ AllFit(x.slots, n) /\ AllFit(y.slots, n) /\ x.err = y.err
              /\ ~x.err => Agree(x.slots, u, y.slots, v)
           T == {i \in Nat : i <= N => Ok(f[i], g[i])}
<1>4. 0 \in T
    <2>1. f[0] = [slots |-> a, err |-> FALSE] /\ g[0] = [slots |-> b, err |-> FALSE]
        BY <1>2, <1>3 DEF Visits
    <2>2. /\ f[0].slots = a /\ f[0].err = FALSE /\ g[0].slots = b /\ g[0].err = FALSE
        BY <2>1
    <2>3. Ok(f[0], g[0]) BY <2>2
    <2> HIDE DEF Ok
    <2> QED BY <2>3
<1>5. ASSUME NEW i \in Nat, i \in T PROVE i + 1 \in T
    <2> SUFFICES ASSUME i + 1 <= N PROVE Ok(f[i + 1], g[i + 1]) OBVIOUS
    <2> DEFINE x == f[i + 1]
               y == g[i + 1]
               k == c.keys[i + 1]
    <2>1. i + 1 \in 1 .. N /\ (i + 1) - 1 = i /\ Ok(f[i], g[i]) BY <1>1, <1>5
    <2>2. k \in Keys BY <1>1, <2>1
    <2>3. x = AtKey(c, f[i], k, u) /\ y = AtKey(c, g[i], k, v)
        BY <1>2, <1>3, <2>1 DEF Visits, N
    <2> HIDE DEF x, y, k
    <2>4. CASE f[i].err
        <3>1. x = f[i] /\ y = g[i] BY <2>1, <2>3, <2>4 DEF AtKey
        <3>2. Ok(x, y) BY <2>1, <3>1
        <3> QED BY <3>2 DEF x, y
    <2>5. CASE ~f[i].err
        <3>1. ~g[i].err /\ Agree(f[i].slots, u, g[i].slots, v) BY <2>1, <2>5
        <3>2. AllFit(x.slots, n) BY <2>1, <2>2, <2>3, <2>5, AtKeyFit
        <3>3. AllFit(y.slots, n) BY <2>1, <2>2, <2>3, <3>1, AtKeyFit
        <3>4. x.err = y.err /\ (~x.err => Agree(x.slots, u, y.slots, v))
            BY <2>1, <2>2, <2>3, <2>5, <3>1, AtKeySame
        <3>5. Ok(x, y) BY <3>2, <3>3, <3>4
        <3> QED BY <3>5 DEF x, y
    <2> QED BY <2>4, <2>5
<1> HIDE DEF T
<1>6. N \in T BY <1>1, <1>4, <1>5, ByInduction
<1>7. Ok(f[N], g[N]) BY <1>1, <1>6 DEF T
<1>8. ApplyAll(c, a, u) = f[N] /\ ApplyAll(c, b, v) = g[N] BY <1>2, <1>3 DEF Visits, N
<1> QED BY <1>7, <1>8

-----------------------------------------------------------------------------
(***************************************************************************)
(* Replay.                                                                 *)
(***************************************************************************)

\* A frame as aof_frame or a rewrite made it at time n or before: with a relative time
\* only for a deadline beyond the signed range, which it still reaches.  from_frame takes
\* it in a SET and not in a PEXPIRE.
GoodFrame(f, n) ==
    /\ f \in [cmd: Command, px: Times]
    /\ IF IsPExpire(f) THEN n + f.px > MaxAbsolute
       ELSE /\ Sent(f.cmd, n)
            /\ \/ f.px = 0
               \/ f.cmd.op = "set" /\ f.cmd.at = MaxTime /\ n + f.px >= MaxTime

\* Such a frame is one at any later time.
LEMMA FrameLasts ==
    ASSUME NEW m \in Nat, NEW n \in Nat, m <= n, NEW f, GoodFrame(f, m)
    PROVE  GoodFrame(f, n)
<1>1. f.px \in Int /\ f.cmd.at \in Int BY Numbers DEF GoodFrame, Command
<1>2. n + f.px >= m + f.px /\ m + MaxAbsolute <= n + MaxAbsolute BY <1>1, Numbers
<1>3. CASE IsPExpire(f)
    <2>1. m + f.px > MaxAbsolute BY <1>3 DEF GoodFrame
    <2>2. n + f.px > MaxAbsolute BY <1>1, <1>2, <2>1, Numbers
    <2> QED BY <1>3, <2>2 DEF GoodFrame
<1>4. CASE ~IsPExpire(f)
    <2>1. Sent(f.cmd, m) BY <1>4 DEF GoodFrame
    <2>2. f.cmd.at <= n + MaxAbsolute BY <1>1, <2>1, Numbers DEF Sent
    <2>3. m + f.px >= MaxTime => n + f.px >= MaxTime BY <1>1, <1>2, Numbers
    <2> QED BY <1>4, <2>2, <2>3 DEF GoodFrame, Sent
<1> QED BY <1>3, <1>4

\* from_frame makes the command of it that was applied, or refuses it: the PEXPIRE.
LEMMA Parsing ==
    ASSUME NEW n \in Nat, NEW t \in Nat, n <= t, NEW f, GoodFrame(f, n)
    PROVE  /\ IsPExpire(f) => Refused(f, t)
           /\ ~IsPExpire(f) => Parse(f, t) = f.cmd /\ ~Refused(f, t) /\ Sent(f.cmd, n)
<1>1. f.px \in Int BY Numbers DEF GoodFrame
<1>2. CASE IsPExpire(f)
    <2>1. n + f.px > MaxAbsolute BY <1>2 DEF GoodFrame
    <2>2. t + f.px > MaxAbsolute BY <1>1, <2>1, Numbers
    <2> QED BY <1>2, <2>2 DEF Refused
<1>3. CASE ~IsPExpire(f) /\ f.px = 0 BY <1>3 DEF Parse, Refused, GoodFrame
<1>4. CASE ~IsPExpire(f) /\ f.px # 0
    <2>1. f.cmd.op = "set" /\ f.cmd.at = MaxTime /\ n + f.px >= MaxTime BY <1>4 DEF GoodFrame
    <2>2. t + f.px >= MaxTime BY <1>1, <2>1, Numbers
    <2>3. (IF t + f.px > MaxTime THEN MaxTime ELSE t + f.px) = MaxTime
        BY <1>1, <2>2, Numbers
    <2>4. Parse(f, t) = [f.cmd EXCEPT !.at = MaxTime] BY <1>4, <2>3 DEF Parse
    <2>5. f.cmd \in [op: Ops, keys: Seq(Keys), val: Bytes, field: Fields, n: Int, at: Deadlines]
        BY DEF GoodFrame, Command
    <2> DEFINE c == f.cmd
    <2>6. c.at = MaxTime BY <2>1
    <2> HIDE DEF c
    <2>7. [c EXCEPT !.at = MaxTime] = c BY <2>5, <2>6 DEF c
    <2> QED BY <1>4, <2>4, <2>7 DEF Refused, GoodFrame, c
<1> QED BY <1>2, <1>3, <1>4

\* What replay has between two frames.
Acc(x, n) ==
    /\ x = [slots |-> x.slots, err |-> x.err, applied |-> x.applied]
    /\ AllFit(x.slots, n) /\ x.err \in BOOLEAN /\ x.applied \in Nat

\* It starts with nothing.
LEMMA NothingIsAcc == ASSUME NEW n \in Nat PROVE Acc(NothingReplayed, n)
<1>1. AllFit(EmptyDb, n) BY EmptyIsFit DEF EmptyDb, AllFit
<1> QED BY <1>1 DEF Acc, NothingReplayed

\* One turn of replay.
LEMMA ReplayFrameFit ==
    ASSUME NEW n \in Nat, NEW t \in Nat, n <= t, NEW x, Acc(x, n), NEW f, GoodFrame(f, n)
    PROVE  LET y == ReplayFrame(x, f, t)
           IN  /\ Acc(y, n)
               /\ x.err => y = x
               /\ ~x.err /\ IsPExpire(f) => y.err
               /\ ~x.err /\ ~IsPExpire(f) => /\ y.slots = ApplyAll(f.cmd, x.slots, t).slots
                                             /\ y.err = ApplyAll(f.cmd, x.slots, t).err
               /\ ~x.err => /\ y.err => /\ Agree(y.slots, t, x.slots, t)
                                        /\ y.applied = x.applied
                            /\ ~y.err => y.applied = x.applied + 1
<1> DEFINE y == ReplayFrame(x, f, t)
           r == ApplyAll(f.cmd, x.slots, t)
<1>1. CASE x.err BY <1>1 DEF ReplayFrame
<1>2. CASE ~x.err /\ ~IsPExpire(f)
    <2>0. Parse(f, t) = f.cmd /\ ~Refused(f, t) /\ Sent(f.cmd, n) BY <1>2, Parsing
    <2>1. y = [slots |-> r.slots, err |-> r.err, applied |-> x.applied + (IF r.err THEN 0 ELSE 1)]
        BY <1>2, <2>0 DEF ReplayFrame
    <2>2. /\ r.err \in BOOLEAN /\ AllFit(r.slots, n)
          /\ r.err => Agree(r.slots, t, x.slots, t)
        BY <2>0, ApplyAllFit DEF Acc
    <2> HIDE DEF y, r
    <2>3. y.slots = r.slots /\ y.err = r.err /\ y.applied = x.applied + (IF r.err THEN 0 ELSE 1)
        BY <2>1
    <2>4. y = [slots |-> y.slots, err |-> y.err, applied |-> y.applied] BY <2>1
    <2>5. x.applied \in Nat BY DEF Acc
    <2>6. /\ y.applied \in Nat
          /\ y.err => y.applied = x.applied
          /\ ~y.err => y.applied = x.applied + 1
        BY <2>2, <2>3, <2>5
    <2>7. Acc(y, n) BY <2>2, <2>3, <2>4, <2>6 DEF Acc
    <2> QED BY <1>2, <2>2, <2>3, <2>6, <2>7 DEF y, r
<1>3. CASE ~x.err /\ IsPExpire(f)
    <2>1. Refused(f, t) BY <1>3, Parsing
    <2>2. y = [x EXCEPT !.err = TRUE] BY <1>3, <2>1 DEF ReplayFrame
    <2>3. x = [slots |-> x.slots, err |-> x.err, applied |-> x.applied] BY DEF Acc
    <2>4. y = [slots |-> x.slots, err |-> TRUE, applied |-> x.applied] BY <2>2, <2>3
    <2> HIDE DEF y
    <2>5. y.slots = x.slots /\ y.err = TRUE /\ y.applied = x.applied BY <2>4
    <2>6. Acc(y, n) BY <2>4, <2>5 DEF Acc
    <2>7. Agree(y.slots, t, x.slots, t) BY <2>5 DEF Agree
    <2> QED BY <1>3, <2>5, <2>6, <2>7 DEF y
<1> QED BY <1>1, <1>2, <1>3

\* The frames of a file at time n.
GoodFrames(n) == {f \in [cmd: Command, px: Times] : GoodFrame(f, n)}

\* Replay leaves fit slots.  What it leaves is what it leaves of the frames it has
\* counted as applied, none of which fails: the frames that truncate_aof keeps.
LEMMA ReplayPrefix ==
    ASSUME NEW n \in Nat, NEW t \in Nat, n <= t, NEW fs \in Seq(GoodFrames(n))
    PROVE  LET r == ReplayAt(fs, t)
               q == ReplayAt(SubSeq(fs, 1, r.applied), t)
           IN  /\ Acc(r, n) /\ r.applied \in 0 .. Len(fs)
               /\ Acc(q, n) /\ ~q.err
               /\ Agree(r.slots, t, q.slots, t)
               /\ ~r.err => r.applied = Len(fs)
<1> DEFINE N == Len(fs)
           R(m) == ReplayAt(SubSeq(fs, 1, m), t)
           Ok(m) == LET a == R(m).applied
                    IN  /\ Acc(R(m), n) /\ a \in 0 .. m /\ Acc(R(a), n) /\ ~R(a).err
                        /\ Agree(R(m).slots, t, R(a).slots, t)
                        /\ ~R(m).err => a = m
           T == {m \in Nat : m <= N => Ok(m)}
<1>1. N \in Nat /\ SubSeq(fs, 1, N) = fs /\ SubSeq(fs, 1, 0) = <<>> OBVIOUS
<1>2. R(0) = NothingReplayed BY <1>1, ReplayNone DEF ReplayAt
<1>3. ASSUME NEW m \in Nat, m + 1 <= N
      PROVE  /\ R(m + 1) = ReplayFrame(R(m), fs[m + 1], t)
             /\ GoodFrame(fs[m + 1], n)
    <2> DEFINE p == SubSeq(fs, 1, m)
               x == fs[m + 1]
               G == GoodFrames(n)
    <2>1. m \in 0 .. Len(fs) - 1 BY <1>1, <1>3
    <2>2. x \in G /\ p \in Seq(G) /\ SubSeq(fs, 1, m + 1) = Append(p, x) BY <2>1, OneMore
    <2> HIDE DEF p, x, G
    <2>3. ReplayFrom(NothingReplayed, Append(p, x), t)
            = ReplayFrame(ReplayFrom(NothingReplayed, p, t), x, t)
        BY <2>2, ReplayAppend
    <2>4. GoodFrame(x, n) BY <2>2 DEF G, GoodFrames
    <2> QED BY <2>2, <2>3, <2>4 DEF ReplayAt, p, x
<1>4. \A m : Agree(R(m).slots, t, R(m).slots, t) BY DEF Agree
<1> HIDE DEF R, N
<1>5. 0 \in T
    <2>0. NothingReplayed.applied = 0 /\ NothingReplayed.err = FALSE BY DEF NothingReplayed
    <2>1. Acc(R(0), n) /\ R(0).applied = 0 /\ R(0).err = FALSE BY <1>2, <2>0, NothingIsAcc
    <2>2. Ok(0) BY <1>4, <2>1
    <2> HIDE DEF Ok
    <2> QED BY <2>2
<1>6. ASSUME NEW m \in Nat, m \in T PROVE m + 1 \in T
    <2> SUFFICES ASSUME m + 1 <= N PROVE Ok(m + 1) OBVIOUS
    <2> DEFINE a == R(m).applied
    <2>0. Ok(m) BY <1>1, <1>6
    <2>1. /\ Acc(R(m), n) /\ a \in 0 .. m /\ Acc(R(a), n) /\ ~R(a).err
          /\ Agree(R(m).slots, t, R(a).slots, t)
          /\ ~R(m).err => a = m
        BY <2>0
    <2>2. LET y == R(m + 1)
              x == R(m)
          IN  /\ Acc(y, n)
              /\ x.err => y = x
              /\ ~x.err => /\ y.err => /\ Agree(y.slots, t, x.slots, t)
                                       /\ y.applied = x.applied
                           /\ ~y.err => y.applied = x.applied + 1
        <3>1. R(m + 1) = ReplayFrame(R(m), fs[m + 1], t) /\ GoodFrame(fs[m + 1], n) BY <1>3
        <3> QED BY <2>1, <3>1, ReplayFrameFit
    <2> HIDE DEF a
    <2>3. CASE R(m).err
        <3>1. R(m + 1) = R(m) BY <2>2, <2>3
        <3> QED BY <2>1, <2>2, <2>3, <3>1 DEF a
    <2>4. CASE ~R(m).err /\ R(m + 1).err
        <3>1. a = m /\ R(m + 1).applied = m BY <2>1, <2>2, <2>4 DEF a
        <3>2. Agree(R(m + 1).slots, t, R(m).slots, t) BY <2>2, <2>4
        <3> QED BY <2>1, <2>2, <2>4, <3>1, <3>2
    <2>5. CASE ~R(m).err /\ ~R(m + 1).err
        <3>1. R(m + 1).applied = m + 1 BY <2>1, <2>2, <2>5 DEF a
        <3> QED BY <1>4, <2>2, <2>5, <3>1
    <2> QED BY <2>3, <2>4, <2>5
<1> HIDE DEF T
<1>7. N \in T BY <1>1, <1>5, <1>6, ByInduction
<1>8. Ok(N) BY <1>1, <1>7 DEF T
<1>9. R(N) = ReplayAt(fs, t) BY <1>1 DEF R, N
<1> QED BY <1>8, <1>9 DEF R, N

\* Replay at two times between which no deadline in the file has lapsed.
LEMMA ReplaySame ==
    ASSUME NEW n \in Nat, NEW u \in Nat, NEW v \in Nat, n <= u, u <= v,
           NEW fs \in Seq(GoodFrames(n)),
           \A i \in 1 .. Len(fs) : fs[i].cmd.at <= u \/ fs[i].cmd.at > v
    PROVE  LET r == ReplayAt(fs, u)
               q == ReplayAt(fs, v)
           IN  r.err = q.err /\ (~r.err => Agree(r.slots, u, q.slots, v))
<1> DEFINE N == Len(fs)
<1>1. N \in Nat /\ \A i \in 1 .. N : fs[i] \in GoodFrames(n) OBVIOUS
<1>2. \A i \in 1 .. N : GoodFrame(fs[i], n) BY <1>1 DEF GoodFrames
<1>3. PICK f : Replays(f, NothingReplayed, fs, u) BY <1>1, ReplayLoop
<1>4. PICK g : Replays(g, NothingReplayed, fs, v) BY <1>1, ReplayLoop
<1> HIDE DEF N
<1> DEFINE Ok(x, y) ==
              /\ Acc(x, n) /\ Acc(y, n) /\ x.err = y.err
              /\ ~x.err => Agree(x.slots, u, y.slots, v)
           T == {i \in Nat : i <= N => Ok(f[i], g[i])}
<1>5. 0 \in T
    <2>1. f[0] = NothingReplayed /\ g[0] = NothingReplayed BY <1>3, <1>4 DEF Replays
    <2>2. Acc(NothingReplayed, n) BY NothingIsAcc
    <2>3. Agree(NothingReplayed.slots, u, NothingReplayed.slots, v)
        <3>1. NothingReplayed.slots = EmptyDb BY DEF NothingReplayed
        <3>2. \A k \in Keys : EmptyDb[k].entry = Absent BY DEF EmptyDb, EmptySlot
        <3>3. Live(Absent, u) = Absent /\ Live(Absent, v) = Absent BY DEF Live
        <3> QED BY <3>1, <3>2, <3>3 DEF Agree
    <2>4. Ok(f[0], g[0]) BY <2>1, <2>2, <2>3
    <2> HIDE DEF Ok
    <2> QED BY <2>4
<1>6. ASSUME NEW i \in Nat, i \in T PROVE i + 1 \in T
    <2> SUFFICES ASSUME i + 1 <= N PROVE Ok(f[i + 1], g[i + 1]) OBVIOUS
    <2> DEFINE x == f[i + 1]
               y == g[i + 1]
               h == fs[i + 1]
               c == h.cmd
    <2>1. i + 1 \in 1 .. N /\ (i + 1) - 1 = i /\ Ok(f[i], g[i]) BY <1>1, <1>6
    <2>2. GoodFrame(h, n) /\ (c.at <= u \/ c.at > v) BY <1>2, <2>1 DEF N
    <2>3. x = ReplayFrame(f[i], h, u) /\ y = ReplayFrame(g[i], h, v)
        BY <1>3, <1>4, <2>1 DEF Replays, N
    <2>4. ~IsPExpire(h) => Sent(c, n) BY <2>2 DEF GoodFrame
    <2>5. n <= v /\ Acc(f[i], n) /\ Acc(g[i], n) BY <2>1
    <2> HIDE DEF x, y, h, Ok, T
    <2>6. /\ Acc(x, n) /\ (f[i].err => x = f[i])
          /\ ~f[i].err /\ IsPExpire(h) => x.err
          /\ ~f[i].err /\ ~IsPExpire(h) => /\ x.slots = ApplyAll(c, f[i].slots, u).slots
                                           /\ x.err = ApplyAll(c, f[i].slots, u).err
        BY <2>2, <2>3, <2>5, ReplayFrameFit
    <2>7. /\ Acc(y, n) /\ (g[i].err => y = g[i])
          /\ ~g[i].err /\ IsPExpire(h) => y.err
          /\ ~g[i].err /\ ~IsPExpire(h) => /\ y.slots = ApplyAll(c, g[i].slots, v).slots
                                           /\ y.err = ApplyAll(c, g[i].slots, v).err
        BY <2>2, <2>3, <2>5, ReplayFrameFit
    <2> HIDE DEF c
    <2> USE DEF Ok
    <2>8. CASE f[i].err
        <3>1. x = f[i] /\ y = g[i] BY <2>1, <2>6, <2>7, <2>8
        <3>2. Ok(x, y) BY <2>1, <3>1
        <3> QED BY <3>2 DEF x, y
    <2>9. CASE ~f[i].err /\ IsPExpire(h)
        <3>1. x.err /\ y.err BY <2>1, <2>6, <2>7, <2>9
        <3>2. x.err \in BOOLEAN /\ y.err \in BOOLEAN BY <2>6, <2>7 DEF Acc
        <3>3. x.err = y.err BY <3>1, <3>2
        <3>4. Ok(x, y) BY <2>6, <2>7, <3>1, <3>3
        <3> QED BY <3>4 DEF x, y
    <2>10. CASE ~f[i].err /\ ~IsPExpire(h)
        <3>1. /\ ~g[i].err /\ Agree(f[i].slots, u, g[i].slots, v)
              /\ AllFit(f[i].slots, n) /\ AllFit(g[i].slots, n)
            BY <2>1, <2>10 DEF Acc
        <3>2. LET r == ApplyAll(c, f[i].slots, u)
                  q == ApplyAll(c, g[i].slots, v)
              IN  r.err = q.err /\ (~r.err => Agree(r.slots, u, q.slots, v))
            BY <2>2, <2>4, <2>10, <3>1, ApplyAllSame DEF c
        <3>3. Ok(x, y) BY <2>6, <2>7, <2>10, <3>1, <3>2
        <3> QED BY <3>3 DEF x, y
    <2> QED BY <2>8, <2>9, <2>10
<1> HIDE DEF T
<1>7. N \in T BY <1>1, <1>5, <1>6, ByInduction
<1>8. Ok(f[N], g[N]) BY <1>1, <1>7 DEF T
<1>9. ReplayAt(fs, u) = f[N] /\ ReplayAt(fs, v) = g[N] BY <1>3, <1>4 DEF Replays, ReplayAt, N
<1> QED BY <1>8, <1>9

\* A PEXPIRE is among the frames.
HasPExpire(fs) == \E i \in 1 .. Len(fs) : IsPExpire(fs[i])

\* Replay of a file with a PEXPIRE fails, there or before.
LEMMA ReplayFails ==
    ASSUME NEW n \in Nat, NEW t \in Nat, n <= t, NEW fs \in Seq(GoodFrames(n)), HasPExpire(fs)
    PROVE  ReplayAt(fs, t).err
<1> DEFINE N == Len(fs)
<1>1. N \in Nat /\ \A i \in 1 .. N : fs[i] \in GoodFrames(n) OBVIOUS
<1>2. \A i \in 1 .. N : GoodFrame(fs[i], n) BY <1>1 DEF GoodFrames
<1>3. PICK f : Replays(f, NothingReplayed, fs, t) BY <1>1, ReplayLoop
<1>4. PICK j \in 1 .. N : IsPExpire(fs[j]) BY DEF HasPExpire
<1> HIDE DEF N
<1> DEFINE Ok(x, i) == Acc(x, n) /\ (j <= i => x.err)
           T == {i \in Nat : i <= N => Ok(f[i], i)}
<1>5. 0 \in T
    <2>1. f[0] = NothingReplayed BY <1>3 DEF Replays
    <2>2. Ok(f[0], 0) BY <2>1, NothingIsAcc
    <2> HIDE DEF Ok
    <2> QED BY <2>2
<1>6. ASSUME NEW i \in Nat, i \in T PROVE i + 1 \in T
    <2> SUFFICES ASSUME i + 1 <= N PROVE Ok(f[i + 1], i + 1) OBVIOUS
    <2> DEFINE y == f[i + 1]
               h == fs[i + 1]
    <2>1. i + 1 \in 1 .. N /\ (i + 1) - 1 = i /\ Ok(f[i], i) BY <1>1, <1>6
    <2>2. GoodFrame(h, n) BY <1>2, <2>1
    <2>3. y = ReplayFrame(f[i], h, t) BY <1>3, <2>1 DEF Replays, N
    <2> HIDE DEF y, h
    <2>4. Acc(y, n) /\ (f[i].err => y = f[i]) /\ (~f[i].err /\ IsPExpire(h) => y.err)
        BY <2>1, <2>2, <2>3, ReplayFrameFit
    <2>5. ASSUME j <= i + 1 PROVE y.err
        <3>1. CASE j = i + 1
            <4>1. IsPExpire(h) BY <1>4, <3>1 DEF h
            <4> QED BY <2>4, <4>1
        <3>2. CASE j # i + 1
            <4>1. j <= i BY <2>5, <3>2
            <4> QED BY <2>1, <2>4, <4>1
        <3> QED BY <3>1, <3>2
    <2>6. Ok(y, i + 1) BY <2>4, <2>5
    <2> QED BY <2>6 DEF y
<1> HIDE DEF T
<1>7. N \in T BY <1>1, <1>5, <1>6, ByInduction
<1>8. Ok(f[N], N) BY <1>1, <1>7 DEF T
<1>9. ReplayAt(fs, t) = f[N] BY <1>3 DEF Replays, ReplayAt, N
<1> QED BY <1>1, <1>8, <1>9

-----------------------------------------------------------------------------
(***************************************************************************)
(* The snapshot.                                                           *)
(***************************************************************************)

\* A command with one key.
LEMMA ApplyOne ==
    ASSUME NEW c, NEW k, c.keys = <<k>>, NEW s, NEW t
    PROVE  ApplyAll(c, s, t) = AtKey(c, [slots |-> s, err |-> FALSE], k, t)
<1>1. Len(c.keys) = 1 /\ c.keys[1] = k /\ Len(c.keys) \in Nat OBVIOUS
<1>2. PICK f : Visits(f, c, s, t) BY <1>1, ApplyLoop
<1>3. 1 \in 1 .. 1 /\ 1 - 1 = 0 OBVIOUS
<1>4. f[1] = AtKey(c, f[1 - 1], c.keys[1], t) BY <1>1, <1>2, <1>3 DEF Visits
<1>5. f[0] = [slots |-> s, err |-> FALSE] /\ ApplyAll(c, s, t) = f[1] BY <1>1, <1>2 DEF Visits
<1> QED BY <1>1, <1>3, <1>4, <1>5

\* Replay has gone on from x to y, without an error and at one key, where it has left sl.
Moved(x, y, k, sl, n) ==
    /\ Acc(y, n) /\ ~y.err /\ y.slots[k] = sl
    /\ \A j \in Keys \ {k} : y.slots[j] = x.slots[j]

\* One frame, of a command with one key that does not fail.
LEMMA OneFrame ==
    ASSUME NEW n \in Nat, NEW t \in Nat, n <= t, NEW x, Acc(x, n), ~x.err,
           NEW k \in Keys, NEW f, GoodFrame(f, n), ~IsPExpire(f), f.cmd.keys = <<k>>,
           NEW sl, Apply(f.cmd, x.slots[k], t) = Done(sl)
    PROVE  Moved(x, ReplayFrame(x, f, t), k, sl, n)
<1> DEFINE y == ReplayFrame(x, f, t)
           c == f.cmd
           s == x.slots
           b == [slots |-> s, err |-> FALSE]
           z == AtKey(c, b, k, t)
<1>1. /\ Acc(y, n) /\ y.slots = ApplyAll(c, s, t).slots /\ y.err = ApplyAll(c, s, t).err
    BY ReplayFrameFit
<1>2. ApplyAll(c, s, t) = z BY ApplyOne
<1>3. Sent(c, n) /\ AllFit(s, n) BY DEF GoodFrame, Acc
<1>4. b.slots = s /\ b.err = FALSE OBVIOUS
<1>5. Done(sl).err = FALSE /\ Done(sl).slot = sl BY DEF Done
<1> HIDE DEF y, c, s, b
<1>6. AllFit(b.slots, n) /\ ~b.err BY <1>3, <1>4
<1>7. Apply(c, b.slots[k], t) = Done(sl) BY <1>4 DEF c, s
<1>8. /\ z.err = Apply(c, b.slots[k], t).err /\ z.slots[k] = Apply(c, b.slots[k], t).slot
      /\ \A j \in Keys \ {k} : z.slots[j] = b.slots[j]
    BY <1>3, <1>6, AtKeyFit
<1> HIDE DEF z
<1> QED BY <1>1, <1>2, <1>4, <1>5, <1>7, <1>8 DEF Moved, y, s

\* Frames of commands with one key, of which each finds the slot the one before left.
LEMMA SomeFrames ==
    ASSUME NEW n \in Nat, NEW t \in Nat, n <= t, NEW x, Acc(x, n), ~x.err,
           NEW k \in Keys, NEW fs \in Seq(GoodFrames(n)), NEW st, st[0] = x.slots[k],
           \A i \in 1 .. Len(fs) : /\ fs[i].cmd.keys = <<k>> /\ ~IsPExpire(fs[i])
                                   /\ Apply(fs[i].cmd, st[i - 1], t) = Done(st[i])
    PROVE  Moved(x, ReplayFrom(x, fs, t), k, st[Len(fs)], n)
<1> DEFINE N == Len(fs)
<1>1. N \in Nat /\ \A i \in 1 .. N : fs[i] \in GoodFrames(n) OBVIOUS
<1>2. \A i \in 1 .. N : GoodFrame(fs[i], n) BY <1>1 DEF GoodFrames
<1>3. PICK f : Replays(f, x, fs, t) BY <1>1, ReplayLoop
<1> HIDE DEF N
<1> DEFINE T == {i \in Nat : i <= N => Moved(x, f[i], k, st[i], n)}
<1>4. 0 \in T
    <2>1. f[0] = x BY <1>3 DEF Replays
    <2>2. Moved(x, f[0], k, st[0], n) BY <2>1 DEF Moved
    <2> QED BY <2>2
<1>5. ASSUME NEW i \in Nat, i \in T PROVE i + 1 \in T
    <2> SUFFICES ASSUME i + 1 <= N PROVE Moved(x, f[i + 1], k, st[i + 1], n) OBVIOUS
    <2> DEFINE y == f[i + 1]
               h == fs[i + 1]
               sl == st[i + 1]
    <2>1. i + 1 \in 1 .. N /\ (i + 1) - 1 = i /\ Moved(x, f[i], k, st[i], n) BY <1>1, <1>5
    <2>2. GoodFrame(h, n) /\ h.cmd.keys = <<k>> /\ ~IsPExpire(h) BY <1>2, <2>1 DEF N
    <2>3. Apply(h.cmd, st[i], t) = Done(sl) BY <2>1 DEF N
    <2>4. y = ReplayFrame(f[i], h, t) BY <1>3, <2>1 DEF Replays, N
    <2> HIDE DEF y, h, sl
    <2>5. Acc(f[i], n) /\ ~f[i].err /\ f[i].slots[k] = st[i] BY <2>1 DEF Moved
    <2>6. Moved(f[i], y, k, sl, n) BY <2>2, <2>3, <2>4, <2>5, OneFrame
    <2>7. Moved(x, y, k, sl, n) BY <2>1, <2>6 DEF Moved
    <2> QED BY <2>7 DEF y, sl
<1> HIDE DEF T
<1>6. N \in T BY <1>1, <1>4, <1>5, ByInduction
<1>7. Moved(x, f[N], k, st[N], n) BY <1>1, <1>6 DEF T
<1>8. ReplayFrom(x, fs, t) = f[N] BY <1>3 DEF Replays, N
<1> QED BY <1>7, <1>8 DEF N

\* RPUSH to a list without a deadline, or to a key that is not there.
LEMMA PushSlot ==
    ASSUME NEW sl, NEW d, sl = Indexed(ListEntry(d, Never)) \/ (d = <<>> /\ sl = EmptySlot),
           NEW b, NEW t
    PROVE  Push(sl, b, FALSE, t) = Done(Indexed(ListEntry(Append(d, b), Never)))
<1> DEFINE s == OrInsert(sl, t, "list", <<>>)
           e == ListEntry(d, Never)
           x == ListEntry(Append(d, b), Never)
<1>1. IsEntry(e) /\ e.expires = Never /\ IsEntry(x) /\ x.expires = Never
    BY DEF IsEntry, ListEntry, Deadlines
<1>2. s = [entry |-> e, rows |-> NoRows]
    <2>1. CASE sl = Indexed(e)
        <3>1. sl = [entry |-> e, rows |-> NoRows] BY <1>1, <2>1, Unentered
        <3> QED BY <3>1 DEF OrInsert, ExpireIfStale, Expired, ListEntry
    <2>2. CASE d = <<>> /\ sl = EmptySlot
        BY <2>2 DEF OrInsert, ExpireIfStale, Expired, ListEntry, EmptySlot, Absent, NoRows
    <2> QED BY <2>1, <2>2
<1> HIDE DEF s
<1>3. s.entry.type = "list" /\ s.entry.data = d BY <1>2 DEF ListEntry
<1>4. [s EXCEPT !.entry.data = Append(d, b)] = [entry |-> x, rows |-> NoRows]
    BY <1>2 DEF ListEntry
<1>5. [entry |-> x, rows |-> NoRows] = Indexed(x) BY <1>1, Unentered
<1> HIDE DEF x
<1>6. Push(sl, b, FALSE, t) = Done([s EXCEPT !.entry.data = Append(d, b)])
    BY <1>3 DEF Push, s
<1> QED BY <1>4, <1>5, <1>6 DEF x

\* APPEND to a string without a deadline.
LEMMA AppendSlot ==
    ASSUME NEW v, NEW b, ~TooLarge(<<Concat(v, b)>>), NEW t
    PROVE  AppendBytes(Indexed(StringEntry(v, Never)), b, t)
             = Done(Indexed(StringEntry(Concat(v, b), Never)))
<1> DEFINE e == StringEntry(v, Never)
           w == Concat(v, b)
           x == StringEntry(w, Never)
           sl == Indexed(e)
           s == OrInsert(sl, t, "string", <<EmptyBytes>>)
<1>1. IsEntry(e) /\ e.expires = Never /\ IsEntry(x) /\ x.expires = Never
    BY DEF IsEntry, StringEntry, Deadlines
<1>2. s = [entry |-> e, rows |-> NoRows]
    <2>1. sl = [entry |-> e, rows |-> NoRows] BY <1>1, Unentered
    <2> QED BY <2>1 DEF OrInsert, ExpireIfStale, Expired, StringEntry
<1> HIDE DEF s, sl
<1>3. s.entry.type = "string" /\ s.entry.data = <<v>> /\ s.entry.data[1] = v
    BY <1>2 DEF StringEntry
<1>4. AppendBytes(sl, b, t) = Done([s EXCEPT !.entry.data = <<w>>])
    BY <1>3 DEF AppendBytes, s
<1> HIDE DEF w
<1>5. [s EXCEPT !.entry.data = <<w>>] = [entry |-> x, rows |-> NoRows]
    BY <1>2 DEF StringEntry
<1>6. [entry |-> x, rows |-> NoRows] = Indexed(x) BY <1>1, Unentered
<1> HIDE DEF x
<1> QED BY <1>4, <1>5, <1>6 DEF w, x, sl

\* A hash with a field set.
WithField(m, f, b) == [g \in DOMAIN m \cup {f} |-> IF g = f THEN b ELSE m[g]]

\* HSET of a field of a hash without a deadline, or of a key that is not there.
LEMMA HSetSlot ==
    ASSUME NEW sl, NEW m, sl = Indexed(HashEntry(m, Never)) \/ (m = <<>> /\ sl = EmptySlot),
           NEW f, NEW b, NEW t
    PROVE  HSet(sl, f, b, t) = Done(Indexed(HashEntry(WithField(m, f, b), Never)))
<1> DEFINE s == OrInsert(sl, t, "hash", <<>>)
           e == HashEntry(m, Never)
           d == WithField(m, f, b)
           x == HashEntry(d, Never)
<1>1. IsEntry(e) /\ e.expires = Never /\ IsEntry(x) /\ x.expires = Never
    BY DEF IsEntry, HashEntry, Deadlines
<1>2. s = [entry |-> e, rows |-> NoRows]
    <2>1. CASE sl = Indexed(e)
        <3>1. sl = [entry |-> e, rows |-> NoRows] BY <1>1, <2>1, Unentered
        <3> QED BY <3>1 DEF OrInsert, ExpireIfStale, Expired, HashEntry
    <2>2. CASE m = <<>> /\ sl = EmptySlot
        BY <2>2 DEF OrInsert, ExpireIfStale, Expired, HashEntry, EmptySlot, Absent, NoRows
    <2> QED BY <2>1, <2>2
<1> HIDE DEF s
<1>3. s.entry.type = "hash" /\ s.entry.data = m BY <1>2 DEF HashEntry
<1>4. HSet(sl, f, b, t) = Done([s EXCEPT !.entry.data = d])
    BY <1>3 DEF HSet, WithField, s
<1> HIDE DEF d
<1>5. [s EXCEPT !.entry.data = d] = [entry |-> x, rows |-> NoRows]
    BY <1>2 DEF HashEntry
<1>6. [entry |-> x, rows |-> NoRows] = Indexed(x) BY <1>1, Unentered
<1> HIDE DEF x
<1> QED BY <1>4, <1>5, <1>6 DEF d, x

\* aof_frame.
LEMMA FrameIsGood ==
    ASSUME NEW n \in Nat, n <= MaxAbsolute, NEW c, Sent(c, n)
    PROVE  GoodFrame(Frame(c, n), n) /\ ~IsPExpire(Frame(c, n))
<1> DEFINE f == Frame(c, n)
           p == Late(c.at, n)
<1>1. c \in Command /\ c.at \in Deadlines /\ c.at <= n + MaxAbsolute BY DEF Sent, Command
<1>2. f = [cmd |-> c, px |-> IF c.op = "set" THEN p ELSE 0] BY DEF Frame
<1>3. \/ p = 0
      \/ c.at = MaxTime /\ p \in Times /\ n + p >= MaxTime
    <2> DEFINE at == c.at
    <2>1. at \in Int /\ at <= n + MaxAbsolute /\ (at = -1 \/ at \in 0 .. MaxTime) BY <1>1, Numbers
    <2>2. p = IF at > MaxAbsolute THEN Clamp(at - n) ELSE 0 BY DEF Late
    <2> HIDE DEF at, p
    <2>3. CASE at > MaxAbsolute
        <3>1. at = MaxTime BY <2>1, <2>3, Numbers
        <3>2. at - n >= 1 /\ at - n <= MaxAbsolute /\ at - n \in Int BY <2>1, <3>1, Numbers
        <3>3. Clamp(at - n) = at - n BY <3>2, Numbers DEF Clamp
        <3>4. p = at - n BY <2>2, <2>3, <3>3
        <3>5. p \in Times /\ n + p >= MaxTime BY <3>1, <3>2, <3>4, Numbers
        <3> QED BY <3>1, <3>5 DEF at
    <2>4. CASE ~(at > MaxAbsolute) BY <2>2, <2>4
    <2> QED BY <2>3, <2>4
<1>4. 0 \in Times BY Numbers
<1> HIDE DEF p, f
<1>5. f.cmd = c /\ f.px \in Times /\ (f.px = 0 \/ (c.op = "set" /\ f.px = p)) BY <1>2, <1>3, <1>4
<1>6. f \in [cmd: Command, px: Times] BY <1>1, <1>2, <1>5
<1>7. f.px = 0 \/ (f.cmd.op = "set" /\ f.cmd.at = MaxTime /\ n + f.px >= MaxTime)
    BY <1>3, <1>5
<1>8. ~IsPExpire(f) BY <1>5 DEF IsPExpire
<1> QED BY <1>5, <1>6, <1>7, <1>8 DEF GoodFrame, f

\* The commands of a snapshot are commands.
LEMMA SnapshotCommands ==
    ASSUME NEW n \in Nat, NEW k \in Keys, NEW f \in Fields
    PROVE  /\ \A b \in Sendable, op \in {"append", "rpush", "hset"} :
                 Sent(Cmd(op, <<k>>, b, f, 0, Never), n)
           /\ \A b \in Sendable, t \in Deadlines :
                 (t = Never \/ t > n) /\ t <= n + MaxAbsolute
                    => Sent(Cmd("set", <<k>>, b, f, 0, t), n)
           /\ \A t \in Times : Cmd("expire", <<k>>, EmptyBytes, f, 0, t) \in Command
           /\ \A t \in Times : t <= MaxAbsolute => Sent(Cmd("expire", <<k>>, EmptyBytes, f, 0, t), n)
<1>0. /\ <<k>> \in Seq(Keys) /\ Len(<<k>>) = 1 /\ 0 \in Int /\ Never \in Deadlines
      /\ Never <= n + MaxAbsolute
    BY Numbers DEF Deadlines
<1>1. ASSUME NEW op \in Ops \ {"mset", "del", "incr", "decrby", "hincrby", "lpop", "rpop"},
             NEW b \in Sendable, NEW t \in Deadlines,
             op = "set" => t # 0, op = "expire" => t # Never,
             op \notin {"set", "expire"} => t = Never
      PROVE  /\ Cmd(op, <<k>>, b, f, 0, t) \in Command
             /\ /\ op = "expire" => t <= MaxAbsolute
                /\ t <= n + MaxAbsolute
                => Sent(Cmd(op, <<k>>, b, f, 0, t), n)
    <2> DEFINE c == Cmd(op, <<k>>, b, f, 0, t)
    <2>1. c = [op |-> op, keys |-> <<k>>, val |-> b, field |-> f, n |-> 0, at |-> t] BY DEF Cmd
    <2>2. b \in Bytes /\ ~TooLarge(<<b>>) BY DEF Sendable
    <2> HIDE DEF c
    <2>3. c.op = op /\ c.keys = <<k>> /\ c.val = b /\ c.at = t BY <2>1
    <2>4. c \in [op: Ops, keys: Seq(Keys), val: Bytes, field: Fields, n: Int, at: Deadlines]
        BY <1>0, <2>1, <2>2
    <2>5. c \in Command
        <3>1. CASE op = "set" BY <1>0, <1>1, <2>3, <2>4, <3>1 DEF Command
        <3>2. CASE op = "expire" BY <1>0, <1>1, <2>3, <2>4, <3>2 DEF Command
        <3>3. CASE op \notin {"set", "expire"} BY <1>0, <1>1, <2>3, <2>4, <3>3 DEF Command
        <3> QED BY <3>1, <3>2, <3>3
    <2> QED BY <1>1, <2>2, <2>3, <2>5 DEF Sent, c
<1>2. \A b \in Sendable, op \in {"append", "rpush", "hset"} : Sent(Cmd(op, <<k>>, b, f, 0, Never), n)
    BY <1>0, <1>1 DEF Ops
<1>3. ASSUME NEW b \in Sendable, NEW t \in Deadlines, t = Never \/ t > n, t <= n + MaxAbsolute
      PROVE  Sent(Cmd("set", <<k>>, b, f, 0, t), n)
    <2>1. t # 0 BY <1>3, Numbers
    <2>2. "set" \in Ops \ {"mset", "del", "incr", "decrby", "hincrby", "lpop", "rpop"} BY DEF Ops
    <2> QED BY <1>1, <1>3, <2>1, <2>2
<1>4. ASSUME NEW t \in Times
      PROVE  /\ Cmd("expire", <<k>>, EmptyBytes, f, 0, t) \in Command
             /\ t <= MaxAbsolute => Sent(Cmd("expire", <<k>>, EmptyBytes, f, 0, t), n)
    <2>1. EmptyBytes \in Sendable BY CommandsAssumption DEF Sendable, Bytes
    <2>2. t \in Deadlines /\ t # Never /\ (t <= MaxAbsolute => t <= n + MaxAbsolute)
        BY <1>4, Numbers
    <2>3. "expire" \in Ops \ {"mset", "del", "incr", "decrby", "hincrby", "lpop", "rpop"} BY DEF Ops
    <2> QED BY <1>1, <2>1, <2>2, <2>3
<1> QED BY <1>2, <1>3, <1>4

\* What the commands of a snapshot do.
LEMMA ApplySet ==
    ASSUME NEW ks, NEW b, NEW f, NEW t, NEW sl, NEW n
    PROVE  Apply(Cmd("set", ks, b, f, 0, t), sl, n) = SetAt(sl, b, t)
BY DEF Apply, Cmd

LEMMA ApplyAppend ==
    ASSUME NEW ks, NEW b, NEW f, NEW t, NEW sl, NEW n
    PROVE  Apply(Cmd("append", ks, b, f, 0, t), sl, n) = AppendBytes(sl, b, n)
BY DEF Apply, Cmd

LEMMA ApplyPush ==
    ASSUME NEW sl, NEW d, sl = Indexed(ListEntry(d, Never)) \/ (d = <<>> /\ sl = EmptySlot),
           NEW ks, NEW b, NEW f, NEW t, NEW n
    PROVE  Apply(Cmd("rpush", ks, b, f, 0, t), sl, n)
             = Done(Indexed(ListEntry(Append(d, b), Never)))
<1>1. Push(sl, b, FALSE, n) = Done(Indexed(ListEntry(Append(d, b), Never))) BY PushSlot
<1>2. Apply(Cmd("rpush", ks, b, f, 0, t), sl, n) = Push(sl, b, FALSE, n) BY DEF Apply, Cmd
<1> QED BY <1>1, <1>2

LEMMA ApplyHSet ==
    ASSUME NEW ks, NEW b, NEW f, NEW t, NEW sl, NEW n
    PROVE  Apply(Cmd("hset", ks, b, f, 0, t), sl, n) = HSet(sl, f, b, n)
BY DEF Apply, Cmd

LEMMA ApplyExpire ==
    ASSUME NEW ks, NEW b, NEW f, NEW t, NEW sl, NEW n
    PROVE  Apply(Cmd("expire", ks, b, f, 0, t), sl, n) = ExpireAt(sl, t, n)
BY DEF Apply, Cmd

\* A frame is in the set of frames, and has the command it was made of.
LEMMA FrameOf ==
    ASSUME NEW n \in Nat, n <= MaxAbsolute, NEW c, Sent(c, n)
    PROVE  Frame(c, n) \in GoodFrames(n) /\ Frame(c, n).cmd = c /\ ~IsPExpire(Frame(c, n))
<1>1. GoodFrame(Frame(c, n), n) /\ ~IsPExpire(Frame(c, n)) BY FrameIsGood
<1>2. Frame(c, n).cmd = c BY DEF Frame
<1> QED BY <1>1, <1>2 DEF GoodFrame, GoodFrames

\* The entry once its value is back.
Valued(k, e) ==
    IF e.type = "string" /\ ~IsSplit(k, e) THEN e ELSE [e EXCEPT !.expires = Never]

\* The frames fs, replayed at time t, give the key k the slot sl.
Yields(fs, k, sl, n, t) ==
    \A x : Acc(x, n) /\ ~x.err /\ x.slots[k] = EmptySlot
              => Moved(x, ReplayFrom(x, fs, t), k, sl, n)

\* A string.
LEMMA StringReplays ==
    ASSUME NEW n \in Nat, n <= MaxAbsolute, NEW t \in Nat, n <= t, NEW k \in Keys, NEW f \in Fields,
           NEW b \in Sendable, NEW d \in Deadlines, d = Never \/ d > n, d <= n + MaxAbsolute
    PROVE  LET fs == <<Frame(Cmd("set", <<k>>, b, f, 0, d), n)>>
           IN  fs \in Seq(GoodFrames(n)) /\ Yields(fs, k, Indexed(StringEntry(b, d)), n, t)
<1> DEFINE c == Cmd("set", <<k>>, b, f, 0, d)
           h == Frame(c, n)
           fs == <<h>>
           sl == Indexed(StringEntry(b, d))
           st == [i \in 0 .. 1 |-> IF i = 0 THEN EmptySlot ELSE sl]
<1>1. Sent(c, n) BY SnapshotCommands
<1>2. c.keys = <<k>> /\ Apply(c, EmptySlot, t) = Done(sl)
    <2>1. SetAt(EmptySlot, b, d) = Done(sl) BY SetSlot, EmptyIsGood
    <2>2. Apply(c, EmptySlot, t) = SetAt(EmptySlot, b, d) BY ApplySet
    <2>3. c.keys = <<k>> BY DEF Cmd
    <2> QED BY <2>1, <2>2, <2>3
<1> HIDE DEF c, sl
<1>3. h \in GoodFrames(n) /\ h.cmd = c /\ ~IsPExpire(h) BY <1>1, FrameOf
<1> HIDE DEF h
<1>4. fs \in Seq(GoodFrames(n)) /\ Len(fs) = 1 /\ fs[1] = h BY <1>3
<1>5. st[0] = EmptySlot /\ st[1] = sl OBVIOUS
<1> HIDE DEF fs, st
<1>6. \A i \in 1 .. Len(fs) : /\ fs[i].cmd.keys = <<k>> /\ ~IsPExpire(fs[i])
                              /\ Apply(fs[i].cmd, st[i - 1], t) = Done(st[i])
    <2> SUFFICES ASSUME NEW i \in 1 .. Len(fs)
                 PROVE  /\ fs[i].cmd.keys = <<k>> /\ ~IsPExpire(fs[i])
                        /\ Apply(fs[i].cmd, st[i - 1], t) = Done(st[i])
        OBVIOUS
    <2>1. i = 1 /\ i - 1 = 0 BY <1>4
    <2> QED BY <1>2, <1>3, <1>4, <1>5, <2>1
<1>7. ASSUME NEW x, Acc(x, n), ~x.err, x.slots[k] = EmptySlot
      PROVE  Moved(x, ReplayFrom(x, fs, t), k, sl, n)
    BY <1>4, <1>5, <1>6, <1>7, SomeFrames
<1> QED BY <1>4, <1>7 DEF Yields, fs, h, c, sl

\* A string in pieces.
LEMMA SplitReplays ==
    ASSUME NEW n \in Nat, n <= MaxAbsolute, NEW t \in Nat, n <= t, NEW k \in Keys, NEW f \in Fields,
           NEW b \in Sendable
    PROVE  LET ps == Pieces(k, b)
               fs == <<Frame(Cmd("set", <<k>>, EmptyBytes, f, 0, Never), n)>>
                     \o [i \in 1 .. Len(ps) |-> Frame(Cmd("append", <<k>>, ps[i], f, 0, Never), n)]
           IN  fs \in Seq(GoodFrames(n)) /\ Yields(fs, k, Indexed(StringEntry(b, Never)), n, t)
<1> DEFINE ps == Pieces(k, b)
           M == Len(ps)
           S == GoodFrames(n)
           c0 == Cmd("set", <<k>>, EmptyBytes, f, 0, Never)
           c(i) == Cmd("append", <<k>>, ps[i], f, 0, Never)
           h0 == Frame(c0, n)
           tail == [i \in 1 .. M |-> Frame(c(i), n)]
           fs == <<h0>> \o tail
<1>0. b \in Bytes /\ ~TooLarge(<<b>>) BY DEF Sendable
<1>1. ps \in Seq(Bytes) BY <1>0, RecoveryAssumption
<1>2. PICK p \in [0 .. M -> Bytes] :
          /\ p[0] = EmptyBytes /\ p[M] = b
          /\ \A i \in 1 .. M : /\ p[i] = Concat(p[i - 1], ps[i])
                               /\ ~TooLarge(<<b>>) => ~TooLarge(<<p[i]>>) /\ ~TooLarge(<<ps[i]>>)
    BY <1>0, RecoveryAssumption
<1> HIDE DEF ps
<1>3. M \in Nat /\ \A i \in 1 .. M : ps[i] \in Sendable /\ ~TooLarge(<<p[i]>>)
    BY <1>0, <1>1, <1>2 DEF Sendable
<1> HIDE DEF M
<1> DEFINE sl(i) == IF i = 0 THEN EmptySlot ELSE Indexed(StringEntry(p[i - 1], Never))
           st == [i \in 0 .. M + 1 |-> sl(i)]
<1>4. h0 \in S /\ h0.cmd = c0 /\ ~IsPExpire(h0) /\ c0.keys = <<k>> /\ Apply(c0, EmptySlot, t) = Done(sl(1))
    <2>1. EmptyBytes \in Sendable /\ Never \in Deadlines /\ Never <= n + MaxAbsolute
        BY CommandsAssumption, Numbers DEF Sendable, Bytes, Deadlines
    <2>2. Sent(c0, n) BY <2>1, SnapshotCommands
    <2>3. c0.keys = <<k>> BY DEF Cmd
    <2>4. Apply(c0, EmptySlot, t) = SetAt(EmptySlot, EmptyBytes, Never) BY ApplySet
    <2>5. SetAt(EmptySlot, EmptyBytes, Never) = Done(Indexed(StringEntry(EmptyBytes, Never)))
        BY <2>1, SetSlot, EmptyIsGood
    <2>6. sl(1) = Indexed(StringEntry(EmptyBytes, Never))
        <3>1. sl(1) = Indexed(StringEntry(p[1 - 1], Never)) /\ 1 - 1 = 0 OBVIOUS
        <3> HIDE DEF sl
        <3> QED BY <1>2, <3>1
    <2> HIDE DEF c0, sl
    <2>7. h0 \in S /\ h0.cmd = c0 /\ ~IsPExpire(h0) BY <2>2, FrameOf
    <2> QED BY <2>3, <2>4, <2>5, <2>6, <2>7
<1>5. ASSUME NEW i \in 1 .. M
      PROVE  /\ Frame(c(i), n) \in S /\ Frame(c(i), n).cmd = c(i) /\ ~IsPExpire(Frame(c(i), n))
             /\ c(i).keys = <<k>> /\ Apply(c(i), sl(i), t) = Done(sl(i + 1))
    <2> DEFINE v == p[i - 1]
               a == ps[i]
    <2>1. Sent(c(i), n) BY <1>3, SnapshotCommands
    <2>2. c(i).keys = <<k>> BY DEF Cmd
    <2>3. p[i] = Concat(v, a) /\ ~TooLarge(<<p[i]>>) BY <1>2, <1>3
    <2>4. sl(i) = Indexed(StringEntry(v, Never)) /\ sl(i + 1) = Indexed(StringEntry(p[i], Never))
        <3>1. i # 0 /\ i + 1 # 0 /\ (i + 1) - 1 = i BY <1>3
        <3>2. sl(i + 1) = Indexed(StringEntry(p[(i + 1) - 1], Never)) BY <3>1
        <3>3. p[(i + 1) - 1] = p[i] BY <3>1
        <3>4. sl(i) = Indexed(StringEntry(v, Never)) BY <3>1
        <3> HIDE DEF sl, v
        <3> QED BY <3>2, <3>3, <3>4
    <2>5. Apply(c(i), sl(i), t) = AppendBytes(sl(i), a, t) BY ApplyAppend
    <2> HIDE DEF c, sl, v, a
    <2>6. AppendBytes(Indexed(StringEntry(v, Never)), a, t)
            = Done(Indexed(StringEntry(Concat(v, a), Never)))
        BY <2>3, AppendSlot
    <2>7. Frame(c(i), n) \in S /\ Frame(c(i), n).cmd = c(i) /\ ~IsPExpire(Frame(c(i), n))
        BY <2>1, FrameOf
    <2> QED BY <2>2, <2>3, <2>4, <2>5, <2>6, <2>7
<1>6. \A i \in 0 .. M + 1 : st[i] = sl(i) OBVIOUS
<1>7. st[0] = EmptySlot /\ st[M + 1] = Indexed(StringEntry(b, Never))
    <2>1. M + 1 \in 0 .. M + 1 /\ 0 \in 0 .. M + 1 /\ M + 1 # 0 /\ (M + 1) - 1 = M BY <1>3
    <2>2. sl(0) = EmptySlot /\ sl(M + 1) = Indexed(StringEntry(p[(M + 1) - 1], Never)) BY <2>1
    <2> HIDE DEF sl, st
    <2> QED BY <1>2, <1>6, <2>1, <2>2
<1> HIDE DEF c, c0, h0, sl, S
<1>8. tail \in Seq(S) /\ Len(tail) = M /\ \A i \in 1 .. M : tail[i] = Frame(c(i), n)
    BY <1>3, <1>5
<1> HIDE DEF tail
<1>9. /\ fs \in Seq(S) /\ Len(fs) = M + 1 /\ fs[1] = h0
      /\ \A i \in 1 .. M : fs[i + 1] = Frame(c(i), n)
    BY <1>3, <1>4, <1>8
<1> HIDE DEF fs
<1>10. ASSUME NEW i \in 1 .. M + 1
       PROVE  /\ fs[i].cmd.keys = <<k>> /\ ~IsPExpire(fs[i])
              /\ Apply(fs[i].cmd, st[i - 1], t) = Done(st[i])
    <2>1. i \in 0 .. M + 1 /\ i - 1 \in 0 .. M + 1 BY <1>3
    <2>2. st[i] = sl(i) /\ st[i - 1] = sl(i - 1) BY <1>6, <2>1
    <2>3. CASE i = 1
        <3>1. st[i - 1] = EmptySlot BY <1>7, <2>3
        <3> QED BY <1>4, <1>9, <2>2, <2>3, <3>1
    <2>4. CASE i # 1
        <3> DEFINE j == i - 1
        <3>1. j \in 1 .. M /\ j + 1 = i BY <1>3, <2>4
        <3>2. st[i - 1] = sl(j) /\ st[i] = sl(j + 1) BY <2>2, <3>1
        <3>3. fs[i] = Frame(c(j), n)
            <4>1. fs[j + 1] = Frame(c(j), n) BY <1>9, <3>1
            <4> QED BY <3>1, <4>1
        <3> HIDE DEF j, st
        <3> QED BY <1>5, <3>1, <3>2, <3>3
    <2> QED BY <2>3, <2>4
<1> HIDE DEF st
<1>11. ASSUME NEW x, Acc(x, n), ~x.err, x.slots[k] = EmptySlot
       PROVE  Moved(x, ReplayFrom(x, fs, t), k, st[M + 1], n)
    BY <1>7, <1>9, <1>10, <1>11, SomeFrames DEF S
<1>12. Yields(fs, k, Indexed(StringEntry(b, Never)), n, t) BY <1>7, <1>11 DEF Yields
<1> QED BY <1>9, <1>12 DEF S, fs, h0, c0, c, tail, M, ps

\* A list, item by item.
LEMMA ListReplays ==
    ASSUME NEW n \in Nat, n <= MaxAbsolute, NEW t \in Nat, n <= t, NEW k \in Keys, NEW f \in Fields,
           NEW d \in Seq(Sendable), d # <<>>
    PROVE  LET fs == [i \in 1 .. Len(d) |-> Frame(Cmd("rpush", <<k>>, d[i], f, 0, Never), n)]
           IN  fs \in Seq(GoodFrames(n)) /\ Yields(fs, k, Indexed(ListEntry(d, Never)), n, t)
<1> DEFINE N == Len(d)
           c(i) == Cmd("rpush", <<k>>, d[i], f, 0, Never)
           fs == [i \in 1 .. N |-> Frame(c(i), n)]
           p(i) == SubSeq(d, 1, i)
           sl(i) == IF i = 0 THEN EmptySlot ELSE Indexed(ListEntry(p(i), Never))
           st == [i \in 0 .. N |-> sl(i)]
<1>1. N \in Nat \ {0} /\ \A i \in 1 .. N : d[i] \in Sendable BY EmptySeq
<1>2. p(N) = d /\ p(0) = <<>> OBVIOUS
<1>3. ASSUME NEW i \in 1 .. N
      PROVE  /\ Frame(c(i), n) \in GoodFrames(n) /\ Frame(c(i), n).cmd = c(i)
             /\ ~IsPExpire(Frame(c(i), n))
             /\ c(i).keys = <<k>> /\ Apply(c(i), sl(i - 1), t) = Done(sl(i))
    <2>1. Sent(c(i), n) BY <1>1, SnapshotCommands
    <2>2. i - 1 \in 0 .. Len(d) - 1 /\ (i - 1) + 1 = i BY <1>1
    <2>3. p(i) = Append(p(i - 1), d[i])
        BY <2>2, OneMore
    <2> DEFINE s == sl(i - 1)
               q == p(i - 1)
    <2>4. s = Indexed(ListEntry(q, Never)) \/ (q = <<>> /\ s = EmptySlot) BY <1>2
    <2>5. sl(i) = Indexed(ListEntry(Append(q, d[i]), Never))
        <3>1. i # 0 BY <1>1
        <3>2. sl(i) = Indexed(ListEntry(p(i), Never)) BY <3>1
        <3> HIDE DEF sl, p, q
        <3> QED BY <2>3, <3>2 DEF q
    <2> HIDE DEF s, q, sl, p
    <2>6. c(i).keys = <<k>> BY DEF Cmd
    <2>7. Apply(c(i), s, t) = Done(Indexed(ListEntry(Append(q, d[i]), Never)))
        BY <2>4, ApplyPush
    <2> HIDE DEF c
    <2>8. /\ Frame(c(i), n) \in GoodFrames(n) /\ Frame(c(i), n).cmd = c(i)
          /\ ~IsPExpire(Frame(c(i), n))
        BY <2>1, FrameOf
    <2> QED BY <2>5, <2>6, <2>7, <2>8 DEF s
<1>4. \A i \in 0 .. N : st[i] = sl(i) OBVIOUS
<1>5. st[0] = EmptySlot /\ st[N] = Indexed(ListEntry(d, Never))
    <2>1. N # 0 /\ N \in 0 .. N /\ 0 \in 0 .. N BY <1>1
    <2>2. sl(0) = EmptySlot /\ sl(N) = Indexed(ListEntry(p(N), Never)) BY <2>1
    <2> HIDE DEF sl, st, p
    <2> QED BY <1>2, <1>4, <2>1, <2>2
<1> HIDE DEF c, sl, p
<1>6. fs \in Seq(GoodFrames(n)) /\ Len(fs) = N BY <1>1, <1>3
<1>7. \A i \in 1 .. N : /\ fs[i].cmd.keys = <<k>> /\ ~IsPExpire(fs[i])
                        /\ Apply(fs[i].cmd, st[i - 1], t) = Done(st[i])
    <2> SUFFICES ASSUME NEW i \in 1 .. N
                 PROVE  /\ fs[i].cmd.keys = <<k>> /\ ~IsPExpire(fs[i])
                        /\ Apply(fs[i].cmd, st[i - 1], t) = Done(st[i])
        OBVIOUS
    <2>1. fs[i] = Frame(c(i), n) OBVIOUS
    <2>2. st[i] = sl(i) /\ st[i - 1] = sl(i - 1) BY <1>1
    <2> QED BY <1>3, <2>1, <2>2
<1> HIDE DEF fs, st, N
<1>8. ASSUME NEW x, Acc(x, n), ~x.err, x.slots[k] = EmptySlot
      PROVE  Moved(x, ReplayFrom(x, fs, t), k, st[N], n)
    BY <1>5, <1>6, <1>7, <1>8, SomeFrames
<1> QED BY <1>5, <1>6, <1>8 DEF Yields, fs, N, c

\* A hash, field by field.
LEMMA HashReplays ==
    ASSUME NEW n \in Nat, n <= MaxAbsolute, NEW t \in Nat, n <= t, NEW k \in Keys,
           NEW F \in FieldSets, NEW d \in [F -> Sendable], d # <<>>,
           NEW q \in Seq(F), ToSet(q) = F
    PROVE  LET fs == [i \in 1 .. Len(q) |-> Frame(Cmd("hset", <<k>>, d[q[i]], q[i], 0, Never), n)]
           IN  fs \in Seq(GoodFrames(n)) /\ Yields(fs, k, Indexed(HashEntry(d, Never)), n, t)
<1> DEFINE N == Len(q)
           c(i) == Cmd("hset", <<k>>, d[q[i]], q[i], 0, Never)
           fs == [i \in 1 .. N |-> Frame(c(i), n)]
           G(i) == {q[j] : j \in 1 .. i}
           m(i) == [g \in G(i) |-> d[g]]
           sl(i) == IF i = 0 THEN EmptySlot ELSE Indexed(HashEntry(m(i), Never))
           st == [i \in 0 .. N |-> sl(i)]
<1>0. F \subseteq Fields BY DEF FieldSets
<1>1. N \in Nat /\ \A i \in 1 .. N : q[i] \in F /\ d[q[i]] \in Sendable OBVIOUS
<1>2. G(N) = F /\ m(N) = d /\ m(0) = <<>>
    <2>1. G(N) = F BY DEF ToSet
    <2>2. m(N) = d BY <2>1
    <2>3. G(0) = {} OBVIOUS
    <2>4. m(0) = <<>> BY <2>3
    <2> QED BY <2>1, <2>2, <2>4
<1>3. N # 0 BY <1>2
<1>4. ASSUME NEW i \in 1 .. N
      PROVE  /\ Frame(c(i), n) \in GoodFrames(n) /\ Frame(c(i), n).cmd = c(i)
             /\ ~IsPExpire(Frame(c(i), n))
             /\ c(i).keys = <<k>> /\ Apply(c(i), sl(i - 1), t) = Done(sl(i))
    <2> DEFINE f == q[i]
               b == d[q[i]]
               s == sl(i - 1)
               p == m(i - 1)
               r == WithField(p, f, b)
    <2>0. f \in Fields /\ b \in Sendable BY <1>0, <1>1
    <2>1. Sent(c(i), n)
        <3> HIDE DEF f, b
        <3>1. Sent(Cmd("hset", <<k>>, b, f, 0, Never), n) BY <2>0, SnapshotCommands
        <3> QED BY <3>1 DEF f, b
    <2>2. i - 1 \in 0 .. N - 1 /\ i # 0 /\ 1 .. i = (1 .. i - 1) \cup {i} BY <1>1
    <2>3. m(i) = r
        <3>1. DOMAIN p = G(i - 1) /\ \A g \in G(i - 1) : p[g] = d[g] OBVIOUS
        <3>2. G(i) = G(i - 1) \cup {f} BY <2>2
        <3>3. \A g \in G(i) : d[g] = IF g = f THEN b ELSE p[g] BY <3>1, <3>2
        <3>4. DOMAIN p \cup {f} = G(i) BY <3>1, <3>2
        <3> HIDE DEF p, G, b, f
        <3> QED BY <3>3, <3>4 DEF WithField
    <2>4. s = Indexed(HashEntry(p, Never)) \/ (p = <<>> /\ s = EmptySlot)
        <3>1. CASE i - 1 = 0
            <4>1. p = <<>> BY <1>2, <3>1
            <4>2. s = EmptySlot BY <3>1
            <4> QED BY <4>1, <4>2
        <3>2. CASE i - 1 # 0 BY <3>2
        <3> QED BY <3>1, <3>2
    <2>5. sl(i) = Indexed(HashEntry(r, Never))
        <3>1. sl(i) = Indexed(HashEntry(m(i), Never)) BY <2>2
        <3> HIDE DEF sl, m, r
        <3> QED BY <2>3, <3>1
    <2>6. c(i).keys = <<k>> BY DEF Cmd
    <2> HIDE DEF s, p, sl, m, G
    <2>7. Apply(c(i), s, t) = HSet(s, f, b, t) BY ApplyHSet
    <2> HIDE DEF c, f, b
    <2>8. HSet(s, f, b, t) = Done(Indexed(HashEntry(r, Never))) BY <2>4, HSetSlot
    <2>9. /\ Frame(c(i), n) \in GoodFrames(n) /\ Frame(c(i), n).cmd = c(i)
          /\ ~IsPExpire(Frame(c(i), n))
        BY <2>1, FrameOf
    <2> QED BY <2>5, <2>6, <2>7, <2>8, <2>9 DEF s
<1>5. \A i \in 0 .. N : st[i] = sl(i) OBVIOUS
<1>6. st[0] = EmptySlot /\ st[N] = Indexed(HashEntry(d, Never))
    <2>1. N \in 0 .. N /\ 0 \in 0 .. N BY <1>1
    <2>2. sl(0) = EmptySlot /\ sl(N) = Indexed(HashEntry(m(N), Never)) BY <1>3
    <2> HIDE DEF sl, st, m
    <2> QED BY <1>2, <1>5, <2>1, <2>2
<1> HIDE DEF c, sl, m, G
<1>7. fs \in Seq(GoodFrames(n)) /\ Len(fs) = N BY <1>1, <1>4
<1>8. \A i \in 1 .. N : /\ fs[i].cmd.keys = <<k>> /\ ~IsPExpire(fs[i])
                        /\ Apply(fs[i].cmd, st[i - 1], t) = Done(st[i])
    <2> SUFFICES ASSUME NEW i \in 1 .. N
                 PROVE  /\ fs[i].cmd.keys = <<k>> /\ ~IsPExpire(fs[i])
                        /\ Apply(fs[i].cmd, st[i - 1], t) = Done(st[i])
        OBVIOUS
    <2>1. fs[i] = Frame(c(i), n) OBVIOUS
    <2>2. st[i] = sl(i) /\ st[i - 1] = sl(i - 1) BY <1>1
    <2> QED BY <1>4, <2>1, <2>2
<1> HIDE DEF fs, st, N
<1>9. ASSUME NEW x, Acc(x, n), ~x.err, x.slots[k] = EmptySlot
      PROVE  Moved(x, ReplayFrom(x, fs, t), k, st[N], n)
    BY <1>6, <1>7, <1>8, <1>9, SomeFrames
<1> QED BY <1>6, <1>7, <1>9 DEF Yields, fs, N, c

\* write_snapshot_entry, up to the deadline: the frames bring the value back.
LEMMA ValueReplays ==
    ASSUME NEW n \in Nat, n <= MaxAbsolute, NEW t \in Nat, n <= t, NEW k \in Keys,
           NEW e, WellFormed(e), Dated(e, n), ~Expired(e, n)
    PROVE  LET fs == SnapshotValue(k, e, n)
           IN  fs \in Seq(GoodFrames(n)) /\ Yields(fs, k, Indexed(Valued(k, e)), n, t)
<1> DEFINE f == CHOOSE g \in Fields : TRUE
           fs == SnapshotValue(k, e, n)
<1>0. f \in Fields BY RecoveryAssumption
<1>1. e.type \in {"none", "string", "list", "hash"} /\ IsEntry(e) BY TakeEntry
<1>2. CASE e.type = "none"
    <2>1. e = Absent BY <1>2, TakeEntry
    <2>2. fs = <<>> BY <1>2 DEF SnapshotValue, IsSplit
    <2>3. Valued(k, e) = Absent BY <2>1 DEF Valued, Absent
    <2>4. EmptySlot = Indexed(Absent) BY EmptyIsGood DEF Good, EmptySlot
    <2>5. ASSUME NEW x, Acc(x, n), ~x.err, x.slots[k] = EmptySlot
          PROVE  Moved(x, ReplayFrom(x, fs, t), k, Indexed(Valued(k, e)), n)
        BY <2>2, <2>3, <2>4, <2>5, ReplayNone DEF Moved
    <2>6. <<>> \in Seq(GoodFrames(n)) OBVIOUS
    <2> QED BY <2>2, <2>5, <2>6 DEF Yields
<1>3. CASE e.type = "string"
    <2> DEFINE b == e.data[1]
               d == e.expires
               ps == Pieces(k, b)
    <2>1. e = StringEntry(b, d) /\ b \in Sendable BY <1>3, TakeEntry
    <2>2. d \in Deadlines /\ d <= n + MaxAbsolute BY <1>1 DEF IsEntry, Dated
    <2>3. d = Never \/ d > n
        <3>1. d = Never \/ ~(d <= n) BY DEF Expired
        <3> HIDE DEF d
        <3> QED BY <2>2, <3>1, Numbers
    <2>4. CASE ~IsSplit(k, e)
        <3>1. fs = <<Frame(Cmd("set", <<k>>, b, f, 0, d), n)>> BY <1>3, <2>4 DEF SnapshotValue
        <3>2. Valued(k, e) = e BY <1>3, <2>4 DEF Valued
        <3> HIDE DEF b, d, f, fs
        <3> QED BY <1>0, <2>1, <2>2, <2>3, <3>1, <3>2, StringReplays DEF fs
    <2>5. CASE IsSplit(k, e)
        <3>1. fs = <<Frame(Cmd("set", <<k>>, EmptyBytes, f, 0, Never), n)>>
                   \o [i \in 1 .. Len(ps) |-> Frame(Cmd("append", <<k>>, ps[i], f, 0, Never), n)]
            BY <1>3, <2>5 DEF SnapshotValue
        <3>2. Valued(k, e) = [e EXCEPT !.expires = Never] BY <2>5 DEF Valued
        <3> HIDE DEF b, d
        <3>3. [e EXCEPT !.expires = Never] = StringEntry(b, Never) BY <2>1 DEF StringEntry
        <3> HIDE DEF f, fs
        <3>4. LET gs == <<Frame(Cmd("set", <<k>>, EmptyBytes, f, 0, Never), n)>>
                        \o [i \in 1 .. Len(ps) |-> Frame(Cmd("append", <<k>>, ps[i], f, 0, Never), n)]
              IN  gs \in Seq(GoodFrames(n)) /\ Yields(gs, k, Indexed(StringEntry(b, Never)), n, t)
            BY <1>0, <2>1, SplitReplays
        <3> HIDE DEF ps
        <3>5. fs \in Seq(GoodFrames(n)) /\ Yields(fs, k, Indexed(StringEntry(b, Never)), n, t)
            BY <3>1, <3>4
        <3> QED BY <3>2, <3>3, <3>5 DEF fs
    <2> QED BY <2>4, <2>5
<1>4. CASE e.type = "list"
    <2> DEFINE d == e.data
    <2>1. e = ListEntry(d, e.expires) /\ d \in Seq(Sendable) /\ d # <<>> BY <1>4, TakeEntry
    <2>2. fs = [i \in 1 .. Len(d) |-> Frame(Cmd("rpush", <<k>>, d[i], f, 0, Never), n)]
        BY <1>4 DEF SnapshotValue, IsSplit
    <2>3. Valued(k, e) = ListEntry(d, Never) BY <1>4, <2>1 DEF Valued, ListEntry
    <2> HIDE DEF d, f, fs
    <2> QED BY <1>0, <2>1, <2>2, <2>3, ListReplays DEF fs
<1>5. CASE e.type = "hash"
    <2> DEFINE d == e.data
               F == DOMAIN e.data
               q == SetToSeq(F)
    <2>1. e = HashEntry(d, e.expires) /\ F \in FieldSets /\ d \in [F -> Sendable] /\ d # <<>>
        BY <1>5, TakeEntry
    <2>2. q \in Seq(F) /\ ToSet(q) = F BY <2>1, SequenceOfSet DEF FieldSets
    <2>3. fs = [i \in 1 .. Len(q) |-> Frame(Cmd("hset", <<k>>, d[q[i]], q[i], 0, Never), n)]
        BY <1>5 DEF SnapshotValue, IsSplit
    <2>4. Valued(k, e) = HashEntry(d, Never) BY <1>5, <2>1 DEF Valued, HashEntry
    <2> HIDE DEF d, F, q, fs
    <2> QED BY <2>1, <2>2, <2>3, <2>4, HashReplays DEF fs
<1> QED BY <1>1, <1>2, <1>3, <1>4, <1>5

\* A file with one frame.
LEMMA ReplayOne ==
    ASSUME NEW S, NEW h \in S, NEW x, NEW t
    PROVE  ReplayFrom(x, <<h>>, t) = ReplayFrame(x, h, t)
<1> DEFINE e == <<>>
<1>0. e \in Seq(S) OBVIOUS
<1>1. Append(e, h) = <<h>> OBVIOUS
<1>2. ReplayFrom(x, e, t) = x BY ReplayNone
<1> HIDE DEF e
<1>3. ReplayFrom(x, Append(e, h), t) = ReplayFrame(ReplayFrom(x, e, t), h, t)
    BY <1>0, ReplayAppend
<1> QED BY <1>1, <1>2, <1>3

\* write_snapshot_entry: the frames bring back what is left of the entry at the time of
\* the replay, or there is a PEXPIRE among them.
LEMMA EntryReplays ==
    ASSUME NEW n \in Nat, n <= MaxAbsolute, NEW t \in Nat, n <= t, NEW k \in Keys,
           NEW e, WellFormed(e), Dated(e, n), ~Expired(e, n)
    PROVE  LET fs == SnapshotEntry(k, e, n)
           IN  /\ fs \in Seq(GoodFrames(n))
               /\ IF LateSplit(k, e) THEN HasPExpire(fs)
                  ELSE \E sl : Yields(fs, k, sl, n, t) /\ Live(sl.entry, t) = Live(e, t)
<1> DEFINE V == SnapshotValue(k, e, n)
           X == SnapshotExpiry(k, e, n)
           S == GoodFrames(n)
           w == Valued(k, e)
           d == e.expires
<1>0. LateSplit(k, e) => d # Never /\ IsSplit(k, e) BY Numbers DEF LateSplit
<1>1. V \in Seq(S) /\ Yields(V, k, Indexed(w), n, t) BY ValueReplays
<1>2. IsEntry(e) /\ e.type \in {"none", "string", "list", "hash"} BY TakeEntry
<1>3. SnapshotEntry(k, e, n) = V \o X BY DEF SnapshotEntry
<1>4. CASE d = Never \/ (e.type = "string" /\ ~IsSplit(k, e))
    <2>1. X = <<>> BY <1>4 DEF SnapshotExpiry
    <2>2. w = e
        <3>1. CASE e.type = "string" /\ ~IsSplit(k, e) BY <3>1 DEF Valued
        <3>2. CASE ~(e.type = "string" /\ ~IsSplit(k, e)) /\ d = Never
            <4>1. e = [type |-> e.type, data |-> e.data, expires |-> Never] BY <1>2, <3>2 DEF IsEntry
            <4>2. [e EXCEPT !.expires = Never] = e BY <4>1
            <4> QED BY <3>2, <4>2 DEF Valued
        <3> QED BY <1>4, <3>1, <3>2
    <2>3. Indexed(w).entry = e BY <2>2 DEF Indexed
    <2>4. V \o <<>> = V BY <1>1
    <2>5. ~LateSplit(k, e) BY <1>0, <1>4
    <2> HIDE DEF V, X, S
    <2> QED BY <1>1, <1>3, <2>1, <2>3, <2>4, <2>5 DEF S
<1>5. CASE ~LateSplit(k, e) /\ d # Never /\ ~(e.type = "string" /\ ~IsSplit(k, e))
    <2> DEFINE f == CHOOSE g \in Fields : TRUE
               c == Cmd("expire", <<k>>, EmptyBytes, f, 0, d)
               h == [cmd |-> c, px |-> Late(d, n)]
               sl == IF d <= t THEN EmptySlot ELSE Indexed(e)
    <2>0. f \in Fields BY RecoveryAssumption
    <2>1. e.type \in {"string", "list", "hash"}
        <3>1. e.type # "none" BY <1>2, <1>5 DEF IsEntry, Absent
        <3> QED BY <1>2, <3>1
    <2>2. d \in Times /\ d <= MaxAbsolute /\ d \in Deadlines
        <3>1. d \in Deadlines /\ d \in Times BY <1>2, <1>5, Numbers DEF IsEntry
        <3>2. CASE e.type = "string"
            <4>1. ~(d > MaxAbsolute) BY <1>5, <3>2 DEF LateSplit
            <4> HIDE DEF d
            <4> QED BY <3>1, <4>1, Numbers
        <3>3. CASE e.type # "string" BY <2>1, <3>1, <3>3 DEF Dated
        <3> QED BY <3>1, <3>2, <3>3
    <2>3. X = <<h>> BY <1>5 DEF SnapshotExpiry
    <2>4. h \in S /\ GoodFrame(h, n) /\ ~IsPExpire(h) /\ h.cmd = c /\ c.keys = <<k>>
        <3>1. Late(d, n) = 0 BY <2>2, Numbers DEF Late
        <3>2. Sent(c, n) BY <2>0, <2>2, SnapshotCommands
        <3>3. c.keys = <<k>> BY DEF Cmd
        <3> HIDE DEF c, d
        <3>4. c \in Command /\ 0 \in Times BY <3>2, Numbers DEF Sent
        <3>5. h \in [cmd: Command, px: Times] /\ h.cmd = c /\ h.px = 0 BY <3>1, <3>4
        <3>6. ~IsPExpire(h) BY <3>5 DEF IsPExpire
        <3> HIDE DEF h
        <3> QED BY <3>2, <3>3, <3>5, <3>6 DEF GoodFrame, GoodFrames
    <2>5. Apply(c, Indexed(w), t) = Done(sl)
        <3>1. e = [type |-> e.type, data |-> e.data, expires |-> d] BY <1>2 DEF IsEntry
        <3>2. w = [e EXCEPT !.expires = Never] BY <1>5 DEF Valued
        <3>3. w = [type |-> e.type, data |-> e.data, expires |-> Never] BY <3>1, <3>2
        <3> HIDE DEF w, d
        <3>4. IsEntry(w) BY <2>1, <3>3 DEF IsEntry, Deadlines
        <3>5. Good(Indexed(w)) /\ Indexed(w).entry = w BY <3>4, GoodIndexed DEF Indexed
        <3>6. Live(w, t) = w /\ w.type # "none" BY <2>1, <3>3 DEF Live, Expired
        <3>7. [w EXCEPT !.expires = d] = e BY <3>1, <3>3
        <3>8. Apply(c, Indexed(w), t) = ExpireAt(Indexed(w), d, t) BY ApplyExpire
        <3>9. ExpireAt(Indexed(w), d, t) =
                Done(IF w.type = "none" \/ d <= t THEN EmptySlot
                     ELSE Indexed([w EXCEPT !.expires = d]))
            <4> DEFINE z == Indexed(w)
            <4>1. Good(z) /\ Live(z.entry, t) = w BY <3>5, <3>6
            <4> HIDE DEF z
            <4>2. ExpireAt(z, d, t) =
                    Done(IF w.type = "none" \/ d <= t THEN EmptySlot
                         ELSE Indexed([w EXCEPT !.expires = d]))
                BY <2>2, <4>1, ExpireSlot
            <4> QED BY <4>2 DEF z
        <3> QED BY <3>6, <3>7, <3>8, <3>9
    <2>6. Live(sl.entry, t) = Live(e, t)
        <3>1. CASE d <= t
            <4>1. Live(e, t) = Absent BY <1>5, <3>1 DEF Live, Expired
            <4>2. sl.entry = Absent BY <3>1 DEF EmptySlot
            <4> QED BY <4>1, <4>2 DEF Live
        <3>2. CASE ~(d <= t) BY <3>2 DEF Indexed
        <3> QED BY <3>1, <3>2
    <2> HIDE DEF V, X, S, c, h, sl, w
    <2>7. V \o X \in Seq(S) /\ X \in Seq(S) BY <1>1, <2>3, <2>4
    <2>8. ASSUME NEW x, Acc(x, n), ~x.err, x.slots[k] = EmptySlot
          PROVE  Moved(x, ReplayFrom(x, V \o X, t), k, sl, n)
        <3> DEFINE y == ReplayFrom(x, V, t)
                   z == ReplayFrame(y, h, t)
        <3>1. Moved(x, y, k, Indexed(w), n) BY <1>1, <2>8 DEF Yields
        <3>2. ReplayFrom(x, V \o X, t) = ReplayFrom(y, X, t) BY <1>1, <2>7, ReplayConcat
        <3>3. ReplayFrom(y, X, t) = z BY <2>3, <2>4, ReplayOne
        <3> HIDE DEF y, z
        <3>4. Acc(y, n) /\ ~y.err /\ y.slots[k] = Indexed(w) BY <3>1 DEF Moved
        <3>5. Moved(y, z, k, sl, n) BY <2>4, <2>5, <3>4, OneFrame DEF z
        <3>6. Moved(x, z, k, sl, n) BY <3>1, <3>5 DEF Moved
        <3> QED BY <3>2, <3>3, <3>6
    <2>9. Yields(V \o X, k, sl, n, t) BY <2>8 DEF Yields
    <2> QED BY <1>3, <1>5, <2>6, <2>7, <2>9 DEF S
<1>6. CASE LateSplit(k, e)
    <2> DEFINE f == CHOOSE g \in Fields : TRUE
               c == Cmd("expire", <<k>>, EmptyBytes, f, 0, d)
               px == Late(d, n)
               h == [cmd |-> c, px |-> px]
    <2>0. f \in Fields BY RecoveryAssumption
    <2>1. X = <<h>> BY <1>0, <1>6 DEF SnapshotExpiry
    <2>2. d \in Times /\ d > MaxAbsolute /\ d <= n + MaxAbsolute
        BY <1>0, <1>2, <1>6, Numbers DEF IsEntry, LateSplit, Dated
    <2>3. c \in Command /\ c.op = "expire"
        <3>1. c \in Command BY <2>0, <2>2, SnapshotCommands
        <3>2. c.op = "expire" BY DEF Cmd
        <3> QED BY <3>1, <3>2
    <2> HIDE DEF c, d
    <2>4. px \in Times /\ px # 0 /\ n + px > MaxAbsolute
        <3>1. d = MaxTime BY <2>2, Numbers
        <3>2. d - n >= 1 /\ d - n <= MaxAbsolute /\ d - n \in Int BY <2>2, <3>1, Numbers
        <3>3. Clamp(d - n) = d - n BY <3>2, Numbers DEF Clamp
        <3>4. px = d - n BY <2>2, <3>3 DEF Late
        <3> QED BY <3>1, <3>2, <3>4, Numbers
    <2> HIDE DEF px
    <2>5. h \in [cmd: Command, px: Times] /\ h.cmd = c /\ h.px = px BY <2>3, <2>4
    <2> HIDE DEF h
    <2>6. IsPExpire(h) BY <2>3, <2>4, <2>5 DEF IsPExpire
    <2>7. h \in S BY <2>4, <2>5, <2>6 DEF GoodFrame, GoodFrames
    <2> HIDE DEF V, X, S
    <2> DEFINE N == Len(V)
               fs == V \o X
    <2>8. N \in Nat /\ fs \in Seq(S) /\ Len(fs) = N + 1 /\ fs[N + 1] = h BY <1>1, <2>1, <2>7
    <2>9. HasPExpire(fs)
        <3>1. N + 1 \in 1 .. Len(fs) BY <2>8
        <3> HIDE DEF fs, N
        <3> QED BY <2>6, <2>8, <3>1 DEF HasPExpire
    <2> HIDE DEF fs
    <2> QED BY <1>3, <1>6, <2>8, <2>9 DEF S, fs
<1> QED BY <1>4, <1>5, <1>6

\* A sequence made of a finite set has every element once.
LEMMA EveryOnce ==
    ASSUME NEW S, IsFiniteSet(S)
    PROVE  LET q == SetToSeq(S)
           IN  \A i, j \in 1 .. Len(q) : q[i] = q[j] => i = j
<1> DEFINE n == Cardinality(S)
           D == 1 .. n
           f == SetToSeq(S)
<1>1. n \in Nat /\ ExistsBijection(D, S) BY FS_CardinalityType
<1>2. PICK b : b \in Bijection(D, S) BY <1>1 DEF ExistsBijection
<1>3. b \in [D -> S] /\ IsInjective(b)
    BY <1>2 DEF Bijection, Injection, IsInjective
<1>4. f \in [D -> S] /\ IsInjective(f) BY <1>3 DEF SetToSeq
<1> HIDE DEF f, n
<1>5. Len(f) = n /\ DOMAIN f = 1 .. n BY <1>1, <1>4
<1> QED BY <1>4, <1>5 DEF IsInjective, f

\* A late string that is split leaves a PEXPIRE in the snapshot.
LEMMA SnapshotPExpires ==
    ASSUME NEW n \in Nat, n <= MaxAbsolute, NEW s, AllFit(s, n)
    PROVE  LET fs == SnapshotFrames(s, n)
           IN  /\ fs \in Seq(GoodFrames(n))
               /\ (\E k \in Keys : LateSplit(k, s[k].entry)) => HasPExpire(fs)
<1> DEFINE K == {k \in Keys : ~Expired(s[k].entry, n)}
           ks == SetToSeq(K)
           N == Len(ks)
           E(i) == SnapshotEntry(ks[i], s[ks[i]].entry, n)
           q == [i \in 1 .. N |-> E(i)]
           S == GoodFrames(n)
<1>1. IsFiniteSet(K)
    <2>1. K \in SUBSET Keys OBVIOUS
    <2> HIDE DEF K
    <2> QED BY <2>1, RecoveryAssumption, FS_Subset
<1>2. ks \in Seq(K) /\ ToSet(ks) = K
    <2> HIDE DEF K
    <2> QED BY <1>1, SequenceOfSet
<1>3. SnapshotFrames(s, n) = FlattenSeq(q) BY DEF SnapshotFrames
<1> HIDE DEF ks
<1>4. N \in Nat /\ \A i \in 1 .. N : ks[i] \in K BY <1>2
<1>5. \A k \in K : \E i \in 1 .. N : ks[i] = k BY <1>2 DEF ToSet
<1> HIDE DEF N
<1>6. ASSUME NEW i \in 1 .. N
      PROVE  E(i) \in Seq(S) /\ (LateSplit(ks[i], s[ks[i]].entry) => HasPExpire(E(i)))
    <2> DEFINE k == ks[i]
               e == s[k].entry
    <2>1. k \in Keys /\ ~Expired(e, n) BY <1>4
    <2>2. WellFormed(e) /\ Dated(e, n) BY <2>1 DEF AllFit, Fit
    <2> HIDE DEF k, e
    <2>3. n <= n OBVIOUS
    <2>4. LET fs == SnapshotEntry(k, e, n)
          IN  fs \in Seq(GoodFrames(n)) /\ (LateSplit(k, e) => HasPExpire(fs))
        BY <2>1, <2>2, <2>3, EntryReplays
    <2> QED BY <2>4 DEF k, e
<1>7. q \in Seq(Seq(S)) /\ Len(q) = N /\ \A i \in 1 .. N : q[i] = E(i)
    <2> HIDE DEF E, S
    <2> QED BY <1>4, <1>6
<1> HIDE DEF q, E, S
<1>8. PICK f : Flattens(f, q) /\ \A i \in 0 .. Len(q) : f[i] \in Seq(S) BY <1>7, FlattenLoop
<1>9. SnapshotFrames(s, n) = f[N] /\ f[N] \in Seq(S) BY <1>3, <1>4, <1>7, <1>8 DEF Flattens
<1>10. ASSUME NEW k \in Keys, LateSplit(k, s[k].entry) PROVE HasPExpire(f[N])
    <2>1. k \in K
        <3> DEFINE d == s[k].entry.expires
        <3>1. d \in Int BY Numbers DEF AllFit, Fit, Good, IsEntry
        <3>2. d > MaxAbsolute BY <1>10 DEF LateSplit
        <3> HIDE DEF d
        <3>3. ~(d <= n) BY <3>1, <3>2, Numbers
        <3> QED BY <3>3 DEF Expired, d
    <2>2. PICK j \in 1 .. N : ks[j] = k BY <1>5, <2>1
    <2>3. HasPExpire(q[j]) BY <1>6, <1>7, <1>10, <2>2
    <2> HIDE DEF K
    <2> DEFINE T == {i \in Nat : j <= i /\ i <= N => HasPExpire(f[i])}
    <2>4. 0 \in T BY <1>4
    <2>5. ASSUME NEW i \in Nat, i \in T PROVE i + 1 \in T
        <3> SUFFICES ASSUME j <= i + 1, i + 1 <= N PROVE HasPExpire(f[i + 1]) OBVIOUS
        <3> DEFINE a == f[i]
                   b == q[i + 1]
                   c == a \o b
        <3>1. i + 1 \in 1 .. N /\ (i + 1) - 1 = i /\ i \in 0 .. N BY <1>4
        <3>2. a \in Seq(S) /\ b \in Seq(S) /\ f[i + 1] = c
            BY <1>6, <1>7, <1>8, <3>1 DEF Flattens
        <3>3. HasPExpire(a) \/ HasPExpire(b)
            <4>1. CASE j = i + 1 BY <2>3, <4>1
            <4>2. CASE j # i + 1
                <5>1. j <= i /\ i <= N BY <1>4, <4>2
                <5> QED BY <2>5, <5>1
            <4> QED BY <4>1, <4>2
        <3> HIDE DEF a, b
        <3>4. /\ Len(a) \in Nat /\ Len(b) \in Nat /\ Len(c) = Len(a) + Len(b)
              /\ \A m \in 1 .. Len(a) : c[m] = a[m]
              /\ \A m \in 1 .. Len(b) : c[Len(a) + m] = b[m]
            BY <3>2
        <3> HIDE DEF c
        <3>5. CASE HasPExpire(a)
            <4>1. PICK m \in 1 .. Len(a) : IsPExpire(a[m]) BY <3>5 DEF HasPExpire
            <4>2. m \in 1 .. Len(c) /\ c[m] = a[m] BY <3>4
            <4> QED BY <3>2, <4>1, <4>2 DEF HasPExpire
        <3>6. CASE HasPExpire(b)
            <4>1. PICK m \in 1 .. Len(b) : IsPExpire(b[m]) BY <3>6 DEF HasPExpire
            <4>2. Len(a) + m \in 1 .. Len(c) /\ c[Len(a) + m] = b[m] BY <3>4
            <4> QED BY <3>2, <4>1, <4>2 DEF HasPExpire
        <3> QED BY <3>3, <3>5, <3>6
    <2> HIDE DEF T
    <2>6. N \in T BY <1>4, <2>4, <2>5, ByInduction
    <2> QED BY <1>4, <2>6 DEF T
<1> QED BY <1>9, <1>10 DEF S

\* The rewrite's snapshot, taken at time n and replayed at time t, gives back what is
\* left of the key space at t, if no late string had to be split.
LEMMA SnapshotReplays ==
    ASSUME NEW n \in Nat, n <= MaxAbsolute, NEW t \in Nat, n <= t, NEW s, AllFit(s, n),
           \A k \in Keys : ~LateSplit(k, s[k].entry)
    PROVE  LET fs == SnapshotFrames(s, n)
               r == ReplayAt(fs, t)
           IN  fs \in Seq(GoodFrames(n)) /\ Acc(r, n) /\ ~r.err /\ Agree(r.slots, t, s, t)
<1> DEFINE K == {k \in Keys : ~Expired(s[k].entry, n)}
           ks == SetToSeq(K)
           N == Len(ks)
           E(i) == SnapshotEntry(ks[i], s[ks[i]].entry, n)
           q == [i \in 1 .. N |-> E(i)]
           S == GoodFrames(n)
<1>1. IsFiniteSet(K)
    <2>1. K \in SUBSET Keys OBVIOUS
    <2> HIDE DEF K
    <2> QED BY <2>1, RecoveryAssumption, FS_Subset
<1>2. ks \in Seq(K) /\ ToSet(ks) = K /\ \A i, j \in 1 .. N : ks[i] = ks[j] => i = j
    <2> HIDE DEF K
    <2> QED BY <1>1, SequenceOfSet, EveryOnce
<1>3. SnapshotFrames(s, n) = FlattenSeq(q) BY DEF SnapshotFrames
<1> HIDE DEF ks
<1>4. N \in Nat /\ \A i \in 1 .. N : ks[i] \in K BY <1>2
<1>5. \A k \in K : \E i \in 1 .. N : ks[i] = k BY <1>2 DEF ToSet
<1> HIDE DEF N
<1>6. ASSUME NEW i \in 1 .. N
      PROVE  /\ ks[i] \in Keys /\ E(i) \in Seq(S)
             /\ \E sl : Yields(E(i), ks[i], sl, n, t) /\ Live(sl.entry, t) = Live(s[ks[i]].entry, t)
    <2> DEFINE k == ks[i]
               e == s[k].entry
    <2>1. k \in Keys /\ ~Expired(e, n) BY <1>4
    <2>2. WellFormed(e) /\ Dated(e, n) /\ ~LateSplit(k, e) BY <2>1 DEF AllFit, Fit
    <2> HIDE DEF k, e
    <2>3. LET fs == SnapshotEntry(k, e, n)
          IN  /\ fs \in Seq(GoodFrames(n))
              /\ \E sl : Yields(fs, k, sl, n, t) /\ Live(sl.entry, t) = Live(e, t)
        BY <2>1, <2>2, EntryReplays
    <2> QED BY <2>1, <2>3 DEF k, e
<1>7. q \in Seq(Seq(S)) /\ Len(q) = N /\ \A i \in 1 .. N : q[i] = E(i)
    <2> HIDE DEF E, S
    <2> QED BY <1>4, <1>6
<1> HIDE DEF q, E, S, K
<1>8. PICK f : Flattens(f, q) /\ \A i \in 0 .. Len(q) : f[i] \in Seq(S) BY <1>7, FlattenLoop
<1> DEFINE Y(i) == ReplayAt(f[i], t)
           Ok(y, i) ==
              /\ Acc(y, n) /\ ~y.err
              /\ \A j \in 1 .. i : Live(y.slots[ks[j]].entry, t) = Live(s[ks[j]].entry, t)
              /\ \A k \in Keys : (\A j \in 1 .. i : ks[j] # k) => y.slots[k] = EmptySlot
           T == {i \in Nat : i <= N => Ok(Y(i), i)}
<1>9. 0 \in T
    <2>1. f[0] = <<>> BY <1>8 DEF Flattens
    <2>2. Y(0) = NothingReplayed BY <2>1, ReplayNone DEF ReplayAt
    <2>3. NothingReplayed.slots = EmptyDb /\ NothingReplayed.err = FALSE BY DEF NothingReplayed
    <2>4. \A k \in Keys : EmptyDb[k] = EmptySlot BY DEF EmptyDb
    <2>5. Ok(NothingReplayed, 0) BY <2>3, <2>4, NothingIsAcc
    <2> HIDE DEF Ok, Y
    <2> QED BY <2>2, <2>5
<1>10. ASSUME NEW i \in Nat, i \in T PROVE i + 1 \in T
    <2> SUFFICES ASSUME i + 1 <= N PROVE Ok(Y(i + 1), i + 1) OBVIOUS
    <2> DEFINE x == Y(i)
               y == Y(i + 1)
               k == ks[i + 1]
               a == f[i]
               b == q[i + 1]
    <2>1. i + 1 \in 1 .. N /\ (i + 1) - 1 = i /\ i \in 0 .. N /\ Ok(x, i) BY <1>4, <1>10
    <2>2. a \in Seq(S) /\ b \in Seq(S) /\ f[i + 1] = a \o b
        BY <1>6, <1>7, <1>8, <2>1 DEF Flattens
    <2>3. PICK sl : Yields(b, k, sl, n, t) /\ Live(sl.entry, t) = Live(s[k].entry, t)
        BY <1>6, <1>7, <2>1
    <2>4. k \in Keys BY <1>6, <2>1
    <2>5. y = ReplayFrom(x, b, t)
        <3> HIDE DEF a, b
        <3>1. ReplayFrom(NothingReplayed, a \o b, t)
                = ReplayFrom(ReplayFrom(NothingReplayed, a, t), b, t)
            BY <2>2, ReplayConcat
        <3> QED BY <2>2, <3>1 DEF ReplayAt, a
    <2> HIDE DEF x, y, a, b
    <2>6. \A j \in 1 .. i : ks[j] # k
        <3> SUFFICES ASSUME NEW j \in 1 .. i, ks[j] = k PROVE FALSE OBVIOUS
        <3>1. j \in 1 .. N /\ j # i + 1 BY <1>4, <2>1
        <3> QED BY <1>2, <2>1, <3>1 DEF k, N
    <2>7. x.slots[k] = EmptySlot BY <2>1, <2>4, <2>6
    <2>8. Moved(x, y, k, sl, n) BY <2>1, <2>3, <2>5, <2>7 DEF Yields
    <2>9. Acc(y, n) /\ ~y.err /\ y.slots[k] = sl /\ \A j \in Keys \ {k} : y.slots[j] = x.slots[j]
        BY <2>8 DEF Moved
    <2>10. ASSUME NEW j \in 1 .. i + 1
           PROVE  Live(y.slots[ks[j]].entry, t) = Live(s[ks[j]].entry, t)
        <3>1. CASE j = i + 1 BY <2>3, <2>9, <3>1 DEF k
        <3>2. CASE j # i + 1
            <4>1. j \in 1 .. i /\ j \in 1 .. N BY <1>4, <2>1, <3>2
            <4>2. ks[j] \in Keys \ {k} BY <1>6, <2>6, <4>1
            <4>3. y.slots[ks[j]] = x.slots[ks[j]] BY <2>9, <4>2
            <4> QED BY <2>1, <4>1, <4>3
        <3> QED BY <3>1, <3>2
    <2>11. ASSUME NEW g \in Keys, \A j \in 1 .. i + 1 : ks[j] # g PROVE y.slots[g] = EmptySlot
        <3>1. 1 .. i \subseteq 1 .. i + 1 /\ i + 1 \in 1 .. i + 1 OBVIOUS
        <3>2. g # k /\ \A j \in 1 .. i : ks[j] # g BY <2>11, <3>1 DEF k
        <3> QED BY <2>1, <2>9, <3>2
    <2>12. Ok(y, i + 1) BY <2>9, <2>10, <2>11
    <2> QED BY <2>12 DEF y
<1> HIDE DEF T, Y
<1>11. N \in T BY <1>4, <1>9, <1>10, ByInduction
<1>12. Ok(Y(N), N) BY <1>4, <1>11 DEF T
<1>13. SnapshotFrames(s, n) = f[N] /\ f[N] \in Seq(S) BY <1>3, <1>4, <1>7, <1>8 DEF Flattens
<1> DEFINE r == Y(N)
<1> HIDE DEF r
<1>14. ASSUME NEW k \in Keys PROVE Live(r.slots[k].entry, t) = Live(s[k].entry, t)
    <2>1. CASE k \in K
        <3>1. PICK i \in 1 .. N : ks[i] = k BY <1>5, <2>1
        <3> QED BY <1>12, <3>1 DEF r
    <2>2. CASE k \notin K
        <3>1. \A i \in 1 .. N : ks[i] # k BY <1>4, <2>2
        <3>2. r.slots[k] = EmptySlot BY <1>12, <3>1 DEF r
        <3>3. Live(r.slots[k].entry, t) = Absent BY <3>2 DEF EmptySlot, Live
        <3>4. Expired(s[k].entry, n) BY <2>2 DEF K
        <3>5. IsEntry(s[k].entry) BY DEF AllFit, Fit, Good
        <3>6. Expired(s[k].entry, t) BY <3>4, <3>5, Lasting
        <3> QED BY <3>3, <3>6 DEF Live
    <2> QED BY <2>1, <2>2
<1>15. Agree(r.slots, t, s, t) BY <1>14 DEF Agree
<1>16. Acc(r, n) /\ ~r.err BY <1>12 DEF r
<1>17. ReplayAt(SnapshotFrames(s, n), t) = r BY <1>13 DEF r, Y
<1> QED BY <1>13, <1>15, <1>16, <1>17 DEF S

-----------------------------------------------------------------------------
(***************************************************************************)
(* The state machine.                                                      *)
(***************************************************************************)

\* The frames, replayed at time t, give back what readers see in the slots s.
GivesBack(fs, s, t) ==
    LET r == ReplayAt(fs, t) IN ~r.err /\ Agree(r.slots, t, s, t)

\* When each frame was logged.
Stamped(fs, ss, n) ==
    /\ ss \in Seq(Times) /\ Len(ss) = Len(fs)
    /\ \A i \in 1 .. Len(fs) : ss[i] <= n

\* No deadline in the file fs has passed between its logging and the time n.
Unlapsed(fs, ss, n) ==
    \A i \in 1 .. Len(fs) : fs[i].cmd.at \in {Never} \cup (0 .. ss[i]) \/ fs[i].cmd.at > n

\* The inductive invariant: the entries are as the commands leave them, the frames are
\* as aof_frame and the rewrite make them, and until a deadline lapses the file gives
\* back the key space, unless it has a PEXPIRE.
RecoveryInv ==
    /\ now \in Nat /\ now <= MaxAbsolute
    /\ AllFit(slots, now)
    /\ log \in Seq(GoodFrames(now)) /\ Stamped(log, stamps, now)
    /\ Unlapsed(log, stamps, now) /\ ~HasPExpire(log) => GivesBack(log, slots, now)

\* NoneLapsed and NonePExpire are about the file as it is.
LEMMA NoneLapsedMeans ==
    /\ NoneLapsed <=> Unlapsed(log, stamps, now)
    /\ NonePExpire <=> ~HasPExpire(log)
BY DEF NoneLapsed, Unlapsed, NonePExpire, HasPExpire

\* What later times accept: slots and frames of an earlier one.
LEMMA Later ==
    ASSUME NEW m \in Nat, NEW n \in Nat, m <= n
    PROVE  /\ \A s : AllFit(s, m) => AllFit(s, n)
           /\ GoodFrames(m) \subseteq GoodFrames(n)
           /\ \A fs : fs \in Seq(GoodFrames(m)) => fs \in Seq(GoodFrames(n))
<1>1. ASSUME NEW sl, Fit(sl, m) PROVE Fit(sl, n)
    <2> DEFINE d == sl.entry.expires
    <2>1. d \in Int /\ d <= m + MaxAbsolute BY <1>1, Numbers DEF Fit, Good, IsEntry, Dated
    <2> HIDE DEF d
    <2>2. d <= n + MaxAbsolute BY <2>1, Numbers
    <2> QED BY <1>1, <2>2 DEF Fit, Dated, d
<1>2. \A s : AllFit(s, m) => AllFit(s, n) BY <1>1 DEF AllFit
<1>3. GoodFrames(m) \subseteq GoodFrames(n) BY FrameLasts DEF GoodFrames
<1>4. \A fs : fs \in Seq(GoodFrames(m)) => fs \in Seq(GoodFrames(n))
    <2> DEFINE A == GoodFrames(m)
               B == GoodFrames(n)
    <2>1. A \subseteq B BY <1>3
    <2> HIDE DEF A, B
    <2>2. \A fs : fs \in Seq(A) => fs \in Seq(B) BY <2>1, SeqMonotonic
    <2> QED BY <2>2 DEF A, B
<1> QED BY <1>2, <1>3, <1>4

\* The empty key space and the empty file.
LEMMA RecoveryInit == Init => RecoveryInv
<1> SUFFICES ASSUME Init PROVE RecoveryInv OBVIOUS
<1>1. now \in Nat /\ now <= MaxAbsolute BY Numbers DEF Init
<1>2. Acc(NothingReplayed, now) BY <1>1, NothingIsAcc
<1>3. NothingReplayed.slots = EmptyDb /\ NothingReplayed.err = FALSE BY DEF NothingReplayed
<1>4. AllFit(slots, now) BY <1>2, <1>3 DEF Init, Acc
<1>5. log \in Seq(GoodFrames(now)) /\ Stamped(log, stamps, now)
    BY DEF Init, Stamped
<1>6. ReplayAt(log, now) = NothingReplayed BY ReplayNone DEF Init, ReplayAt
<1>7. GivesBack(log, slots, now) BY <1>3, <1>6 DEF GivesBack, Agree, Init
<1> QED BY <1>1, <1>4, <1>5, <1>7 DEF RecoveryInv

\* The time passes: if no deadline in the file lapses, replay does the same as before.
LEMMA TickKeeps == RecoveryInv /\ Tick => RecoveryInv'
<1> SUFFICES ASSUME RecoveryInv, Tick PROVE RecoveryInv' OBVIOUS
<1> DEFINE u == now
           v == now'
<1>0. /\ u \in Nat /\ u < MaxAbsolute /\ v = u + 1 /\ slots' = slots /\ log' = log
      /\ stamps' = stamps /\ AllFit(slots, u) /\ log \in Seq(GoodFrames(u))
      /\ Stamped(log, stamps, u)
      /\ Unlapsed(log, stamps, u) /\ ~HasPExpire(log) => GivesBack(log, slots, u)
    BY DEF Tick, RecoveryInv
<1> HIDE DEF u, v
<1>1. v \in Nat /\ v <= MaxAbsolute /\ u <= v BY <1>0, Numbers
<1>2. AllFit(slots, v) /\ log \in Seq(GoodFrames(v)) BY <1>0, <1>1, Later
<1>3. Stamped(log, stamps, v)
    <2> SUFFICES ASSUME NEW i \in 1 .. Len(log) PROVE stamps[i] <= v BY <1>0 DEF Stamped
    <2>1. stamps[i] \in Times /\ stamps[i] <= u BY <1>0 DEF Stamped
    <2> QED BY <1>0, <1>1, <2>1, Numbers
<1>4. ASSUME Unlapsed(log, stamps, v), ~HasPExpire(log) PROVE GivesBack(log, slots, v)
    <2>1. ASSUME NEW i \in 1 .. Len(log)
          PROVE  /\ log[i].cmd.at <= u \/ log[i].cmd.at > v
                 /\ log[i].cmd.at \in {Never} \cup (0 .. stamps[i]) \/ log[i].cmd.at > u
        <3> DEFINE d == log[i].cmd.at
        <3>1. d \in {Never} \cup (0 .. stamps[i]) \/ d > v BY <1>4, <2>1 DEF Unlapsed
        <3>2. stamps[i] \in Times /\ stamps[i] <= u BY <1>0 DEF Stamped
        <3>3. log[i] \in GoodFrames(u) BY <1>0
        <3>4. d \in Deadlines BY <3>3 DEF GoodFrames, Command
        <3> HIDE DEF d
        <3>5. d <= u \/ d > v BY <1>0, <3>1, <3>2, <3>4, Numbers
        <3>6. d > v => d > u BY <1>0, <3>4, Numbers
        <3> QED BY <3>1, <3>5, <3>6 DEF d
    <2>2. Unlapsed(log, stamps, u) BY <2>1 DEF Unlapsed
    <2> DEFINE r == ReplayAt(log, u)
               q == ReplayAt(log, v)
    <2>3. ~r.err /\ Agree(r.slots, u, slots, u) BY <1>0, <1>4, <2>2 DEF GivesBack
    <2>4. r.err = q.err /\ (~r.err => Agree(r.slots, u, q.slots, v))
        BY <1>0, <1>1, <2>1, ReplaySame
    <2> HIDE DEF r, q
    <2>5. ASSUME NEW k \in Keys PROVE Live(q.slots[k].entry, v) = Live(slots[k].entry, v)
        <3> DEFINE e == slots[k].entry
                   b == q.slots[k].entry
        <3>1. Live(e, u) = Live(b, v) BY <2>3, <2>4 DEF Agree
        <3>2. IsEntry(e) BY <1>0 DEF AllFit, Fit, Good
        <3> HIDE DEF e, b
        <3>3. CASE Expired(e, u)
            <4>1. Expired(e, v) BY <1>0, <1>1, <3>2, <3>3, Lasting
            <4> QED BY <3>1, <3>3, <4>1 DEF Live, e, b
        <3>4. CASE ~Expired(e, u)
            <4>1. Live(b, v) = e BY <3>1, <3>4 DEF Live
            <4>2. ~Expired(Absent, v) BY DEF Expired, Absent
            <4>3. ~Expired(e, v) BY <4>1, <4>2 DEF Live
            <4> QED BY <4>1, <4>3 DEF Live, e, b
        <3> QED BY <3>3, <3>4
    <2>6. Agree(q.slots, v, slots, v) BY <2>5 DEF Agree
    <2> QED BY <2>3, <2>4, <2>6 DEF GivesBack, q
<1> QED BY <1>0, <1>1, <1>2, <1>3, <1>4 DEF RecoveryInv, v

\* A write: replay does to the key space it has rebuilt what the command did to the one
\* that was there, and a command that fails, and is not logged, leaves what readers see.
LEMMA WriteKeeps == ASSUME NEW c \in Requests PROVE RecoveryInv /\ Write(c) => RecoveryInv'
<1> SUFFICES ASSUME RecoveryInv, Write(c) PROVE RecoveryInv' OBVIOUS
<1> DEFINE n == now
           r == ApplyAll(c, slots, n)
           h == Frame(c, n)
           S == GoodFrames(n)
<1>0. /\ n \in Nat /\ n <= MaxAbsolute /\ now' = n /\ slots' = r.slots
      /\ log' = (IF r.err THEN log ELSE Append(log, h))
      /\ stamps' = (IF r.err THEN stamps ELSE Append(stamps, n))
      /\ AllFit(slots, n) /\ log \in Seq(S) /\ Stamped(log, stamps, n)
      /\ Unlapsed(log, stamps, n) /\ ~HasPExpire(log) => GivesBack(log, slots, n)
    BY DEF Write, RecoveryInv
<1>1. Sent(c, n) BY RecoveryAssumption DEF Sent, Write
<1> HIDE DEF n, r, h, S
<1>2. r.err \in BOOLEAN /\ AllFit(r.slots, n) /\ (r.err => Agree(r.slots, n, slots, n))
    BY <1>0, <1>1, ApplyAllFit DEF r
<1>3. CASE r.err
    <2>1. log' = log /\ stamps' = stamps BY <1>0, <1>3
    <2>2. ASSUME GivesBack(log, slots, n) PROVE GivesBack(log, r.slots, n)
        BY <1>2, <1>3, <2>2 DEF GivesBack, Agree
    <2> QED BY <1>0, <1>2, <2>1, <2>2 DEF RecoveryInv, S
<1>4. CASE ~r.err
    <2> DEFINE fs == Append(log, h)
               ss == Append(stamps, n)
               N == Len(log)
    <2>1. log' = fs /\ stamps' = ss BY <1>0, <1>4
    <2>2. h \in S /\ h.cmd = c /\ GoodFrame(h, n) /\ ~IsPExpire(h)
        <3>1. h \in S /\ h.cmd = c /\ ~IsPExpire(h) BY <1>0, <1>1, FrameOf DEF h, S
        <3> QED BY <3>1 DEF S, GoodFrames
    <2>3. stamps \in Seq(Times) /\ Len(stamps) = N /\ \A i \in 1 .. N : stamps[i] <= n
        BY <1>0 DEF Stamped
    <2>4. n \in Times BY <1>0, Numbers
    <2>5. /\ N \in Nat /\ fs \in Seq(S) /\ Len(fs) = N + 1 /\ fs[N + 1] = h
          /\ \A i \in 1 .. N : fs[i] = log[i]
        BY <1>0, <2>2
    <2>6. /\ ss \in Seq(Times) /\ Len(ss) = N + 1 /\ ss[N + 1] = n
          /\ \A i \in 1 .. N : ss[i] = stamps[i]
        BY <2>3, <2>4, <2>5
    <2>7. ReplayAt(fs, n) = ReplayFrame(ReplayAt(log, n), h, n)
        BY <1>0, <2>2, ReplayAppend DEF ReplayAt
    <2> HIDE DEF fs, ss, N
    <2>8. Stamped(fs, ss, n)
        <3> SUFFICES ASSUME NEW i \in 1 .. N + 1 PROVE ss[i] <= n BY <2>5, <2>6 DEF Stamped
        <3>1. CASE i = N + 1 BY <1>0, <2>6, <3>1
        <3>2. CASE i # N + 1
            <4>1. i \in 1 .. N BY <2>5, <3>2
            <4> QED BY <2>3, <2>6, <4>1
        <3> QED BY <3>1, <3>2
    <2>9. ASSUME Unlapsed(fs, ss, n), ~HasPExpire(fs) PROVE GivesBack(fs, r.slots, n)
        <3>1. Unlapsed(log, stamps, n)
            <4> SUFFICES ASSUME NEW i \in 1 .. N
                         PROVE  \/ log[i].cmd.at \in {Never} \cup (0 .. stamps[i])
                                \/ log[i].cmd.at > n
                BY DEF Unlapsed, N
            <4>1. i \in 1 .. N + 1 BY <2>5
            <4>2. fs[i].cmd.at \in {Never} \cup (0 .. ss[i]) \/ fs[i].cmd.at > n
                BY <2>5, <2>9, <4>1 DEF Unlapsed
            <4> QED BY <2>5, <2>6, <4>2
        <3> DEFINE p == ReplayAt(log, n)
                   q == ReplayAt(fs, n)
                   w == ApplyAll(c, p.slots, n)
        <3>0. ~HasPExpire(log)
            <4>1. \A i \in 1 .. N : i \in 1 .. N + 1 BY <2>5
            <4> QED BY <2>5, <2>9, <4>1 DEF HasPExpire, N
        <3>2. ~p.err /\ Agree(p.slots, n, slots, n) BY <1>0, <3>0, <3>1 DEF GivesBack
        <3>3. Acc(p, n) BY <1>0, ReplayPrefix DEF S
        <3> HIDE DEF p, q
        <3>4. q.slots = w.slots /\ q.err = w.err
            BY <1>0, <2>2, <2>7, <3>2, <3>3, ReplayFrameFit DEF p, q
        <3>5. c.at \in Int BY <1>1, Numbers DEF Sent, Command
        <3>6. c.at <= n \/ c.at > n BY <1>0, <3>5
        <3>7. w.err = r.err /\ (~w.err => Agree(w.slots, n, r.slots, n))
            BY <1>0, <1>1, <3>2, <3>3, <3>6, ApplyAllSame DEF Acc, r
        <3> QED BY <1>4, <3>4, <3>7 DEF GivesBack, q
    <2> QED BY <1>0, <1>2, <2>1, <2>5, <2>8, <2>9 DEF RecoveryInv, S
<1> QED BY <1>2, <1>3, <1>4

\* The sweeper takes away what readers do not see.
LEMMA SweepKeeps == RecoveryInv /\ Sweep => RecoveryInv'
<1> SUFFICES ASSUME RecoveryInv, Sweep PROVE RecoveryInv' OBVIOUS
<1> DEFINE n == now
           s == [k \in Keys |-> SweepEntry(slots[k], n)]
<1>0. /\ n \in Nat /\ n <= MaxAbsolute /\ now' = n /\ slots' = s /\ log' = log
      /\ stamps' = stamps /\ AllFit(slots, n) /\ log \in Seq(GoodFrames(n))
      /\ Stamped(log, stamps, n)
      /\ Unlapsed(log, stamps, n) /\ ~HasPExpire(log) => GivesBack(log, slots, n)
    BY DEF Sweep, RecoveryInv
<1> HIDE DEF n
<1>1. ASSUME NEW k \in Keys
      PROVE  Fit(s[k], n) /\ Live(s[k].entry, n) = Live(slots[k].entry, n)
    <2>1. Fit(slots[k], n) BY <1>0 DEF AllFit
    <2>2. s[k] = IF Expired(slots[k].entry, n) THEN EmptySlot ELSE slots[k]
        BY <1>0, <2>1, Sweeping DEF Fit
    <2>3. Live(EmptySlot.entry, n) = Absent BY DEF EmptySlot, Live
    <2>4. CASE Expired(slots[k].entry, n)
        <3>1. s[k] = EmptySlot BY <2>2, <2>4
        <3>2. Live(slots[k].entry, n) = Absent BY <2>4 DEF Live
        <3> HIDE DEF s
        <3> QED BY <1>0, <2>3, <3>1, <3>2, EmptyIsFit
    <2>5. CASE ~Expired(slots[k].entry, n) BY <2>1, <2>2, <2>5
    <2> QED BY <2>4, <2>5
<1>2. s = [k \in Keys |-> s[k]] OBVIOUS
<1> HIDE DEF s
<1>3. AllFit(s, n) BY <1>1, <1>2 DEF AllFit
<1>4. GivesBack(log, slots, n) => GivesBack(log, s, n) BY <1>1 DEF GivesBack, Agree
<1> QED BY <1>0, <1>3, <1>4 DEF RecoveryInv

\* A rewrite: the snapshot gives back the key space it was taken of, or has a PEXPIRE.
LEMMA RewriteKeeps == RecoveryInv /\ Rewrite => RecoveryInv'
<1> SUFFICES ASSUME RecoveryInv, Rewrite PROVE RecoveryInv' OBVIOUS
<1> DEFINE n == now
           fs == SnapshotFrames(slots, n)
           ss == [i \in 1 .. Len(fs) |-> n]
<1>0. /\ n \in Nat /\ n <= MaxAbsolute /\ now' = n /\ slots' = slots /\ log' = fs
      /\ stamps' = ss /\ AllFit(slots, n)
    BY DEF Rewrite, RecoveryInv
<1> HIDE DEF n
<1>1. fs \in Seq(GoodFrames(n)) BY <1>0, SnapshotPExpires
<1>2. ASSUME ~HasPExpire(fs) PROVE GivesBack(fs, slots, n)
    <2> DEFINE r == ReplayAt(fs, n)
    <2>1. \A k \in Keys : ~LateSplit(k, slots[k].entry) BY <1>0, <1>2, SnapshotPExpires
    <2>2. ~r.err /\ Agree(r.slots, n, slots, n) BY <1>0, <2>1, SnapshotReplays
    <2> QED BY <2>2 DEF GivesBack
<1> HIDE DEF fs
<1>3. n \in Times /\ Len(fs) \in Nat BY <1>0, <1>1, Numbers
<1>4. Stamped(fs, ss, n) BY <1>0, <1>3 DEF Stamped
<1> HIDE DEF ss
<1> QED BY <1>0, <1>1, <1>2, <1>4 DEF RecoveryInv

\* A restart: the frames that are kept give back what replay has left.
LEMMA RestartKeeps == RecoveryInv /\ Restart => RecoveryInv'
<1> SUFFICES ASSUME RecoveryInv, Restart PROVE RecoveryInv' OBVIOUS
<1> DEFINE n == now
           r == ReplayAt(log, n)
           a == r.applied
           fs == SubSeq(log, 1, a)
           ss == SubSeq(stamps, 1, a)
           q == ReplayAt(fs, n)
<1>0. /\ n \in Nat /\ n <= MaxAbsolute /\ now' = n /\ slots' = r.slots /\ log' = fs
      /\ stamps' = ss /\ log \in Seq(GoodFrames(n)) /\ Stamped(log, stamps, n)
    BY DEF Restart, RecoveryInv
<1> HIDE DEF n
<1>1. /\ Acc(r, n) /\ a \in 0 .. Len(log) /\ ~q.err /\ Agree(r.slots, n, q.slots, n)
    BY <1>0, ReplayPrefix
<1> HIDE DEF q, r, a
<1>2. Agree(q.slots, n, r.slots, n) BY <1>1 DEF Agree
<1>3. GivesBack(fs, r.slots, n) BY <1>1, <1>2 DEF GivesBack, q
<1>4. fs \in Seq(GoodFrames(n)) /\ Len(fs) = a BY <1>0, <1>1
<1>5. Stamped(fs, ss, n)
    <2>1. stamps \in Seq(Times) /\ Len(stamps) = Len(log) /\ \A i \in 1 .. Len(log) : stamps[i] <= n
        BY <1>0 DEF Stamped
    <2>2. ss \in Seq(Times) /\ Len(ss) = a /\ \A i \in 1 .. a : ss[i] = stamps[i]
        BY <1>1, <2>1
    <2>3. \A i \in 1 .. a : i \in 1 .. Len(log) BY <1>0, <1>1
    <2> HIDE DEF fs, ss
    <2> QED BY <1>4, <2>1, <2>2, <2>3 DEF Stamped
<1>6. AllFit(r.slots, n) BY <1>1 DEF Acc
<1> HIDE DEF fs, ss
<1> QED BY <1>0, <1>3, <1>4, <1>5, <1>6 DEF RecoveryInv

\* Every step keeps the invariant.
THEOREM RecoveryInvariant == Spec => []RecoveryInv
<1>1. Init => RecoveryInv BY RecoveryInit
<1>2. RecoveryInv /\ [Next]_vars => RecoveryInv'
    <2> SUFFICES ASSUME RecoveryInv, [Next]_vars PROVE RecoveryInv' OBVIOUS
    <2>1. CASE Tick BY <2>1, TickKeeps
    <2>2. ASSUME NEW c \in Requests, Write(c) PROVE RecoveryInv' BY <2>2, WriteKeeps
    <2>3. CASE Sweep BY <2>3, SweepKeeps
    <2>4. CASE Rewrite BY <2>4, RewriteKeeps
    <2>5. CASE Restart BY <2>5, RestartKeeps
    <2>6. CASE UNCHANGED vars BY <2>6 DEF RecoveryInv, vars
    <2> QED BY <2>1, <2>2, <2>3, <2>4, <2>5, <2>6 DEF Next
<1> QED BY <1>1, <1>2, PTL DEF Spec

\* A slot with the rows of its entry is one.
LEMMA FitIsSlot == ASSUME NEW n, NEW sl, Fit(sl, n) PROVE sl \in Slot
<1> DEFINE rows == [t \in Times |-> IF sl.entry.expires = t THEN 1 ELSE 0]
<1>1. sl = [entry |-> sl.entry, rows |-> rows] BY DEF Fit, Good, Indexed
<1>2. sl.entry \in Entry BY DEF Fit, WellFormed
<1>3. rows \in [Times -> Nat] OBVIOUS
<1> HIDE DEF rows
<1> QED BY <1>1, <1>2, <1>3 DEF Slot

\* Every variable keeps its type: a restart builds only entries of the right shape from the
\* frames of the file, and a rewrite writes only frames that from_frame accepts.
THEOREM RecoveryTypeCorrect == Spec => []TypeOK
<1>1. RecoveryInv => TypeOK
    <2> SUFFICES ASSUME RecoveryInv PROVE TypeOK OBVIOUS
    <2>1. slots \in [Keys -> Slot] BY FitIsSlot DEF RecoveryInv, AllFit
    <2>2. now \in Times BY Numbers DEF RecoveryInv
    <2>3. log \in Seq([cmd: Command, px: Times])
        <3> DEFINE A == GoodFrames(now)
                   B == [cmd: Command, px: Times]
        <3>1. A \subseteq B BY DEF GoodFrames
        <3>2. log \in Seq(A) BY DEF RecoveryInv
        <3> HIDE DEF A, B
        <3>3. log \in Seq(B) BY <3>1, <3>2, SeqMonotonic
        <3> QED BY <3>3 DEF B
    <2> QED BY <2>1, <2>2, <2>3 DEF RecoveryInv, Stamped, TypeOK
<1> QED BY <1>1, RecoveryInvariant, PTL

\* The snapshot that BGREWRITEAOF would write of any reachable key space replays without
\* an error at any later time, to what is then left of the key space (strings with their
\* deadline or in pieces, lists and hashes item by item and then their deadline), exactly
\* if no string with a deadline beyond the signed range is too long for one SET.
THEOREM SnapshotAlwaysReplays == Spec => []SnapshotReplaysLater
<1>1. RecoveryInv => SnapshotReplaysLater
    <2> DEFINE fs == SnapshotFrames(slots, now)
    <2> SUFFICES ASSUME RecoveryInv, NEW t \in now .. MaxAbsolute
                 PROVE  ReplaysAt(slots, t) <=> \A k \in Keys : ~LateSplit(k, slots[k].entry)
        BY DEF SnapshotReplaysLater
    <2>1. /\ now \in Nat /\ now <= MaxAbsolute /\ AllFit(slots, now) /\ t \in Nat /\ now <= t
        BY Numbers DEF RecoveryInv
    <2> DEFINE r == ReplayAt(fs, t)
    <2>2. ReplaysAt(slots, t) <=> ~r.err /\ LiveView(r.slots, t) = LiveView(slots, t)
        BY DEF ReplaysAt
    <2>3. ASSUME \A k \in Keys : ~LateSplit(k, slots[k].entry) PROVE ReplaysAt(slots, t)
        <3>1. ~r.err /\ Agree(r.slots, t, slots, t) BY <2>1, <2>3, SnapshotReplays
        <3> HIDE DEF r
        <3>2. LiveView(r.slots, t) = LiveView(slots, t) BY <3>1, ViewsAgree
        <3> QED BY <2>2, <3>1, <3>2
    <2>4. ASSUME \E k \in Keys : LateSplit(k, slots[k].entry) PROVE ~ReplaysAt(slots, t)
        <3>1. fs \in Seq(GoodFrames(now)) /\ HasPExpire(fs) BY <2>1, <2>4, SnapshotPExpires
        <3> HIDE DEF fs
        <3>2. r.err BY <2>1, <3>1, ReplayFails
        <3> QED BY <2>2, <3>2
    <2> QED BY <2>3, <2>4
<1> QED BY <1>1, RecoveryInvariant, PTL

\* A restart before any deadline in the file has lapsed, and with no PEXPIRE in it,
\* truncates nothing and brings every key back, whatever commands, sweeps, rewrites and
\* restarts came before, for files of any length.
THEOREM RestartsAreFaithful == Spec => RestartIsFaithful
<1>1. RecoveryInv /\ [Next]_vars
        => [Restart /\ NoneLapsed /\ NonePExpire =>
               log' = log /\ LiveView(slots', now) = LiveView(slots, now)]_vars
    <2> SUFFICES ASSUME RecoveryInv, Restart, NoneLapsed, NonePExpire
                 PROVE  log' = log /\ LiveView(slots', now) = LiveView(slots, now)
        OBVIOUS
    <2> DEFINE r == ReplayAt(log, now)
    <2>1. GivesBack(log, slots, now) BY NoneLapsedMeans DEF RecoveryInv
    <2>2. ~r.err /\ Agree(r.slots, now, slots, now) BY <2>1 DEF GivesBack
    <2>3. now \in Nat /\ log \in Seq(GoodFrames(now)) BY DEF RecoveryInv
    <2>4. r.applied = Len(log) BY <2>2, <2>3, ReplayPrefix
    <2>5. slots' = r.slots /\ log' = SubSeq(log, 1, r.applied) BY DEF Restart
    <2>6. SubSeq(log, 1, Len(log)) = log BY <2>3
    <2> HIDE DEF r
    <2>7. LiveView(r.slots, now) = LiveView(slots, now) BY <2>2, ViewsAgree
    <2> QED BY <2>4, <2>5, <2>6, <2>7
<1> QED BY <1>1, RecoveryInvariant, PTL DEF Spec, RestartIsFaithful

=============================================================================
