--------------------------- MODULE CommandsProofs ---------------------------
(***************************************************************************)
(* What the write commands make of one key, proved for all values of the   *)
(* constants of Commands; Keyspace and Recovery both rest on it.           *)
(*                                                                         *)
(* First the rows.  Call a slot good if its rows are exactly those its     *)
(* entry calls for (Good): every operation of Shard and so every command   *)
(* keeps a good slot good (the lemmas up to Applying).  Then the entry:    *)
(* each command keeps it well formed, and one that fails leaves what a     *)
(* reader sees (the lemmas up to ApplyEntry).                              *)
(***************************************************************************)
EXTENDS Commands, SequenceTheorems, FiniteSetTheorems, TLAPS

\* What the index needs to know of an entry: its deadline is one, and a
\* missing entry has none.
IsEntry(e) ==
    /\ e = [type |-> e.type, data |-> e.data, expires |-> e.expires]
    /\ e.expires \in Deadlines
    /\ e.type = "none" => e = Absent

\* A key in no row.
NoRows == [t \in Times |-> 0]

\* The entry, and the rows it calls for.
Indexed(e) ==
    [entry |-> e, rows |-> [t \in Times |-> IF e.expires = t THEN 1 ELSE 0]]

\* The slot is in exactly the rows it should be in.
Good(sl) == IsEntry(sl.entry) /\ sl = Indexed(sl.entry)

\* An entry in the rows that belong to it makes a good slot.
LEMMA GoodIndexed == ASSUME NEW e, IsEntry(e) PROVE Good(Indexed(e))
BY DEF Good, Indexed

\* The missing entry is an entry without a deadline.
LEMMA AbsentIsEntry == IsEntry(Absent)
BY DEF IsEntry, Absent, Deadlines

\* A key that was never set is in no row.
LEMMA EmptyIsGood == Good(EmptySlot)
<1>1. EmptySlot = Indexed(Absent)
    BY CommandsAssumption DEF EmptySlot, Indexed, Absent, Never, Times
<1> QED BY <1>1, AbsentIsEntry, GoodIndexed

\* unindex_expiration, called with the deadline of the entry as every caller
\* does, leaves the key in no row at all.
LEMMA Unindexing ==
    ASSUME NEW sl, Good(sl)
    PROVE  UnindexExpiration(sl, sl.entry.expires)
             = [entry |-> sl.entry, rows |-> NoRows]
<1> DEFINE e == sl.entry
           r == [u \in Times |-> IF u = e.expires THEN 0 ELSE sl.rows[u]]
<1>1. sl = [entry |-> e, rows |-> sl.rows] BY DEF Good, Indexed
<1>2. \A u \in Times : sl.rows[u] = IF e.expires = u THEN 1 ELSE 0
    BY DEF Good, Indexed
<1>3. r = NoRows BY <1>2 DEF NoRows
<1>4. UnindexExpiration(sl, e.expires) = [sl EXCEPT !.rows = r]
    BY DEF UnindexExpiration
<1> HIDE DEF r
<1>5. [sl EXCEPT !.rows = r] = [entry |-> e, rows |-> r] BY <1>1
<1> QED BY <1>3, <1>4, <1>5

\* A key that is in no row is in exactly the right one after the push that
\* set, expire_at and restore_entries end with.
LEMMA Indexing ==
    ASSUME NEW e, IsEntry(e)
    PROVE  IndexExpiration([entry |-> e, rows |-> NoRows], e.expires) = Indexed(e)
BY DEF IndexExpiration, NoRows, Indexed

\* An entry without a deadline (persist, or_insert) needs no row.
LEMMA Unentered ==
    ASSUME NEW e, IsEntry(e), e.expires = Never
    PROVE  [entry |-> e, rows |-> NoRows] = Indexed(e)
BY CommandsAssumption DEF NoRows, Indexed, Times, Never

\* remove_entry leaves nothing of the key, in the map or in the index.
LEMMA Removing == ASSUME NEW sl, Good(sl) PROVE RemoveEntry(sl) = EmptySlot
<1>1. RemoveEntry(sl) = [[entry |-> sl.entry, rows |-> NoRows] EXCEPT !.entry = Absent]
    BY Unindexing DEF RemoveEntry
<1> QED BY <1>1 DEF EmptySlot, NoRows

\* expire_if_stale keeps a slot good.
LEMMA Staling ==
    ASSUME NEW sl, Good(sl), NEW n
    PROVE  Good(ExpireIfStale(sl, n))
BY Removing, EmptyIsGood DEF ExpireIfStale

\* entries.entry(key).or_insert(..) after expire_if_stale: the entry it
\* inserts has no deadline and finds no row of a predecessor.
LEMMA Inserting ==
    ASSUME NEW sl, Good(sl), NEW n, NEW ty, ty # "none", NEW d
    PROVE  Good(OrInsert(sl, n, ty, d)) /\ OrInsert(sl, n, ty, d).entry.type # "none"
<1> DEFINE s == ExpireIfStale(sl, n)
           e == [type |-> ty, data |-> d, expires |-> Never]
<1>1. Good(s) BY Staling
<1>2. IsEntry(e) /\ e.expires = Never BY DEF IsEntry, Deadlines
<1>3. ASSUME s.entry.type = "none"
      PROVE  Good([s EXCEPT !.entry = e]) /\ [s EXCEPT !.entry = e].entry.type # "none"
    <2>1. s = Indexed(Absent) BY <1>1, <1>3 DEF Good, IsEntry
    <2>2. s = [entry |-> Absent, rows |-> NoRows]
        BY <2>1, AbsentIsEntry, Unentered DEF Absent
    <2>3. [s EXCEPT !.entry = e] = [entry |-> e, rows |-> NoRows] BY <2>2
    <2>4. [s EXCEPT !.entry = e] = Indexed(e) BY <2>3, <1>2, Unentered
    <2> QED BY <2>3, <2>4, <1>2, GoodIndexed
<1> QED BY <1>1, <1>3 DEF OrInsert

\* restore_entries puts a saved entry back with its row, whatever the command
\* has made of the key in the meantime.
LEMMA Restoring ==
    ASSUME NEW sl, Good(sl), NEW e, IsEntry(e)
    PROVE  Good(RestoreEntry(sl, e))
<1>1. [RemoveEntry(sl) EXCEPT !.entry = e] = [entry |-> e, rows |-> NoRows]
    BY Removing DEF EmptySlot, NoRows
<1> QED BY <1>1, Indexing, GoodIndexed DEF RestoreEntry

\* sweep_once does to a key with an exact index what a look at its entry
\* would do: it goes if its deadline is due at the time the sweep read, and is
\* untouched, rows included, if not.
LEMMA Sweeping ==
    ASSUME NEW sl, Good(sl), NEW n \in Int
    PROVE  SweepEntry(sl, n) = IF Expired(sl.entry, n) THEN EmptySlot ELSE sl
<1> DEFINE e == sl.entry
           r == [t \in Times |-> IF t <= n THEN 0 ELSE sl.rows[t]]
<1>1. sl = [entry |-> e, rows |-> sl.rows] BY DEF Good, Indexed
<1>2. sl.rows = [t \in Times |-> IF e.expires = t THEN 1 ELSE 0]
    BY DEF Good, Indexed
<1>3. e.expires \in Deadlines /\ Times \subseteq Int /\ Never \notin Times
    BY CommandsAssumption DEF Good, IsEntry, Times, Never
<1>4. CASE Expired(e, n)
    <2>1. e.expires \in Times /\ e.expires <= n
        BY <1>3, <1>4 DEF Expired, Deadlines
    <2>2. \E t \in Times : t <= n /\ sl.rows[t] > 0
        BY <1>2, <2>1
    <2>3. r = NoRows BY <1>2, <1>3, <2>1 DEF NoRows
    <2> QED BY <1>4, <2>2, <2>3 DEF SweepEntry, EmptySlot, NoRows
<1>5. CASE ~Expired(e, n)
    <2>1. \A t \in Times : (IF t <= n THEN 0 ELSE sl.rows[t]) = sl.rows[t]
        BY <1>2, <1>3, <1>5 DEF Expired
    <2>2. r = sl.rows BY <2>1, <1>2
    <2> QED BY <1>1, <1>5, <2>2 DEF SweepEntry
<1> QED BY <1>4, <1>5

\* A command that changes a value in place leaves the deadline and the rows.
LEMMA Changing ==
    ASSUME NEW sl, Good(sl), sl.entry.type # "none", NEW d
    PROVE  Good([sl EXCEPT !.entry.data = d])
<1> DEFINE e == [sl.entry EXCEPT !.data = d]
<1>1. IsEntry(e) /\ e.expires = sl.entry.expires BY DEF Good, IsEntry
<1>2. [sl EXCEPT !.entry.data = d] = Indexed(e) BY <1>1 DEF Good, Indexed
<1> QED BY <1>1, <1>2, GoodIndexed

\* set moves the key from the row of the old deadline to that of the new one,
\* and does nothing when the value is too large.
LEMMA Setting ==
    ASSUME NEW sl, Good(sl), NEW b, NEW t \in Deadlines
    PROVE  Good(SetAt(sl, b, t).slot)
<1> DEFINE e == StringEntry(b, t)
           u == UnindexExpiration(sl, sl.entry.expires)
<1>1. IsEntry(e) /\ e.expires = t BY DEF IsEntry, StringEntry
<1>2. u = [entry |-> sl.entry, rows |-> NoRows] BY Unindexing
<1>3. [u EXCEPT !.entry = e] = [entry |-> e, rows |-> NoRows] BY <1>2
<1>4. IndexExpiration([u EXCEPT !.entry = e], t) = Indexed(e)
    BY <1>1, <1>3, Indexing
<1>5. Good(IndexExpiration([u EXCEPT !.entry = e], t)) BY <1>1, <1>4, GoodIndexed
<1> HIDE DEF e
<1> QED BY <1>5 DEF SetAt, Done, Failed, e

\* del keeps a slot good.
LEMMA Deleting ==
    ASSUME NEW sl, Good(sl), NEW n
    PROVE  Good(Del(sl, n).slot)
BY Staling, Removing, EmptyIsGood DEF Del, Done

\* incr_by keeps a slot good, also when the value is not an integer or the
\* sum overflows after the entry was inserted.
LEMMA Incrementing ==
    ASSUME NEW sl, Good(sl), NEW d, NEW n
    PROVE  Good(Incr(sl, d, n).slot)
<1> DEFINE s == OrInsert(sl, n, "string", <<0>>)
<1>1. Good(s) /\ s.entry.type # "none" BY Inserting
<1> HIDE DEF s
<1>2. Good([s EXCEPT !.entry.data = <<s.entry.data[1] + d>>]) BY <1>1, Changing
<1>3. Incr(sl, d, n).slot \in {s, [s EXCEPT !.entry.data = <<s.entry.data[1] + d>>]}
    BY DEF Incr, Done, Failed, s
<1> QED BY <1>1, <1>2, <1>3

\* DECRBY negates its argument, or refuses i64::MIN before it touches the key.
LEMMA Decrementing ==
    ASSUME NEW sl, Good(sl), NEW d, NEW n
    PROVE  Good(DecrBy(sl, d, n).slot)
BY Incrementing DEF DecrBy, Failed

\* append keeps a slot good, also when the result is refused as too large.
LEMMA Appending ==
    ASSUME NEW sl, Good(sl), NEW b, NEW n
    PROVE  Good(AppendBytes(sl, b, n).slot)
<1> DEFINE s == OrInsert(sl, n, "string", <<EmptyBytes>>)
<1>1. Good(s) /\ s.entry.type # "none" BY Inserting
<1> HIDE DEF s
<1>2. Good([s EXCEPT !.entry.data = <<Concat(s.entry.data[1], b)>>]) BY <1>1, Changing
<1>3. AppendBytes(sl, b, n).slot
        \in {s, [s EXCEPT !.entry.data = <<Concat(s.entry.data[1], b)>>]}
    BY DEF AppendBytes, Done, Failed, s
<1> QED BY <1>1, <1>2, <1>3

\* expire_at moves the key to the row of the new deadline, or removes it when
\* that deadline is past.
LEMMA Expiring ==
    ASSUME NEW sl, Good(sl), NEW t \in Deadlines, NEW n
    PROVE  Good(ExpireAt(sl, t, n).slot)
<1> DEFINE s == ExpireIfStale(sl, n)
           u == UnindexExpiration(s, s.entry.expires)
           e == [s.entry EXCEPT !.expires = t]
<1>1. Good(s) BY Staling
<1> HIDE DEF s
<1>2. ASSUME s.entry.type # "none"
      PROVE  Good(IndexExpiration([u EXCEPT !.entry.expires = t], t))
    <2>1. IsEntry(e) /\ e.expires = t BY <1>1, <1>2 DEF Good, IsEntry
    <2>2. u = [entry |-> s.entry, rows |-> NoRows] BY <1>1, Unindexing
    <2> DEFINE v == [u EXCEPT !.entry.expires = t]
    <2>3. v = [entry |-> e, rows |-> NoRows] BY <2>2
    <2> HIDE DEF v, e
    <2>4. IndexExpiration(v, t) = Indexed(e) BY <2>1, <2>3, Indexing
    <2>5. Good(IndexExpiration(v, t)) BY <2>1, <2>4, GoodIndexed
    <2> QED BY <2>5 DEF v
<1>3. Good(RemoveEntry(s)) BY <1>1, Removing, EmptyIsGood
<1> QED BY <1>1, <1>2, <1>3 DEF ExpireAt, Done, s

\* persist takes the key out of its row.
LEMMA Persisting ==
    ASSUME NEW sl, Good(sl), NEW n
    PROVE  Good(Persist(sl, n).slot)
<1> DEFINE s == ExpireIfStale(sl, n)
           u == UnindexExpiration(s, s.entry.expires)
           e == [s.entry EXCEPT !.expires = Never]
<1>1. Good(s) BY Staling
<1> HIDE DEF s
<1>2. IsEntry(e) /\ e.expires = Never BY <1>1 DEF Good, IsEntry, Absent, Deadlines
<1>3. u = [entry |-> s.entry, rows |-> NoRows] BY <1>1, Unindexing
<1> DEFINE v == [u EXCEPT !.entry.expires = Never]
<1>4. v = [entry |-> e, rows |-> NoRows] BY <1>3
<1> HIDE DEF v, e
<1>5. v = Indexed(e) BY <1>2, <1>4, Unentered
<1>6. Good(v) BY <1>2, <1>5, GoodIndexed
<1> QED BY <1>6 DEF Persist, Done, s, v

\* lpush and rpush keep a slot good, also when the key holds another type.
LEMMA Pushing ==
    ASSUME NEW sl, Good(sl), NEW b, NEW left \in BOOLEAN, NEW n
    PROVE  Good(Push(sl, b, left, n).slot)
<1> DEFINE s == OrInsert(sl, n, "list", <<>>)
           d == IF left THEN <<b>> \o s.entry.data ELSE Append(s.entry.data, b)
<1>1. Good(s) /\ s.entry.type # "none" BY Inserting
<1> HIDE DEF s
<1>2. Good([s EXCEPT !.entry.data = d]) BY <1>1, Changing
<1>3. Push(sl, b, left, n).slot \in {s, [s EXCEPT !.entry.data = d]}
    BY DEF Push, Done, Failed, s
<1> QED BY <1>1, <1>2, <1>3

\* lpop and rpop keep a slot good; a list they have emptied takes its row
\* with it.
LEMMA Popping ==
    ASSUME NEW sl, Good(sl), NEW count, NEW left \in BOOLEAN, NEW n
    PROVE  Good(Pop(sl, count, left, n).slot)
<1> DEFINE s     == ExpireIfStale(sl, n)
           items == s.entry.data
           want  == IF count = NoCount THEN 1 ELSE count
           m     == IF want < Len(items) THEN want ELSE Len(items)
           rest  == IF left THEN SubSeq(items, m + 1, Len(items))
                            ELSE SubSeq(items, 1, Len(items) - m)
<1>1. Good(s) /\ Good(RemoveEntry(s)) BY Staling, Removing, EmptyIsGood
<1>2. s.entry.type # "none" => Good([s EXCEPT !.entry.data = rest])
    <2> HIDE DEF s, rest
    <2> QED BY <1>1, Changing
<1>3. \/ Pop(sl, count, left, n).slot \in {s, RemoveEntry(s)}
      \/ /\ s.entry.type # "none"
         /\ Pop(sl, count, left, n).slot = [s EXCEPT !.entry.data = rest]
    <2> HIDE DEF s
    <2> QED BY DEF Pop, Done, Failed, s
<1> HIDE DEF s, rest
<1> QED BY <1>1, <1>2, <1>3

\* hset keeps a slot good, also when the key holds another type.
LEMMA HSetting ==
    ASSUME NEW sl, Good(sl), NEW f, NEW b, NEW n
    PROVE  Good(HSet(sl, f, b, n).slot)
<1> DEFINE s == OrInsert(sl, n, "hash", <<>>)
           d == [g \in DOMAIN s.entry.data \cup {f} |->
                    IF g = f THEN b ELSE s.entry.data[g]]
<1>1. Good(s) /\ s.entry.type # "none" BY Inserting
<1> HIDE DEF s
<1>2. Good([s EXCEPT !.entry.data = d]) BY <1>1, Changing
<1>3. HSet(sl, f, b, n).slot \in {s, [s EXCEPT !.entry.data = d]}
    BY DEF HSet, Done, Failed, s
<1> QED BY <1>1, <1>2, <1>3

\* hdel keeps a slot good; a hash it has emptied takes its row with it.
LEMMA HDeleting ==
    ASSUME NEW sl, Good(sl), NEW f, NEW n
    PROVE  Good(HDel(sl, f, n).slot)
<1> DEFINE s == ExpireIfStale(sl, n)
           d == [g \in DOMAIN s.entry.data \ {f} |-> s.entry.data[g]]
<1>1. Good(s) /\ Good(RemoveEntry(s)) BY Staling, Removing, EmptyIsGood
<1> HIDE DEF s
<1>2. s.entry.type # "none" => Good([s EXCEPT !.entry.data = d]) BY <1>1, Changing
<1>3. \/ HDel(sl, f, n).slot \in {s, RemoveEntry(s)}
      \/ /\ s.entry.type # "none"
         /\ HDel(sl, f, n).slot = [s EXCEPT !.entry.data = d]
    BY DEF HDel, Done, Failed, s
<1> QED BY <1>1, <1>2, <1>3

\* hincr_by keeps a slot good in each of its three outcomes.
LEMMA HIncrementing ==
    ASSUME NEW sl, Good(sl), NEW f, NEW delta, NEW n
    PROVE  Good(HIncrBy(sl, f, delta, n).slot)
<1> DEFINE s == OrInsert(sl, n, "hash", <<>>)
           old == IF f \in DOMAIN s.entry.data THEN s.entry.data[f] ELSE 0
           d(b) == [g \in DOMAIN s.entry.data \cup {f} |->
                       IF g = f THEN b ELSE s.entry.data[g]]
<1>1. Good(s) /\ s.entry.type # "none" BY Inserting
<1> HIDE DEF s
<1>2. Good([s EXCEPT !.entry.data = d(old)]) BY <1>1, Changing
<1>3. Good([s EXCEPT !.entry.data = d(old + delta)]) BY <1>1, Changing
<1>4. HIncrBy(sl, f, delta, n).slot
        \in {s, [s EXCEPT !.entry.data = d(old)],
                [s EXCEPT !.entry.data = d(old + delta)]}
    BY DEF HIncrBy, Done, Failed, s
<1> QED BY <1>1, <1>2, <1>3, <1>4

\* Whatever Command::apply does to a key, with or without an error, the index
\* stays exact for it.
LEMMA Applying ==
    ASSUME NEW sl, Good(sl), NEW c, c.op \in Ops, c.at \in Deadlines, NEW n
    PROVE  Good(Apply(c, sl, n).slot)
<1>1. CASE c.op \in {"set", "mset"}
    <2>1. Apply(c, sl, n) = SetAt(sl, c.val, c.at) BY <1>1 DEF Apply
    <2> QED BY <2>1, Setting
<1>2. CASE c.op = "del"
    <2>1. Apply(c, sl, n) = Del(sl, n) BY <1>2 DEF Apply
    <2> QED BY <2>1, Deleting
<1>3. CASE c.op = "incr"
    <2>1. Apply(c, sl, n) = Incr(sl, c.n, n) BY <1>3 DEF Apply
    <2> QED BY <2>1, Incrementing
<1>4. CASE c.op = "decrby"
    <2>1. Apply(c, sl, n) = DecrBy(sl, c.n, n) BY <1>4 DEF Apply
    <2> QED BY <2>1, Decrementing
<1>5. CASE c.op = "append"
    <2>1. Apply(c, sl, n) = AppendBytes(sl, c.val, n) BY <1>5 DEF Apply
    <2> QED BY <2>1, Appending
<1>6. CASE c.op = "expire"
    <2>1. Apply(c, sl, n) = ExpireAt(sl, c.at, n) BY <1>6 DEF Apply
    <2> QED BY <2>1, Expiring
<1>7. CASE c.op = "persist"
    <2>1. Apply(c, sl, n) = Persist(sl, n) BY <1>7 DEF Apply
    <2> QED BY <2>1, Persisting
<1>8. CASE c.op \in {"lpush", "rpush"}
    <2>1. Good(Push(sl, c.val, TRUE, n).slot) /\ Good(Push(sl, c.val, FALSE, n).slot)
        BY Pushing
    <2>2. CASE c.op = "lpush"
        <3>1. Apply(c, sl, n) = Push(sl, c.val, TRUE, n) BY <2>2 DEF Apply
        <3> QED BY <2>1, <3>1
    <2>3. CASE c.op = "rpush"
        <3>1. Apply(c, sl, n) = Push(sl, c.val, FALSE, n) BY <2>3 DEF Apply
        <3> QED BY <2>1, <3>1
    <2> QED BY <1>8, <2>2, <2>3
<1>9. CASE c.op \in {"lpop", "rpop"}
    <2>1. Good(Pop(sl, c.n, TRUE, n).slot) /\ Good(Pop(sl, c.n, FALSE, n).slot)
        BY Popping
    <2>2. CASE c.op = "lpop"
        <3>1. Apply(c, sl, n) = Pop(sl, c.n, TRUE, n) BY <2>2 DEF Apply
        <3> QED BY <2>1, <3>1
    <2>3. CASE c.op = "rpop"
        <3>1. Apply(c, sl, n) = Pop(sl, c.n, FALSE, n) BY <2>3 DEF Apply
        <3> QED BY <2>1, <3>1
    <2> QED BY <1>9, <2>2, <2>3
<1>10. CASE c.op = "hset"
    <2>1. Apply(c, sl, n) = HSet(sl, c.field, c.val, n) BY <1>10 DEF Apply
    <2> QED BY <2>1, HSetting
<1>11. CASE c.op = "hdel"
    <2>1. Apply(c, sl, n) = HDel(sl, c.field, n) BY <1>11 DEF Apply
    <2> QED BY <2>1, HDeleting
<1>12. CASE c.op = "hincrby"
    <2>1. Apply(c, sl, n) = HIncrBy(sl, c.field, c.n, n) BY <1>12 DEF Apply
    <2> QED BY <2>1, HIncrementing
<1> QED
    BY <1>1, <1>2, <1>3, <1>4, <1>5, <1>6, <1>7, <1>8, <1>9, <1>10, <1>11, <1>12
    DEF Ops

\* A deadline that was due at an earlier time is due now: what the sweeper
\* finds expired with its stale time no reader would still be shown.
LEMMA Lasting ==
    ASSUME NEW e, IsEntry(e), NEW s \in Int, NEW n \in Int, s <= n, Expired(e, s)
    PROVE  Expired(e, n)
<1>1. Deadlines \subseteq Int BY CommandsAssumption DEF Deadlines, Times, Never
<1>2. e.expires \in Int BY <1>1 DEF IsEntry
<1> DEFINE d == e.expires
<1>3. d # Never /\ d <= s BY DEF Expired
<1> HIDE DEF d
<1>4. d \in Int BY <1>2 DEF d
<1>5. d <= n BY <1>3, <1>4
<1> QED BY <1>3, <1>5 DEF Expired, d


-----------------------------------------------------------------------------
(***************************************************************************)
(* Entries.                                                                *)
(***************************************************************************)

\* The strings that fit into a reply of their own.
Sendable == {b \in Bytes : ~TooLarge(<<b>>)}

\* The fields a hash may have.
FieldSets == {F \in SUBSET Fields : IsFiniteSet(F)}

\* An entry of its type, not an empty list or hash, nor an endless one, and of strings
\* that can be sent.
WellFormed(e) ==
    /\ e \in Entry
    /\ e.type \in {"list", "hash"} => e.data # <<>>
    /\ e.type = "hash" => IsFiniteSet(DOMAIN e.data)
    /\ \A i \in DOMAIN e.data : ~TooLarge(<<e.data[i]>>)

ListEntry(d, t) == [type |-> "list", data |-> d, expires |-> t]
HashEntry(d, t) == [type |-> "hash", data |-> d, expires |-> t]

\* How to make a well-formed entry ...
LEMMA MakeEntry ==
    /\ WellFormed(Absent)
    /\ \A b \in Sendable, t \in Deadlines : WellFormed(StringEntry(b, t))
    /\ \A d \in Seq(Sendable), t \in Deadlines : d # <<>> => WellFormed(ListEntry(d, t))
    /\ \A F \in FieldSets : \A d \in [F -> Sendable], t \in Deadlines :
          d # <<>> => WellFormed(HashEntry(d, t))
<1>0. Sendable \subseteq Bytes /\ \A b \in Sendable : ~TooLarge(<<b>>) BY DEF Sendable
<1>1. WellFormed(Absent)
    BY DEF WellFormed, Entry, Absent
<1>2. ASSUME NEW b \in Sendable, NEW t \in Deadlines PROVE WellFormed(StringEntry(b, t))
    <2>1. <<b>> \in [1 .. 1 -> Bytes] /\ \A i \in DOMAIN <<b>> : <<b>>[i] = b BY <1>0
    <2>2. StringEntry(b, t) \in Entry BY <2>1 DEF Entry, StringEntry
    <2> QED BY <1>0, <2>1, <2>2 DEF WellFormed, StringEntry
<1>3. ASSUME NEW d \in Seq(Sendable), NEW t \in Deadlines, d # <<>> PROVE WellFormed(ListEntry(d, t))
    <2>1. d \in Seq(Bytes) /\ \A i \in DOMAIN d : d[i] \in Sendable BY <1>0
    <2>2. ListEntry(d, t) \in Entry BY <2>1 DEF Entry, ListEntry
    <2> QED BY <1>0, <1>3, <2>1, <2>2 DEF WellFormed, ListEntry
<1>4. ASSUME NEW F \in FieldSets, NEW d \in [F -> Sendable], NEW t \in Deadlines, d # <<>>
      PROVE  WellFormed(HashEntry(d, t))
    <2>1. /\ d \in [F -> Bytes] /\ \A f \in DOMAIN d : d[f] \in Sendable
          /\ DOMAIN d = F /\ F \in SUBSET Fields /\ IsFiniteSet(F)
        BY <1>0 DEF FieldSets
    <2>2. d \in UNION {[G -> Bytes] : G \in SUBSET Fields} BY <2>1
    <2>3. HashEntry(d, t) \in Entry BY <2>2 DEF Entry, HashEntry
    <2> QED BY <1>0, <1>4, <2>1, <2>3 DEF WellFormed, HashEntry
<1> QED BY <1>1, <1>2, <1>3, <1>4

\* ... and what is known of one.
LEMMA TakeEntry ==
    ASSUME NEW e, WellFormed(e)
    PROVE  /\ IsEntry(e)
           /\ e.type \in {"none", "string", "list", "hash"}
           /\ e.type = "none" => e = Absent
           /\ e.type = "string" => e = StringEntry(e.data[1], e.expires) /\ e.data[1] \in Sendable
           /\ e.type = "list" => e = ListEntry(e.data, e.expires) /\ e.data \in Seq(Sendable)
           /\ e.type = "hash" => /\ e = HashEntry(e.data, e.expires)
                                 /\ DOMAIN e.data \in FieldSets
                                 /\ e.data \in [DOMAIN e.data -> Sendable]
           /\ e.type \in {"list", "hash"} => e.data # <<>>
<1>0. \A i \in DOMAIN e.data : ~TooLarge(<<e.data[i]>>) BY DEF WellFormed
<1>1. CASE e = Absent
    BY <1>1, AbsentIsEntry DEF Absent
<1>2. CASE e \in [type: {"string"}, data: [1 .. 1 -> Bytes], expires: Deadlines]
    <2>1. e.data = <<e.data[1]>> /\ e.data[1] \in Bytes /\ 1 \in DOMAIN e.data BY <1>2
    <2>2. e.data[1] \in Sendable BY <1>0, <2>1 DEF Sendable
    <2> QED BY <1>2, <2>1, <2>2 DEF IsEntry, StringEntry
<1>3. CASE e \in [type: {"list"}, data: Seq(Bytes), expires: Deadlines]
    <2>1. e.data \in Seq(Bytes) /\ e = ListEntry(e.data, e.expires)
        BY <1>3 DEF ListEntry
    <2>2. \A i \in 1 .. Len(e.data) : e.data[i] \in Sendable BY <1>0, <2>1 DEF Sendable
    <2>3. e.data \in Seq(Sendable) BY <2>1, <2>2
    <2> QED BY <1>3, <2>1, <2>3 DEF IsEntry, WellFormed
<1>4. CASE e \in [type: {"hash"}, data: UNION {[F -> Bytes] : F \in SUBSET Fields},
                  expires: Deadlines]
    <2>1. PICK F \in SUBSET Fields : e.data \in [F -> Bytes] BY <1>4
    <2>2. DOMAIN e.data = F BY <2>1
    <2>3. e.data \in [F -> Sendable] BY <1>0, <2>1, <2>2 DEF Sendable
    <2> QED BY <1>4, <2>2, <2>3 DEF IsEntry, HashEntry, WellFormed, FieldSets
<1> QED BY <1>1, <1>2, <1>3, <1>4 DEF WellFormed, Entry

\* What a reader sees of an entry is an entry, and looking again changes nothing.
LEMMA LiveEntry ==
    ASSUME NEW e, WellFormed(e), NEW n
    PROVE  /\ WellFormed(Live(e, n))
           /\ Live(Live(e, n), n) = Live(e, n)
<1>1. ~Expired(Absent, n) BY DEF Expired, Absent
<1> QED BY <1>1, MakeEntry DEF Live

\* expire_if_stale turns the entry into what a reader sees of it.
LEMMA StaleEntry ==
    ASSUME NEW sl, Good(sl), NEW n
    PROVE  ExpireIfStale(sl, n).entry = Live(sl.entry, n)
BY Removing DEF ExpireIfStale, EmptySlot, Live

\* or_insert does so too, unless the reader sees none.
LEMMA InsertEntry ==
    ASSUME NEW sl, Good(sl), NEW n, NEW ty, NEW d
    PROVE  OrInsert(sl, n, ty, d).entry =
             IF Live(sl.entry, n).type # "none" THEN Live(sl.entry, n)
             ELSE [type |-> ty, data |-> d, expires |-> Never]
<1> DEFINE s == ExpireIfStale(sl, n)
           x == [type |-> ty, data |-> d, expires |-> Never]
<1>1. Good(s) /\ s.entry = Live(sl.entry, n) BY Staling, StaleEntry
<1>2. s = [entry |-> s.entry, rows |-> s.rows] BY <1>1 DEF Good, Indexed
<1> HIDE DEF s, x
<1>3. [s EXCEPT !.entry = x].entry = x BY <1>2
<1> QED BY <1>1, <1>3 DEF OrInsert, s, x

\* restore_entries puts the entry it is given, whatever the key holds.
LEMMA Restored ==
    ASSUME NEW sl, Good(sl), NEW e
    PROVE  RestoreEntry(sl, e).entry = e
BY Removing DEF RestoreEntry, IndexExpiration, EmptySlot

\* A change in place changes the data only.
LEMMA ChangeEntry ==
    ASSUME NEW sl, Good(sl), NEW d
    PROVE  [sl EXCEPT !.entry.data = d].entry
             = [type |-> sl.entry.type, data |-> d, expires |-> sl.entry.expires]
<1>1. /\ sl = [entry |-> sl.entry, rows |-> sl.rows]
      /\ sl.entry = [type |-> sl.entry.type, data |-> sl.entry.data, expires |-> sl.entry.expires]
    BY DEF Good, Indexed, IsEntry
<1> QED BY <1>1

-----------------------------------------------------------------------------
(***************************************************************************)
(* Commands.                                                               *)
(***************************************************************************)

\* The outcome of a command leaves a well-formed entry, and an error what a reader
\* saw before it.
Harmless(r, sl, n) ==
    /\ WellFormed(r.slot.entry)
    /\ r.err => Live(r.slot.entry, n) = Live(sl.entry, n)

\* The two ways a command ends.
LEMMA Outcomes ==
    ASSUME NEW sl, NEW n, NEW s
    PROVE  /\ WellFormed(s.entry) => Harmless(Done(s), sl, n)
           /\ WellFormed(s.entry) /\ Live(s.entry, n) = Live(sl.entry, n)
                => Harmless(Failed(s), sl, n)
BY DEF Harmless, Done, Failed

\* A key that expire_if_stale was called for, and that is then left alone.
LEMMA LookedAt ==
    ASSUME NEW sl, Good(sl), WellFormed(sl.entry), NEW n
    PROVE  LET s == ExpireIfStale(sl, n)
           IN  /\ Good(s) /\ WellFormed(s.entry)
               /\ Live(s.entry, n) = Live(sl.entry, n)
               /\ Harmless(Done(s), sl, n) /\ Harmless(Failed(s), sl, n)
               /\ Harmless(Done(RemoveEntry(s)), sl, n)
<1> DEFINE s == ExpireIfStale(sl, n)
<1>1. Good(s) /\ s.entry = Live(sl.entry, n) BY Staling, StaleEntry
<1>2. WellFormed(s.entry) /\ Live(s.entry, n) = Live(sl.entry, n) BY <1>1, LiveEntry
<1>3. RemoveEntry(s).entry = Absent BY <1>1, Removing DEF EmptySlot
<1> HIDE DEF s
<1>4. Harmless(Done(s), sl, n) /\ Harmless(Failed(s), sl, n)
    BY <1>2, Outcomes
<1>5. Harmless(Done(RemoveEntry(s)), sl, n)
    BY <1>3, Outcomes, MakeEntry
<1> QED BY <1>1, <1>2, <1>4, <1>5 DEF s

\* A key that or_insert was called for holds what a reader sees, or is new.
LEMMA PutThere ==
    ASSUME NEW sl, Good(sl), WellFormed(sl.entry), NEW n, NEW ty, ty # "none", NEW d
    PROVE  LET s == OrInsert(sl, n, ty, d)
           IN  /\ Good(s) /\ s.entry.type # "none"
               /\ \/ /\ WellFormed(s.entry) /\ Live(s.entry, n) = Live(sl.entry, n)
                     /\ Harmless(Failed(s), sl, n)
                  \/ s.entry = [type |-> ty, data |-> d, expires |-> Never]
<1> DEFINE s == OrInsert(sl, n, ty, d)
<1>1. Good(s) /\ s.entry.type # "none" BY Inserting
<1>2. \/ s.entry = Live(sl.entry, n)
      \/ s.entry = [type |-> ty, data |-> d, expires |-> Never]
    BY InsertEntry
<1>3. s.entry = Live(sl.entry, n) => WellFormed(s.entry) /\ Live(s.entry, n) = Live(sl.entry, n)
    BY LiveEntry
<1> HIDE DEF s
<1>4. WellFormed(s.entry) /\ Live(s.entry, n) = Live(sl.entry, n) => Harmless(Failed(s), sl, n)
    BY Outcomes
<1> QED BY <1>1, <1>2, <1>3, <1>4 DEF s

\* SET and MSET: a value that is too large is refused before the key is touched.
LEMMA SetEntry ==
    ASSUME NEW sl, Good(sl), WellFormed(sl.entry), NEW b \in Sendable, NEW t \in Deadlines, NEW n
    PROVE  Harmless(SetAt(sl, b, t), sl, n)
<1> DEFINE e == StringEntry(b, t)
           u == UnindexExpiration(sl, sl.entry.expires)
           s == IndexExpiration([u EXCEPT !.entry = e], t)
<1>1. u = [entry |-> sl.entry, rows |-> NoRows] BY Unindexing
<1>2. s.entry = e BY <1>1 DEF IndexExpiration
<1>3. WellFormed(e) BY MakeEntry
<1> HIDE DEF e
<1>4. Harmless(Done(s), sl, n) /\ Harmless(Failed(sl), sl, n)
    BY <1>2, <1>3, Outcomes
<1> QED BY <1>4 DEF SetAt, e

\* DEL.
LEMMA DelEntry ==
    ASSUME NEW sl, Good(sl), WellFormed(sl.entry), NEW n
    PROVE  Harmless(Del(sl, n), sl, n)
BY LookedAt DEF Del

\* INCR and INCRBY: a key that was inserted holds 0, to which every i64 can be added.
LEMMA IncrEntry ==
    ASSUME NEW sl, Good(sl), WellFormed(sl.entry), NEW d \in Ints, NEW n
    PROVE  Harmless(Incr(sl, d, n), sl, n)
<1> DEFINE s == OrInsert(sl, n, "string", <<0>>)
           v == s.entry.data[1]
           x == [s EXCEPT !.entry.data = <<v + d>>]
<1>1. /\ Good(s) /\ s.entry.type # "none"
      /\ \/ WellFormed(s.entry) /\ Harmless(Failed(s), sl, n)
         \/ s.entry = [type |-> "string", data |-> <<0>>, expires |-> Never]
    BY PutThere
<1> HIDE DEF s
<1>2. Ints \subseteq Sendable /\ 0 \in Ints /\ Ints \subseteq Int
    BY CommandsAssumption DEF Sendable, Bytes, Ints, MinInt
<1>3. ASSUME s.entry.type = "string", v + d \in Ints PROVE Harmless(Done(x), sl, n)
    <2>1. s.entry.expires \in Deadlines BY <1>1 DEF Good, IsEntry
    <2>2. x.entry = StringEntry(v + d, s.entry.expires)
        BY <1>1, <1>3, ChangeEntry DEF StringEntry
    <2>3. WellFormed(x.entry) BY <1>2, <1>3, <2>1, <2>2, MakeEntry
    <2> HIDE DEF x
    <2> QED BY <2>3, Outcomes
<1>4. ASSUME ~(s.entry.type = "string" /\ v \in Ints /\ v + d \in Ints)
      PROVE  Harmless(Failed(s), sl, n)
    BY <1>1, <1>2, <1>4
<1> QED BY <1>3, <1>4 DEF Incr, s

\* DECRBY: i64::MIN, which has no negation, is refused before the key is touched.
LEMMA DecrEntry ==
    ASSUME NEW sl, Good(sl), WellFormed(sl.entry), NEW d \in Ints, NEW n
    PROVE  Harmless(DecrBy(sl, d, n), sl, n)
<1>1. d # MinInt => -d \in Ints BY CommandsAssumption DEF Ints, MinInt
<1>2. Harmless(Failed(sl), sl, n) BY Outcomes
<1> QED BY <1>1, <1>2, IncrEntry DEF DecrBy

\* APPEND: a suffix that a client could send fits behind the empty string.
LEMMA AppendEntry ==
    ASSUME NEW sl, Good(sl), WellFormed(sl.entry), NEW b \in Sendable, NEW n,
           ~TooLarge(<<b>>)
    PROVE  Harmless(AppendBytes(sl, b, n), sl, n)
<1> DEFINE s == OrInsert(sl, n, "string", <<EmptyBytes>>)
           v == s.entry.data[1]
           x == [s EXCEPT !.entry.data = <<Concat(v, b)>>]
<1>1. /\ Good(s) /\ s.entry.type # "none"
      /\ \/ WellFormed(s.entry) /\ Harmless(Failed(s), sl, n)
         \/ s.entry = [type |-> "string", data |-> <<EmptyBytes>>, expires |-> Never]
    BY PutThere
<1> HIDE DEF s
<1>2. s.entry.type = "string" => v \in Bytes
    <2>1. EmptyBytes \in Bytes /\ Sendable \subseteq Bytes
        BY CommandsAssumption DEF Bytes, Sendable
    <2>2. CASE WellFormed(s.entry) BY <2>1, <2>2, TakeEntry
    <2> QED BY <1>1, <2>1, <2>2
<1>3. ASSUME s.entry.type = "string", ~TooLarge(<<Concat(v, b)>>)
      PROVE  Harmless(Done(x), sl, n)
    <2>1. s.entry.expires \in Deadlines BY <1>1 DEF Good, IsEntry
    <2>2. x.entry = StringEntry(Concat(v, b), s.entry.expires)
        BY <1>1, <1>3, ChangeEntry DEF StringEntry
    <2>3. Concat(v, b) \in Sendable BY <1>2, <1>3, CommandsAssumption DEF Sendable
    <2>4. WellFormed(x.entry) BY <2>1, <2>2, <2>3, MakeEntry
    <2> HIDE DEF x
    <2> QED BY <2>4, Outcomes
<1>4. ASSUME ~(s.entry.type = "string" /\ ~TooLarge(<<Concat(v, b)>>)) PROVE Harmless(Failed(s), sl, n)
    BY <1>1, <1>4, CommandsAssumption DEF Sendable
<1> QED BY <1>3, <1>4 DEF AppendBytes, s

\* An entry that is there and not empty may get another deadline.
LEMMA Redated ==
    ASSUME NEW e, WellFormed(e), e.type # "none", NEW t \in Deadlines
    PROVE  WellFormed([e EXCEPT !.expires = t])
<1>1. CASE e.type = "string"
    <2>1. e = StringEntry(e.data[1], e.expires) /\ e.data[1] \in Sendable BY <1>1, TakeEntry
    <2>2. [e EXCEPT !.expires = t] = StringEntry(e.data[1], t) BY <2>1 DEF StringEntry
    <2> QED BY <2>1, <2>2, MakeEntry
<1>2. CASE e.type = "list"
    <2>1. e = ListEntry(e.data, e.expires) /\ e.data \in Seq(Sendable) /\ e.data # <<>>
        BY <1>2, TakeEntry
    <2>2. [e EXCEPT !.expires = t] = ListEntry(e.data, t) BY <2>1 DEF ListEntry
    <2> QED BY <2>1, <2>2, MakeEntry
<1>3. CASE e.type = "hash"
    <2>1. /\ e = HashEntry(e.data, e.expires) /\ e.data # <<>>
          /\ DOMAIN e.data \in FieldSets /\ e.data \in [DOMAIN e.data -> Sendable]
        BY <1>3, TakeEntry
    <2>2. [e EXCEPT !.expires = t] = HashEntry(e.data, t) BY <2>1 DEF HashEntry
    <2> QED BY <2>1, <2>2, MakeEntry
<1> QED BY <1>1, <1>2, <1>3, TakeEntry

\* EXPIRE and its kin.
LEMMA ExpireEntry ==
    ASSUME NEW sl, Good(sl), WellFormed(sl.entry), NEW t \in Deadlines, NEW n
    PROVE  Harmless(ExpireAt(sl, t, n), sl, n)
<1> DEFINE s == ExpireIfStale(sl, n)
           u == UnindexExpiration(s, s.entry.expires)
           x == IndexExpiration([u EXCEPT !.entry.expires = t], t)
<1>1. /\ Good(s) /\ WellFormed(s.entry) /\ Harmless(Done(s), sl, n)
      /\ Harmless(Done(RemoveEntry(s)), sl, n)
    BY LookedAt
<1> HIDE DEF s
<1>2. ASSUME s.entry.type # "none" PROVE Harmless(Done(x), sl, n)
    <2>1. u = [entry |-> s.entry, rows |-> NoRows] BY <1>1, Unindexing
    <2> DEFINE e == [s.entry EXCEPT !.expires = t]
    <2>2. x.entry = e BY <2>1 DEF IndexExpiration
    <2>3. WellFormed(e) BY <1>1, <1>2, Redated
    <2>4. WellFormed(x.entry) BY <2>2, <2>3
    <2> HIDE DEF x
    <2> QED BY <2>4, Outcomes
<1> QED BY <1>1, <1>2 DEF ExpireAt, s

\* PERSIST.
LEMMA PersistEntry ==
    ASSUME NEW sl, Good(sl), WellFormed(sl.entry), NEW n
    PROVE  Harmless(Persist(sl, n), sl, n)
<1> DEFINE s == ExpireIfStale(sl, n)
           u == UnindexExpiration(s, s.entry.expires)
           e == [s.entry EXCEPT !.expires = Never]
           x == [u EXCEPT !.entry.expires = Never]
<1>1. Good(s) /\ WellFormed(s.entry) BY LookedAt
<1> HIDE DEF s
<1>2. u = [entry |-> s.entry, rows |-> NoRows] BY <1>1, Unindexing
<1>3. x.entry = e BY <1>2
<1>4. WellFormed(e)
    <2>1. Never \in Deadlines BY DEF Deadlines
    <2>2. CASE s.entry.type # "none" BY <1>1, <2>1, <2>2, Redated
    <2>3. CASE s.entry.type = "none"
        <3>1. s.entry = Absent BY <1>1, <2>3, TakeEntry
        <3>2. e = Absent BY <3>1 DEF Absent
        <3> QED BY <3>2, MakeEntry
    <2> QED BY <2>2, <2>3
<1>5. WellFormed(x.entry) BY <1>3, <1>4
<1> HIDE DEF x
<1>6. Harmless(Done(x), sl, n) BY <1>5, Outcomes
<1> QED BY <1>6 DEF Persist, s, x

\* LPUSH and RPUSH: a list that was inserted is not left empty.
LEMMA PushEntry ==
    ASSUME NEW sl, Good(sl), WellFormed(sl.entry), NEW b \in Sendable, NEW left \in BOOLEAN, NEW n
    PROVE  Harmless(Push(sl, b, left, n), sl, n)
<1> DEFINE s == OrInsert(sl, n, "list", <<>>)
           d == IF left THEN <<b>> \o s.entry.data ELSE Append(s.entry.data, b)
           x == [s EXCEPT !.entry.data = d]
<1>1. /\ Good(s) /\ s.entry.type # "none"
      /\ \/ WellFormed(s.entry) /\ Harmless(Failed(s), sl, n)
         \/ s.entry = [type |-> "list", data |-> <<>>, expires |-> Never]
    BY PutThere
<1> HIDE DEF s
<1>2. ASSUME s.entry.type = "list" PROVE Harmless(Done(x), sl, n)
    <2> DEFINE i == s.entry.data
    <2>1. s.entry.expires \in Deadlines BY <1>1 DEF Good, IsEntry
    <2>2. i \in Seq(Sendable)
        <3>1. CASE WellFormed(s.entry) BY <1>2, <3>1, TakeEntry
        <3>2. CASE i = <<>> BY <3>2
        <3> QED BY <1>1, <3>1, <3>2
    <2> HIDE DEF i
    <2>3. <<b>> \o i \in Seq(Sendable) /\ Len(<<b>> \o i) = 1 + Len(i) /\ Len(i) \in Nat
        BY <2>2, ConcatProperties, LenProperties
    <2>4. Append(i, b) \in Seq(Sendable) /\ Len(Append(i, b)) = Len(i) + 1
        BY <2>2, AppendProperties
    <2>5. \A q : q = <<>> => Len(q) = 0 BY EmptySeq
    <2>6. d \in Seq(Sendable) /\ d # <<>> BY <2>3, <2>4, <2>5 DEF i
    <2> HIDE DEF d
    <2>7. x.entry = ListEntry(d, s.entry.expires) BY <1>1, <1>2, ChangeEntry DEF ListEntry
    <2>8. WellFormed(x.entry) BY <2>1, <2>6, <2>7, MakeEntry
    <2> HIDE DEF x
    <2> QED BY <2>8, Outcomes
<1>3. ASSUME s.entry.type # "list" PROVE Harmless(Failed(s), sl, n)
    BY <1>1, <1>3
<1> QED BY <1>2, <1>3 DEF Push, s

\* LPOP and RPOP: what they leave of a list is not empty, or the key is gone.
LEMMA PopEntry ==
    ASSUME NEW sl, Good(sl), WellFormed(sl.entry), NEW count \in Nat \cup {NoCount},
           NEW left \in BOOLEAN, NEW n
    PROVE  Harmless(Pop(sl, count, left, n), sl, n)
<1> DEFINE s     == ExpireIfStale(sl, n)
           items == s.entry.data
           want  == IF count = NoCount THEN 1 ELSE count
           m     == IF want < Len(items) THEN want ELSE Len(items)
           rest  == IF left THEN SubSeq(items, m + 1, Len(items))
                            ELSE SubSeq(items, 1, Len(items) - m)
           x     == [s EXCEPT !.entry.data = rest]
<1>1. /\ Good(s) /\ WellFormed(s.entry) /\ Harmless(Done(s), sl, n)
      /\ Harmless(Failed(s), sl, n) /\ Harmless(Done(RemoveEntry(s)), sl, n)
    BY LookedAt
<1> HIDE DEF s
<1>2. ASSUME s.entry.type = "list", rest # <<>> PROVE Harmless(Done(x), sl, n)
    <2>1. s.entry.expires \in Deadlines BY <1>1 DEF Good, IsEntry
    <2>2. items \in Seq(Sendable) BY <1>1, <1>2, TakeEntry
    <2> HIDE DEF items
    <2>3. Len(items) \in Nat BY <2>2, LenProperties
    <2>4. m \in 0 .. Len(items) BY <2>3 DEF NoCount
    <2> HIDE DEF m
    <2>5. /\ \A i \in 1 .. Len(items) : items[i] \in Sendable
          /\ \A i \in 1 .. Len(items) + 1, j \in 0 .. Len(items) : SubSeq(items, i, j) \in Seq(Sendable)
        BY <2>2, <2>3, SubSeqProperties
    <2>6. rest \in Seq(Sendable) BY <2>3, <2>4, <2>5
    <2> HIDE DEF rest
    <2>7. x.entry = ListEntry(rest, s.entry.expires) BY <1>1, <1>2, ChangeEntry DEF ListEntry
    <2>8. WellFormed(x.entry) BY <1>2, <2>1, <2>6, <2>7, MakeEntry
    <2> HIDE DEF x
    <2> QED BY <2>8, Outcomes
<1>3. \/ Pop(sl, count, left, n) \in {Done(s), Failed(s), Done(RemoveEntry(s))}
      \/ s.entry.type = "list" /\ rest # <<>> /\ Pop(sl, count, left, n) = Done(x)
    BY DEF Pop, s
<1> HIDE DEF x, rest
<1> QED BY <1>1, <1>2, <1>3

\* A hash with one more field, or another value for one.
LEMMA FieldPut ==
    ASSUME NEW F \in FieldSets, NEW m \in [F -> Sendable], NEW f \in Fields, NEW b \in Sendable,
           NEW t \in Deadlines
    PROVE  WellFormed(HashEntry([g \in DOMAIN m \cup {f} |-> IF g = f THEN b ELSE m[g]], t))
<1> DEFINE d == [g \in DOMAIN m \cup {f} |-> IF g = f THEN b ELSE m[g]]
<1>0. F \cup {f} \in FieldSets BY FS_AddElement DEF FieldSets
<1>1. d \in [F \cup {f} -> Sendable] OBVIOUS
<1>2. DOMAIN d # {} BY <1>1
<1>3. d # <<>> BY <1>2
<1> HIDE DEF d
<1>4. WellFormed(HashEntry(d, t)) BY <1>0, <1>1, <1>3, MakeEntry
<1> QED BY <1>4 DEF d

\* The data of a hash entry, or of one that or_insert has just put there.
LEMMA HashData ==
    ASSUME NEW e, e.type = "hash",
           WellFormed(e) \/ e = [type |-> "hash", data |-> <<>>, expires |-> Never]
    PROVE  /\ DOMAIN e.data \in FieldSets /\ e.data \in [DOMAIN e.data -> Sendable]
           /\ e.expires \in Deadlines
<1>1. CASE WellFormed(e) BY <1>1, TakeEntry DEF IsEntry
<1>2. CASE e = [type |-> "hash", data |-> <<>>, expires |-> Never]
    <2>1. DOMAIN <<>> = {} OBVIOUS
    <2>2. e.data = <<>> /\ e.expires = Never BY <1>2
    <2>3. <<>> \in [{} -> Sendable] BY <2>1
    <2>4. {} \in FieldSets BY FS_EmptySet DEF FieldSets
    <2> QED BY <2>1, <2>2, <2>3, <2>4 DEF Deadlines
<1> QED BY <1>1, <1>2

\* HSET: a hash that was inserted is not left empty.
LEMMA HSetEntry ==
    ASSUME NEW sl, Good(sl), WellFormed(sl.entry), NEW f \in Fields, NEW b \in Sendable, NEW n
    PROVE  Harmless(HSet(sl, f, b, n), sl, n)
<1> DEFINE s == OrInsert(sl, n, "hash", <<>>)
           m == s.entry.data
           d == [g \in DOMAIN m \cup {f} |-> IF g = f THEN b ELSE m[g]]
           x == [s EXCEPT !.entry.data = d]
<1>1. /\ Good(s) /\ s.entry.type # "none"
      /\ \/ WellFormed(s.entry) /\ Harmless(Failed(s), sl, n)
         \/ s.entry = [type |-> "hash", data |-> <<>>, expires |-> Never]
    BY PutThere
<1> HIDE DEF s
<1>2. ASSUME s.entry.type = "hash" PROVE Harmless(Done(x), sl, n)
    <2>1. DOMAIN m \in FieldSets /\ m \in [DOMAIN m -> Sendable] /\ s.entry.expires \in Deadlines
        BY <1>1, <1>2, HashData
    <2>2. WellFormed(HashEntry(d, s.entry.expires)) BY <2>1, FieldPut
    <2> HIDE DEF d
    <2>3. x.entry = HashEntry(d, s.entry.expires) BY <1>1, <1>2, ChangeEntry DEF HashEntry
    <2> HIDE DEF x
    <2> QED BY <2>2, <2>3, Outcomes
<1>3. ASSUME s.entry.type # "hash" PROVE Harmless(Failed(s), sl, n)
    BY <1>1, <1>3
<1> QED BY <1>2, <1>3 DEF HSet, s

\* HDEL: what it leaves of a hash is not empty, or the key is gone.
LEMMA HDelEntry ==
    ASSUME NEW sl, Good(sl), WellFormed(sl.entry), NEW f, NEW n
    PROVE  Harmless(HDel(sl, f, n), sl, n)
<1> DEFINE s == ExpireIfStale(sl, n)
           m == s.entry.data
           F == DOMAIN m \ {f}
           d == [g \in F |-> m[g]]
           x == [s EXCEPT !.entry.data = d]
<1>1. /\ Good(s) /\ WellFormed(s.entry) /\ Harmless(Done(s), sl, n)
      /\ Harmless(Failed(s), sl, n) /\ Harmless(Done(RemoveEntry(s)), sl, n)
    BY LookedAt
<1> HIDE DEF s
<1>2. ASSUME s.entry.type = "hash", F # {} PROVE Harmless(Done(x), sl, n)
    <2>1. DOMAIN m \in FieldSets /\ m \in [DOMAIN m -> Sendable] /\ s.entry.expires \in Deadlines
        BY <1>1, <1>2, HashData
    <2>2. d \in [F -> Sendable] /\ F \in FieldSets BY <2>1, FS_RemoveElement DEF FieldSets
    <2>3. DOMAIN d # {} BY <1>2
    <2>4. d # <<>> BY <2>3
    <2> HIDE DEF d, F
    <2>5. WellFormed(HashEntry(d, s.entry.expires)) BY <2>1, <2>2, <2>4, MakeEntry
    <2>6. x.entry = HashEntry(d, s.entry.expires) BY <1>1, <1>2, ChangeEntry DEF HashEntry
    <2> HIDE DEF x
    <2> QED BY <2>5, <2>6, Outcomes
<1>3. \/ HDel(sl, f, n) \in {Done(s), Failed(s), Done(RemoveEntry(s))}
      \/ s.entry.type = "hash" /\ F # {} /\ HDel(sl, f, n) = Done(x)
    BY DEF HDel, s
<1> HIDE DEF x, F
<1> QED BY <1>1, <1>2, <1>3

\* HINCRBY: a field that was inserted holds 0, to which every i64 can be added, and
\* one that was there is put back as it was.
LEMMA HIncrEntry ==
    ASSUME NEW sl, Good(sl), WellFormed(sl.entry), NEW f \in Fields, NEW delta \in Ints, NEW n
    PROVE  Harmless(HIncrBy(sl, f, delta, n), sl, n)
<1> DEFINE s == OrInsert(sl, n, "hash", <<>>)
           m == s.entry.data
           old == IF f \in DOMAIN m THEN m[f] ELSE 0
           d(b) == [g \in DOMAIN m \cup {f} |-> IF g = f THEN b ELSE m[g]]
           x(b) == [s EXCEPT !.entry.data = d(b)]
<1>1. /\ Good(s) /\ s.entry.type # "none"
      /\ \/ /\ WellFormed(s.entry) /\ Harmless(Failed(s), sl, n)
            /\ Live(s.entry, n) = Live(sl.entry, n)
         \/ s.entry = [type |-> "hash", data |-> <<>>, expires |-> Never]
    BY PutThere
<1> HIDE DEF s
<1>2. Ints \subseteq Sendable /\ 0 \in Ints /\ 0 + delta = delta
    BY CommandsAssumption DEF Sendable, Bytes, Ints, MinInt
<1>3. ASSUME s.entry.type = "hash", NEW b \in Sendable
      PROVE  WellFormed(x(b).entry) /\ x(b).entry = HashEntry(d(b), s.entry.expires)
    <2>1. DOMAIN m \in FieldSets /\ m \in [DOMAIN m -> Sendable] /\ s.entry.expires \in Deadlines
        BY <1>1, <1>3, HashData
    <2> DEFINE db == d(b)
    <2>2. WellFormed(HashEntry(db, s.entry.expires)) BY <2>1, FieldPut
    <2> HIDE DEF db
    <2>3. [s EXCEPT !.entry.data = db].entry = HashEntry(db, s.entry.expires)
        BY <1>1, <1>3, ChangeEntry DEF HashEntry
    <2> QED BY <2>2, <2>3 DEF db
<1>4. ASSUME s.entry.type = "hash", old + delta \in Ints PROVE Harmless(Done(x(old + delta)), sl, n)
    <2>1. WellFormed(x(old + delta).entry) BY <1>2, <1>3, <1>4
    <2> DEFINE y == x(old + delta)
    <2>2. WellFormed(y.entry) BY <2>1
    <2> HIDE DEF y
    <2>3. Harmless(Done(y), sl, n) BY <2>2, Outcomes
    <2> QED BY <2>3 DEF y
<1>5. ASSUME s.entry.type = "hash", ~(old \in Ints /\ old + delta \in Ints)
      PROVE  Harmless(Failed(x(old)), sl, n)
    <2>1. f \in DOMAIN m BY <1>2, <1>5
    <2>2. WellFormed(s.entry) /\ Live(s.entry, n) = Live(sl.entry, n) BY <1>1, <2>1
    <2>3. m \in [DOMAIN m -> Sendable] /\ s.entry = HashEntry(m, s.entry.expires)
        BY <1>5, <2>2, TakeEntry
    <2>4. old \in Sendable /\ d(old) = m BY <2>1, <2>3
    <2> DEFINE y == x(old)
    <2>5. y.entry = s.entry BY <1>3, <1>5, <2>3, <2>4
    <2> HIDE DEF y
    <2>6. Harmless(Failed(y), sl, n) BY <2>2, <2>5, Outcomes
    <2> QED BY <2>6 DEF y
<1>6. ASSUME s.entry.type # "hash" PROVE Harmless(Failed(s), sl, n)
    BY <1>1, <1>6
<1> QED BY <1>4, <1>5, <1>6 DEF HIncrBy, s

\* Command::apply, for one key, keeps the entry well formed and is harmless if it fails.
LEMMA ApplyEntry ==
    ASSUME NEW sl, Good(sl), WellFormed(sl.entry), NEW c \in Command, NEW n,
           ~TooLarge(<<c.val>>)
    PROVE  Harmless(Apply(c, sl, n), sl, n)
<1>0. /\ c.op \in Ops /\ c.val \in Sendable /\ c.field \in Fields /\ c.at \in Deadlines
      /\ c.op \in {"incr", "decrby", "hincrby"} => c.n \in Ints
      /\ c.op \in {"lpop", "rpop"} => c.n \in Nat \cup {NoCount}
    BY DEF Command, Sendable
<1>1. CASE c.op \in {"set", "mset"}
    <2>1. Apply(c, sl, n) = SetAt(sl, c.val, c.at) BY <1>1 DEF Apply
    <2> QED BY <1>0, <2>1, SetEntry
<1>2. CASE c.op = "del"
    <2>1. Apply(c, sl, n) = Del(sl, n) BY <1>2 DEF Apply
    <2> QED BY <2>1, DelEntry
<1>3. CASE c.op = "incr"
    <2>1. Apply(c, sl, n) = Incr(sl, c.n, n) BY <1>3 DEF Apply
    <2> QED BY <1>0, <1>3, <2>1, IncrEntry
<1>4. CASE c.op = "decrby"
    <2>1. Apply(c, sl, n) = DecrBy(sl, c.n, n) BY <1>4 DEF Apply
    <2> QED BY <1>0, <1>4, <2>1, DecrEntry
<1>5. CASE c.op = "append"
    <2>1. Apply(c, sl, n) = AppendBytes(sl, c.val, n) BY <1>5 DEF Apply
    <2> QED BY <1>0, <1>5, <2>1, AppendEntry
<1>6. CASE c.op = "expire"
    <2>1. Apply(c, sl, n) = ExpireAt(sl, c.at, n) BY <1>6 DEF Apply
    <2> QED BY <1>0, <2>1, ExpireEntry
<1>7. CASE c.op = "persist"
    <2>1. Apply(c, sl, n) = Persist(sl, n) BY <1>7 DEF Apply
    <2> QED BY <2>1, PersistEntry
<1>8. CASE c.op \in {"lpush", "rpush"}
    <2> DEFINE left == c.op = "lpush"
    <2>1. Apply(c, sl, n) = Push(sl, c.val, left, n) BY <1>8 DEF Apply
    <2>2. left \in BOOLEAN OBVIOUS
    <2> HIDE DEF left
    <2> QED BY <1>0, <2>1, <2>2, PushEntry
<1>9. CASE c.op \in {"lpop", "rpop"}
    <2> DEFINE left == c.op = "lpop"
    <2>1. Apply(c, sl, n) = Pop(sl, c.n, left, n) BY <1>9 DEF Apply
    <2>2. left \in BOOLEAN OBVIOUS
    <2> HIDE DEF left
    <2> QED BY <1>0, <1>9, <2>1, <2>2, PopEntry
<1>10. CASE c.op = "hset"
    <2>1. Apply(c, sl, n) = HSet(sl, c.field, c.val, n) BY <1>10 DEF Apply
    <2> QED BY <1>0, <2>1, HSetEntry
<1>11. CASE c.op = "hdel"
    <2>1. Apply(c, sl, n) = HDel(sl, c.field, n) BY <1>11 DEF Apply
    <2> QED BY <2>1, HDelEntry
<1>12. CASE c.op = "hincrby"
    <2>1. Apply(c, sl, n) = HIncrBy(sl, c.field, c.n, n) BY <1>12 DEF Apply
    <2> QED BY <1>0, <1>12, <2>1, HIncrEntry
<1> QED
    BY <1>0, <1>1, <1>2, <1>3, <1>4, <1>5, <1>6, <1>7, <1>8, <1>9, <1>10, <1>11, <1>12
    DEF Ops

\* Only MSET and DEL go on to another key: the first fails at its first key or not at
\* all, the second never.
LEMMA ApplyMany ==
    ASSUME NEW sl, NEW c \in Command, NEW n
    PROVE  /\ c.op = "del" => Apply(c, sl, n).err = FALSE
           /\ c.op = "mset" => (Apply(c, sl, n).err = TRUE <=> TooLarge(<<c.val>>))
           /\ c.op \notin {"mset", "del"} => Len(c.keys) = 1
<1>1. ASSUME c.op = "del" PROVE Apply(c, sl, n).err = FALSE
    <2>1. Apply(c, sl, n) = Del(sl, n) BY <1>1 DEF Apply
    <2> QED BY <2>1 DEF Del, Done
<1>2. ASSUME c.op = "mset" PROVE Apply(c, sl, n).err = TRUE <=> TooLarge(<<c.val>>)
    <2>1. Apply(c, sl, n) = SetAt(sl, c.val, c.at) BY <1>2 DEF Apply
    <2> QED BY <2>1 DEF SetAt, Done, Failed
<1>3. c.op \notin {"mset", "del"} => Len(c.keys) = 1 BY DEF Command
<1> QED BY <1>1, <1>2, <1>3

-----------------------------------------------------------------------------
(***************************************************************************)
(* The keys of a command.                                                  *)
(***************************************************************************)

\* A sequence has finitely many elements, and at least one unless it is empty.
LEMMA ElementsFinite ==
    ASSUME NEW S, NEW q \in Seq(S)
    PROVE  /\ ToSet(q) \subseteq S /\ IsFiniteSet(ToSet(q))
           /\ q # <<>> => ToSet(q) # {}
<1>1. Len(q) \in Nat /\ q \in [1 .. Len(q) -> S] BY LenProperties
<1> DEFINE n == Len(q)
           T == ToSet(q)
<1>2. DOMAIN q = 1 .. n /\ q \in [1 .. n -> T] /\ T \subseteq S
    BY <1>1 DEF ToSet
<1>3. q \in Surjection(1 .. n, T)
    BY <1>2 DEF Surjection, ToSet
<1>4. IsFiniteSet(1 .. n) BY <1>1, FS_Interval
<1>5. IsFiniteSet(T) BY <1>3, <1>4, FS_Surjection
<1>6. q # <<>> => 1 \in 1 .. n BY <1>1, EmptySeq
<1> QED BY <1>2, <1>5, <1>6 DEF ToSet

\* A sequence made of a finite set holds all of it and nothing else.
LEMMA SequenceOfSet ==
    ASSUME NEW S, IsFiniteSet(S)
    PROVE  SetToSeq(S) \in Seq(S) /\ ToSet(SetToSeq(S)) = S
<1> DEFINE n == Cardinality(S)
           D == 1 .. n
           f == SetToSeq(S)
<1>1. n \in Nat /\ ExistsBijection(D, S) BY FS_CardinalityType
<1>2. PICK b : b \in Bijection(D, S) BY <1>1 DEF ExistsBijection
<1>3. b \in [D -> S] /\ IsInjective(b)
    BY <1>2 DEF Bijection, Injection, IsInjective
<1>4. f \in [D -> S] /\ IsInjective(f) BY <1>3 DEF SetToSeq
<1> HIDE DEF f
<1>5. f \in Injection(D, S) BY <1>4 DEF Injection, IsInjective
<1>6. Cardinality(D) = n BY <1>1, FS_Interval
<1> HIDE DEF n
<1>7. f \in Surjection(D, S) BY <1>5, <1>6, FS_Injection DEF n
<1>8. ToSet(f) = S BY <1>4, <1>7 DEF ToSet, Surjection
<1>9. f \in Seq(S) BY <1>1, <1>4 DEF n
<1> QED BY <1>8, <1>9 DEF f

\* mutated_keys has the keys of the command, each of which is looked at.
LEMMA KeysOf ==
    ASSUME NEW c \in Command
    PROVE  /\ c.keys \in Seq(Keys) /\ c.keys # <<>>
           /\ MutatedKeys(c) \in Seq(Keys) /\ MutatedKeys(c) # <<>>
           /\ ToSet(MutatedKeys(c)) = ToSet(c.keys) /\ ToSet(c.keys) \subseteq Keys
<1>1. c.keys \in Seq(Keys) /\ c.keys # <<>>
    <2>1. c.keys \in Seq(Keys) /\ (c.keys # <<>> \/ Len(c.keys) = 1) BY DEF Command
    <2> QED BY <2>1, Len(<<>>) # 1
<1>2. ToSet(c.keys) \subseteq Keys /\ IsFiniteSet(ToSet(c.keys)) /\ ToSet(c.keys) # {}
    BY <1>1, ElementsFinite
<1> DEFINE m == MutatedKeys(c)
<1>3. m \in Seq(ToSet(c.keys)) /\ ToSet(m) = ToSet(c.keys)
    BY <1>2, SequenceOfSet DEF MutatedKeys
<1> HIDE DEF m
<1>4. m \in Seq(Keys) BY <1>2, <1>3, SeqMonotonic
<1>5. m # <<>> BY <1>2, <1>3 DEF ToSet
<1> QED BY <1>1, <1>2, <1>3, <1>4, <1>5 DEF m

\* The first element and the others.
LEMMA HeadAndTail ==
    ASSUME NEW S, NEW q \in Seq(S), q # <<>>
    PROVE  /\ Head(q) \in S /\ Tail(q) \in Seq(S)
           /\ Head(q) \in ToSet(q)
           /\ ToSet(q) = {Head(q)} \cup ToSet(Tail(q))
           /\ Len(q) = 1 => Tail(q) = <<>>
<1>1. /\ Head(q) = q[1] /\ Head(q) \in S /\ Tail(q) \in Seq(S) /\ Len(Tail(q)) = Len(q) - 1
      /\ \A i \in 1 .. Len(Tail(q)) : Tail(q)[i] = q[i + 1]
    BY HeadTailProperties
<1>2. Len(q) \in Nat \ {0} /\ DOMAIN q = 1 .. Len(q) /\ DOMAIN Tail(q) = 1 .. Len(q) - 1
    BY <1>1, LenProperties, EmptySeq
<1>3. ToSet(Tail(q)) \subseteq ToSet(q) BY <1>1, <1>2 DEF ToSet
<1>4. ASSUME NEW i \in 1 .. Len(q) PROVE q[i] \in {Head(q)} \cup ToSet(Tail(q))
    <2>1. CASE i = 1 BY <1>1, <2>1
    <2>2. CASE i # 1
        <3>1. i - 1 \in 1 .. Len(q) - 1 /\ (i - 1) + 1 = i BY <1>2, <2>2
        <3>2. Tail(q)[i - 1] = q[i] BY <1>1, <3>1
        <3> QED BY <1>2, <3>1, <3>2 DEF ToSet
    <2> QED BY <2>1, <2>2
<1>5. Head(q) \in ToSet(q) BY <1>1, <1>2 DEF ToSet
<1>6. ToSet(q) \subseteq {Head(q)} \cup ToSet(Tail(q)) BY <1>2, <1>4 DEF ToSet
<1>7. Len(q) = 1 => Tail(q) = <<>>
    <2> DEFINE r == Tail(q)
    <2>1. Len(q) = 1 => Len(r) = 0 BY <1>1
    <2>2. r \in Seq(S) BY <1>1
    <2> HIDE DEF r
    <2>3. Len(r) = 0 => r = <<>> BY <2>2, EmptySeq
    <2> QED BY <2>1, <2>3 DEF r
<1> QED BY <1>1, <1>3, <1>5, <1>6, <1>7

=============================================================================
