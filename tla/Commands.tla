------------------------------ MODULE Commands ------------------------------
(***************************************************************************)
(* What the commands of src/src/cmd do to one key, and what a reader gets  *)
(* from it.                                                                *)
(*                                                                         *)
(* Every access to a key goes through its shard's mutex and touches only   *)
(* that key's entry and that key's places in the shard's expiration index  *)
(* (a BTreeMap from deadlines to lists of keys), so the state of the data  *)
(* base is a slot per key: the entry, and how often the key occurs in the  *)
(* row of each deadline.  The operators below are functions from slots to  *)
(* slots; which of them run when is the subject of Keyspace and Recovery.  *)
(***************************************************************************)
EXTENDS Integers, Sequences, FiniteSets, SequencesExt

CONSTANTS
    Keys,          \* the keys
    Fields,        \* the fields of hashes, byte strings as well
    Texts,         \* byte strings that do not parse as an i64
    EmptyBytes,    \* Bytes::new(), one of them
    MaxInt,        \* i64::MAX
    MaxTime,       \* bound: the last instant, and the latest deadline
    Concat(_, _),  \* the bytes of two strings, one after the other
    TooLarge(_)    \* the strings of a sequence do not fit into one reply

MinInt == -MaxInt - 1
Ints   == MinInt .. MaxInt
Bytes  == Ints \cup Texts
Times  == 0 .. MaxTime
Never  == -1    \* expires_at: None

ASSUME CommandsAssumption ==
    /\ MaxInt \in Nat /\ MaxTime \in Nat
    /\ EmptyBytes \in Texts
    /\ Texts \cap Int = {}
    /\ \A a, b \in Bytes : Concat(a, b) \in Bytes
    /\ \A b \in Bytes : Concat(EmptyBytes, b) = b
    /\ ~TooLarge(<<>>) /\ \A b \in Ints \cup {EmptyBytes} : ~TooLarge(<<b>>)

(***************************************************************************)
(* Entries and slots.  data is <<b>> for a string, the sequence of items   *)
(* for a list, the map from fields to values for a hash.                   *)
(***************************************************************************)
Deadlines == Times \cup {Never}

Absent == [type |-> "none", data |-> <<>>, expires |-> Never]

Entry ==
    {Absent}
    \cup [type: {"hash"}, data: UNION {[F -> Bytes] : F \in SUBSET Fields},
          expires: Deadlines]
    \cup [type: {"string"}, data: [1 .. 1 -> Bytes], expires: Deadlines]
    \cup [type: {"list"}, data: Seq(Bytes), expires: Deadlines]

Slot == [entry: Entry, rows: [Times -> Nat]]

StringEntry(b, t) == [type |-> "string", data |-> <<b>>, expires |-> t]

EmptySlot == [entry |-> Absent, rows |-> [t \in Times |-> 0]]

Expired(e, now) == e.expires # Never /\ e.expires <= now

\* The entry as a reader sees it: an expired one is not there.
Live(e, now) == IF Expired(e, now) THEN Absent ELSE e

-----------------------------------------------------------------------------
(***************************************************************************)
(* The operations of Shard.                                                *)
(***************************************************************************)

\* unindex_expiration: every occurrence leaves the row.
UnindexExpiration(sl, t) ==
    [sl EXCEPT !.rows = [u \in Times |-> IF u = t THEN 0 ELSE sl.rows[u]]]

\* expirations.entry(t).or_default().push(key), if there is a deadline.
IndexExpiration(sl, t) ==
    [sl EXCEPT !.rows = [u \in Times |-> IF u = t THEN sl.rows[u] + 1
                                                  ELSE sl.rows[u]]]

\* With expires = Never there is no row to leave.
RemoveEntry(sl) ==
    [UnindexExpiration(sl, sl.entry.expires) EXCEPT !.entry = Absent]

ExpireIfStale(sl, now) ==
    IF Expired(sl.entry, now) THEN RemoveEntry(sl) ELSE sl

\* Mutant: a key that was missing before is left as it is.
RestorePresent(sl, e) ==
    IF e = Absent THEN sl
    ELSE IndexExpiration([RemoveEntry(sl) EXCEPT !.entry = e], e.expires)

\* restore_entries, for one key of the rollback snapshot.
RestoreEntry(sl, e) ==
    IndexExpiration([RemoveEntry(sl) EXCEPT !.entry = e], e.expires)

\* Mutant: a deadline counts as due one tick early.
SweepEarly(sl, now) ==
    [entry |-> IF Expired(sl.entry, now + 1) THEN Absent ELSE sl.entry,
     rows |-> [t \in Times |-> IF t <= now + 1 THEN 0 ELSE sl.rows[t]]]

\* sweep_once, for one key: its due rows go, and the entry with them if it
\* (still) is due.
SweepEntry(sl, now) ==
    [entry |-> IF /\ \E t \in Times : t <= now /\ sl.rows[t] > 0
                  /\ Expired(sl.entry, now)
               THEN Absent ELSE sl.entry,
     rows |-> [t \in Times |-> IF t <= now THEN 0 ELSE sl.rows[t]]]

-----------------------------------------------------------------------------
(***************************************************************************)
(* The write commands.  Each gives the new slot and whether the reply is   *)
(* an error.                                                               *)
(***************************************************************************)
Done(sl)   == [slot |-> sl, err |-> FALSE]
Failed(sl) == [slot |-> sl, err |-> TRUE]

\* entries.entry(key).or_insert(...), after a stale entry was removed.
OrInsert(sl, now, type, data) ==
    LET fresh == ExpireIfStale(sl, now)
    IN  IF fresh.entry.type # "none" THEN fresh
        ELSE [fresh EXCEPT !.entry = [type |-> type, data |-> data,
                                      expires |-> Never]]

\* Mutant: the row of the old deadline stays in the index.
SetKeepingRow(sl, b, t) ==
    IF TooLarge(<<b>>) THEN Failed(sl)
    ELSE Done(IndexExpiration([sl EXCEPT !.entry = StringEntry(b, t)], t))

SetAt(sl, b, t) ==
    IF TooLarge(<<b>>) THEN Failed(sl)
    ELSE Done(IndexExpiration([UnindexExpiration(sl, sl.entry.expires)
                                 EXCEPT !.entry = StringEntry(b, t)], t))

Del(sl, now) == Done(RemoveEntry(ExpireIfStale(sl, now)))

\* Mutant: the addition is not checked.
IncrUnchecked(sl, delta, now) ==
    LET s == OrInsert(sl, now, "string", <<0>>)
    IN  IF s.entry.type = "string" /\ s.entry.data[1] \in Ints
        THEN Done([s EXCEPT !.entry.data = <<@[1] + delta>>])
        ELSE Failed(s)

Incr(sl, delta, now) ==
    LET s == OrInsert(sl, now, "string", <<0>>)
    IN  IF /\ s.entry.type = "string"
           /\ s.entry.data[1] \in Ints
           /\ s.entry.data[1] + delta \in Ints
        THEN Done([s EXCEPT !.entry.data = <<@[1] + delta>>])
        ELSE Failed(s)

DecrBy(sl, n, now) == IF n = MinInt THEN Failed(sl) ELSE Incr(sl, -n, now)

\* Mutant: the length of the result is not checked.
AppendUnchecked(sl, b, now) ==
    LET s == OrInsert(sl, now, "string", <<EmptyBytes>>)
    IN  IF s.entry.type = "string"
        THEN Done([s EXCEPT !.entry.data = <<Concat(@[1], b)>>])
        ELSE Failed(s)

AppendBytes(sl, b, now) ==
    LET s == OrInsert(sl, now, "string", <<EmptyBytes>>)
    IN  IF s.entry.type = "string" /\ ~TooLarge(<<Concat(s.entry.data[1], b)>>)
        THEN Done([s EXCEPT !.entry.data = <<Concat(@[1], b)>>])
        ELSE Failed(s)

\* Mutant: the new deadline is not entered into the index.
ExpireUnindexed(sl, t, now) ==
    LET s == ExpireIfStale(sl, now)
    IN  Done(IF s.entry.type = "none" THEN s
             ELSE IF t <= now THEN RemoveEntry(s)
             ELSE [UnindexExpiration(s, s.entry.expires)
                     EXCEPT !.entry.expires = t])

ExpireAt(sl, t, now) ==
    LET s == ExpireIfStale(sl, now)
    IN  Done(IF s.entry.type = "none" THEN s
             ELSE IF t <= now THEN RemoveEntry(s)
             ELSE IndexExpiration([UnindexExpiration(s, s.entry.expires)
                                     EXCEPT !.entry.expires = t], t))

\* Without a key or a deadline there is nothing to change.
Persist(sl, now) ==
    LET s == ExpireIfStale(sl, now)
    IN  Done([UnindexExpiration(s, s.entry.expires)
                EXCEPT !.entry.expires = Never])

Push(sl, b, left, now) ==
    LET s == OrInsert(sl, now, "list", <<>>)
    IN  IF s.entry.type = "list"
        THEN Done([s EXCEPT !.entry.data = IF left THEN <<b>> \o @
                                                   ELSE Append(@, b)])
        ELSE Failed(s)

\* LPOP key without a count: one item, whatever its size.
NoCount == -1

\* Mutant: an emptied list stays.
PopKeepingEmpty(sl, count, left, now) ==
    LET s == ExpireIfStale(sl, now)
        want == IF count = NoCount THEN 1 ELSE count
        n == IF want < Len(s.entry.data) THEN want ELSE Len(s.entry.data)
    IN  IF s.entry.type = "none" THEN Done(s)
        ELSE IF s.entry.type # "list" THEN Failed(s)
        ELSE Done([s EXCEPT !.entry.data = SubSeq(@, n + 1, Len(@))])

\* A list that was emptied is removed.
Pop(sl, count, left, now) ==
    LET s     == ExpireIfStale(sl, now)
        items == s.entry.data
        want  == IF count = NoCount THEN 1 ELSE count
        n     == IF want < Len(items) THEN want ELSE Len(items)
        rest  == IF left THEN SubSeq(items, n + 1, Len(items))
                         ELSE SubSeq(items, 1, Len(items) - n)
        out   == IF left THEN SubSeq(items, 1, n)
                         ELSE SubSeq(items, Len(items) - n + 1, Len(items))
    IN  IF s.entry.type = "none" THEN Done(s)
        ELSE IF s.entry.type # "list" THEN Failed(s)
        ELSE IF n = 0 THEN Done(s)
        ELSE IF count # NoCount /\ TooLarge(out) THEN Failed(s)
        ELSE Done(IF rest = <<>> THEN RemoveEntry(s)
                  ELSE [s EXCEPT !.entry.data = rest])

HSet(sl, f, b, now) ==
    LET s == OrInsert(sl, now, "hash", <<>>)
        m == s.entry.data
    IN  IF s.entry.type = "hash"
        THEN Done([s EXCEPT !.entry.data =
                 [g \in DOMAIN m \cup {f} |-> IF g = f THEN b ELSE m[g]]])
        ELSE Failed(s)

\* A hash that was emptied is removed.
HDel(sl, f, now) ==
    LET s    == ExpireIfStale(sl, now)
        m    == s.entry.data
        rest == DOMAIN m \ {f}
    IN  IF s.entry.type = "none" THEN Done(s)
        ELSE IF s.entry.type # "hash" THEN Failed(s)
        ELSE Done(IF rest = {} THEN RemoveEntry(s)
                  ELSE [s EXCEPT !.entry.data = [g \in rest |-> m[g]]])

\* A missing field becomes 0 first, also when the reply is then an error.
HIncrBy(sl, f, delta, now) ==
    LET s   == OrInsert(sl, now, "hash", <<>>)
        m   == s.entry.data
        old == IF f \in DOMAIN m THEN m[f] ELSE 0
        Put(b) == [s EXCEPT !.entry.data =
                      [g \in DOMAIN m \cup {f} |-> IF g = f THEN b ELSE m[g]]]
    IN  IF s.entry.type # "hash" THEN Failed(s)
        ELSE IF old \in Ints /\ old + delta \in Ints
        THEN Done(Put(old + delta)) ELSE Failed(Put(old))

-----------------------------------------------------------------------------
(***************************************************************************)
(* Command::apply.  Several keys (DEL, MSET) are handled one after the     *)
(* other; n is an increment or a count and at a deadline.                  *)
(***************************************************************************)
Cmd(op, keys, val, field, n, at) ==
    [op |-> op, keys |-> keys, val |-> val, field |-> field, n |-> n, at |-> at]

Apply(c, sl, now) ==
    CASE c.op \in {"set", "mset"} -> SetAt(sl, c.val, c.at)
      [] c.op = "del"             -> Del(sl, now)
      [] c.op = "incr"            -> Incr(sl, c.n, now)
      [] c.op = "decrby"          -> DecrBy(sl, c.n, now)
      [] c.op = "append"          -> AppendBytes(sl, c.val, now)
      [] c.op = "expire"          -> ExpireAt(sl, c.at, now)
      [] c.op = "persist"         -> Persist(sl, now)
      [] c.op \in {"lpush", "rpush"} -> Push(sl, c.val, c.op = "lpush", now)
      [] c.op \in {"lpop", "rpop"}   -> Pop(sl, c.n, c.op = "lpop", now)
      [] c.op = "hset"            -> HSet(sl, c.field, c.val, now)
      [] c.op = "hdel"            -> HDel(sl, c.field, now)
      [] c.op = "hincrby"         -> HIncrBy(sl, c.field, c.n, now)

\* What Command::from_frame accepts, of the commands that is_write() names: a
\* deadline of SET is positive, one of EXPIRE may have been turned into 0.
Ops == {"set", "mset", "del", "incr", "decrby", "append", "expire", "persist",
        "lpush", "rpush", "lpop", "rpop", "hset", "hdel", "hincrby"}

Command ==
    {c \in [op: Ops, keys: Seq(Keys), val: Bytes, field: Fields, n: Int,
            at: Deadlines] :
        /\ IF c.op \in {"mset", "del"} THEN c.keys # <<>> ELSE Len(c.keys) = 1
        /\ CASE c.op = "set"    -> c.at # 0
             [] c.op = "expire" -> c.at # Never
             [] OTHER           -> c.at = Never
        /\ c.op \in {"incr", "decrby", "hincrby"} => c.n \in Ints
        /\ c.op \in {"lpop", "rpop"} => c.n \in Nat \cup {NoCount}}

\* mutated_keys, sorted and without duplicates as in snapshot_entries.
MutatedKeys(c) == SetToSeq(ToSet(c.keys))

-----------------------------------------------------------------------------
(***************************************************************************)
(* The read commands, as functions of the entry Live gives.  A reply is an *)
(* error, a number or the strings in it; a null and an empty array are no  *)
(* strings.                                                                *)
(***************************************************************************)
Strings(s)    == [type |-> "strings", items |-> s, n |-> 0]
Number(n)     == [type |-> "number", items |-> <<>>, n |-> n]
ErrorReply    == [type |-> "error", items |-> <<>>, n |-> 0]
Checked(s)    == IF TooLarge(s) THEN ErrorReply ELSE Strings(s)

Get(e) ==
    CASE e.type = "none"   -> Strings(<<>>)
      [] e.type = "string" -> Strings(e.data)
      [] OTHER             -> ErrorReply

\* One key of EXISTS.
Exists(e) == Number(IF e.type = "none" THEN 0 ELSE 1)

\* MGET takes the keys one after the other; what is no string is null.
MGet(es) == Checked(FlattenSeq([i \in DOMAIN es |->
                IF es[i].type = "string" THEN es[i].data ELSE <<>>]))

\* PTTL, of the entry as it is stored.
PTtl(e, now) ==
    Number(IF e.type = "none" THEN -2
           ELSE IF e.expires = Never THEN -1
           ELSE IF e.expires <= now THEN -2
           ELSE e.expires - now)

LLen(e) ==
    CASE e.type = "none" -> Number(0)
      [] e.type = "list" -> Number(Len(e.data))
      [] OTHER           -> ErrorReply

\* resolve_index, for an index within the list.
LIndex(e, idx) ==
    LET len == Len(e.data)
    IN  CASE e.type = "none" -> Strings(<<>>)
          [] e.type = "list" ->
                Strings(IF idx >= 0 /\ idx < len THEN <<e.data[idx + 1]>>
                        ELSE IF idx < 0 /\ -idx <= len THEN <<e.data[len + idx + 1]>>
                        ELSE <<>>)
          [] OTHER           -> ErrorReply

\* Mutant: an end before the list is taken for its first item.
LRangeClamped(e, start, stop) ==
    LET len == Len(e.data)
        clamp(i) == IF i < 0 THEN (IF len + i < 0 THEN 0 ELSE len + i)
                    ELSE IF i > len - 1 THEN len - 1 ELSE i
    IN  CASE e.type = "none" -> Strings(<<>>)
          [] e.type = "list" ->
                IF start >= len \/ clamp(start) > clamp(stop) THEN Strings(<<>>)
                ELSE Checked(SubSeq(e.data, clamp(start) + 1, clamp(stop) + 1))
          [] OTHER           -> ErrorReply

LRange(e, start, stop) ==
    LET len == Len(e.data)
        resolve(i) == IF i < 0 THEN len + i ELSE i
        first == IF resolve(start) < 0 THEN 0 ELSE resolve(start)
        last  == IF resolve(stop) > len - 1 THEN len - 1 ELSE resolve(stop)
    IN  CASE e.type = "none" -> Strings(<<>>)
          [] e.type = "list" ->
                IF resolve(start) >= len \/ resolve(stop) < 0 \/ first > last
                THEN Strings(<<>>)
                ELSE Checked(SubSeq(e.data, first + 1, last + 1))
          [] OTHER           -> ErrorReply

OfHash(e, nothing, reply) ==
    CASE e.type = "none" -> nothing
      [] e.type = "hash" -> reply
      [] OTHER           -> ErrorReply

HGet(e, f) ==
    OfHash(e, Strings(<<>>), Strings(IF f \in DOMAIN e.data THEN <<e.data[f]>> ELSE <<>>))

HExists(e, f) == OfHash(e, Number(0), Number(IF f \in DOMAIN e.data THEN 1 ELSE 0))

HLen(e) == OfHash(e, Number(0), Number(Cardinality(DOMAIN e.data)))

\* HKEYS, HVALS and HGETALL, in the order of the HashMap.
HKeys(e) == OfHash(e, Strings(<<>>), Checked(SetToSeq(DOMAIN e.data)))

HVals(e) ==
    OfHash(e, Strings(<<>>),
           Checked(LET fs == SetToSeq(DOMAIN e.data)
                   IN  [i \in DOMAIN fs |-> e.data[fs[i]]]))

HGetAll(e) ==
    OfHash(e, Strings(<<>>),
           Checked(LET fs == SetToSeq(DOMAIN e.data)
                   IN  FlattenSeq([i \in DOMAIN fs |-> <<fs[i], e.data[fs[i]]>>])))

=============================================================================
