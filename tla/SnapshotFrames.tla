--------------------------- MODULE SnapshotFrames ---------------------------
(***************************************************************************)
(* How the rewrite of src/src/aof.rs cuts the values of the key space into *)
(* commands that replay can read back: lengths in bytes, greedy chunks for *)
(* lists and hashes, a binary search for the chunks of a string, one turn  *)
(* of a loop at a time.                                                    *)
(*                                                                         *)
(* A byte string is a sequence of bytes and a command the sequence of its  *)
(* arguments, the array of bulk strings it is encoded as.  The lengths do  *)
(* not come near usize::MAX, so checked_add never fails.                   *)
(***************************************************************************)
EXTENDS Integers, Sequences

CONSTANTS
    Byte,         \* the bytes, the letters of the command names among them
    MaxBuffered,  \* MAX_AOF_BUFFERED_FRAME_BYTES, MAX_BUFFERED_FRAME_BYTES
                  \* and MAX_BULK_LEN, which are the same number
    Rewrites      \* what a rewrite may find: sequences of entries

\* An entry: kind, key, the bulk strings of each item, and the deadline, <<>>
\* without one.  A string has one item, a list's items have one part each, a
\* hash's two, in the order of its fields.  A deadline is "at" a time, with
\* the digits of that, or too "late" for the signed range, with the digits of
\* the time that is left: as many at every moment of a rewrite.
Entry(kind, key, items, deadline) ==
    [kind |-> kind, key |-> key, items |-> items, deadline |-> deadline]

ByteString == Seq(Byte)

\* deadline > MAX_EXPIRE_AT_MS.
IsLate(x) == x.deadline # <<>> /\ x.deadline[1] = "late"

\* write_snapshot_entry leaves out empty collections, and expired entries.
\* Only SET PX and SET EX give a late deadline, so strings alone have one.
IsEntry(e) ==
    /\ e \in [kind: {"string", "list", "hash"}, key: ByteString,
             items: Seq(Seq(ByteString)),
             deadline: {<<>>} \cup ({"at", "late"} \X ByteString)]
    /\ e.items # <<>> /\ (e.kind = "string" => Len(e.items) = 1)
    /\ IsLate(e) => e.kind = "string"
    /\ \A i \in 1 .. Len(e.items) : Len(e.items[i]) = IF e.kind = "hash" THEN 2 ELSE 1
    /\ e.kind = "hash" =>
          \A i, j \in 1 .. Len(e.items) : e.items[i][1] = e.items[j][1] => i = j

ASSUME FramesAssumption ==
    /\ {"A", "D", "E", "H", "I", "N", "P", "R", "S", "T", "U", "X"} \subseteq Byte
    /\ MaxBuffered \in Nat
    /\ \A es \in Rewrites : /\ Len(es) \in Nat
                            /\ \A i \in 1 .. Len(es) : IsEntry(es[i])

VARIABLES
    entries,  \* the entries that are being written
    file,     \* the commands in the temporary file, of one entry after the other
    cmds,     \* those of the entry under way
    stage,    \* the part of the code that handles it, or "failed": an error has
              \* ended the rewrite and the temporary file is removed
    taken,    \* the items, or bytes, of its value that have been taken
    current,  \* current: the parts of the chunk that is being filled
    payload,  \* payload_len
    lo, hi    \* the binary search; in the end both are chunk_len

snapshotVars == <<entries, file, cmds, stage, taken, current, payload, lo, hi>>

\* decimal_len_usize.
DecimalLen[n \in Nat] == IF n < 10 THEN 1 ELSE 1 + DecimalLen[n \div 10]

\* resp_bulk_len: $, length, CRLF, the bytes, CRLF.
BulkLen(n) == 1 + DecimalLen[n] + 2 + n + 2

\* resp_array_header_len: *, length, CRLF.
ArrayHeaderLen(n) == 1 + DecimalLen[n] + 2

PayloadLen(args) ==
    LET sum[i \in 0 .. Len(args)] ==
            IF i = 0 THEN 0 ELSE sum[i - 1] + BulkLen(Len(args[i]))
    IN  sum[Len(args)]

\* encoded_len of a command.
CommandLen(args) == ArrayHeaderLen(Len(args)) + PayloadLen(args)

\* frame_is_replayable.
Replayable(args) == CommandLen(args) <= MaxBuffered

-----------------------------------------------------------------------------
SetName       == <<"S", "E", "T">>
AppendName    == <<"A", "P", "P", "E", "N", "D">>
RPushName     == <<"R", "P", "U", "S", "H">>
HSetName      == <<"H", "S", "E", "T">>
PxAtName      == <<"P", "X", "A", "T">>
PxName        == <<"P", "X">>
PExpireAtName == <<"P", "E", "X", "P", "I", "R", "E", "A", "T">>
PExpireName   == <<"P", "E", "X", "P", "I", "R", "E">>

-----------------------------------------------------------------------------
(***************************************************************************)
(* The entry under way.                                                    *)
(***************************************************************************)
entry == entries[Len(file) + 1]
Value == entry.items[1][1]
Name(x) == IF x.kind = "list" THEN RPushName ELSE HSetName

\* push_set_expiry.
SetExpiry(x) ==
    IF x.deadline = <<>> THEN <<>>
    ELSE <<IF IsLate(x) THEN PxName ELSE PxAtName, x.deadline[2]>>

\* The commands for it: set_frame, with and without the value; APPEND; RPUSH
\* or HSET; expiry_frame.
SetWhole(x) == <<SetName, x.key, x.items[1][1]>> \o SetExpiry(x)
SetEmpty(x) == <<SetName, x.key, <<>>>>
AppendOf(x, piece) == <<AppendName, x.key, piece>>
Chunk(x, parts) == <<Name(x), x.key>> \o parts
ExpiryOf(x) == <<IF IsLate(x) THEN PExpireName ELSE PExpireAtName, x.key, x.deadline[2]>>

Idle ==
    /\ file = <<>> /\ cmds = <<>> /\ stage = "entry"
    /\ taken = 0 /\ current = <<>> /\ payload = 0 /\ lo = 0 /\ hi = 0

SnapshotInit == entries \in Rewrites /\ Idle

Complete == stage = "entry" /\ Len(file) = Len(entries)

\* write_string_snapshot: the whole value in one SET.
WriteWhole ==
    /\ stage = "entry" /\ ~Complete
    /\ entry.kind = "string" /\ Replayable(SetWhole(entry))
    /\ file' = Append(file, <<SetWhole(entry)>>)
    /\ UNCHANGED <<entries, cmds, stage, taken, current, payload, lo, hi>>

AppendBase(key) == ArrayHeaderLen(3) + BulkLen(Len(AppendName)) + BulkLen(Len(key))

\* An empty SET instead; then max_append_chunk_len, where the search begins.
BeginString ==
    /\ stage = "entry" /\ ~Complete
    /\ entry.kind = "string" /\ ~Replayable(SetWhole(entry))
    /\ cmds' = <<SetEmpty(entry)>>
    /\ stage' = IF /\ Replayable(SetEmpty(entry))
                   /\ AppendBase(entry.key) + BulkLen(0) <= MaxBuffered
                THEN "search" ELSE "failed"
    /\ lo' = 0 /\ hi' = MaxBuffered
    /\ UNCHANGED <<entries, file, taken, current, payload>>

\* Mutant of Halve: the limit is taken one byte too high.
HalveOffByOne ==
    /\ stage = "search" /\ lo < hi
    /\ \E mid \in {lo + (hi - lo + 1) \div 2} :
          IF AppendBase(entry.key) + BulkLen(mid) <= MaxBuffered + 1
          THEN lo' = mid /\ hi' = hi
          ELSE lo' = lo /\ hi' = mid - 1
    /\ UNCHANGED <<entries, file, cmds, stage, taken, current, payload>>

\* One turn of the while loop of max_payload_len_for_frame.
Halve ==
    /\ stage = "search" /\ lo < hi
    /\ \E mid \in {lo + (hi - lo + 1) \div 2} :
          IF AppendBase(entry.key) + BulkLen(mid) <= MaxBuffered
          THEN lo' = mid /\ hi' = hi
          ELSE lo' = lo /\ hi' = mid - 1
    /\ UNCHANGED <<entries, file, cmds, stage, taken, current, payload>>

\* chunk_len is found.
BeginPieces ==
    /\ stage = "search" /\ lo >= hi
    /\ stage' = IF lo = 0 /\ Value # <<>> THEN "failed" ELSE "pieces"
    /\ taken' = 0
    /\ UNCHANGED <<entries, file, cmds, current, payload, lo, hi>>

\* Mutant of AppendPiece: the last piece is one byte too short.
AppendShortPiece ==
    /\ stage = "pieces" /\ taken < Len(Value)
    /\ \E end \in {IF taken + lo < Len(Value) THEN taken + lo ELSE Len(Value)} :
          \E c \in {AppendOf(entry, SubSeq(Value, taken + 1, end - 1))} :
             /\ cmds' = Append(cmds, c)
             /\ stage' = IF Replayable(c) THEN stage ELSE "failed"
             /\ taken' = end
    /\ UNCHANGED <<entries, file, current, payload, lo, hi>>

\* One turn of the while loop of write_string_snapshot.
AppendPiece ==
    /\ stage = "pieces" /\ taken < Len(Value)
    /\ \E end \in {IF taken + lo < Len(Value) THEN taken + lo ELSE Len(Value)} :
          \E c \in {AppendOf(entry, SubSeq(Value, taken + 1, end))} :
             /\ cmds' = Append(cmds, c)
             /\ stage' = IF Replayable(c) THEN stage ELSE "failed"
             /\ taken' = end
    /\ UNCHANGED <<entries, file, current, payload, lo, hi>>

EndPieces ==
    /\ stage = "pieces" /\ taken >= Len(Value)
    /\ stage' = "expiry"
    /\ UNCHANGED <<entries, file, cmds, taken, current, payload, lo, hi>>

-----------------------------------------------------------------------------
\* write_list_snapshot and write_hash_snapshot.
BeginItems ==
    /\ stage = "entry" /\ ~Complete
    /\ entry.kind \in {"list", "hash"}
    /\ stage' = "items" /\ taken' = 0 /\ current' = <<>> /\ payload' = 0
    /\ UNCHANGED <<entries, file, cmds, lo, hi>>

\* chunked_command_len, from the running length of the payload.
ChunkedLen(x, count, len) ==
    ArrayHeaderLen(count + 2) + BulkLen(Len(Name(x))) + BulkLen(Len(x.key)) + len

\* A turn of the for loop whose item fits into the chunk.
AddItem ==
    /\ stage = "items" /\ taken < Len(entry.items)
    /\ \E item \in {entry.items[taken + 1]} :
          /\ ChunkedLen(entry, Len(current) + Len(item), payload + PayloadLen(item)) <= MaxBuffered
          /\ current' = current \o item /\ payload' = payload + PayloadLen(item)
    /\ taken' = taken + 1
    /\ UNCHANGED <<entries, file, cmds, stage, lo, hi>>

\* Mutant of CloseChunk: the running length is not reset with the chunk.
CloseChunkStalePayload ==
    /\ stage = "items" /\ taken < Len(entry.items)
    /\ \E item \in {entry.items[taken + 1]} :
          /\ ChunkedLen(entry, Len(current) + Len(item), payload + PayloadLen(item)) > MaxBuffered
          /\ stage' = IF /\ current # <<>> /\ Replayable(Chunk(entry, current))
                         /\ ChunkedLen(entry, Len(item), PayloadLen(item)) <= MaxBuffered
                      THEN stage ELSE "failed"
          /\ current' = item /\ payload' = payload + PayloadLen(item)
    /\ cmds' = Append(cmds, Chunk(entry, current))
    /\ taken' = taken + 1
    /\ UNCHANGED <<entries, file, lo, hi>>

\* Mutant of CloseChunk: the item that finds the chunk full is forgotten.
CloseChunkForgets ==
    /\ stage = "items" /\ taken < Len(entry.items)
    /\ \E item \in {entry.items[taken + 1]} :
          /\ ChunkedLen(entry, Len(current) + Len(item), payload + PayloadLen(item)) > MaxBuffered
          /\ stage' = IF /\ current # <<>> /\ Replayable(Chunk(entry, current))
                         /\ ChunkedLen(entry, Len(item), PayloadLen(item)) <= MaxBuffered
                      THEN stage ELSE "failed"
    /\ current' = <<>> /\ payload' = 0
    /\ cmds' = Append(cmds, Chunk(entry, current))
    /\ taken' = taken + 1
    /\ UNCHANGED <<entries, file, lo, hi>>

\* A turn whose item does not: the chunk is written, if there is one, and
\* the item begins the next, if it fits at all.
CloseChunk ==
    /\ stage = "items" /\ taken < Len(entry.items)
    /\ \E item \in {entry.items[taken + 1]} :
          /\ ChunkedLen(entry, Len(current) + Len(item), payload + PayloadLen(item)) > MaxBuffered
          /\ stage' = IF /\ current # <<>> /\ Replayable(Chunk(entry, current))
                         /\ ChunkedLen(entry, Len(item), PayloadLen(item)) <= MaxBuffered
                      THEN stage ELSE "failed"
          /\ current' = item /\ payload' = PayloadLen(item)
    /\ cmds' = Append(cmds, Chunk(entry, current))
    /\ taken' = taken + 1
    /\ UNCHANGED <<entries, file, lo, hi>>

\* The last chunk.
EndItems ==
    /\ stage = "items" /\ taken = Len(entry.items)
    /\ cmds' = IF current = <<>> THEN cmds ELSE Append(cmds, Chunk(entry, current))
    /\ stage' = IF current = <<>> \/ Replayable(Chunk(entry, current)) THEN "expiry" ELSE "failed"
    /\ UNCHANGED <<entries, file, taken, current, payload, lo, hi>>

\* write_expiry_snapshot, the last thing for an entry.
WriteExpiry ==
    /\ stage = "expiry"
    /\ stage' = IF entry.deadline = <<>> \/ Replayable(ExpiryOf(entry)) THEN "entry" ELSE "failed"
    /\ file' = IF stage' = "failed" THEN file
               ELSE Append(file, IF entry.deadline = <<>> THEN cmds ELSE Append(cmds, ExpiryOf(entry)))
    /\ cmds' = IF stage' = "failed" THEN cmds ELSE <<>>
    /\ UNCHANGED <<entries, taken, current, payload, lo, hi>>

SnapshotNext ==
    \/ WriteWhole \/ BeginString \/ Halve \/ BeginPieces \/ AppendPiece \/ EndPieces
    \/ BeginItems \/ AddItem \/ CloseChunk \/ EndItems
    \/ WriteExpiry

SnapshotSpec == SnapshotInit /\ [][SnapshotNext]_snapshotVars

-----------------------------------------------------------------------------
(***************************************************************************)
(* Properties.                                                             *)
(***************************************************************************)

\* Entries no sequence of commands within the limit can rebuild: a part that
\* cannot be split, or the deadline, does not fit into a command of its own.
ExpiryTooLong(x) == x.deadline # <<>> /\ ~Replayable(ExpiryOf(x))
Unwritable(x) ==
    IF x.kind = "string"
    THEN /\ ~Replayable(SetWhole(x))
         /\ \/ ExpiryTooLong(x) \/ ~Replayable(SetEmpty(x))
            \/ \E b \in {x.items[1][1]} : b # <<>> /\ ~Replayable(AppendOf(x, <<b[1]>>))
    ELSE ExpiryTooLong(x) \/ \E i \in 1 .. Len(x.items) : ~Replayable(Chunk(x, x.items[i]))

\* A rewrite fails on the length of a frame for such an entry and for no
\* other: running lengths, header lengths and the binary search never let a
\* chunk grow past what write_replayable_snapshot_frame accepts.
FailsOnlyIfUnwritable ==
    /\ stage = "failed" => Unwritable(entry)
    /\ \A i \in 1 .. Len(file) : ~Unwritable(entries[i])

\* A chunk that is followed by another of its kind has no room for the first
\* part of that one.
FullChunks(x, cs) ==
    \A i \in 1 .. Len(cs) - 1 :
        cs[i][1] = cs[i + 1][1] =>
            ~Replayable(IF x.kind = "string"
                        THEN AppendOf(x, Append(cs[i][3], cs[i + 1][3][1]))
                        ELSE cs[i] \o SubSeq(cs[i + 1], 3, 2 + Len(x.items[1])))

\* Nor do they stop short of the limit: chunks are as long as they can be.
ChunksAreFull == \A i \in 1 .. Len(file) : FullChunks(entries[i], file[i])

\* What a command makes of the entry it names, and commands one by one of
\* a key that is not there.  A PEXPIRE that leads beyond the signed range is
\* refused (relative_deadline), where a SET with PX is not.
ReplayCommand(x, args) ==
    LET parts == SubSeq(args, 3, Len(args))
        pair(i) == <<parts[2 * i - 1], parts[2 * i]>>
    IN  CASE args[1] = SetName ->
               Entry("string", x.key, <<<<parts[1]>>>>,
                     IF Len(parts) # 3 THEN <<>>
                     ELSE <<IF parts[2] = PxName THEN "late" ELSE "at", parts[3]>>)
          [] args[1] = AppendName -> [x EXCEPT !.items = <<<<@[1][1] \o parts[1]>>>>]
          [] args[1] = RPushName ->
               Entry("list", x.key, x.items \o [i \in 1 .. Len(parts) |-> <<parts[i]>>],
                     x.deadline)
          [] args[1] = HSetName ->
               Entry("hash", x.key, x.items \o [i \in 1 .. Len(parts) \div 2 |-> pair(i)],
                     x.deadline)
          [] args[1] = PExpireAtName -> [x EXCEPT !.deadline = <<"at", parts[1]>>]
          [] args[1] = PExpireName -> x

Rebuilt(key, cs) ==
    LET after[i \in 0 .. Len(cs)] ==
            IF i = 0 THEN Entry("none", key, <<>>, <<>>)
            ELSE ReplayCommand(after[i - 1], cs[i])
    IN  after[Len(cs)]

\* A string that does not fit into one SET and whose deadline is late.
LateSplit(x) == IsLate(x) /\ ~Replayable(SetWhole(x))

\* The commands rebuild the entry they were written for, no value lost, cut
\* short or doubled where it was split into commands, but for one kind of
\* entry, which comes back without its deadline: a split string whose deadline
\* is late, because write_expiry_snapshot has no command for it.
SnapshotRebuilds ==
    \A i \in 1 .. Len(file) :
        Rebuilt(entries[i].key, file[i]) =
            IF LateSplit(entries[i]) THEN [entries[i] EXCEPT !.deadline = <<>>]
            ELSE entries[i]

=============================================================================
