------------------------------ MODULE Recovery ------------------------------
(***************************************************************************)
(* What a restart makes of the commands in the append-only file: aof_frame *)
(* (src/src/cmd/mod.rs), the snapshot a rewrite writes (src/src/aof.rs)    *)
(* and replay, which applies the frames again, at a later time, and cuts   *)
(* the file off at the first frame that fails.  AppendOnlyFile shows that  *)
(* the file holds the right frames; here a write and its frame are one     *)
(* step, and the question is what the frames mean when they are replayed.  *)
(***************************************************************************)
EXTENDS Commands

CONSTANTS
    Requests,     \* the write commands clients send
    MaxAbsolute,  \* MAX_EXPIRE_AT_MS; MaxTime stands for all that is later
    MaxLog,       \* bound: a file this long is appended to no more
    Splits(_, _, _),  \* a key, a string, a deadline: their SET is over the limit
                      \* of replay, ~frame_is_replayable
    Pieces(_, _)      \* a key, a string: what the APPENDs of a rewrite carry,
                      \* as SnapshotFrames cuts it

ASSUME RecoveryAssumption ==
    /\ Requests \subseteq Command
    /\ MaxAbsolute \in Nat \ {0} /\ MaxTime = MaxAbsolute + 1
    /\ MaxLog \in Nat
    /\ IsFiniteSet(Keys) /\ Fields # {}
    \* absolute_deadline and relative_deadline accept no later one for EXPIRE.
    /\ \A c \in Requests : c.op = "expire" => c.at <= MaxAbsolute
    \* A frame that was read is no larger than one that may be written.
    /\ \A c \in Requests : ~TooLarge(<<c.val>>)
    \* The pieces make up the string; neither they nor what is there of it
    \* before the last one are longer than the string.
    /\ \A k \in Keys, b \in Bytes :
          /\ Pieces(k, b) \in Seq(Bytes)
          /\ \E p \in [0 .. Len(Pieces(k, b)) -> Bytes] :
                /\ p[0] = EmptyBytes /\ p[Len(Pieces(k, b))] = b
                /\ \A i \in 1 .. Len(Pieces(k, b)) :
                      /\ p[i] = Concat(p[i - 1], Pieces(k, b)[i])
                      /\ ~TooLarge(<<b>>) =>
                            ~TooLarge(<<p[i]>>) /\ ~TooLarge(<<Pieces(k, b)[i]>>)

VARIABLES
    slots,   \* the slot of each key
    now,     \* the wall clock
    log,     \* the frames in the file
    stamps   \* history: when each frame was logged

vars == <<slots, now, log, stamps>>

-----------------------------------------------------------------------------
(***************************************************************************)
(* Frames.  px is the relative time that stands for a deadline too late to *)
(* be written as an absolute one.                                          *)
(***************************************************************************)
Clamp(n) == IF n < 1 THEN 1 ELSE IF n > MaxAbsolute THEN MaxAbsolute ELSE n

\* push_set_expiry and expiry_frame: the relative time, 0 if there is none.
Late(at, t) == IF at > MaxAbsolute THEN Clamp(at - t) ELSE 0

\* Mutant: the deadline of a SET is not logged.
FrameWithoutExpiry(c, t) ==
    [cmd |-> IF c.op = "set" THEN [c EXCEPT !.at = Never] ELSE c, px |-> 0]

\* aof_frame.
Frame(c, t) == [cmd |-> c, px |-> IF c.op = "set" THEN Late(c.at, t) ELSE 0]

\* from_frame: set_relative_deadline for PX, the absolute deadline otherwise.
Parse(f, t) ==
    IF f.px = 0 THEN f.cmd
    ELSE [f.cmd EXCEPT !.at = IF t + f.px > MaxTime THEN MaxTime ELSE t + f.px]

\* PEXPIRE, with a relative time.
IsPExpire(f) == f.cmd.op = "expire" /\ f.px # 0

\* relative_deadline: from_frame refuses a PEXPIRE beyond the signed range.
Refused(f, t) == IsPExpire(f) /\ t + f.px > MaxAbsolute

\* One command, all its keys in turn, up to the first error.
ApplyAll(c, s, t) ==
    LET Store(sl, k, r) == [slots |-> [sl EXCEPT ![k] = r.slot], err |-> r.err]
        after[i \in 0 .. Len(c.keys)] ==
            IF i = 0 THEN [slots |-> s, err |-> FALSE]
            ELSE IF after[i - 1].err THEN after[i - 1]
            ELSE Store(after[i - 1].slots, c.keys[i],
                       Apply(c, after[i - 1].slots[c.keys[i]], t))
    IN  after[Len(c.keys)]

EmptyDb == [k \in Keys |-> EmptySlot]

\* One turn of replay; after the first frame that fails, of which nothing but
\* the removal of a stale key may remain, there are no more.
ReplayFrame(acc, f, t) ==
    LET r == ApplyAll(Parse(f, t), acc.slots, t)
    IN  IF acc.err THEN acc
        ELSE IF Refused(f, t) THEN [acc EXCEPT !.err = TRUE]
        ELSE [slots |-> r.slots, err |-> r.err,
              applied |-> acc.applied + (IF r.err THEN 0 ELSE 1)]

\* replay, of the frames of a file that come after those it has applied.
ReplayFrom(acc, fs, t) ==
    LET after[i \in 0 .. Len(fs)] ==
            IF i = 0 THEN acc ELSE ReplayFrame(after[i - 1], fs[i], t)
    IN  after[Len(fs)]

NothingReplayed == [slots |-> EmptyDb, err |-> FALSE, applied |-> 0]

ReplayAt(fs, t) == ReplayFrom(NothingReplayed, fs, t)

\* A string that write_string_snapshot does not write in one SET.
IsSplit(k, e) == e.type = "string" /\ Splits(k, e.data[1], e.expires)

\* The commands that write the value: of a string one SET with its deadline,
\* or an empty SET and APPENDs; of a list or a hash item by item (a chunk
\* holds at least one).
SnapshotValue(k, e, t) ==
    LET f == CHOOSE g \in Fields : TRUE
        fields == SetToSeq(DOMAIN e.data)
        pieces == Pieces(k, e.data[1])
    IN  CASE IsSplit(k, e) ->
                <<Frame(Cmd("set", <<k>>, EmptyBytes, f, 0, Never), t)>>
                \o [i \in 1 .. Len(pieces) |->
                        Frame(Cmd("append", <<k>>, pieces[i], f, 0, Never), t)]
          [] e.type = "string" /\ ~IsSplit(k, e) ->
                <<Frame(Cmd("set", <<k>>, e.data[1], f, 0, e.expires), t)>>
          [] e.type = "list" ->
                [i \in 1 .. Len(e.data) |->
                    Frame(Cmd("rpush", <<k>>, e.data[i], f, 0, Never), t)]
          [] e.type = "hash" ->
                [i \in 1 .. Len(fields) |->
                    Frame(Cmd("hset", <<k>>, e.data[fields[i]], fields[i], 0, Never), t)]
          [] OTHER -> <<>>

\* write_expiry_snapshot: PEXPIREAT, or PEXPIRE if the deadline is too late.
\* A string in one SET has its deadline there.
SnapshotExpiry(k, e, t) ==
    IF e.expires = Never \/ (e.type = "string" /\ ~IsSplit(k, e)) THEN <<>>
    ELSE <<[cmd |-> Cmd("expire", <<k>>, EmptyBytes, CHOOSE g \in Fields : TRUE,
                        0, e.expires),
            px |-> Late(e.expires, t)]>>

\* Mutant: the deadline is written before the items.
SnapshotExpiryFirst(k, e, t) == SnapshotExpiry(k, e, t) \o SnapshotValue(k, e, t)

\* write_snapshot_entry.
SnapshotEntry(k, e, t) == SnapshotValue(k, e, t) \o SnapshotExpiry(k, e, t)

\* aof_snapshot_entries and write_snapshot_entries: the live keys.
SnapshotFrames(s, t) ==
    LET ks == SetToSeq({k \in Keys : ~Expired(s[k].entry, t)})
    IN  FlattenSeq([i \in 1 .. Len(ks) |-> SnapshotEntry(ks[i], s[ks[i]].entry, t)])

-----------------------------------------------------------------------------
Init ==
    /\ slots = EmptyDb /\ now = 0
    /\ log = <<>> /\ stamps = <<>>

\* The clock does not reach the deadlines beyond the signed range.
Tick ==
    /\ now < MaxAbsolute
    /\ now' = now + 1
    /\ UNCHANGED <<slots, log, stamps>>

\* A write command is applied and, unless it answers an error, logged.  (A
\* relative time of SET is itself at most MAX_EXPIRE_AT_MS.)
Write(c) ==
    /\ Len(log) < MaxLog
    /\ c.at <= now + MaxAbsolute
    /\ \E r \in {ApplyAll(c, slots, now)} :
           /\ slots' = r.slots
           /\ log' = IF r.err THEN log ELSE Append(log, Frame(c, now))
           /\ stamps' = IF r.err THEN stamps ELSE Append(stamps, now)
    /\ UNCHANGED now

Sweep ==
    /\ slots' = [k \in Keys |-> SweepEntry(slots[k], now)]
    /\ UNCHANGED <<now, log, stamps>>

\* BGREWRITEAOF, from the snapshot to the switch.
Rewrite ==
    /\ log' = SnapshotFrames(slots, now)
    /\ stamps' = [i \in 1 .. Len(log') |-> now]
    /\ UNCHANGED <<slots, now>>

\* The process ends; main replays the file and truncate_aof cuts its tail.
Restart ==
    /\ \E r \in {ReplayAt(log, now)} :
           /\ slots' = r.slots
           /\ log' = SubSeq(log, 1, r.applied)
           /\ stamps' = SubSeq(stamps, 1, r.applied)
    /\ UNCHANGED now

Next ==
    \/ Tick
    \/ \E c \in Requests : Write(c)
    \/ Sweep
    \/ Rewrite
    \/ Restart

Spec == Init /\ [][Next]_vars

-----------------------------------------------------------------------------
LiveView(s, t) == [k \in Keys |-> Live(s[k].entry, t)]

\* Every variable keeps its type.
TypeOK ==
    /\ slots \in [Keys -> Slot] /\ now \in Times
    /\ log \in Seq([cmd: Command, px: Times])
    /\ stamps \in Seq(Times) /\ Len(stamps) = Len(log)

\* No deadline in the file has passed since it was logged.
NoneLapsed ==
    \A i \in 1 .. Len(log) : \/ log[i].cmd.at \in {Never} \cup (0 .. stamps[i])
                             \/ log[i].cmd.at > now

\* No PEXPIRE is in the file.
NonePExpire == \A i \in 1 .. Len(log) : ~IsPExpire(log[i])

\* A restart before any deadline in the file has lapsed, and with no PEXPIRE
\* in it, brings every key back with its value and its deadline, and finds
\* no frame that fails, whatever commands, sweeps, rewrites and restarts came
\* before.
RestartIsFaithful ==
    [][Restart /\ NoneLapsed /\ NonePExpire =>
        log' = log /\ LiveView(slots', now) = LiveView(slots, now)]_vars

\* The one entry whose commands replay does not take: a string that is
\* split and has a deadline beyond the signed range ends in a PEXPIRE.
LateSplit(k, e) == IsSplit(k, e) /\ e.expires > MaxAbsolute

\* The snapshot of s at the time now replays at the time t to what is then
\* left of s.
ReplaysAt(s, t) ==
    \E r \in {ReplayAt(SnapshotFrames(s, now), t)} :
        ~r.err /\ LiveView(r.slots, t) = LiveView(s, t)

\* The snapshot that a rewrite would write now replays, at any later time,
\* to what would then be left of the key space, unless a late string in it
\* has to be split; and then at no time.
SnapshotReplaysLater ==
    \A t \in now .. MaxAbsolute :
        ReplaysAt(slots, t) <=> \A k \in Keys : ~LateSplit(k, slots[k].entry)

-----------------------------------------------------------------------------
(***************************************************************************)
(* What the documentation says and the code does not do.                   *)
(***************************************************************************)

\* README.md, Persistence: replay truncates a tail left by a partial frame;
\* every frame here is whole, so a restart drops none of them.
RestartKeepsLog == [][Restart => log' = log]_vars

=============================================================================
