------------------------------ MODULE Keyspace ------------------------------
(***************************************************************************)
(* The key space in memory: the write command that holds the gate          *)
(* (src/src/server.rs, handle), the sweeper (src/src/db/expire.rs) and the *)
(* clock, interleaved at the shard mutexes.  A write takes its rollback    *)
(* snapshot key by key, is applied key by key, waits for the append-only   *)
(* file's answer and, if that is an error, is taken back key by key; the   *)
(* sweeper visits shard after shard with the time it read when it started. *)
(* The gate lets one write command in at a time (AppendOnlyFile), so one   *)
(* command is all the state the writers have.                              *)
(***************************************************************************)
EXTENDS Commands

CONSTANTS
    Requests,    \* the write commands clients send
    NumShards,   \* SHARDS
    ShardOf,     \* shard_for: the shard of each key
    MaxItems     \* bound: a list this long is pushed to no more

ASSUME KeyspaceAssumption ==
    /\ Requests \subseteq Command
    /\ NumShards \in Nat \ {0}
    /\ ShardOf \in [Keys -> 1 .. NumShards]
    /\ MaxItems \in Nat
    \* A frame that was read is no larger than one that may be written, so a
    \* string in it fits into a reply of its own.
    /\ \A c \in Requests : ~TooLarge(<<c.val>>)

VARIABLES
    slots,      \* the slot of each key
    now,        \* the wall clock, in milliseconds
    phase,      \* where the write command is in handle()
    cmd,        \* the command
    todo,       \* the keys it has still to visit in this phase
    rollback,   \* the entries snapshot_entries has read
    reply,      \* the reply to the last command
    before,     \* history: the entries when the command took the gate
    sweepAt,    \* the shard sweep_once visits next, 0 between sweeps
    sweepNow    \* the time it read at its start

writeVars == <<phase, cmd, todo, rollback, reply, before>>
sweepVars == <<sweepAt, sweepNow>>
vars == <<slots, now, writeVars, sweepVars>>

NoCmd == Cmd("none", <<>>, EmptyBytes, EmptyBytes, 0, Never)

Init ==
    /\ slots = [k \in Keys |-> EmptySlot] /\ now = 0
    /\ phase = "idle" /\ cmd = NoCmd /\ todo = <<>>
    /\ rollback = [k \in Keys |-> Absent] /\ reply = "none"
    /\ before = [k \in Keys |-> Absent]
    /\ sweepAt = 0 /\ sweepNow = 0

-----------------------------------------------------------------------------
Tick ==
    /\ now < MaxTime
    /\ now' = now + 1
    /\ UNCHANGED <<slots, writeVars, sweepVars>>

\* A command has got the gate.
BeginWrite(c) ==
    /\ phase = "idle"
    /\ c.op \in {"lpush", "rpush"} =>
        LET e == slots[Head(c.keys)].entry
        IN  e.type = "list" => Len(e.data) < MaxItems
    /\ phase' = "snapshot" /\ cmd' = c /\ todo' = MutatedKeys(c)
    /\ reply' = "none"
    /\ before' = [k \in Keys |-> slots[k].entry]
    /\ UNCHANGED <<slots, now, rollback, sweepVars>>

\* The gate is dropped and the command answered.
EndWrite(r) ==
    /\ phase' = "idle" /\ cmd' = NoCmd /\ todo' = <<>> /\ reply' = r
    /\ rollback' = [k \in Keys |-> Absent]

\* snapshot_entries, one key.
SnapshotKey ==
    /\ phase = "snapshot"
    /\ rollback' = [rollback EXCEPT ![Head(todo)] = slots[Head(todo)].entry]
    /\ IF Tail(todo) # <<>>
       THEN todo' = Tail(todo) /\ UNCHANGED phase
       ELSE todo' = cmd.keys /\ phase' = "apply"
    /\ UNCHANGED <<slots, now, cmd, reply, before, sweepVars>>

\* cmd.apply, one key; an error ends the command.
ApplyToKey ==
    /\ phase = "apply"
    /\ LET k == Head(todo)
           r == Apply(cmd, slots[k], now)
       IN  /\ slots' = [slots EXCEPT ![k] = r.slot]
           /\ IF r.err THEN EndWrite("error") /\ UNCHANGED before
              ELSE /\ todo' = Tail(todo)
                   /\ phase' = IF Tail(todo) = <<>> THEN "logging" ELSE "apply"
                   /\ UNCHANGED <<cmd, rollback, reply, before>>
    /\ UNCHANGED <<now, sweepVars>>

\* AofHandle::write is answered.
LogOk ==
    /\ phase = "logging"
    /\ EndWrite("ok")
    /\ UNCHANGED <<slots, now, before, sweepVars>>

LogFails ==
    /\ phase = "logging"
    /\ phase' = "restore" /\ todo' = MutatedKeys(cmd)
    /\ UNCHANGED <<slots, now, cmd, rollback, reply, before, sweepVars>>

\* restore_entries, one key.
RestoreKey ==
    /\ phase = "restore"
    /\ LET k == Head(todo)
       IN  slots' = [slots EXCEPT ![k] = RestoreEntry(slots[k], rollback[k])]
    /\ IF Tail(todo) # <<>>
       THEN todo' = Tail(todo) /\ UNCHANGED <<phase, cmd, rollback, reply>>
       ELSE EndWrite("rejected")
    /\ UNCHANGED <<now, before, sweepVars>>

BeginSweep ==
    /\ sweepAt = 0
    /\ sweepAt' = 1 /\ sweepNow' = now
    /\ UNCHANGED <<slots, now, writeVars>>

\* sweep_once, one shard.
SweepShard ==
    /\ sweepAt # 0
    /\ slots' = [k \in Keys |-> IF ShardOf[k] = sweepAt
                                THEN SweepEntry(slots[k], sweepNow)
                                ELSE slots[k]]
    /\ sweepAt' = IF sweepAt = NumShards THEN 0 ELSE sweepAt + 1
    /\ UNCHANGED <<now, writeVars, sweepNow>>

-----------------------------------------------------------------------------
WriteStep == SnapshotKey \/ ApplyToKey \/ LogOk \/ LogFails \/ RestoreKey

SweepStep == BeginSweep \/ SweepShard

Next ==
    \/ Tick
    \/ \E c \in Requests : BeginWrite(c)
    \/ WriteStep
    \/ SweepStep

Spec == Init /\ [][Next]_vars

\* The sweeper's interval fires for ever and its task gets to run.
FairSpec == Spec /\ WF_vars(SweepStep)

-----------------------------------------------------------------------------
\* Every variable keeps its type.
TypeOK ==
    /\ slots \in [Keys -> Slot] /\ now \in Times
    /\ phase \in {"idle", "snapshot", "apply", "logging", "restore"}
    /\ cmd \in Command \cup {NoCmd}
    /\ todo \in Seq(Keys)
    /\ rollback \in [Keys -> Entry] /\ before \in [Keys -> Entry]
    /\ reply \in {"none", "ok", "error", "rejected"}
    /\ sweepAt \in 0 .. NumShards /\ sweepNow \in Times

\* The index has exactly one row for a key with a deadline, the one of that
\* deadline, and none for any other key, after every mix of SET EX, EXPIRE,
\* PERSIST, removal, rollback and sweep: a row too many is memory that churn
\* would pile up, a row too few a key that is never swept.
IndexExact ==
    \A k \in Keys, t \in Times :
        slots[k].rows[t] = IF slots[k].entry.expires = t THEN 1 ELSE 0

\* A list or a hash is never stored empty: commands that take the last item
\* remove the key, and no error leaves one that was just inserted.
NoEmptyCollection ==
    \A k \in Keys : slots[k].entry.type \in {"list", "hash"}
                        => slots[k].entry.data # <<>>

\* A command that was answered with an error, its own or "AOF write failed",
\* has left every key as a reader would have found it without the command,
\* whatever the sweeper and the clock did meanwhile.
FailedWriteChangesNothing ==
    phase = "idle" /\ reply \in {"error", "rejected"} =>
        \A k \in Keys : Live(slots[k].entry, now) = Live(before[k], now)

\* The sweeper never changes what a reader sees, although the time it uses
\* may be stale and keys may have been set, extended or persisted since.
SweepIsInvisible ==
    [][SweepStep => \A k \in Keys : Live(slots'[k].entry, now) = Live(slots[k].entry, now)]_vars

\* An expired entry that no command touches is reclaimed.
ExpiredIsReclaimed ==
    \A k \in Keys : Expired(slots[k].entry, now) ~> ~Expired(slots[k].entry, now)

\* What a read command replies is never more than write_frame sends, or the
\* connection would be closed instead of answered.  GET, LINDEX and HGET do
\* not check it themselves: they rely on what every write lets in, and on
\* APPEND, which puts two strings that fit together.
RepliesFit ==
    LET live(k) == Live(slots[k].entry, now)
        fits(r) == ~TooLarge(r.items)
    IN  /\ \A k \in Keys :
              /\ fits(Get(live(k))) /\ fits(HGetAll(live(k)))
              /\ fits(LRange(live(k), 0, -1))
              /\ \A i \in 0 .. MaxItems : fits(LIndex(live(k), i))
              /\ \A f \in Fields : fits(HGet(live(k), f))
        /\ \A k, j \in Keys : fits(MGet(<<live(k), live(j)>>))

\* The positions of a list that are not before from nor behind to, both
\* counted from the end if they are negative.
Between(items, from, to) ==
    LET at(i) == IF i < 0 THEN Len(items) + i ELSE i
        first == Cardinality({p \in 0 .. Len(items) - 1 : p < at(from)})
        count == Cardinality({p \in 0 .. Len(items) - 1 : p >= at(from) /\ p <= at(to)})
    IN  SubSeq(items, first + 1, first + count)

\* How long a list is, what is at a position and what is between two, for
\* indices before, within and behind the list.
ListReadsAgree(e) ==
    LET ids == -(MaxItems + 2) .. MaxItems + 1
    IN  /\ LLen(e) = Number(Len(e.data))
        /\ \A i, j \in ids : LRange(e, i, j) = Checked(Between(e.data, i, j))
        /\ \A i \in ids : LIndex(e, i) = LRange(e, i, i)

\* What a hash maps to.
HashReadsAgree(e) ==
    /\ HLen(e) = Number(Cardinality({f \in Fields : HExists(e, f) = Number(1)}))
    /\ \A f \in Fields : HExists(e, f) = Number(Len(HGet(e, f).items))
    /\ HVals(e) # ErrorReply =>
          \A i \in DOMAIN HKeys(e).items :
              HGet(e, HKeys(e).items[i]).items = <<HVals(e).items[i]>>

\* The read commands agree with each other about every entry: which keys
\* exist, what is in a list and what is in a hash.
ReadsAgree ==
    \A k \in Keys :
        LET e == Live(slots[k].entry, now)
        IN  /\ PTtl(slots[k].entry, now) = Number(-2) <=> Exists(e) = Number(0)
            /\ e.type = "list" => ListReadsAgree(e)
            /\ e.type = "hash" => HashReadsAgree(e)

=============================================================================
