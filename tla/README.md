# A TLA+ verification of mini-redis-rs

mini-redis-rs is a small Redis-compatible server: tokio tasks, a key space split
into mutex-protected shards, absolute expiry times, and an append-only file (AOF)
that makes acknowledged writes durable. This directory models the parts of it
where mistakes are expensive and hard to test: the durable write path, the key
space with its expiration index, what a restart makes of the file, pub/sub with
its forwarding tasks, and how bytes are cut into frames and back.

Paths are relative to the repository: `src/src/aof.rs` is the crate's `aof.rs`.

## Inventory of the system

| Component | State | Operations | Interaction |
|---|---|---|---|
| Connection, `server.rs` `handle` | the command it handles, the rollback snapshot | write command, read command, `BGREWRITEAOF`, `INFO`, subscribe | one task per connection; writes take `write_gate`, call into the shards, send to the AOF writer and wait for its answer |
| Write gate, `db/mod.rs` | FIFO `RwLock` of tokio | `pause_writes` (write side); `write_guard` (read side) has no caller | serializes writes with each other and with the start of a rewrite |
| Key space, `db/mod.rs`, `cmd/*.rs` | 16 shards: entries and an expiration index (deadline -> keys) | 19 write commands, reads, rollback snapshot and restore, snapshot of all entries | every access holds one shard mutex; commands on several keys lock key by key |
| Sweeper, `db/expire.rs` | the time it read | every 100 ms, shard by shard, drops what is due | races commands and rollbacks between two shard mutexes |
| AOF writer, `aof.rs` `run_writer` | the open file, `current_size`, `write_failed`, `rewrite_buffer` | Write, StartRewrite, FinishRewrite, AbortRewrite, the once-a-second sync | one task behind an mpsc channel, each message answered over a oneshot channel |
| Rewrite, `aof.rs` `rewrite_inner` | `rewrite_in_progress`, the snapshot, the temporary file | pause writes, start buffering, snapshot, write the file, hand it over | takes the gate, talks to the writer, renames over the live file |
| Replay, `aof.rs` `replay` | none | applies every frame, truncates the tail at the first that fails | runs before the writer is spawned |
| Command parsing and AOF frames, `cmd/mod.rs` | none | `from_frame`, `aof_frame`, relative and absolute deadlines | between connection, file and key space |
| Pub/sub, `server.rs` `run_subscribed`, `db/mod.rs` | the map of broadcast senders; per session the join handles, the output queue and the slow notice | subscribe, unsubscribe, publish, collection, forwarding | one forwarding task per subscription, from the broadcast channel to the session's bounded queue |
| Accept loop, `server.rs` | client permits, counters | accept, reject, close | a permit per connection task |
| RESP, `resp/*.rs`, `connection.rs`, `limits.rs` | read buffer | parse, encode, length limits, timeouts | bytes of one socket or of the AOF |

What is hard here: the gate is held across an `await` on another task; every I/O
call of the writer may fail and has a compensating action that may fail too; a
rewrite runs beside writes and ends in a multi-step switch of files; a crash may
come between any two steps; the sweeper works with a stale time; replay runs
old commands against a later clock; forwarding tasks end on their own, are aborted,
or outlive their session; and requests arrive in pieces. The hazards are listed, each at its line, in
`PROJECT.json`.

What makes each part correct:

- write path and AOF: an acknowledged write is in the file (and, by policy, on the
  disk), a rejected one is neither in memory nor in the file, the file replays to
  the key space, a rewrite changes nothing of that, everyone is answered;
- key space: the index has exactly the rows the entries need, a failed command
  leaves no trace, the sweeper is invisible and reclaims what is due;
- replay and snapshot: a restart gives back what clients saw before it;
- pub/sub and the accept loop: a subscriber gets every message of a channel in
  order and without gaps, or is cut off and told; channels, tasks and permits are
  given back when a connection ends;
- RESP and the snapshot: where reads happen to end decides nothing, and what a
  rewrite writes can be read back, whole, within the reader's limits.

## Modules

| Module | Models |
|---|---|
| `AppendOnlyFile` | connections, gate, channel, writer task, rewrite task, the two files, faults, crashes, restart |
| `MCAppendOnlyFile` | its finite instances; the connections are symmetric |
| `AppendOnlyFileProofs` | proofs about it: types, the gate, what the file holds |
| `AppendOnlyFileCrashProofs` | ... what readers, rejected writes and crashes find |
| `Commands` | each write command and each operation of `Shard`, as a function on the slot of one key; each read command, as a function of an entry |
| `Keyspace` | one write command (the gate admits one), sweeper and clock, interleaved at the shard mutexes |
| `MCKeyspace` | its finite instances: byte strings and workloads |
| `CommandsProofs` | lemmas about `Commands`, for `Keyspace` and `Recovery` |
| `KeyspaceProofs` | proofs about `Keyspace`: the expiration index, the sweeper, what commands leave behind and what reads reply |
| `Recovery` | AOF frames, the rewrite's snapshot as commands, replay at a later time |
| `MCRecovery` | its finite instance |
| `RecoveryProofs` | proofs about it: replay and the snapshot |
| `Clients` | the accept loop: permits, counters, `ClientGuard` |
| `PubSub` | sessions in subscribed mode, forwarding tasks, the map of senders, composed with `Clients` |
| `Feed` | the abstract specification of pub/sub that `PubSub` implements |
| `MCPubSub` | finite instances of `PubSub` |
| `PubSubProofs` | proofs about it: permits, senders, tasks and sessions, and that it implements `Feed` |
| `Induction` | induction over the naturals and loops, for the proofs |
| `SnapshotFrames` | frame lengths in bytes and how a rewrite cuts values into commands, turn by turn |
| `SnapshotFramesProofs` | proofs about it |
| `Resp` | the RESP encoder, the parser and inline requests, on sequences of bytes |
| `Framing` | a stream read in pieces, by a connection or by replay; a rewrite of `SnapshotFrames`, and the file it wrote read back |
| `MCFraming` | its streams and entries |

`Keyspace` and `Recovery` share `Commands`; `PubSub` extends `Clients`; `Framing`
extends `Resp`, which extends `SnapshotFrames`. `AppendOnlyFile` is about which frames
the file holds, `Keyspace` about what commands do to memory, `Recovery` about what
frames mean when they are replayed. Operators named in a comment "Mutant" are
deliberately wrong variants of the definition that follows them, kept to show that
the properties notice; no specification uses them.

### AppendOnlyFile

The key space is abstracted to the history of the writes applied to it, each with a
number of its own, so "the file replays to the key space" is an equation between two
sequences. A snapshot stands for the history it was taken of. Lengths count frames.

A file (`File`) is a snapshot, command frames, and `junk` (a torn or zero-filled
tail, behind which replay finds nothing); `synced` is the length known to be on
the disk and `cut` a truncation that is not synced yet. `Survivors` is what a
power loss may leave of it: at least the synced part, at most all of it, with a
pending truncation possibly undone and the last frame possibly torn. `linked` says
which of the two files the path names; `stale` holds files whose place a rename took
and whose return only the directory sync rules out.

| Actions | Code |
|---|---|
| `ReadWriteCommand`, `RefuseCommand`, `ApplyCommand`, `SendToWriter`, `WriterKnownFailed`, `ReplyFailed`, `ReplyOk` | `handle` and `AofHandle::write`, one action per stretch between two points where another task can run |
| `ReadCommand` | a read, which takes no gate |
| `RejectWrite`, `WriteOne(Fails)`, `SyncAfterWrite(Fails)`, `RollbackActiveFile` | the Write arm of `run_writer` |
| `EverySecSync(Fails)` | its timer arm |
| `HandleStartRewrite`, `HandleAbortRewrite`, `Finish...` | the other arms; `finish_rewrite_file` is cut into flush, rename, switch because a crash can come in between |
| `ScheduleRewrite`, `PauseWrites`, `StartRewriteBuffering`, `TakeSnapshot`, `WriteSnapshot(Fails)`, `RewriteEnds` | `schedule_rewrite` and `rewrite_inner` |
| `Kill`, `PowerLoss`, `Restart` | crashes; `replay` with `truncate_aof`, then `spawn_writer` |

`Faults` names the calls that may fail: `write`, `sync` (data sync of the active
file), `setlen`, `temp` (anything on the temporary file), `rename`, `dirsync`,
`postsync` (the data sync after the switch), `stat` (metadata, which the code turns
into length 0). `everysec` syncs after a write or not, at will: `last_sync` is time,
and both cases can occur at any write.

Assumptions: `write_all` has handed the frame to the OS when it returns (external;
see "Not modelled"); the AOF's directory entry is on the disk at the start; a
temporary file left by a crash has no effect, since the next rewrite truncates it.
Ctrl-c ends the process without draining anything, like `Kill`.

### Commands and Keyspace

All state of one key lives in one shard under one mutex, so the key space is a *slot*
per key: its entry, and how often the key occurs in the index row of each deadline.
Counting the occurrences, instead of keeping a set, is what makes duplicate rows
visible. A shard matters only as the unit the sweeper visits. `Keyspace` splits a
write command into the visits it makes to mutexes: rollback snapshot, apply and
restore go key by key, with the sweeper and the clock in between.

Integers have the code's boundaries with `MaxInt` for `i64::MAX`; a string that
parses as an `i64` is that integer, any other is a member of `Texts`; `TooLarge`
stands for the response limit. Several values of one LPUSH, HSET or HDEL are one
value: they are applied within one critical section, one after the other.

The read commands change nothing, so they are operators rather than actions: in
every reachable state `RepliesFit` and `ReadsAgree` ask what each of them would
reply. A reply is an error, a number or the strings in it. TTL is PTTL in seconds
and STRLEN a length of bytes; neither is modelled.

### Recovery

`Frame` is `aof_frame`: SET and EXPIRE carry absolute deadlines, and a SET whose
deadline is beyond the signed range carries a relative time instead (`Late`).
`MaxAbsolute` is the largest absolute deadline and `MaxTime`, one more, stands for all
later ones: that such a deadline moves by the time between logging and replay is below
the model's resolution, and the clock does not get there. `SnapshotEntry` gives the
commands a rewrite writes for an entry, and `ReplayAt` applies frames at a given time up
to the first that answers an error or is refused (`Refused`), where the file is cut. A
write and its frame are one step here.

A string whose SET is over the limit of replay is written as an empty SET, APPENDs and a
command for its deadline. Which strings these are, and what the APPENDs carry, are the
operator constants `Splits` and `Pieces`, so that the lengths in bytes stay with
`SnapshotFrames`; of the pieces it is assumed that they make up the string and that none
of them, nor what they make up on the way, is too large if the string is not.
Only strings can have a deadline beyond the signed range, from SET, as EXPIRE takes
none that late. Such a string in one SET keeps it there as a relative time, and replay
takes that. If it is split (`LateSplit`), `expiry_frame` makes it a PEXPIRE (`aof.rs:726`,
`IsPExpire`), which replay refuses at any time, as it would refuse it from a client
(`relative_deadline`, `cmd/mod.rs:784`): the key comes back without its deadline and the
file is cut behind it.

### Clients, PubSub and Feed

A message is its number within its channel, so order, gaps and repetitions can be
seen. `inbox` is what a broadcast receiver has not received, `hand` the message a
forwarding task holds between `recv` and `try_send`, `out` the session's queue.
A receiver whose inbox overflows is `lagged`.

| Actions | Code |
|---|---|
| `Accept`, `RejectClient`, `Serve`, `HandleReturns`, `DropGuard`, `ReleasePermit` | `accept_loop`, `ClientGuard`: the counter and the permit are given back in two steps |
| `PublishSend`, `PublishCollect` | `pubsub_publish`, cut between `send` and the look at `receiver_count`: the mutex is held, but receivers are dropped without it |
| `Recv`, `RecvLagged`, `TrySend`, `TrySendFull`, `TrySendClosed`, `Cancel` | the task spawned by `subscribe_one`, and the runtime cancelling it at its await point |
| `ReadSubscribe`, `SubscribeOne`, `ReadUnsubscribe`, `UnsubscribeOne`, `JoinAndCollect`, `UnsubscribeDone` | `run_subscribed`, one step per channel and per await |
| `Deliver`, `CloseSlow`, `ReadEof`, `ErrorReturn` | the arms of its `select!` |
| `CleanupOne`, `CleanupDone`, `Disconnect` | its loop at the end, and `handle` outside subscribed mode |

`ErrorReturn` stands for everything that leaves `run_subscribed` through `?` or
`return`: a protocol error, the idle timeout, a reply that cannot be written. It
drops the join handles without aborting the tasks. PING and refused commands in
subscribed mode change nothing and are left out, and so is `RecvError::Closed`,
which `NeverDeaf` shows cannot occur: a sender is removed only without receivers.

`Feed` knows neither tasks nor queues: a pair of client and channel is on, cut or
off, owes messages and delivers them in order. The refinement mapping takes what is
owed from the output queue, the task's hand and the inbox, in this order; a feed is
on while its task runs and its receiver has not lagged. A cut may take from the end of
what is owed twice: once the inbox, when the receiver lags, and once the message in hand,
when the task then finds the queue full.

### SnapshotFrames, Resp and Framing

Here bytes are real: a byte string is a sequence, a byte a one-character string.
`SnapshotFrames` has the length functions of `limits.rs` and `write_snapshot_entries` as a
state machine: `stage` is the part of the code that is at work on the entry under way,
`cmds` the commands written for it, `file` those of the entries before it.

| Actions | Code |
|---|---|
| `WriteWhole`, `BeginString`, `Halve`, `BeginPieces`, `AppendPiece`, `EndPieces` | `write_string_snapshot` with `max_payload_len_for_frame`: one SET, or an empty one, each turn of the binary search, each APPEND |
| `BeginItems`, `AddItem`, `CloseChunk`, `EndItems` | `write_list_snapshot` and `write_hash_snapshot`: a turn of the loop whose item fits into the chunk, one whose item does not, the last chunk |
| `WriteExpiry` | `write_expiry_snapshot` |
| `OpenFile`, `TakeFrame`, `RefuseCommand`, `ParseError`, `RefuseOverrun`, `Read`, `ReadEnd`, `IdleTimeout` | `Framing`: `read_frame` and the loop of `replay`, which ends at a command that is not accepted, here a PEXPIRE |

`Rewrites` are the entries a rewrite may find, `MaxBuffered` is the frame limit. A frame
that is too long makes the stage `failed`, in which `rewrite_inner` removes the
temporary file. A deadline is its digits, marked `at` if it is written as an absolute
time and `late` if it is beyond the signed range and written as a relative one, whose
number of digits is taken to be the same for all commands of a rewrite. `Resp` has the encoder and the parser
with all their limits, inline requests with quotes and escapes included. `Framing`
reads a stream in pieces; the stream may be the file of a rewrite, which is written first
(`Rewrite`), one step of `SnapshotFrames` at a time. What a stream contains is known from how it was put
together, by the encoder, by hand or by a rewrite, and never from the parser.

## Runs

Twelve runs, nine of which pass. Sizes are distinct states, times those of two to
three workers.

| Run | Instance | Properties |
|---|---|---|
| `AofAlways` | policy always; 2 connections, 4 writes, 2 rewrites, 2 power losses; faults write, sync, setlen, temp, rename | `TypeOK`, `AckedOnDisk`, `SizeMatches`, `WritesSerialized`, `AofInv` (of which `AofMirrorsDb` is a consequence, shown in the proof of `FileMirrorsDb`) |
| `AofEverySec` | policy everysec; 2 connections, 2 writes, 2 rewrites, 2 power losses; the same faults; fairness | `HardenedSurvives`, `LogKeepsHistory`, `EveryWriteAnswered`, `RewriteFinishes`, `EventuallyHardened` |
| `AofKill` | policy everysec; 2 connections, a reader, 3 writes, 2 rewrites, a kill; faults write, sync, temp, rename, dirsync; 2.7 million states, 2 minutes | `AckedOnDisk`, `NoResurrection`, `ReadsAtMostOneAhead` |
| `AofSwitch` | policy always; 2 connections, 3 writes, 2 rewrites, 2 kills; every fault of the switch | `AofMirrorsDb` |
| `Keyspace` | 2 keys in 2 shards; a behaviour has one of two workloads: SET with and without deadline, EXPIRE, PERSIST, MSET, DEL on both keys, or every command on one key with integers -2..1 and values of which two do not fit into a reply; fairness of the sweeper; 432,000 states, 90 s | `TypeOK`, `IndexExact`, `NoEmptyCollection`, `FailedWriteChangesNothing`, `RepliesFit`, `ReadsAgree`, `SweepIsInvisible`, `ExpiredIsReclaimed` |
| `RecoverySound` | 2 keys, all types, strings in one SET and split ones, deadlines that pass, do not pass and never can; file of 3 frames; 321,000 states, 30 s | `TypeOK`, `SnapshotReplaysLater`, `RestartIsFaithful` |
| `PubSubFanOut` | 3 connections, 2 client slots, 1 channel, 2 messages, inbox and queue of 1 | `TypeOK`, `NeverDeaf`, `ToldWhenStopped`, `OrphansOnlyFromErrors`, `ClientsCounted`, `FeedSpec` |
| `PubSubSession` | 1 connection, 2 channels that share its queue, 3 and 2 messages; fairness; 145,000 states, 2 minutes | `FeedSpec`, `SlowIsEnded`, `OwedIsDelivered` |
| `Framing` | frame limit 90 bytes, array limit 16, depth 2, line limit 20; streams of two requests, and rewrites of values around the limit with deadlines within and beyond the signed range; 47,500 states | `TypeOK`, `SplitsDecideNothing`, `RewriteReplays`, `FailsOnlyIfUnwritable`, `ChunksAreFull`, `SnapshotRebuilds` |

Three further runs show disagreements between the code and what the repository
says of it; each finds the named property violated.

| Run | Property | What happens |
|---|---|---|
| `AofStaleSize` | `AckedOnDisk` | After the rename, a failing data sync returns before `current_size` is stored (`aof.rs:901`). The next failed write is rolled back to the length of the *old* file and cuts acknowledged writes off the new one. |
| `RecoveryCutsLog` | `RestartKeepsLog` | `SET k 1 PX 10`, `INCR k`, the key expires, `LPUSH k x`. Replay after the deadline recreates `k` as a string without a deadline (by itself already a key that comes back after it had expired), `LPUSH` answers WRONGTYPE, and the intact rest of the file is truncated (`aof.rs:293`). |
| `FramingArrayLimit` | `RewriteReplays` | The run `Framing` with an array limit of 8. Chunks of lists and hashes are closed by their bytes alone (`aof.rs:497`, `547`), while the parser also refuses arrays of more than 1,048,576 parts (`parser.rs:247`). A list of a million short items, which takes many requests to build, is rewritten as one command that replay refuses: the key and everything behind it in the file are cut off. |

The passing runs exclude these situations: `postsync` and `stat` are not
combined with `write`; `RestartIsFaithful` is about restarts before a deadline in
the file has lapsed (`NoneLapsed`) and without a PEXPIRE in it (`NonePExpire`);
`SnapshotReplaysLater`, `SnapshotRebuilds` and `RewriteReplays` name the late split string and
say what becomes of it: no replay gets through, the key is rebuilt without its deadline, the
file is read up to the PEXPIRE; and in `Framing` the array limit of 16 is more than a chunk of 90
bytes can hold, as if the array limit followed from the limit in bytes. A directory
sync that fails (`dirsync`) is not combined with a power loss either: the code only
reports it, as the README announces. Nor is `setlen`, or `sync` with a power loss,
combined with `NoResurrection`: a truncation that failed, or was not synced when the
power went, leaves the rejected write in the file, which is what `AofMirrorsDb` and
the `write_failed` state allow. Policy no has no run of its own: everysec may skip
the sync after a write just as it does, and adds the timer.

Other places where code and documentation differ, known from the models and kept
out of the passing runs:

- A kill between a rewrite's rename and its directory sync leaves a rename that no
  later start syncs (`aof.rs:897`): writes acknowledged after the restart go to a file
  that a power loss may unlink. `kill` and `power` are therefore not combined.
- Reads do not take the read side of the gate (`server.rs:157`; `src/README.md:132`
  says they do): they see writes that may be rolled back. `ReadsAtMostOneAhead` is what
  remains true: one such write and never more. A read of several keys may also see
  part of an MSET.
- `SET k v PX 10`, `PERSIST k` (or `EXPIRE`), restart after the old deadline: the
  replayed PERSIST finds the key stale (`cmd/string.rs:256`) and a live key is gone.
- `SET k v PX 9223372036854775807`, then APPEND until the string no longer fits into one
  SET: the rewrite ends its commands with a PEXPIRE (`aof.rs:726`) that replay refuses, so the
  deadline and everything behind it in the file are lost at the next start, although the
  README has rewritten commands "within replay frame limits" (`src/README.md:86`) and such
  deadlines persisted (`src/README.md:102`). `SnapshotReplaysLater` is an equivalence and
  shows that this entry, and no other, has that effect, at any time of the replay.
- `pubsub_gc` is "called on connection close to prevent orphan channels
  accumulating" (`db/mod.rs:282`), but not on the error returns of `run_subscribed`:
  the forwarding task runs on until the next message, the channel stays until the
  publish after it. `OrphansOnlyFromErrors` says that nothing else leaves one.
- A RESP line that is longer than its limit is refused only if it has not arrived
  whole (`parser.rs:285`); with inline requests the limit holds either way.
- SET with a relative EX is logged in the longer PXAT form (`cmd/mod.rs:126`), so a
  request just within the input limit becomes a frame that replay refuses.

### Bounds

Two connections are enough for one write to be queued behind another and behind the
rewrite; the gate admits one, so a third adds only a longer queue. Three to four
writes put one before the snapshot, one or two into the buffer (over its limit of 1
or 2 too) and one behind the switch. Two rewrites let the second start from the
remains of the first, two crashes let recovery itself be followed by a crash.
Snapshots take 0 to 2 frames whatever they hold, so the new file may be shorter or
longer than the old one. In `Keyspace` three or four ticks of the clock are enough
for a deadline to be set, moved and passed while a sweep with an old time is under
way. In `Recovery` three frames are needed to set a deadline, change the key and use
it again. `AofKill` has one kill, to afford the reader beside two rewrites.

In `PubSub` three clients and two slots have one waiting for a permit while two
share the channel. With room for one message in the inbox and one in the queue, two
messages overrun either; the message in the task's hand is a third place. One session
needs two channels to have its queue filled by one and found full by the other. With
three messages (`PubSubSession`) a channel can have one in hand and one in the inbox and
overrun that while the queue is full: the task then ends although its feed is cut already.
In `Framing` 90 bytes leave room for a command with a key and a few values; keys of 1
and 36 bytes and values of every length around the limit and around 9 and 10 bytes,
where a length gets a second digit, put chunk borders everywhere. Streams of two
requests are read in pieces of each size from 1 byte to all.

Deadlock is checked in the `Keyspace` and `Recovery` runs. In those of
`AppendOnlyFile` and `PubSub` the clients fall silent once `MaxWrites` or
`MaxMessages` is used up or all have left, which is no deadlock of the server
(`EveryWriteAnswered`, `SlowIsEnded` and `OwedIsDelivered` are the properties that
exclude one); in `Framing` a stream ends.

### Fairness

`Fairness` in `AppendOnlyFile` is weak fairness of each task of the server (each
connection once it has queued for the gate, the writer, the rewrite), of the
writer's timer and of the restart. The tokio scheduler runs every task that can
run; `select!` polls its arms in random order, so neither the timer nor the channel
is starved; the gate and the channel are FIFO in the model as in tokio. Nothing is
assumed of clients, faults or crashes. In `Keyspace` only the sweeper is fair: its
`interval` ticks for ever. That commands finish is not needed.

In `PubSub` sessions, forwarding tasks, guards and the publisher that holds the mutex
are weakly fair: woken tasks are polled, an aborted task is cancelled, a mutex is held
for a bounded time. `Deliver` and `CloseSlow` are strongly fair, since `select!`
tries its arms in a random order each time around and a peer that keeps sending
requests disables and enables them again and again. Nothing is assumed of peers: they
need not read, write or publish. That a peer takes what is written to it is not
assumed either, as `WRITE_TIMEOUT` ends the session otherwise.

## Proofs

All theorems hold for every value of the constants that satisfies the named
assumptions (`ConstantsAssumption`, `CommandsAssumption`, `KeyspaceAssumption`,
`ClientsAssumption`, `PubSubAssumption`, `RecoveryAssumption`, `FramesAssumption`), so
for any number of connections, readers, clients, channels, keys, commands, shards,
messages, faults and crashes, files and values of any length and any frame limit.

| Module | Theorem | States |
|---|---|---|
| `AppendOnlyFileProofs` | `TypeCorrect`, `SerializedWrites`, `FileMirrorsDb`, `SizeAlwaysMatches` | `TypeOK`, `WritesSerialized`, `AofMirrorsDb`, `SizeMatches` |
| `AppendOnlyFileCrashProofs` | `AofInvariant`, `LogKeeps`, `AckedSurvives`, `HardenedNeverLost`, `RejectedStayAway`, `ReadersAtMostOneAhead` | `AofInv`, `LogKeepsHistory`, `AckedOnDisk`, `HardenedSurvives`, `NoResurrection`, `ReadsAtMostOneAhead` |
| `KeyspaceProofs` | `IndexAlwaysExact`, `SweepNeverShows`, `KeyspaceTypeCorrect`, `NeverEmptyCollection`, `FailedWritesUnseen`, `RepliesAlwaysFit`, `ReadsAlwaysAgree` | `IndexExact`, `SweepIsInvisible`, `TypeOK`, `NoEmptyCollection`, `FailedWriteChangesNothing`, `RepliesFit`, `ReadsAgree` |
| `PubSubProofs` | `PubSubTypeCorrect`, `ClientsAlwaysCounted`, `NeverLeftDeaf`, `StoppedAreTold`, `OrphansComeFromErrors`, `PubSubImplementsFeed` | `TypeOK`, `ClientsCounted`, `NeverDeaf`, `ToldWhenStopped`, `OrphansOnlyFromErrors`, `FeedSpec` |
| `RecoveryProofs` | `RecoveryTypeCorrect`, `SnapshotAlwaysReplays`, `RestartsAreFaithful` | `TypeOK`, `SnapshotReplaysLater`, `RestartIsFaithful` |
| `SnapshotFramesProofs` | `SnapshotFailsOnlyIfUnwritable`, `SnapshotChunksAreFull`, `SnapshotAlwaysRebuilds` | `FailsOnlyIfUnwritable`, `ChunksAreFull`, `SnapshotRebuilds` |

### The durable write path

`TypeCorrect` and `SerializedWrites` come from `GateInv`: `TypeOK`, `WritesSerialized`,
a key space that is not empty while a write is applied or sent, and no connection under
way while the server is down. `TypeOK` alone is not inductive: that a task which drops
the gate leaves a queue behind, and that a rejected write is the last one of `db`,
depends on who holds the gate.

`AofInv` is the rest. Its centre is `Logged`, the history the writer has accepted: the
key space without a write that may still be taken back. Messages are the ones their
senders wait for (`ChanInv`), between two writes the active file replays to `Logged`
(`LogInv`, with the file's state at each point of a write), snapshot and buffer of a
rewrite make up `Logged` until the temporary file does (`RewriteInv`). These parts and
`GateInv` are `CoreInv`, inductive by itself, with one case per action in
`AppendOnlyFileProofs`. The other parts are about what only accumulates: what readers saw
(`SeenInv`), the order of the writes in every file that may come back (`OrderInv`), the
rejected writes (`RejectInv`), and what is on the disk whichever file a power loss leaves
behind the path (`DurableInv`). `AppendOnlyFileCrashProofs` does not go through the
actions once more for each of them: `HistoryStep` shows that on the key space every step
does one of five things, `FileStep` that on the files it does one of seven, and each part
is then shown for these. `LogKeeps` says two things of every step: that a rename keeps
what replay rebuilds (or drops a rejected write that a failed truncation left), which is
`RewriteInv` at the switch, and that nothing is added to it once `write_failed` is set. The
sender reads that flag before its message is queued, so it is the writer's own look at it
(`aof.rs:766`) that counts; `FailedFileStep` shows that a writer that has failed is not within
a write and only syncs the file or puts a rewrite's in its place.

Some theorems have hypotheses, and each is a line that a run or a finding draws:

- `RollbackSound`: no `stat` or `postsync` fault together with failing writes or syncs.
  `current_size` is what a rollback goes back to, and with those faults it may be the
  old file's: the run `AofStaleSize` shows acknowledged writes lost that way.
  `SizeMatches` needs `SizeKept`, its first half, for the same reason.
- `AckedSurvives` and `HardenedNeverLost` with power losses need `DirectoryKept`: a kill
  between rename and directory sync, or a directory sync that fails, leaves a rename that
  a power loss may undo. `AckedSurvives` also needs policy always then.
- `RejectedStayAway` excludes power losses and failing truncations, after which a
  rejected write may still be in the file.

### The key space

`IndexAlwaysExact` and `SweepNeverShows` are about one key. A slot is `Good` if its
rows are exactly those its entry calls for. One lemma per operation of `Shard` and per
command shows that a good slot stays good, error outcomes included (`Applying` collects
them). The inductive invariant `KeyInv` adds what the other steps need: the entries a
rollback may put back are well-formed (`restore_entries` indexes what it is given), a
command under way is one `from_frame` accepts, and the time the sweeper has read is not
ahead of the clock. `SweepNeverShows` uses the last one: what is due at the sweeper's
time is due now (`Lasting`), and on an exact index a sweep touches nothing else
(`Sweeping`).

The second half is about what commands do to entries. `Harmless` says of the outcome
of a command that its entry is well-formed (of its type, not an empty or an endless
collection, of strings that can be sent) and that an error leaves what a reader saw; one
lemma per command, in `CommandsProofs`, shows it. `WriteInv` carries this through the key-by-key visits of a
write command: what a reader sees of a key before its turn, after it, and after a restore,
while the sweeper and the clock go on in between.

The assumptions on the constants that these proofs added: putting the empty string in
front of a string gives that string; an integer, the empty string, and an array of nothing,
fit into a reply; and a string in a request fits into a reply of its own, because a request and a
reply have the same limit (`connection.rs`, `check_buffered_frame_limit`) and a request
is longer than the string in it.

### Recovery

`RecoveryInv` says that every entry is as commands leave it, with a deadline no later than
EXPIRE or SET could have set it (`Fit`); that every frame in the file is one `aof_frame` or
the rewrite makes (`GoodFrames`), logged no later than now; and that, unless a deadline in
the file has lapsed or a PEXPIRE is in it, the file gives back the key space (`GivesBack`): it replays without an
error to slots that readers cannot tell from the ones in memory.

Replay does not rebuild the same slots: keys that expired, or that the sweeper took, may be
in one of them and not in the other. So the proof compares key spaces by what readers see
(`Agree`). What a command does to a key depends on that and on nothing else, not on the time
it runs at either, unless its own deadline lies in between (`SameOutcome`), and the only
deadlines it can leave are its own and the one the key had (`ApplyDeadline`). By induction over the
keys of a command (`ApplyAllSame`) and over the file (`ReplaySame`), replay at a later time
agrees with replay now while no deadline lapses; this is the step for `Tick`.
`SnapshotAlwaysReplays` is the other half: the commands for one entry rebuild it
item by item, or leave a key that has expired by then (`StringReplays`, `SplitReplays` piece by
piece, `ListReplays`, `HashReplays`, with the deadline in `EntryReplays`), they touch no other key, and every
live key is written once (`EveryOnce`), so the concatenation of all of them rebuilds the key
space (`SnapshotReplays`). The theorem is an equivalence: with a late split string the snapshot
has a PEXPIRE (`SnapshotPExpires`), and a file with one never replays whole (`ReplayFails`). This is why `Rewrite` keeps the invariant. `Restart` does because what
replay applied is again a file that gives back what it replayed to (`ReplayPrefix`).

`RestartsAreFaithful` has the hypotheses `NoneLapsed` and `NonePExpire` in its statement;
without the first it is false (`RecoveryCutsLog`), and without the second too, as a file
with a PEXPIRE never replays whole. `RecoveryAssumption` has what `from_frame` guarantees: EXPIRE
takes no deadline beyond the signed range, and a value that was read can be sent; and of
`Pieces` what `PiecesOk` below proves of the code, that the pieces make up the string.

### The rewrite's commands

The theorems are about `SnapshotSpec`, which `Framing` runs step by step before it reads
the file. None of the three properties is inductive: what they say of finished entries is
decided while an entry is under way. `SnapshotInv` has a part for each stage:

- `ItemsOk`: the running length is the length of the chunk's parts, so that
  `ChunkedLen` is the length of the command the chunk becomes; the chunk is replayable; what the
  commands so far rebuild, with the parts in the chunk behind it, is the first `taken` items; and
  the last command written has no room for the first item of the chunk.
- `SearchOk`: an APPEND of `lo` bytes is within the limit and one of `hi + 1` is not. The
  search can start with that because a bulk string is longer than its bytes, and it ends
  with `lo = hi` because the length of a frame, digits of its header included, never
  shrinks when the value grows (`DecimalLen` is monotone, by induction over the number).
- `PiecesOk`: what the commands so far rebuild is the first `taken` bytes, and every piece but
  the last of all is `lo` bytes long, so one byte more would not have fitted.
- `ExpiryOk`: the value is written, its last command is neither PEXPIREAT nor PEXPIRE, and full
  chunks are behind each other; if the entry is unwritable, then because of its deadline.
- `EntryOk`: the three properties, of a finished entry. What its commands rebuild is the entry,
  of a late split string the entry without its deadline (`Back`).

The lengths are recursive functions and `Rebuilt` is a loop over the commands; that they
grow with one command or one part more as expected (`PayloadLen` of a concatenation,
`Rebuilt` of an `Append`) is proved with `Induction`.

### Pub/sub

`PubSubInv` has the permits and counters (as cardinalities of the sets of connections that hold
one), the types, and what ties sessions to tasks: where a session may be with handles in
its map, awaited or dropped (`SessionInv`), that an aborted task is an awaited one
(`AbortedInv`), and that a task which runs is one its session has, or dropped, the handle of
(`RunningInv`). None of `ToldWhenStopped` and `OrphansOnlyFromErrors` is inductive
without them: a task that ends tells its session unless it was aborted, and a sender loses
its last receiver to somebody who has a handle.

`PubSubImplementsFeed` is the refinement: `MapInv` adds to `PubSubInv` what the mapping
needs (a task that does not run holds nothing and has no receiver, one that lagged has an
empty inbox, outside the subscribed mode the output queue is empty). Then one lemma per
group of actions: `SubscribeOne` is `TurnOn` or nothing, `JoinAndCollect` is `TurnOff`,
the ways out of the subscribed mode are `Leave`, `Deliver` is `Deliver`, each end of a
task is `Cut`, `PublishSend` is `Publish` with the feeds that lag as the overrun ones, and
everything else, `Recv` and `TrySend` among it, only moves messages from one place to
the next and leaves what is owed as it is. What the output queue holds of one
channel (`Queued`) is a recursive function; that it grows at its end with a message sent
and shrinks at its front with one received is proved by induction (`QueuedAppend`,
`QueuedTail`).

The induction theorems of the library take an operator as a parameter and cannot be used
by the installed provers. `Induction` has the principle for sets instead
(`ByInduction`), proved from cardinalities of finite sets, and that a loop computes exactly
one result (`LoopExists`, `LoopUnique`).

### What the proofs changed

Two statements were too strong and the instances TLC had checked did not reach the case.
`Feed` allowed a feed to be cut only while it is on, but a task that lags already and then
finds the output queue full loses the message in its hand as well; the run `PubSubSession`
now has messages enough to reach this. And `ReadsAgree` compared HKEYS with HVALS also where only the values are
too large for a reply. `SnapshotFrames` had been functions of a whole entry; it became a state machine
so that what a loop knows in the middle can be stated, and hash fields had to be assumed distinct, as
the keys of a `HashMap` are.

### What is left to TLC

Liveness under fairness (`EveryWriteAnswered`, `RewriteFinishes`, `EventuallyHardened`,
`ExpiredIsReclaimed`, `SlowIsEnded`, `OwedIsDelivered`), which these provers do not
handle; and of `Framing` its `TypeOK`, `SplitsDecideNothing` and `RewriteReplays`: the
parser of `Resp` is a recursive operator, which the provers cannot expand. What of
`RewriteReplays` does not depend on the parser is `SnapshotAlwaysRebuilds`.

## Not modelled

- tokio's own buffering of file writes: the model believes `write_all`, as the code
  does. `tokio::fs::File` may report a failed write only at the next operation on the
  file, and no `flush` is called in `aof.rs`; a model of that layer needs its source.
- the statistics shown by INFO, except the two the code itself relies on;
- arity and syntax errors of commands: they change no state;
- lengths in bytes on the write path: there, whether a reply fits is an operator
  constant, and a logged frame always fits the file;
- writing to a socket, beyond its failing, and its timeouts;
- a failing `accept()`, which ends `run_with_options` and with it the server;
- lengths near `usize::MAX`, where `checked_add` would fail: 64 MB are the limit;
- a clock that is set back (`SystemTime` may be): `now` never decreases;
- the time that passes while a snapshot is being written: `write_snapshot_entry`
  leaves out keys that expired since, which a replay would drop anyway.

## Plan

The model covers the components listed above, and every safety property is proved but the
three that need the parser. What is left, in this order:

1. The parser as recursive functions over positions instead of recursive operators over
   sequences, and then that parsing what the encoder wrote gives the frame back, whatever follows it.
2. With that, `SplitsDecideNothing` and `RewriteReplays` for every stream.
3. A model of `tokio::fs::File`'s own buffer between the writer and the OS.
