--------------------------- MODULE AppendOnlyFile ---------------------------
(***************************************************************************)
(* The durable write path of mini-redis-rs: the connections of             *)
(* src/src/server.rs, the writer task and the rewrite task of              *)
(* src/src/aof.rs, and the append-only file they share, with the faults    *)
(* the code handles (a failing write, fsync, truncation or rename) and     *)
(* the crashes it must survive (kill -9, power loss).                      *)
(*                                                                         *)
(* What the data base holds is abstracted to the history of the write      *)
(* commands applied to it, each named by a number: two histories are       *)
(* equal only if the key spaces are, so "the file replays to the key       *)
(* space" becomes "the file's history is the data base's history".  A      *)
(* snapshot of the key space stands for the history it was taken of.       *)
(* Sizes count frames, one unit each, instead of bytes.                    *)
(***************************************************************************)
EXTENDS Integers, Sequences, FiniteSets, SequencesExt

CONSTANTS
    Conns,        \* the connections that send write commands
    Readers,      \* the connections that send read commands
    Rewriter,     \* the task that schedule_rewrite spawns
    Policy,       \* --aof-fsync: "always", "everysec" or "no"
    Faults,       \* the I/O operations that may fail
    Crashes,      \* the ways the server may stop
    MaxBuffer,    \* MAX_REWRITE_BUFFER_BYTES, in frames
    MaxSnapLen,   \* bound: the most frames a snapshot takes
    MaxWrites,    \* bound: the write commands ever applied
    MaxRewrites,  \* bound: the rewrites ever scheduled
    MaxCrashes    \* bound: the crashes

FaultKinds == {"write", "sync", "setlen", "temp", "rename", "dirsync",
               "postsync", "stat"}

ASSUME ConstantsAssumption ==
    /\ Rewriter \notin Conns
    /\ Policy \in {"always", "everysec", "no"}
    /\ Faults \subseteq FaultKinds
    /\ Crashes \subseteq {"kill", "power"}
    /\ MaxBuffer \in Nat /\ MaxSnapLen \in Nat /\ MaxWrites \in Nat
    /\ MaxRewrites \in Nat /\ MaxCrashes \in Nat

VARIABLES
    up,           \* the process is running
    db,           \* the key space: the history of the writes applied to it
    undo,         \* rollback: what snapshot_entries saw before the write
    pc,           \* where each connection is in handle()
    gate,         \* write_gate's FIFO queue, its holder first
    chan,         \* the mpsc channel; the message being handled stays first
    ack,          \* the oneshot channel each task waits on
    wpc,          \* where run_writer is in the message it handles
    prevLen,      \* previous_len of the write being handled
    writeFailed,  \* stats.write_failed
    currentSize,  \* stats.current_size
    rwBuffer,     \* rewrite_buffer: Option<RewriteBuffer>
    active,       \* the file run_writer appends to
    temp,         \* the temporary file of the rewrite
    linked,       \* which of the two the AOF path names
    stale,        \* files the path may name again after a power loss
    rpc,          \* where the rewrite task is in rewrite_inner
    rwInProgress, \* stats.rewrite_in_progress
    snapshot,     \* the entries aof_snapshot_entries returned
    rewrites,     \* rewrites scheduled so far
    issued,       \* writes applied so far
    crashes,      \* crashes so far
    acked,        \* history: db as of the last write answered without an error
    hardened,     \* history: the writes that a later fsync has covered
    rejected,     \* history: the writes answered "ERR AOF write failed"
    seen          \* history: what each reader saw last

connVars   == <<db, undo, pc, issued, acked, rejected, seen>>
writerVars == <<wpc, prevLen, writeFailed, currentSize, rwBuffer>>
fileVars   == <<active, temp, linked, stale, hardened>>
taskVars   == <<rpc, rwInProgress, snapshot, rewrites>>
lifeVars   == <<up, crashes>>
vars == <<connVars, gate, chan, ack, writerVars, fileVars, taskVars, lifeVars>>

-----------------------------------------------------------------------------
(***************************************************************************)
(* Files.  A file is a snapshot (its frames counted by snapLen), the       *)
(* command frames after it, and junk: frames torn or zero-filled, behind   *)
(* which nothing can be parsed.  synced is the length known to be on the   *)
(* disk and cut the frames a truncation removed that is not synced yet.    *)
(***************************************************************************)
Histories == Seq(Nat)

File == [snap: Histories, snapLen: Nat, cmds: Histories, junk: Nat,
         synced: Nat, cut: Histories]

NewFile(h, n) == [snap |-> h, snapLen |-> n, cmds |-> <<>>, junk |-> 0,
                  synced |-> 0, cut |-> <<>>]
EmptyFile == NewFile(<<>>, 0)

Size(f) == f.snapLen + Len(f.cmds) + f.junk

\* What replay() rebuilds from the file: it stops at the first bad frame.
Replay(f) == f.snap \o f.cmds

\* write_all of whole frames: behind junk they are junk themselves.
WriteFrames(f, ws) ==
    IF f.junk = 0 THEN [f EXCEPT !.cmds = @ \o ws, !.cut = <<>>]
                  ELSE [f EXCEPT !.junk = @ + Len(ws), !.cut = <<>>]

\* write_all that fails in the middle of a frame.
WritePartial(f) == [f EXCEPT !.junk = @ + 1, !.cut = <<>>]

\* sync_data.
Sync(f) == [f EXCEPT !.synced = Size(f), !.cut = <<>>]

\* The first n frames of f.  A snapshot that is not whole replays to nothing
\* that can be relied on.
Keep(f, n) ==
    [f EXCEPT
        !.snap = IF n < f.snapLen THEN <<>> ELSE @,
        !.snapLen = IF n < @ THEN n ELSE @,
        !.cmds = IF n < f.snapLen THEN <<>>
                 ELSE IF n < f.snapLen + Len(@) THEN SubSeq(@, 1, n - f.snapLen)
                 ELSE @,
        !.junk = IF n < f.snapLen + Len(f.cmds) THEN 0
                 ELSE n - (f.snapLen + Len(f.cmds)),
        !.synced = IF n < @ THEN n ELSE @]

\* set_len, not yet synced: a length beyond the end fills up with zeros.
SetLen(f, n) ==
    [Keep(f, n) EXCEPT !.cut =
        IF f.snapLen <= n /\ n < f.snapLen + Len(f.cmds)
        THEN SubSeq(f.cmds, n - f.snapLen + 1, Len(f.cmds)) ELSE <<>>]

\* f as if a truncation had not reached the disk, without its junk.
Untruncated(f) == [f EXCEPT !.cmds = @ \o f.cut, !.junk = 0]

\* What a power loss may leave of f: at least what was synced, at most all
\* that was written, possibly with a truncation undone and a torn last frame.
Survivors(f) ==
    {[Sync(Keep(Untruncated(f), n)) EXCEPT !.junk = j] :
        n \in {m \in 0 .. Size(Untruncated(f)) :
                  m >= f.synced \/ m = Size(Untruncated(f))},
        j \in 0 .. 1}

\* The file the AOF path names.
PathFile == IF linked = "temp" THEN temp ELSE active

-----------------------------------------------------------------------------
Tasks == Conns \cup {Rewriter}

Messages == [type: {"write"}, from: Conns, w: Nat]
            \cup [type: {"start", "finish", "abort"}, from: {Rewriter}, w: {0}]

Off == [on |-> FALSE, frames |-> <<>>]

Send(m) == chan' = Append(chan, m)

\* The writer answers the message it handles and takes the next one.
Answer(result) ==
    /\ ack' = [ack EXCEPT ![Head(chan).from] = result]
    /\ chan' = Tail(chan)
    /\ wpc' = "recv"

Holds(p) == gate # <<>> /\ Head(gate) = p

Handling(type) == up /\ chan # <<>> /\ Head(chan).type = type

\* Spawned by main: an empty file, replayed to an empty key space.
Init ==
    /\ up = TRUE /\ crashes = 0
    /\ db = <<>> /\ undo = <<>> /\ pc = [c \in Conns |-> "idle"]
    /\ issued = 0 /\ acked = <<>> /\ rejected = {}
    /\ seen = [r \in Readers |-> <<>>]
    /\ gate = <<>> /\ chan = <<>> /\ ack = [p \in Tasks |-> "none"]
    /\ wpc = "recv" /\ prevLen = 0 /\ writeFailed = FALSE
    /\ currentSize = 0 /\ rwBuffer = Off
    /\ active = EmptyFile /\ temp = EmptyFile /\ linked = "active"
    /\ stale = {} /\ hardened = <<>>
    /\ rpc = "idle" /\ rwInProgress = FALSE /\ snapshot = <<>> /\ rewrites = 0

-----------------------------------------------------------------------------
(***************************************************************************)
(* Connections: handle() in server.rs and AofHandle::write.                *)
(***************************************************************************)

\* A write command arrives and queues for the gate (pause_writes().await).
ReadWriteCommand(c) ==
    /\ up /\ pc[c] = "idle"
    /\ issued + Cardinality({d \in Conns : pc[d] = "gate"}) < MaxWrites
    /\ pc' = [pc EXCEPT ![c] = "gate"]
    /\ gate' = Append(gate, c)
    /\ UNCHANGED <<db, undo, issued, acked, rejected, seen, chan, ack,
                   writerVars, fileVars, taskVars, lifeVars>>

\* The command itself answers an error: nothing is applied or logged.
RefuseCommand(c) ==
    /\ up /\ pc[c] = "gate" /\ Holds(c)
    /\ pc' = [pc EXCEPT ![c] = "idle"]
    /\ gate' = Tail(gate)
    /\ UNCHANGED <<db, undo, issued, acked, rejected, seen, chan, ack,
                   writerVars, fileVars, taskVars, lifeVars>>

\* Mutant: the write does not wait for the gate.
ApplyWithoutGate(c) ==
    /\ up /\ pc[c] = "gate"
    /\ undo' = db /\ db' = Append(db, issued + 1) /\ issued' = issued + 1
    /\ pc' = [pc EXCEPT ![c] = "applied"]
    /\ UNCHANGED <<acked, rejected, seen, gate, chan, ack, writerVars,
                   fileVars, taskVars, lifeVars>>

\* Mutant: the rollback snapshot is the one of the write before.
ApplyWithStaleSnapshot(c) ==
    /\ up /\ pc[c] = "gate" /\ Holds(c)
    /\ db' = Append(db, issued + 1) /\ issued' = issued + 1
    /\ pc' = [pc EXCEPT ![c] = "applied"]
    /\ UNCHANGED <<undo, acked, rejected, seen, gate, chan, ack, writerVars,
                   fileVars, taskVars, lifeVars>>

\* snapshot_entries, then apply: from here readers see the write.
ApplyCommand(c) ==
    /\ up /\ pc[c] = "gate" /\ Holds(c)
    /\ undo' = db
    /\ db' = Append(db, issued + 1)
    /\ issued' = issued + 1
    /\ pc' = [pc EXCEPT ![c] = "applied"]
    /\ UNCHANGED <<acked, rejected, seen, gate, chan, ack, writerVars,
                   fileVars, taskVars, lifeVars>>

\* AofHandle::write: the frame goes to the writer task.
SendToWriter(c) ==
    /\ up /\ pc[c] = "applied" /\ ~writeFailed
    /\ Send([type |-> "write", from |-> c, w |-> Last(db)])
    /\ pc' = [pc EXCEPT ![c] = "sent"]
    /\ UNCHANGED <<db, undo, issued, acked, rejected, seen, gate, ack,
                   writerVars, fileVars, taskVars, lifeVars>>

\* Mutants: the write is not taken back; the gate is not dropped.
RejectWithoutRestore(c) ==
    /\ rejected' = rejected \cup {Last(db)}
    /\ pc' = [pc EXCEPT ![c] = "idle"]
    /\ gate' = Tail(gate) /\ UNCHANGED db

RejectHoldingGate(c) ==
    /\ db' = undo
    /\ rejected' = rejected \cup {Last(db)}
    /\ pc' = [pc EXCEPT ![c] = "idle"] /\ UNCHANGED gate

\* restore_entries, the error reply, and the gate is dropped.
Reject(c) ==
    /\ db' = undo
    /\ rejected' = rejected \cup {Last(db)}
    /\ pc' = [pc EXCEPT ![c] = "idle"]
    /\ gate' = Tail(gate)

\* AofHandle::write finds write_failed set and never sends.
WriterKnownFailed(c) ==
    /\ up /\ pc[c] = "applied" /\ writeFailed
    /\ Reject(c)
    /\ UNCHANGED <<undo, issued, acked, seen, chan, ack, writerVars, fileVars,
                   taskVars, lifeVars>>

ReplyFailed(c) ==
    /\ up /\ pc[c] = "sent" /\ ack[c] = "err"
    /\ Reject(c)
    /\ ack' = [ack EXCEPT ![c] = "none"]
    /\ UNCHANGED <<undo, issued, acked, seen, chan, writerVars, fileVars,
                   taskVars, lifeVars>>

ReplyOk(c) ==
    /\ up /\ pc[c] = "sent" /\ ack[c] = "ok"
    /\ acked' = db
    /\ pc' = [pc EXCEPT ![c] = "idle"]
    /\ gate' = Tail(gate)
    /\ ack' = [ack EXCEPT ![c] = "none"]
    /\ UNCHANGED <<db, undo, issued, rejected, seen, chan, writerVars,
                   fileVars, taskVars, lifeVars>>

\* A read command is applied at once, without the gate.
ReadCommand(r) ==
    /\ up
    /\ seen' = [seen EXCEPT ![r] = db]
    /\ UNCHANGED <<db, undo, pc, issued, acked, rejected, gate, chan, ack,
                   writerVars, fileVars, taskVars, lifeVars>>

-----------------------------------------------------------------------------
(***************************************************************************)
(* The writer task: run_writer.                                            *)
(***************************************************************************)

\* A write that was queued before write_failed was set.
RejectWrite ==
    /\ Handling("write") /\ wpc = "recv" /\ writeFailed
    /\ Answer("err")
    /\ UNCHANGED <<prevLen, writeFailed, currentSize, rwBuffer, connVars, gate,
                   fileVars, taskVars, lifeVars>>

\* Mutants: write_failed is looked at only before a write is queued; the size
\* is not counted.
WriteOneUnchecked ==
    /\ Handling("write") /\ wpc = "recv"
    /\ active' = WriteFrames(active, <<Head(chan).w>>)
    /\ prevLen' = currentSize
    /\ currentSize' = currentSize + 1
    /\ wpc' = "sync"
    /\ UNCHANGED <<writeFailed, rwBuffer, temp, linked, stale, hardened,
                   connVars, gate, chan, ack, taskVars, lifeVars>>

WriteOneUncounted ==
    /\ Handling("write") /\ wpc = "recv" /\ ~writeFailed
    /\ active' = WriteFrames(active, <<Head(chan).w>>)
    /\ prevLen' = currentSize
    /\ wpc' = "sync"
    /\ UNCHANGED <<currentSize, writeFailed, rwBuffer, temp, linked, stale,
                   hardened, connVars, gate, chan, ack, taskVars, lifeVars>>

WriteOne ==
    /\ Handling("write") /\ wpc = "recv" /\ ~writeFailed
    /\ active' = WriteFrames(active, <<Head(chan).w>>)
    /\ prevLen' = currentSize
    /\ currentSize' = currentSize + 1
    /\ wpc' = "sync"
    /\ UNCHANGED <<writeFailed, rwBuffer, temp, linked, stale, hardened,
                   connVars, gate, chan, ack, taskVars, lifeVars>>

\* Mutant: the frame is subtracted from a size it was not added to.
WriteOneFailsUncounting ==
    /\ Handling("write") /\ wpc = "recv" /\ ~writeFailed
    /\ "write" \in Faults
    /\ active' \in {active, WritePartial(active)}
    /\ prevLen' = currentSize - 1
    /\ wpc' = "rollback"
    /\ UNCHANGED <<writeFailed, currentSize, rwBuffer, temp, linked, stale,
                   hardened, connVars, gate, chan, ack, taskVars, lifeVars>>

\* write_all fails, before or after part of the frame reached the file.
WriteOneFails ==
    /\ Handling("write") /\ wpc = "recv" /\ ~writeFailed
    /\ "write" \in Faults
    /\ active' \in {active, WritePartial(active)}
    /\ prevLen' = currentSize
    /\ wpc' = "rollback"
    /\ UNCHANGED <<writeFailed, currentSize, rwBuffer, temp, linked, stale,
                   hardened, connVars, gate, chan, ack, taskVars, lifeVars>>

\* Mutants: nothing is buffered; a full buffer stays and misses the frame.
PushNothing(w) == UNCHANGED rwBuffer

PushOrSkip(w) ==
    rwBuffer' = IF ~rwBuffer.on \/ Len(rwBuffer.frames) + 1 > MaxBuffer
                THEN rwBuffer ELSE [rwBuffer EXCEPT !.frames = Append(@, w)]

\* RewriteBuffer::push; a buffer over its limit is given up.
PushToRewriteBuffer(w) ==
    rwBuffer' = IF ~rwBuffer.on THEN rwBuffer
                ELSE IF Len(rwBuffer.frames) + 1 > MaxBuffer THEN Off
                ELSE [rwBuffer EXCEPT !.frames = Append(@, w)]

\* Mutant: the write is acknowledged without the sync.
AckWithoutSync ==
    /\ Handling("write") /\ wpc = "sync"
    /\ PushToRewriteBuffer(Head(chan).w)
    /\ Answer("ok")
    /\ UNCHANGED <<prevLen, writeFailed, currentSize, fileVars, connVars, gate,
                   taskVars, lifeVars>>

\* sync_after_write by policy; the write is buffered for the rewrite and
\* acknowledged.
SyncAfterWrite ==
    /\ Handling("write") /\ wpc = "sync"
    /\ \/ /\ Policy \in {"always", "everysec"}
          /\ active' = Sync(active) /\ hardened' = acked
       \/ /\ Policy \in {"everysec", "no"}
          /\ UNCHANGED <<active, hardened>>
    /\ PushToRewriteBuffer(Head(chan).w)
    /\ Answer("ok")
    /\ UNCHANGED <<prevLen, writeFailed, currentSize, temp, linked, stale,
                   connVars, gate, taskVars, lifeVars>>

SyncAfterWriteFails ==
    /\ Handling("write") /\ wpc = "sync"
    /\ "sync" \in Faults /\ Policy \in {"always", "everysec"}
    /\ wpc' = "rollback"
    /\ UNCHANGED <<prevLen, writeFailed, currentSize, rwBuffer, fileVars,
                   connVars, gate, chan, ack, taskVars, lifeVars>>

\* Mutant: the file is not truncated.
FailWithoutRollback ==
    /\ Handling("write") /\ wpc = "rollback"
    /\ writeFailed' = TRUE
    /\ Answer("err")
    /\ UNCHANGED <<prevLen, currentSize, rwBuffer, fileVars, connVars, gate,
                   taskVars, lifeVars>>

\* rollback_active_file, whose own failure is ignored, then write_failed.
RollbackActiveFile ==
    /\ Handling("write") /\ wpc = "rollback"
    /\ \/ /\ active' = Sync(SetLen(active, prevLen))
          /\ hardened' = acked /\ currentSize' = prevLen
       \/ /\ "sync" \in Faults
          /\ active' = SetLen(active, prevLen)
          /\ currentSize' = prevLen /\ UNCHANGED hardened
       \/ /\ "setlen" \in Faults
          /\ UNCHANGED <<active, hardened, currentSize>>
    /\ writeFailed' = TRUE
    /\ Answer("err")
    /\ UNCHANGED <<prevLen, rwBuffer, temp, linked, stale, connVars, gate,
                   taskVars, lifeVars>>

\* The once-a-second sync of the idle writer.
EverySecSync ==
    /\ up /\ wpc = "recv" /\ Policy = "everysec"
    /\ active' = Sync(active) /\ hardened' = acked
    /\ UNCHANGED <<writerVars, temp, linked, stale, connVars, gate, chan, ack,
                   taskVars, lifeVars>>

EverySecSyncFails ==
    /\ up /\ wpc = "recv" /\ Policy = "everysec" /\ "sync" \in Faults
    /\ writeFailed' = TRUE
    /\ UNCHANGED <<wpc, prevLen, currentSize, rwBuffer, fileVars, connVars,
                   gate, chan, ack, taskVars, lifeVars>>

HandleStartRewrite ==
    /\ Handling("start") /\ wpc = "recv"
    /\ rwBuffer' = IF rwBuffer.on THEN rwBuffer
                   ELSE [on |-> TRUE, frames |-> <<>>]
    /\ Answer(IF rwBuffer.on THEN "err" ELSE "ok")
    /\ UNCHANGED <<prevLen, writeFailed, currentSize, fileVars, connVars, gate,
                   taskVars, lifeVars>>

\* Mutant: the buffer of the aborted rewrite stays.
AbortKeepingBuffer ==
    /\ Handling("abort") /\ wpc = "recv"
    /\ Answer("ok")
    /\ UNCHANGED <<prevLen, writeFailed, currentSize, rwBuffer, fileVars,
                   connVars, gate, taskVars, lifeVars>>

HandleAbortRewrite ==
    /\ Handling("abort") /\ wpc = "recv"
    /\ rwBuffer' = Off
    /\ Answer("ok")
    /\ UNCHANGED <<prevLen, writeFailed, currentSize, fileVars, connVars, gate,
                   taskVars, lifeVars>>

\* finish_rewrite_file takes the buffer, or finds that it was given up.
FinishNotInProgress ==
    /\ Handling("finish") /\ wpc = "recv" /\ ~rwBuffer.on
    /\ Answer("err")
    /\ UNCHANGED <<prevLen, writeFailed, currentSize, rwBuffer, fileVars,
                   connVars, gate, taskVars, lifeVars>>

\* Mutant: the file is not synced before it is renamed.
FlushWithoutSync ==
    /\ Handling("finish") /\ wpc = "recv" /\ rwBuffer.on
    /\ temp' = WriteFrames(temp, rwBuffer.frames)
    /\ rwBuffer' = Off
    /\ wpc' = "rename"
    /\ UNCHANGED <<prevLen, writeFailed, currentSize, active, linked, stale,
                   hardened, connVars, gate, chan, ack, taskVars, lifeVars>>

\* The buffered frames go behind the snapshot, and the file is synced.
FinishFlush ==
    /\ Handling("finish") /\ wpc = "recv" /\ rwBuffer.on
    /\ temp' = Sync(WriteFrames(temp, rwBuffer.frames))
    /\ rwBuffer' = Off
    /\ wpc' = "rename"
    /\ UNCHANGED <<prevLen, writeFailed, currentSize, active, linked, stale,
                   hardened, connVars, gate, chan, ack, taskVars, lifeVars>>

FinishFlushFails ==
    /\ Handling("finish") /\ wpc = "recv" /\ rwBuffer.on
    /\ "temp" \in Faults
    /\ temp' = WritePartial(temp)
    /\ rwBuffer' = Off
    /\ Answer("err")
    /\ UNCHANGED <<prevLen, writeFailed, currentSize, active, linked, stale,
                   hardened, connVars, gate, taskVars, lifeVars>>

\* From here the path names the new file, while the writer still holds the
\* old one and the directory entry is not yet on the disk.
FinishRename ==
    /\ Handling("finish") /\ wpc = "rename"
    /\ linked' = "temp"
    /\ stale' = stale \cup {active}
    /\ wpc' = "switch"
    /\ UNCHANGED <<prevLen, writeFailed, currentSize, rwBuffer, active, temp,
                   hardened, connVars, gate, chan, ack, taskVars, lifeVars>>

FinishRenameFails ==
    /\ Handling("finish") /\ wpc = "rename"
    /\ "rename" \in Faults
    /\ Answer("err")
    /\ UNCHANGED <<prevLen, writeFailed, currentSize, rwBuffer, fileVars,
                   connVars, gate, taskVars, lifeVars>>

\* Mutant: a failed sync_parent_dir returns before the files are switched.
SwitchAfterDirSync ==
    /\ Handling("finish") /\ wpc = "switch"
    /\ UNCHANGED <<active, temp, linked, stale, hardened, currentSize>>
    /\ Answer("err")
    /\ UNCHANGED <<prevLen, writeFailed, rwBuffer, connVars, gate, taskVars,
                   lifeVars>>

\* sync_parent_dir, the switch to the new file, and the size it starts with:
\* a failed sync of the new file returns before the size is stored, and the
\* result of the directory sync is only looked at in the end.
FinishSwitch ==
    /\ Handling("finish") /\ wpc = "switch"
    /\ active' = temp /\ temp' = EmptyFile /\ linked' = "active"
    /\ \E dirSynced \in IF "dirsync" \in Faults THEN BOOLEAN ELSE {TRUE} :
        /\ stale' = IF dirSynced THEN {} ELSE stale
        /\ hardened' = IF dirSynced THEN acked ELSE hardened
        /\ \/ /\ currentSize' = Size(temp)
              /\ Answer(IF dirSynced THEN "ok" ELSE "err")
           \/ /\ "stat" \in Faults
              /\ currentSize' = 0
              /\ Answer(IF dirSynced THEN "ok" ELSE "err")
           \/ /\ Policy = "always" /\ "postsync" \in Faults
              /\ Answer("err")
              /\ UNCHANGED currentSize
    /\ UNCHANGED <<prevLen, writeFailed, rwBuffer, connVars, gate, taskVars,
                   lifeVars>>

-----------------------------------------------------------------------------
(***************************************************************************)
(* The rewrite task: schedule_rewrite and rewrite_inner.                   *)
(***************************************************************************)

\* BGREWRITEAOF wins the compare_exchange and spawns the task.
ScheduleRewrite ==
    /\ up /\ ~rwInProgress /\ rewrites < MaxRewrites
    /\ rwInProgress' = TRUE
    /\ rpc' = "spawned"
    /\ rewrites' = rewrites + 1
    /\ UNCHANGED <<snapshot, connVars, gate, chan, ack, writerVars, fileVars,
                   lifeVars>>

PauseWrites ==
    /\ up /\ rpc = "spawned"
    /\ rpc' = "gate"
    /\ gate' = Append(gate, Rewriter)
    /\ UNCHANGED <<rwInProgress, snapshot, rewrites, connVars, chan, ack,
                   writerVars, fileVars, lifeVars>>

StartRewriteBuffering ==
    /\ up /\ rpc = "gate" /\ Holds(Rewriter)
    /\ rpc' = "start"
    /\ Send([type |-> "start", from |-> Rewriter, w |-> 0])
    /\ UNCHANGED <<rwInProgress, snapshot, rewrites, connVars, gate, ack,
                   writerVars, fileVars, lifeVars>>

\* aof_snapshot_entries under the gate, which is then dropped; a refused
\* start ends the task instead.
TakeSnapshot ==
    /\ up /\ rpc = "start" /\ ack[Rewriter] # "none"
    /\ IF ack[Rewriter] = "ok"
       THEN rpc' = "temp" /\ snapshot' = db /\ UNCHANGED rwInProgress
       ELSE rpc' = "idle" /\ rwInProgress' = FALSE /\ UNCHANGED snapshot
    /\ gate' = Tail(gate)
    /\ ack' = [ack EXCEPT ![Rewriter] = "none"]
    /\ UNCHANGED <<rewrites, connVars, chan, writerVars, fileVars, lifeVars>>

\* write_snapshot_entries truncates, writes and syncs the temporary file;
\* finish_rewrite sends the message.
WriteSnapshot ==
    /\ up /\ rpc = "temp"
    /\ \E n \in IF snapshot = <<>> THEN {0} ELSE 0 .. MaxSnapLen :
        temp' = Sync(NewFile(snapshot, n))
    /\ rpc' = "finish"
    /\ Send([type |-> "finish", from |-> Rewriter, w |-> 0])
    /\ UNCHANGED <<rwInProgress, snapshot, rewrites, connVars, gate, ack,
                   writerVars, active, linked, stale, hardened, lifeVars>>

WriteSnapshotFails ==
    /\ up /\ rpc = "temp" /\ "temp" \in Faults
    /\ temp' = WritePartial(EmptyFile)
    /\ rpc' = "abort"
    /\ Send([type |-> "abort", from |-> Rewriter, w |-> 0])
    /\ UNCHANGED <<rwInProgress, snapshot, rewrites, connVars, gate, ack,
                   writerVars, active, linked, stale, hardened, lifeVars>>

\* Mutant: the flag is reset only when the rewrite succeeded.
EndsOnSuccess ==
    /\ up /\ rpc \in {"finish", "abort"} /\ ack[Rewriter] # "none"
    /\ temp' = EmptyFile
    /\ rpc' = "idle"
    /\ rwInProgress' = (rpc = "abort" \/ ack[Rewriter] = "err")
    /\ ack' = [ack EXCEPT ![Rewriter] = "none"]
    /\ UNCHANGED <<snapshot, rewrites, connVars, gate, chan, writerVars,
                   active, linked, stale, hardened, lifeVars>>

\* The writer's answer: after an error the temporary file is removed (a
\* file that was renamed is no longer there); finish_rewrite_stats.
RewriteEnds ==
    /\ up /\ rpc \in {"finish", "abort"} /\ ack[Rewriter] # "none"
    /\ temp' = EmptyFile
    /\ rpc' = "idle" /\ rwInProgress' = FALSE
    /\ ack' = [ack EXCEPT ![Rewriter] = "none"]
    /\ UNCHANGED <<snapshot, rewrites, connVars, gate, chan, writerVars,
                   active, linked, stale, hardened, lifeVars>>

-----------------------------------------------------------------------------
(***************************************************************************)
(* Crashes and recovery.                                                   *)
(***************************************************************************)

\* The process is gone and left the file f behind the AOF path.
Stop(f) ==
    /\ up /\ crashes < MaxCrashes
    /\ up' = FALSE /\ crashes' = crashes + 1
    /\ active' = f /\ linked' = "active" /\ temp' = EmptyFile
    /\ db' = <<>> /\ undo' = <<>> /\ pc' = [c \in Conns |-> "idle"]
    /\ seen' = [r \in Readers |-> <<>>]
    /\ gate' = <<>> /\ chan' = <<>> /\ ack' = [p \in Tasks |-> "none"]
    /\ wpc' = "recv" /\ prevLen' = 0 /\ writeFailed' = FALSE
    /\ currentSize' = 0 /\ rwBuffer' = Off
    /\ rpc' = "idle" /\ rwInProgress' = FALSE /\ snapshot' = <<>>
    /\ UNCHANGED <<rewrites, issued, acked, hardened, rejected>>

\* kill -9 or ctrl-c: what was written is in the page cache.
Kill ==
    /\ "kill" \in Crashes
    /\ Stop(PathFile)
    /\ UNCHANGED stale

PowerLoss ==
    /\ "power" \in Crashes
    /\ \E f \in Survivors(PathFile) \cup UNION {Survivors(g) : g \in stale} :
        Stop(f)
    /\ stale' = {}

\* main: replay() truncates the bad tail, spawn_writer opens the file.  The
\* writes a power loss took (it may, unless the policy is "always") are no
\* longer owed to anyone.
Restart ==
    /\ ~up
    /\ up' = TRUE
    /\ active' = IF active.junk = 0 THEN active
                 ELSE Sync(Keep(active, Size(active) - active.junk))
    /\ db' = Replay(active)
    /\ currentSize' \in {Size(active) - active.junk}
                        \cup (IF "stat" \in Faults THEN {0} ELSE {})
    /\ acked' = IF IsPrefix(acked, Replay(active)) THEN acked ELSE Replay(active)
    /\ hardened' = IF active.junk = 0 THEN hardened ELSE acked'
    /\ UNCHANGED <<crashes, undo, pc, issued, rejected, seen, gate, chan, ack,
                   wpc, prevLen, writeFailed, rwBuffer, temp, linked, stale,
                   taskVars>>

-----------------------------------------------------------------------------
ConnStep(c) ==
    \/ RefuseCommand(c) \/ ApplyCommand(c) \/ SendToWriter(c)
    \/ WriterKnownFailed(c) \/ ReplyFailed(c) \/ ReplyOk(c)

WriterStep ==
    \/ RejectWrite \/ WriteOne \/ WriteOneFails
    \/ SyncAfterWrite \/ SyncAfterWriteFails \/ RollbackActiveFile
    \/ HandleStartRewrite \/ HandleAbortRewrite
    \/ FinishNotInProgress \/ FinishFlush \/ FinishFlushFails
    \/ FinishRename \/ FinishRenameFails \/ FinishSwitch

\* Mutant: the timer is looked at only when a message waits.
TimerWithTraffic == chan # <<>> /\ (EverySecSync \/ EverySecSyncFails)

\* The sleep_until branch of the writer's select!.
TimerStep == EverySecSync \/ EverySecSyncFails

RewriteStep ==
    \/ PauseWrites \/ StartRewriteBuffering \/ TakeSnapshot
    \/ WriteSnapshot \/ WriteSnapshotFails \/ RewriteEnds

Next ==
    \/ \E c \in Conns : ReadWriteCommand(c) \/ ConnStep(c)
    \/ \E r \in Readers : ReadCommand(r)
    \/ WriterStep \/ TimerStep
    \/ ScheduleRewrite \/ RewriteStep
    \/ Kill \/ PowerLoss \/ Restart

Spec == Init /\ [][Next]_vars

\* Every task the runtime can run is run, the timer fires, and a stopped
\* server is started again; nothing obliges a client or a fault to come.
Fairness ==
    /\ \A c \in Conns : WF_vars(ConnStep(c))
    /\ WF_vars(WriterStep)
    /\ WF_vars(TimerStep)
    /\ WF_vars(RewriteStep)
    /\ WF_vars(Restart)

FairSpec == Spec /\ Fairness

-----------------------------------------------------------------------------
ConnTypeOK ==
    /\ db \in Histories /\ undo \in Histories
    /\ pc \in [Conns -> {"idle", "gate", "applied", "sent"}]
    /\ issued \in Nat /\ acked \in Histories /\ rejected \subseteq Nat
    /\ seen \in [Readers -> Histories]

QueueTypeOK ==
    /\ gate \in Seq(Tasks)
    /\ chan \in Seq(Messages)
    /\ ack \in [Tasks -> {"none", "ok", "err"}]

WriterTypeOK ==
    /\ wpc \in {"recv", "sync", "rollback", "rename", "switch"}
    /\ prevLen \in Nat /\ writeFailed \in BOOLEAN /\ currentSize \in Nat
    /\ rwBuffer \in [on: BOOLEAN, frames: Histories]

FileTypeOK ==
    /\ active \in File /\ temp \in File /\ linked \in {"active", "temp"}
    /\ stale \subseteq File /\ hardened \in Histories

TaskTypeOK ==
    /\ rpc \in {"idle", "spawned", "gate", "start", "temp", "finish", "abort"}
    /\ rwInProgress \in BOOLEAN /\ snapshot \in Histories /\ rewrites \in Nat

LifeTypeOK == up \in BOOLEAN /\ crashes \in Nat

\* Every variable keeps its type.
TypeOK ==
    /\ ConnTypeOK /\ QueueTypeOK /\ WriterTypeOK
    /\ FileTypeOK /\ TaskTypeOK /\ LifeTypeOK

-----------------------------------------------------------------------------
(***************************************************************************)
(* Properties.                                                             *)
(***************************************************************************)

\* No write is between apply and its reply.
Quiet == up /\ \A c \in Conns : pc[c] \notin {"applied", "sent"}

\* A task is in its critical section: a write between apply and its reply,
\* the rewrite between StartRewrite and the end of its snapshot.
InCritical(p) ==
    IF p = Rewriter THEN rpc = "start" ELSE pc[p] \in {"applied", "sent"}

\* Only the holder of the gate is in its critical section: rollbacks never
\* cross another write, and no snapshot contains a write that may yet be
\* taken back.
WritesSerialized == \A p \in Tasks : InCritical(p) => Holds(p)

\* Whatever replay() would rebuild from the file the path names begins with
\* every write that was answered without an error: no fault the writer
\* handles, no rewrite and no crash takes an acknowledged write away.
AckedOnDisk == IsPrefix(acked, Replay(PathFile))

\* With no write under way the file replays to the key space.  Only after a
\* rollback whose set_len failed may it hold one write more, one that was
\* rejected, and then the writer accepts nothing any longer.
AofMirrorsDb ==
    Quiet => \/ Replay(PathFile) = db
             \/ writeFailed /\ \E w \in rejected : Replay(PathFile) = Append(db, w)

\* stats.current_size, to which a failed write is rolled back, is the length
\* of the file the writer appends to.
SizeMatches ==
    up /\ ~writeFailed /\ wpc # "rollback" => currentSize = Size(active)

\* What an fsync has covered (with the once-a-second policy: what was
\* acknowledged before the last one) survives even a power loss, in the
\* middle of a rewrite too.
HardenedSurvives == IsPrefix(hardened, Replay(PathFile))

\* A write that was answered "ERR AOF write failed" never shows up again in
\* the key space, not after a restart either.
NoResurrection == \A w \in rejected : ~Contains(db, w)

\* What a restart would rebuild is left alone by the rename that ends a
\* rewrite, except that this drops the one unacknowledged write that a failed
\* rollback may have left at the end of the old file; and once write_failed is
\* set nothing is added to it, not by a write either that was queued before.
LogKeepsHistory ==
    [][ /\ linked = "active" /\ linked' = "temp"
           => \/ Replay(temp) = Replay(active)
              \/ /\ writeFailed /\ Replay(temp) = Front(Replay(active))
                 /\ ~Contains(acked, Last(Replay(active)))
        /\ writeFailed /\ writeFailed'
           => IsPrefix(Replay(PathFile)', Replay(PathFile)) ]_vars

\* Every write command that reaches the gate is answered (or the server
\* stops), whatever fails.
EveryWriteAnswered == \A c \in Conns : pc[c] = "gate" ~> pc[c] = "idle"

\* BGREWRITEAOF never stays "already in progress" for ever.
RewriteFinishes == rwInProgress ~> ~rwInProgress

\* --aof-fsync everysec: what was acknowledged is synced some time later,
\* with or without further traffic, unless the writer has failed.
EventuallyHardened == []<>(hardened = acked \/ writeFailed)

\* Read commands take no side of the gate and may see a write that is then
\* answered with an error and taken back, but never more than that: without
\* its last write, which was rejected, what a reader saw is part of the
\* history that stays.
ReadsAtMostOneAhead ==
    up => \A r \in Readers :
        \/ IsPrefix(seen[r], db)
        \/ /\ seen[r] # <<>> /\ Last(seen[r]) \in rejected
           /\ IsPrefix(Front(seen[r]), db)

-----------------------------------------------------------------------------
(***************************************************************************)
(* The inductive invariant behind the safety properties.  Logged is the    *)
(* history the writer task has accepted: the key space without a write     *)
(* that may still be taken back.  No step of a connection, of the rewrite  *)
(* or of the file switch changes it; only the writer's "ok" does.          *)
(***************************************************************************)

\* stats.current_size follows the file: nothing fails between the switch of
\* the files and the moment the new size is stored.
SizeKept == "stat" \notin Faults /\ ~(Policy = "always" /\ "postsync" \in Faults)

\* A rollback, where there may be one, goes to a size that can be relied on.
RollbackSound == SizeKept \/ Faults \cap {"write", "sync"} = {}

\* A power loss finds the directory as the last rewrite left it.
DirectoryKept == Crashes \subseteq {"power"} /\ "dirsync" \notin Faults

Undecided == \E c \in Conns : \/ pc[c] = "applied"
                              \/ pc[c] = "sent" /\ ack[c] # "ok"

Logged == IF Undecided THEN undo ELSE db

ConnInv ==
    /\ \A c \in Conns : /\ pc[c] \in {"applied", "sent"} => db = Append(undo, Last(db))
                        /\ ack[c] # "none" => pc[c] = "sent"
    /\ up => IsPrefix(acked, Logged)

\* Every message is the one its sender waits for.
ChanInv ==
    /\ \A i \in 1 .. Len(chan) :
        /\ ack[chan[i].from] = "none"
        /\ chan[i].type = "write" => pc[chan[i].from] = "sent" /\ chan[i].w = Last(db)
        /\ chan[i].type # "write" => rpc = chan[i].type
    /\ \A i, j \in 1 .. Len(chan) : i # j => chan[i].from # chan[j].from
    /\ ack[Rewriter] # "none" => rpc \in {"start", "finish", "abort"}

WriterInv ==
    /\ wpc \in {"sync", "rollback"} =>
        chan # <<>> /\ Head(chan).type = "write" /\ ~writeFailed
    /\ wpc \in {"rename", "switch"} => chan # <<>> /\ Head(chan).type = "finish"
    /\ linked = "temp" <=> wpc = "switch"
    /\ wpc = "rollback" => SizeKept

\* The active file holds db, the write being handled as its last frame.
WriteIsLast ==
    /\ active.junk = 0 /\ active.cmds # <<>> /\ Replay(active) = db
    /\ SizeKept => prevLen = Size(active) - 1

\* A write that a failed rollback left in the file is one that was, or is
\* about to be, answered with an error.
LeftBehind(w) ==
    /\ "setlen" \in Faults
    /\ \/ w \in rejected
       \/ w = Last(db) /\ \E c \in Conns : pc[c] = "sent" /\ ack[c] = "err"

\* Between two writes the active file holds what was logged.
AtRest ==
    IF writeFailed
    THEN \/ Replay(active) = Logged
         \/ LET w == Last(Replay(active))
            IN  LeftBehind(w) /\ Replay(active) = Append(Logged, w)
    ELSE /\ active.junk = 0 /\ Replay(active) = Logged
         /\ SizeKept => currentSize = Size(active)

LogInv ==
    up => /\ wpc = "sync" => WriteIsLast /\ (SizeKept => currentSize = Size(active))
          /\ wpc = "rollback" =>
                \/ WriteIsLast
                \/ /\ Replay(active) = Logged
                   /\ prevLen = active.snapLen + Len(active.cmds)
          /\ wpc \notin {"sync", "rollback"} => AtRest

\* Snapshot and buffer make up what is logged, until the temporary file does.
RewriteInv ==
    /\ ~rwInProgress => rpc = "idle"
    /\ rpc \in {"idle", "spawned", "gate"} => ~rwBuffer.on
    /\ rpc = "start" => /\ rwBuffer.on <=> ack[Rewriter] = "ok"
                        /\ rwBuffer.on => rwBuffer.frames = <<>>
                        /\ ack[Rewriter] # "err"
    /\ rpc \in {"finish", "abort"} /\ ack[Rewriter] # "none" => ~rwBuffer.on
    /\ rpc \in {"temp", "finish", "abort"} /\ rwBuffer.on =>
        snapshot \o rwBuffer.frames = Logged
    /\ rpc = "finish" /\ rwBuffer.on => temp.junk = 0 /\ Replay(temp) = snapshot
    /\ wpc \in {"rename", "switch"} =>
        ~rwBuffer.on /\ temp.junk = 0 /\ Replay(temp) = Logged

StoppedInv ==
    ~up => /\ chan = <<>> /\ wpc = "recv" /\ ~writeFailed /\ rpc = "idle"
           /\ \A c \in Conns : pc[c] = "idle"

\* What a reader saw is in the key space, or ends with a rejected write.
SeenInv ==
    \A r \in Readers :
        /\ up \/ seen[r] = <<>>
        /\ \/ IsPrefix(seen[r], db)
           \/ /\ seen[r] # <<>> /\ Last(seen[r]) \in rejected
              /\ IsPrefix(Front(seen[r]), Logged)

\* All a file may turn out to hold: a truncation may be undone.
Whole(f) == Replay(f) \o f.cut

\* The writes of a history were issued in its order, the last at most as n.
Ordered(h, n) ==
    \A i \in 1 .. Len(h) : h[i] <= n /\ \A j \in 1 .. i - 1 : h[j] < h[i]

\* A temporary file that may be renamed is on the disk as it is.
OrderInv ==
    /\ Ordered(db, issued)
    /\ \A f \in {active} \cup stale : Ordered(Whole(f), issued)
    /\ wpc \in {"rename", "switch"} => temp = Sync(temp)

\* Without power loss and failing truncations a rejected write is in no file.
RejectInv ==
    "power" \notin Crashes /\ "setlen" \notin Faults =>
        \A w \in rejected : /\ w <= issued
                            /\ ~Contains(db, w) /\ ~Contains(Replay(PathFile), w)

\* The least that a power loss leaves of f.
OnDisk(f) ==
    LET u == Untruncated(f)
    IN  Replay(Keep(u, IF f.synced < Size(u) THEN f.synced ELSE Size(u)))

HardenedAcked == "power" \notin Crashes \/ DirectoryKept => IsPrefix(hardened, acked)

AckedWritten == "power" \notin Crashes => IsPrefix(acked, Replay(PathFile))

\* Every file that a power loss may leave behind the path holds on the disk
\* what it must not lose.
PowerSafe ==
    DirectoryKept =>
        /\ stale # {} => wpc = "switch"
        /\ ~up => OnDisk(active) = Replay(active)
        /\ \A f \in {PathFile} \cup stale :
            /\ IsPrefix(hardened, OnDisk(f))
            /\ Policy = "always" =>
                /\ IsPrefix(acked, OnDisk(f))
                /\ up => IsPrefix(Logged, OnDisk(f))

DurableInv == HardenedAcked /\ AckedWritten /\ PowerSafe

AofInv ==
    /\ ConnInv /\ ChanInv /\ WriterInv /\ LogInv /\ RewriteInv /\ StoppedInv
    /\ SeenInv /\ OrderInv /\ RejectInv /\ DurableInv

=============================================================================
