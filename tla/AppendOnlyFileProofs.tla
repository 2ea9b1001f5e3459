------------------------ MODULE AppendOnlyFileProofs ------------------------
(***************************************************************************)
(* Types, the serialization of writes and what the append-only file holds, *)
(* proved for any number of connections, writes, rewrites and crashes:     *)
(* CoreInv, the part of AofInv about the messages, the file and the        *)
(* rewrite, is inductive by itself.                                        *)
(***************************************************************************)
EXTENDS AppendOnlyFile, SequenceTheorems, TLAPS

\* The history of nothing is a history.
LEMMA HistoryEmpty == <<>> \in Histories
BY DEF Histories

\* A history has a length.
LEMMA HistoryLen == ASSUME NEW h \in Histories PROVE Len(h) \in Nat
BY DEF Histories

\* A write applied to a key space gives a longer history (ApplyCommand, RewriteBuffer::push).
LEMMA HistoryAppend ==
  ASSUME NEW h \in Histories, NEW w \in Nat
  PROVE  /\ Append(h, w) \in Histories /\ Append(h, w) # <<>>
BY AppendProperties DEF Histories

\* A history may be continued by another: what replay rebuilds from a snapshot and
\* the commands behind it.
LEMMA HistoryConcat ==
  ASSUME NEW h \in Histories, NEW g \in Histories
  PROVE  h \o g \in Histories
BY DEF Histories

\* The last write of a history that is not empty is a write.
LEMMA HistoryLast ==
  ASSUME NEW h \in Histories, h # <<>>
  PROVE  Last(h) \in Nat
BY DEF Histories, Last

\* A part of a history is a history: what set_len leaves of the commands.
LEMMA HistorySubSeq ==
  ASSUME NEW h \in Histories, NEW m \in Int, NEW n \in Int,
         1 <= m, n <= Len(h)
  PROVE  SubSeq(h, m, n) \in Histories
BY DEF Histories

\* The fields of a file, as the provers need them.
LEMMA FileFields ==
  ASSUME NEW f \in File
  PROVE  /\ f.snap \in Histories /\ f.cmds \in Histories /\ f.cut \in Histories
         /\ f.snapLen \in Nat /\ f.junk \in Nat /\ f.synced \in Nat
         /\ Len(f.cmds) \in Nat
<1>1. /\ f.snap \in Histories /\ f.cmds \in Histories /\ f.cut \in Histories
      /\ f.snapLen \in Nat /\ f.junk \in Nat /\ f.synced \in Nat
  BY DEF File
<1> QED BY <1>1, HistoryLen

\* The length of a file, with and without its bad tail.
LEMMA SizeType ==
  ASSUME NEW f \in File
  PROVE  Size(f) \in Nat /\ Size(f) - f.junk \in Nat
BY FileFields DEF Size

\* replay rebuilds a history.
LEMMA ReplayType == ASSUME NEW f \in File PROVE Replay(f) \in Histories
BY FileFields, HistoryConcat DEF Replay

\* File::create and the temporary file of a rewrite.
LEMMA NewFileType ==
  ASSUME NEW h \in Histories, NEW n \in Nat
  PROVE  NewFile(h, n) \in File /\ EmptyFile \in File
BY HistoryEmpty DEF NewFile, EmptyFile, File

\* write_all leaves a file.
LEMMA WriteFramesType ==
  ASSUME NEW f \in File, NEW h \in Histories
  PROVE  WriteFrames(f, h) \in File
<1>1. f.cmds \o h \in Histories
  BY FileFields, HistoryConcat
<1>2. f.junk + Len(h) \in Nat
  BY FileFields, HistoryLen
<1> QED BY <1>1, <1>2, HistoryEmpty DEF WriteFrames, File

\* So does a write_all that fails half way.
LEMMA WritePartialType == ASSUME NEW f \in File PROVE WritePartial(f) \in File
<1>1. f.junk + 1 \in Nat
  BY FileFields
<1> QED BY <1>1, HistoryEmpty DEF WritePartial, File

\* So does sync_data.
LEMMA SyncType == ASSUME NEW f \in File PROVE Sync(f) \in File
BY SizeType, HistoryEmpty DEF Sync, File

\* So does cutting a file off, or extending it with zeros.
LEMMA KeepType ==
  ASSUME NEW f \in File, NEW n \in Nat PROVE Keep(f, n) \in File
<1> USE FileFields
<1>1. ASSUME ~(n < f.snapLen), n < f.snapLen + Len(f.cmds)
      PROVE SubSeq(f.cmds, 1, n - f.snapLen) \in Histories
  <2>1. n - f.snapLen <= Len(f.cmds) /\ n - f.snapLen \in Int
    BY <1>1
  <2> QED BY <2>1, HistorySubSeq
<1> DEFINE snap == IF n < f.snapLen THEN <<>> ELSE f.snap
           snapLen == IF n < f.snapLen THEN n ELSE f.snapLen
           cmds == IF n < f.snapLen THEN <<>>
                   ELSE IF n < f.snapLen + Len(f.cmds)
                        THEN SubSeq(f.cmds, 1, n - f.snapLen) ELSE f.cmds
           junk == IF n < f.snapLen + Len(f.cmds) THEN 0
                   ELSE n - (f.snapLen + Len(f.cmds))
           synced == IF n < f.synced THEN n ELSE f.synced
<1>2. snap \in Histories /\ cmds \in Histories
  BY <1>1, HistoryEmpty
<1>3. snapLen \in Nat /\ junk \in Nat /\ synced \in Nat
  OBVIOUS
<1>4. Keep(f, n) = [f EXCEPT !.snap = snap, !.snapLen = snapLen, !.cmds = cmds,
                             !.junk = junk, !.synced = synced]
  BY DEF Keep
<1> HIDE DEF snap, snapLen, cmds, junk, synced
<1> QED BY <1>2, <1>3, <1>4 DEF File

\* So does set_len in rollback_active_file.
LEMMA SetLenType ==
  ASSUME NEW f \in File, NEW n \in Nat PROVE SetLen(f, n) \in File
<1> USE FileFields
<1>1. ASSUME f.snapLen <= n, n < f.snapLen + Len(f.cmds)
      PROVE  SubSeq(f.cmds, n - f.snapLen + 1, Len(f.cmds)) \in Histories
  <2>1. 1 <= n - f.snapLen + 1 /\ n - f.snapLen + 1 \in Int
    BY <1>1
  <2> QED BY <2>1, HistorySubSeq
<1> QED BY <1>1, KeepType, HistoryEmpty DEF SetLen, File

\* Whatever a power loss leaves of a file is a file.
LEMMA SurvivorsType == ASSUME NEW f \in File PROVE Survivors(f) \subseteq File
<1>1. Untruncated(f) \in File
  BY FileFields, HistoryConcat DEF File, Untruncated
<1>2. ASSUME NEW n \in 0 .. Size(Untruncated(f)), NEW j \in 0 .. 1
      PROVE  [Sync(Keep(Untruncated(f), n)) EXCEPT !.junk = j] \in File
  <2>1. n \in Nat /\ j \in Nat
    BY <1>1, SizeType
  <2>2. Sync(Keep(Untruncated(f), n)) \in File
    BY <1>1, <2>1, KeepType, SyncType
  <2> QED BY <2>1, <2>2 DEF File
<1>3. ASSUME NEW g \in Survivors(f) PROVE g \in File
  <2>1. \E n \in {m \in 0 .. Size(Untruncated(f)) :
                    m >= f.synced \/ m = Size(Untruncated(f))}, j \in 0 .. 1 :
          g = [Sync(Keep(Untruncated(f), n)) EXCEPT !.junk = j]
    BY <1>3, SMT DEF Survivors
  <2> QED BY <1>2, <2>1
<1> QED BY <1>3

-----------------------------------------------------------------------------
\* TypeOK needs the gate: a task only drops a gate it holds, and what a task
\* in its critical section has applied is there to be rejected.
GateInv ==
  /\ TypeOK
  /\ WritesSerialized
  /\ \A c \in Conns : pc[c] \in {"applied", "sent"} => db # <<>>
  /\ ~up => \A c \in Conns : pc[c] = "idle"

\* The parts of a queue that is not empty.
LEMMA TailType ==
  ASSUME NEW S, NEW s \in Seq(S), s # <<>>
  PROVE  Tail(s) \in Seq(S) /\ Head(s) \in S
OBVIOUS

\* Variables that do not change keep their types.
LEMMA Unchanged ==
  ASSUME TypeOK
  PROVE  /\ UNCHANGED connVars => ConnTypeOK'
         /\ UNCHANGED <<gate, chan, ack>> => QueueTypeOK'
         /\ UNCHANGED writerVars => WriterTypeOK'
         /\ UNCHANGED fileVars => FileTypeOK'
         /\ UNCHANGED taskVars => TaskTypeOK'
         /\ UNCHANGED lifeVars => LifeTypeOK'
         /\ up /\ UNCHANGED lifeVars => up'
BY DEF TypeOK, ConnTypeOK, QueueTypeOK, WriterTypeOK, FileTypeOK, TaskTypeOK, LifeTypeOK,
  connVars, writerVars, fileVars, taskVars, lifeVars

\* GateInv holds when the server has been started.
LEMMA InitGate == Init => GateInv
<1> SUFFICES ASSUME Init PROVE GateInv
  OBVIOUS
<1> USE DEF Init
<1>1. ConnTypeOK
  BY HistoryEmpty DEF ConnTypeOK
<1>2. QueueTypeOK
  BY DEF QueueTypeOK
<1>3. WriterTypeOK
  BY HistoryEmpty DEF WriterTypeOK, Off
<1>4. FileTypeOK
  BY HistoryEmpty, NewFileType DEF FileTypeOK
<1>5. TaskTypeOK /\ LifeTypeOK
  BY HistoryEmpty DEF TaskTypeOK, LifeTypeOK
<1>6. WritesSerialized
  BY ConstantsAssumption DEF WritesSerialized, InCritical, Tasks
<1> QED BY <1>1, <1>2, <1>3, <1>4, <1>5, <1>6 DEF GateInv, TypeOK

\* Queueing for the gate (pause_writes().await) leaves its holder alone.
LEMMA WaitForGate ==
  ASSUME GateInv, NEW q \in Tasks, gate' = Append(gate, q),
         \A p \in Tasks : InCritical(p)' => InCritical(p)
  PROVE  WritesSerialized'
<1>1. ASSUME NEW p \in Tasks, Holds(p) PROVE Holds(p)'
  BY <1>1, AppendProperties DEF Holds, GateInv, TypeOK, QueueTypeOK
<1> QED BY <1>1 DEF WritesSerialized, GateInv

\* A step that leaves the gate alone keeps the writes serialized if only its
\* holder enters its critical section.
LEMMA KeepGate ==
  ASSUME GateInv, gate' = gate,
         \A p \in Tasks : InCritical(p)' => InCritical(p) \/ Holds(p)
  PROVE  WritesSerialized'
BY DEF WritesSerialized, GateInv, Holds

\* When the holder drops the gate nobody is in a critical section.
LEMMA DropGate ==
  ASSUME GateInv, NEW q \in Tasks, Holds(q),
         \A p \in Tasks : InCritical(p)' => InCritical(p) /\ p # q
  PROVE  WritesSerialized' /\ \A p \in Tasks : ~InCritical(p)'
BY DEF WritesSerialized, GateInv, Holds

\* The writer, the timer and the crash-free steps of other tasks leave the
\* connections and the gate alone.
LEMMA OutsideGate ==
  ASSUME GateInv, UNCHANGED <<connVars, gate, taskVars>>
  PROVE  /\ WritesSerialized' /\ ConnTypeOK' /\ TaskTypeOK'
         /\ \A c \in Conns : pc'[c] \in {"applied", "sent"} => db' # <<>>
<1>1. \A p \in Tasks : InCritical(p)' => InCritical(p)
  BY DEF InCritical, connVars, taskVars
<1>2. WritesSerialized'
  BY <1>1, KeepGate
<1>3. \A c \in Conns : pc'[c] \in {"applied", "sent"} => db' # <<>>
  BY DEF GateInv, connVars
<1> QED BY <1>2, <1>3, Unchanged DEF GateInv

\* The writer answers the message it handles and takes it off its channel.
LEMMA AnswerType ==
  ASSUME GateInv, chan # <<>>, NEW r \in {"ok", "err"}, Answer(r), gate' = gate
  PROVE  QueueTypeOK' /\ wpc' = "recv"
<1>1. chan \in Seq(Messages) /\ ack \in [Tasks -> {"none", "ok", "err"}]
      /\ gate \in Seq(Tasks)
  BY DEF GateInv, TypeOK, QueueTypeOK
<1>2. Tail(chan) \in Seq(Messages)
  BY <1>1, TailType
<1> QED BY <1>1, <1>2 DEF Answer, QueueTypeOK

\* Every step of the connections, the writer, the timer, the rewrite and the
\* crashes keeps GateInv: one step of the proof for each action.
LEMMA NextGate == GateInv /\ [Next]_vars => GateInv'
<1> SUFFICES ASSUME GateInv, [Next]_vars PROVE GateInv'
  OBVIOUS
<1> USE ConstantsAssumption DEF GateInv
<1>1. ASSUME NEW c \in Conns, ReadWriteCommand(c) PROVE GateInv'
  <2> USE <1>1 DEF ReadWriteCommand
  <2>1. ConnTypeOK'
    BY DEF ConnTypeOK, TypeOK
  <2>2. QueueTypeOK'
    BY DEF QueueTypeOK, TypeOK, Tasks, Holds
  <2>3. WritesSerialized'
    <3>1. \A p \in Tasks : InCritical(p)' => InCritical(p)
      BY DEF InCritical, Tasks, ConnTypeOK, TypeOK, taskVars
    <3> QED BY <3>1, WaitForGate DEF Tasks
  <2>4. \A d \in Conns : pc'[d] \in {"applied", "sent"} => db' # <<>>
    BY DEF ConnTypeOK, TypeOK
  <2> QED BY <2>1, <2>2, <2>3, <2>4, Unchanged DEF TypeOK
<1>2. ASSUME NEW c \in Conns, RefuseCommand(c) PROVE GateInv'
  <2> USE <1>2 DEF RefuseCommand
  <2>1. ConnTypeOK'
    BY DEF ConnTypeOK, TypeOK
  <2>2. QueueTypeOK'
    BY TailType DEF QueueTypeOK, TypeOK, Tasks, Holds
  <2>3. WritesSerialized'
    <3>1. \A p \in Tasks : InCritical(p)' => InCritical(p) /\ p # c
      BY DEF InCritical, Tasks, ConnTypeOK, TypeOK, taskVars
    <3> QED BY <3>1, DropGate DEF Tasks
  <2>4. \A d \in Conns : pc'[d] \in {"applied", "sent"} => db' # <<>>
    BY DEF ConnTypeOK, TypeOK
  <2> QED BY <2>1, <2>2, <2>3, <2>4, Unchanged DEF TypeOK
<1>3. ASSUME NEW c \in Conns, ApplyCommand(c) PROVE GateInv'
  <2> USE <1>3 DEF ApplyCommand
  <2>1. ConnTypeOK'
    BY HistoryAppend DEF ConnTypeOK, TypeOK
  <2>2. QueueTypeOK'
    BY DEF QueueTypeOK, TypeOK, Tasks, Holds
  <2>3. WritesSerialized'
    <3>1. \A p \in Tasks : InCritical(p)' => InCritical(p) \/ Holds(p)
      BY DEF InCritical, Tasks, ConnTypeOK, TypeOK, taskVars
    <3> QED BY <3>1, KeepGate DEF Tasks
  <2>4. \A d \in Conns : pc'[d] \in {"applied", "sent"} => db' # <<>>
    BY HistoryAppend, issued + 1 \in Nat DEF ConnTypeOK, TypeOK
  <2> QED BY <2>1, <2>2, <2>3, <2>4, Unchanged DEF TypeOK
<1>4. ASSUME NEW c \in Conns, SendToWriter(c) PROVE GateInv'
  <2> USE <1>4 DEF SendToWriter, Send
  <2>1. Holds(c) /\ db # <<>>
    BY DEF WritesSerialized, InCritical, Tasks
  <2>2. Last(db) \in Nat
    BY <2>1, HistoryLast DEF ConnTypeOK, TypeOK
  <2>3. ConnTypeOK'
    BY <2>2 DEF ConnTypeOK, TypeOK
  <2>4. QueueTypeOK'
    BY <2>1, <2>2 DEF QueueTypeOK, TypeOK, Tasks, Holds, Messages
  <2>5. \A p \in Tasks : InCritical(p)' => InCritical(p)
    BY DEF InCritical, Tasks, ConnTypeOK, TypeOK, taskVars
  <2>6. WritesSerialized'
    BY <2>1, <2>5, KeepGate DEF Tasks
  <2>7. \A d \in Conns : pc'[d] \in {"applied", "sent"} => db' # <<>>
    BY DEF ConnTypeOK, TypeOK
  <2> QED BY <2>3, <2>4, <2>6, <2>7, Unchanged DEF TypeOK
<1>5. ASSUME NEW c \in Conns, WriterKnownFailed(c) PROVE GateInv'
  <2> USE <1>5 DEF WriterKnownFailed, Reject
  <2>1. Holds(c) /\ db # <<>>
    BY DEF WritesSerialized, InCritical, Tasks
  <2>2. Last(db) \in Nat
    BY <2>1, HistoryLast DEF ConnTypeOK, TypeOK
  <2>3. ConnTypeOK'
    BY <2>2 DEF ConnTypeOK, TypeOK
  <2>4. QueueTypeOK'
    BY <2>1, <2>2, TailType DEF QueueTypeOK, TypeOK, Tasks, Holds
  <2>5. \A p \in Tasks : InCritical(p)' => InCritical(p) /\ p # c
    BY DEF InCritical, Tasks, ConnTypeOK, TypeOK, taskVars
  <2>6. WritesSerialized'
    BY <2>1, <2>5, DropGate DEF Tasks
  <2>7. \A d \in Conns : pc'[d] \in {"applied", "sent"} => db' # <<>>
    BY <2>1, <2>5, DropGate DEF ConnTypeOK, TypeOK, Tasks, InCritical
  <2> QED BY <2>3, <2>4, <2>6, <2>7, Unchanged DEF TypeOK
<1>6. ASSUME NEW c \in Conns, ReplyFailed(c) PROVE GateInv'
  <2> USE <1>6 DEF ReplyFailed, Reject
  <2>1. Holds(c) /\ db # <<>>
    BY DEF WritesSerialized, InCritical, Tasks
  <2>2. Last(db) \in Nat
    BY <2>1, HistoryLast DEF ConnTypeOK, TypeOK
  <2>3. ConnTypeOK'
    BY <2>2 DEF ConnTypeOK, TypeOK
  <2>4. QueueTypeOK'
    BY <2>1, <2>2, TailType DEF QueueTypeOK, TypeOK, Tasks, Holds
  <2>5. \A p \in Tasks : InCritical(p)' => InCritical(p) /\ p # c
    BY DEF InCritical, Tasks, ConnTypeOK, TypeOK, taskVars
  <2>6. WritesSerialized'
    BY <2>1, <2>5, DropGate DEF Tasks
  <2>7. \A d \in Conns : pc'[d] \in {"applied", "sent"} => db' # <<>>
    BY <2>1, <2>5, DropGate DEF ConnTypeOK, TypeOK, Tasks, InCritical
  <2> QED BY <2>3, <2>4, <2>6, <2>7, Unchanged DEF TypeOK
<1>7. ASSUME NEW c \in Conns, ReplyOk(c) PROVE GateInv'
  <2> USE <1>7 DEF ReplyOk
  <2>1. Holds(c) /\ db # <<>>
    BY DEF WritesSerialized, InCritical, Tasks
  <2>2. Last(db) \in Nat
    BY <2>1, HistoryLast DEF ConnTypeOK, TypeOK
  <2>3. ConnTypeOK'
    BY <2>2 DEF ConnTypeOK, TypeOK
  <2>4. QueueTypeOK'
    BY <2>1, <2>2, TailType DEF QueueTypeOK, TypeOK, Tasks, Holds
  <2>5. \A p \in Tasks : InCritical(p)' => InCritical(p) /\ p # c
    BY DEF InCritical, Tasks, ConnTypeOK, TypeOK, taskVars
  <2>6. WritesSerialized'
    BY <2>1, <2>5, DropGate DEF Tasks
  <2>7. \A d \in Conns : pc'[d] \in {"applied", "sent"} => db' # <<>>
    BY DEF ConnTypeOK, TypeOK
  <2> QED BY <2>3, <2>4, <2>6, <2>7, Unchanged DEF TypeOK
<1>8. ASSUME NEW r \in Readers, ReadCommand(r) PROVE GateInv'
  <2> USE <1>8 DEF ReadCommand
  <2>1. ConnTypeOK'
    BY DEF ConnTypeOK, TypeOK
  <2>2. WritesSerialized'
    <3>1. \A p \in Tasks : InCritical(p)' => InCritical(p)
      BY DEF InCritical, taskVars
    <3> QED BY <3>1, KeepGate
  <2> QED BY <2>1, <2>2, Unchanged DEF TypeOK
<1>9. ASSUME RejectWrite PROVE GateInv'
  <2> USE <1>9 DEF RejectWrite, Handling
  <2>1. QueueTypeOK' /\ wpc' = "recv"
    BY AnswerType
  <2>2. WriterTypeOK'
    BY <2>1 DEF WriterTypeOK, TypeOK
  <2>3. FileTypeOK'
    BY Unchanged
  <2> QED BY <2>1, <2>2, <2>3, OutsideGate, Unchanged DEF TypeOK
<1>10. ASSUME WriteOne PROVE GateInv'
  <2> USE <1>10 DEF WriteOne, Handling
  <2>1. QueueTypeOK'
    BY Unchanged
  <2>4. Head(chan).w \in Nat
    BY TailType DEF TypeOK, QueueTypeOK, Messages
  <2>5. WriteFrames(active, <<Head(chan).w>>) \in File
    <3>1. <<Head(chan).w>> \in Histories
      BY <2>4 DEF Histories
    <3> QED BY <3>1, WriteFramesType DEF TypeOK, FileTypeOK
  <2>2. WriterTypeOK'
    BY DEF WriterTypeOK, TypeOK
  <2>3. FileTypeOK'
    BY <2>5 DEF FileTypeOK, TypeOK
  <2> QED BY <2>1, <2>2, <2>3, OutsideGate, Unchanged DEF TypeOK
<1>11. ASSUME WriteOneFails PROVE GateInv'
  <2> USE <1>11 DEF WriteOneFails, Handling
  <2>1. QueueTypeOK'
    BY Unchanged
  <2>2. WriterTypeOK'
    BY DEF WriterTypeOK, TypeOK
  <2>3. FileTypeOK'
    BY WritePartialType DEF FileTypeOK, TypeOK
  <2> QED BY <2>1, <2>2, <2>3, OutsideGate, Unchanged DEF TypeOK
<1>12. ASSUME SyncAfterWrite PROVE GateInv'
  <2> USE <1>12 DEF SyncAfterWrite, Handling
  <2>1. QueueTypeOK' /\ wpc' = "recv"
    BY AnswerType
  <2>4. Head(chan).w \in Nat
    BY TailType DEF TypeOK, QueueTypeOK, Messages
  <2>6. rwBuffer' \in [on: BOOLEAN, frames: Histories]
    BY <2>4, HistoryAppend, HistoryEmpty DEF PushToRewriteBuffer, Off, TypeOK, WriterTypeOK
  <2>2. WriterTypeOK'
    BY <2>1, <2>6 DEF WriterTypeOK, TypeOK
  <2>3. FileTypeOK'
    BY SyncType DEF FileTypeOK, TypeOK, ConnTypeOK
  <2> QED BY <2>1, <2>2, <2>3, OutsideGate, Unchanged DEF TypeOK
<1>13. ASSUME SyncAfterWriteFails PROVE GateInv'
  <2> USE <1>13 DEF SyncAfterWriteFails, Handling
  <2>1. QueueTypeOK'
    BY Unchanged
  <2>2. WriterTypeOK'
    BY DEF WriterTypeOK, TypeOK
  <2>3. FileTypeOK'
    BY Unchanged
  <2> QED BY <2>1, <2>2, <2>3, OutsideGate, Unchanged DEF TypeOK
<1>14. ASSUME RollbackActiveFile PROVE GateInv'
  <2> USE <1>14 DEF RollbackActiveFile, Handling
  <2>1. QueueTypeOK' /\ wpc' = "recv"
    BY AnswerType
  <2>5. Sync(SetLen(active, prevLen)) \in File /\ SetLen(active, prevLen) \in File
    BY SetLenType, SyncType DEF TypeOK, FileTypeOK, WriterTypeOK
  <2>2. WriterTypeOK'
    BY <2>1 DEF WriterTypeOK, TypeOK
  <2>3. FileTypeOK'
    BY <2>5 DEF FileTypeOK, TypeOK, ConnTypeOK
  <2> QED BY <2>1, <2>2, <2>3, OutsideGate, Unchanged DEF TypeOK
<1>15. ASSUME HandleStartRewrite PROVE GateInv'
  <2> USE <1>15 DEF HandleStartRewrite, Handling
  <2>1. QueueTypeOK' /\ wpc' = "recv"
    BY AnswerType
  <2>2. WriterTypeOK'
    BY <2>1, HistoryEmpty DEF WriterTypeOK, TypeOK
  <2>3. FileTypeOK'
    BY Unchanged
  <2> QED BY <2>1, <2>2, <2>3, OutsideGate, Unchanged DEF TypeOK
<1>16. ASSUME HandleAbortRewrite PROVE GateInv'
  <2> USE <1>16 DEF HandleAbortRewrite, Handling
  <2>1. QueueTypeOK' /\ wpc' = "recv"
    BY AnswerType
  <2>2. WriterTypeOK'
    BY <2>1, HistoryEmpty DEF WriterTypeOK, TypeOK, Off
  <2>3. FileTypeOK'
    BY Unchanged
  <2> QED BY <2>1, <2>2, <2>3, OutsideGate, Unchanged DEF TypeOK
<1>17. ASSUME FinishNotInProgress PROVE GateInv'
  <2> USE <1>17 DEF FinishNotInProgress, Handling
  <2>1. QueueTypeOK' /\ wpc' = "recv"
    BY AnswerType
  <2>2. WriterTypeOK'
    BY <2>1 DEF WriterTypeOK, TypeOK
  <2>3. FileTypeOK'
    BY Unchanged
  <2> QED BY <2>1, <2>2, <2>3, OutsideGate, Unchanged DEF TypeOK
<1>18. ASSUME FinishFlush PROVE GateInv'
  <2> USE <1>18 DEF FinishFlush, Handling
  <2>1. QueueTypeOK'
    BY Unchanged
  <2>5. Sync(WriteFrames(temp, rwBuffer.frames)) \in File
    BY WriteFramesType, SyncType DEF TypeOK, FileTypeOK, WriterTypeOK
  <2>2. WriterTypeOK'
    BY HistoryEmpty DEF WriterTypeOK, TypeOK, Off
  <2>3. FileTypeOK'
    BY <2>5 DEF FileTypeOK, TypeOK
  <2> QED BY <2>1, <2>2, <2>3, OutsideGate, Unchanged DEF TypeOK
<1>19. ASSUME FinishFlushFails PROVE GateInv'
  <2> USE <1>19 DEF FinishFlushFails, Handling
  <2>1. QueueTypeOK' /\ wpc' = "recv"
    BY AnswerType
  <2>2. WriterTypeOK'
    BY <2>1, HistoryEmpty DEF WriterTypeOK, TypeOK, Off
  <2>3. FileTypeOK'
    BY WritePartialType DEF FileTypeOK, TypeOK
  <2> QED BY <2>1, <2>2, <2>3, OutsideGate, Unchanged DEF TypeOK
<1>20. ASSUME FinishRename PROVE GateInv'
  <2> USE <1>20 DEF FinishRename, Handling
  <2>1. QueueTypeOK'
    BY Unchanged
  <2>2. WriterTypeOK'
    BY DEF WriterTypeOK, TypeOK
  <2>3. FileTypeOK'
    BY DEF FileTypeOK, TypeOK
  <2> QED BY <2>1, <2>2, <2>3, OutsideGate, Unchanged DEF TypeOK
<1>21. ASSUME FinishRenameFails PROVE GateInv'
  <2> USE <1>21 DEF FinishRenameFails, Handling
  <2>1. QueueTypeOK' /\ wpc' = "recv"
    BY AnswerType
  <2>2. WriterTypeOK'
    BY <2>1 DEF WriterTypeOK, TypeOK
  <2>3. FileTypeOK'
    BY Unchanged
  <2> QED BY <2>1, <2>2, <2>3, OutsideGate, Unchanged DEF TypeOK
<1>22. ASSUME FinishSwitch PROVE GateInv'
  <2> USE <1>22 DEF FinishSwitch, Handling
  <2>1. QueueTypeOK' /\ wpc' = "recv"
    <3>1. \E r \in {"ok", "err"} : Answer(r)
      OBVIOUS
    <3> QED BY <3>1, AnswerType
  <2>2. WriterTypeOK'
    BY <2>1, SizeType DEF WriterTypeOK, TypeOK, FileTypeOK
  <2>3. FileTypeOK'
    BY NewFileType, HistoryEmpty DEF FileTypeOK, TypeOK, ConnTypeOK
  <2> QED BY <2>1, <2>2, <2>3, OutsideGate, Unchanged DEF TypeOK
<1>23. ASSUME EverySecSync PROVE GateInv'
  <2> USE <1>23 DEF EverySecSync
  <2>1. FileTypeOK'
    BY SyncType DEF FileTypeOK, TypeOK, ConnTypeOK
  <2> QED BY <2>1, OutsideGate, Unchanged DEF TypeOK
<1>24. ASSUME EverySecSyncFails PROVE GateInv'
  <2> USE <1>24 DEF EverySecSyncFails
  <2>1. WriterTypeOK'
    BY DEF WriterTypeOK, TypeOK
  <2> QED BY <2>1, OutsideGate, Unchanged DEF TypeOK
<1>25. ASSUME ScheduleRewrite PROVE GateInv'
  <2> USE <1>25 DEF ScheduleRewrite
  <2>1. TaskTypeOK'
    BY DEF TaskTypeOK, TypeOK
  <2>2. QueueTypeOK'
    BY Unchanged
  <2>3. WritesSerialized'
    <3>1. \A p \in Tasks : InCritical(p)' => InCritical(p) \/ Holds(p)
      BY DEF InCritical, Tasks, connVars
    <3> QED BY <3>1, KeepGate DEF Tasks
  <2>4. \A c \in Conns : pc'[c] \in {"applied", "sent"} => db' # <<>>
    BY DEF connVars
  <2> QED BY <2>1, <2>2, <2>3, <2>4, Unchanged DEF TypeOK
<1>26. ASSUME PauseWrites PROVE GateInv'
  <2> USE <1>26 DEF PauseWrites
  <2>1. TaskTypeOK'
    BY DEF TaskTypeOK, TypeOK
  <2>2. QueueTypeOK'
    BY DEF QueueTypeOK, TypeOK, Tasks, Messages, Holds
  <2>3. WritesSerialized'
    <3>1. \A p \in Tasks : InCritical(p)' => InCritical(p)
      BY DEF InCritical, Tasks, connVars
    <3> QED BY <3>1, WaitForGate DEF Tasks
  <2>4. \A c \in Conns : pc'[c] \in {"applied", "sent"} => db' # <<>>
    BY DEF connVars
  <2> QED BY <2>1, <2>2, <2>3, <2>4, Unchanged DEF TypeOK
<1>27. ASSUME StartRewriteBuffering PROVE GateInv'
  <2> USE <1>27 DEF StartRewriteBuffering, Send
  <2>1. TaskTypeOK'
    BY DEF TaskTypeOK, TypeOK
  <2>2. QueueTypeOK'
    BY DEF QueueTypeOK, TypeOK, Tasks, Messages, Holds
  <2>3. WritesSerialized'
    <3>1. \A p \in Tasks : InCritical(p)' => InCritical(p) \/ Holds(p)
      BY DEF InCritical, Tasks, connVars
    <3> QED BY <3>1, KeepGate DEF Tasks
  <2>4. \A c \in Conns : pc'[c] \in {"applied", "sent"} => db' # <<>>
    BY DEF connVars
  <2> QED BY <2>1, <2>2, <2>3, <2>4, Unchanged DEF TypeOK
<1>28. ASSUME TakeSnapshot PROVE GateInv'
  <2> USE <1>28 DEF TakeSnapshot
  <2>1. TaskTypeOK'
    BY DEF TaskTypeOK, TypeOK, ConnTypeOK
  <2>2. Holds(Rewriter)
    BY DEF WritesSerialized, InCritical, Tasks
  <2>3. QueueTypeOK'
    BY <2>2, TailType DEF QueueTypeOK, TypeOK, Tasks, Holds
  <2>4. WritesSerialized'
    <3>1. \A p \in Tasks : InCritical(p)' => InCritical(p) /\ p # Rewriter
      BY DEF InCritical, Tasks, connVars
    <3> QED BY <2>2, <3>1, DropGate DEF Tasks
  <2>5. \A c \in Conns : pc'[c] \in {"applied", "sent"} => db' # <<>>
    BY DEF connVars
  <2> QED BY <2>1, <2>3, <2>4, <2>5, Unchanged DEF TypeOK
<1>29. ASSUME WriteSnapshot PROVE GateInv'
  <2> USE <1>29 DEF WriteSnapshot, Send
  <2>1. TaskTypeOK'
    BY DEF TaskTypeOK, TypeOK
  <2>2. QueueTypeOK'
    BY DEF QueueTypeOK, TypeOK, Tasks, Messages, Holds
  <2>3. WritesSerialized'
    <3>1. \A p \in Tasks : InCritical(p)' => InCritical(p) \/ Holds(p)
      BY DEF InCritical, Tasks, connVars
    <3> QED BY <3>1, KeepGate DEF Tasks
  <2>4. \A c \in Conns : pc'[c] \in {"applied", "sent"} => db' # <<>>
    BY DEF connVars
  <2>5. FileTypeOK'
    <3>1. PICK n \in Nat : temp' = Sync(NewFile(snapshot, n))
      OBVIOUS
    <3>2. temp' \in File
      BY <3>1, NewFileType, SyncType DEF TypeOK, TaskTypeOK
    <3> QED BY <3>2 DEF FileTypeOK, TypeOK
  <2> QED BY <2>1, <2>2, <2>3, <2>4, <2>5, Unchanged DEF TypeOK
<1>30. ASSUME WriteSnapshotFails PROVE GateInv'
  <2> USE <1>30 DEF WriteSnapshotFails, Send
  <2>1. TaskTypeOK'
    BY DEF TaskTypeOK, TypeOK
  <2>2. QueueTypeOK'
    BY DEF QueueTypeOK, TypeOK, Tasks, Messages, Holds
  <2>3. WritesSerialized'
    <3>1. \A p \in Tasks : InCritical(p)' => InCritical(p) \/ Holds(p)
      BY DEF InCritical, Tasks, connVars
    <3> QED BY <3>1, KeepGate DEF Tasks
  <2>4. \A c \in Conns : pc'[c] \in {"applied", "sent"} => db' # <<>>
    BY DEF connVars
  <2>5. FileTypeOK'
    BY NewFileType, WritePartialType, HistoryEmpty DEF FileTypeOK, TypeOK
  <2> QED BY <2>1, <2>2, <2>3, <2>4, <2>5, Unchanged DEF TypeOK
<1>31. ASSUME RewriteEnds PROVE GateInv'
  <2> USE <1>31 DEF RewriteEnds
  <2>1. TaskTypeOK'
    BY DEF TaskTypeOK, TypeOK
  <2>2. QueueTypeOK'
    BY DEF QueueTypeOK, TypeOK, Tasks, Messages, Holds
  <2>3. WritesSerialized'
    <3>1. \A p \in Tasks : InCritical(p)' => InCritical(p) \/ Holds(p)
      BY DEF InCritical, Tasks, connVars
    <3> QED BY <3>1, KeepGate DEF Tasks
  <2>4. \A c \in Conns : pc'[c] \in {"applied", "sent"} => db' # <<>>
    BY DEF connVars
  <2>5. FileTypeOK'
    BY NewFileType, HistoryEmpty DEF FileTypeOK, TypeOK
  <2> QED BY <2>1, <2>2, <2>3, <2>4, <2>5, Unchanged DEF TypeOK
<1>32. ASSUME NEW f \in File, Stop(f), stale' \subseteq File PROVE GateInv'
  <2> USE <1>32 DEF Stop
  <2>1. ConnTypeOK'
    BY HistoryEmpty DEF ConnTypeOK, TypeOK
  <2>2. LifeTypeOK'
    <3>1. crashes \in Nat
      BY DEF LifeTypeOK, TypeOK
    <3>2. crashes + 1 \in Nat
      BY <3>1
    <3> QED BY <3>2 DEF LifeTypeOK
  <2>7. TaskTypeOK'
    BY HistoryEmpty DEF TaskTypeOK, TypeOK
  <2>5. QueueTypeOK'
    BY DEF QueueTypeOK
  <2>6. WriterTypeOK'
    BY HistoryEmpty DEF WriterTypeOK, Off
  <2>3. FileTypeOK'
    BY NewFileType, HistoryEmpty DEF FileTypeOK, TypeOK
  <2>4. WritesSerialized'
    BY DEF WritesSerialized, InCritical, Tasks
  <2> QED BY <2>1, <2>2, <2>5, <2>6, <2>7, <2>3, <2>4 DEF TypeOK
<1>33. ASSUME Kill PROVE GateInv'
  <2>1. PathFile \in File /\ stale' \subseteq File
    BY <1>33 DEF Kill, PathFile, TypeOK, FileTypeOK
  <2> QED BY <1>32, <1>33, <2>1 DEF Kill
<1>34. ASSUME PowerLoss PROVE GateInv'
  <2>1. PICK f \in Survivors(PathFile) \cup UNION {Survivors(g) : g \in stale} : Stop(f)
    BY <1>34 DEF PowerLoss
  <2>2. f \in File
    BY <2>1, SurvivorsType DEF PathFile, TypeOK, FileTypeOK
  <2> QED BY <1>32, <1>34, <2>1, <2>2 DEF PowerLoss
<1>35. ASSUME Restart PROVE GateInv'
  <2> USE <1>35 DEF Restart
  <2>1. active \in File /\ acked \in Histories
    BY DEF TypeOK, FileTypeOK, ConnTypeOK
  <2>2. Replay(active) \in Histories /\ Size(active) - active.junk \in Nat
    BY <2>1, ReplayType, SizeType
  <2>3. ConnTypeOK'
    BY <2>2 DEF ConnTypeOK, TypeOK
  <2>4. WriterTypeOK'
    BY <2>2 DEF WriterTypeOK, TypeOK
  <2>5. Sync(Keep(active, Size(active) - active.junk)) \in File
    BY <2>1, <2>2, KeepType, SyncType
  <2>6. FileTypeOK'
    BY <2>3, <2>5 DEF FileTypeOK, TypeOK, ConnTypeOK
  <2>7. WritesSerialized'
    <3>1. \A p \in Tasks : InCritical(p)' => InCritical(p)
      BY DEF InCritical, taskVars
    <3> QED BY <3>1, KeepGate
  <2>8. LifeTypeOK' /\ QueueTypeOK' /\ TaskTypeOK'
    BY Unchanged DEF LifeTypeOK, TypeOK
  <2> QED BY <2>3, <2>4, <2>6, <2>7, <2>8 DEF TypeOK
<1>36. CASE UNCHANGED vars
  BY <1>36, OutsideGate, Unchanged DEF vars, TypeOK, lifeVars, connVars
<1> QED
  BY <1>1, <1>2, <1>3, <1>4, <1>5, <1>6, <1>7, <1>8, <1>9, <1>10, <1>11, <1>12,
     <1>13, <1>14, <1>15, <1>16, <1>17, <1>18, <1>19, <1>20, <1>21, <1>22, <1>23,
     <1>24, <1>25, <1>26, <1>27, <1>28, <1>29, <1>30, <1>31, <1>33, <1>34, <1>35,
     <1>36
  DEF Next, ConnStep, WriterStep, TimerStep, RewriteStep

\* TypeOK is an invariant: no sequence of commands, faults, rewrites and crashes
\* takes a variable out of its type, whatever the number of connections, the
\* policy, the faults and the bounds.
THEOREM TypeCorrect == Spec => []TypeOK
<1>1. GateInv => TypeOK
  BY DEF GateInv
<1> QED BY <1>1, InitGate, NextGate, PTL DEF Spec

\* WritesSerialized is an invariant: between its apply and its reply a write
\* holds the gate of server.rs, and so does the rewrite task while it takes its
\* snapshot, for any number of connections.
THEOREM SerializedWrites == Spec => []WritesSerialized
<1>1. GateInv => WritesSerialized
  BY DEF GateInv
<1> QED BY <1>1, InitGate, NextGate, PTL DEF Spec

-----------------------------------------------------------------------------
(***************************************************************************)
(* Histories.                                                              *)
(***************************************************************************)

\* A prefix, element by element.
LEMMA PrefixDef ==
  ASSUME NEW g \in Histories, NEW h \in Histories
  PROVE  IsPrefix(g, h) <=> /\ Len(g) <= Len(h)
                            /\ \A i \in 1 .. Len(g) : g[i] = h[i]
<1>1. Len(g) \in Nat /\ Len(h) \in Nat
  BY HistoryLen
<1>2. SubSeq(g, 1, Len(g)) = g
  BY SubSeqFull DEF Histories
<1>3. ASSUME Len(g) <= Len(h)
      PROVE  SubSeq(h, 1, Len(g)) = g <=> \A i \in 1 .. Len(g) : g[i] = h[i]
  <2>1. /\ SubSeq(h, 1, Len(g)) \in Histories
        /\ Len(SubSeq(h, 1, Len(g))) = Len(g)
        /\ \A i \in 1 .. Len(g) : SubSeq(h, 1, Len(g))[i] = h[i]
    BY <1>1, <1>3 DEF Histories
  <2> DEFINE p == SubSeq(h, 1, Len(g))
  <2>2. ASSUME \A i \in 1 .. Len(g) : g[i] = h[i] PROVE p = g
    <3> HIDE DEF p
    <3> QED BY <2>1, <2>2, SeqEqual DEF Histories, p
  <2> QED BY <2>1, <2>2
<1> QED BY <1>2, <1>3 DEF IsPrefix

\* Every history is a prefix of itself.
LEMMA PrefixRefl == ASSUME NEW h \in Histories PROVE IsPrefix(h, h)
BY PrefixDef, HistoryLen

\* The empty history is a prefix of every history.
LEMMA PrefixEmpty == ASSUME NEW h \in Histories PROVE IsPrefix(<<>>, h)
BY PrefixDef, HistoryLen, HistoryEmpty

\* A prefix of a prefix is a prefix.
LEMMA PrefixTrans ==
  ASSUME NEW f \in Histories, NEW g \in Histories, NEW h \in Histories,
         IsPrefix(f, g), IsPrefix(g, h)
  PROVE  IsPrefix(f, h)
BY PrefixDef, HistoryLen

\* A write more, as ApplyCommand adds it and restore_entries takes it back.
LEMMA AppendParts ==
  ASSUME NEW h \in Histories, NEW w \in Nat
  PROVE  /\ Append(h, w) \in Histories /\ Append(h, w) # <<>>
         /\ Last(Append(h, w)) = w /\ Front(Append(h, w)) = h
         /\ IsPrefix(h, Append(h, w)) /\ h # Append(h, w)
<1> DEFINE a == Append(h, w)
<1>1. /\ a \in Histories /\ a # <<>> /\ Len(a) = Len(h) + 1 /\ a[Len(h) + 1] = w
      /\ \A i \in 1 .. Len(h) : a[i] = h[i]
      /\ Len(h) \in Nat
  BY AppendProperties, HistoryLen DEF Histories
<1>2. SubSeq(a, 1, Len(h)) = h
  <2>1. /\ SubSeq(a, 1, Len(h)) \in Histories /\ Len(SubSeq(a, 1, Len(h))) = Len(h)
        /\ \A i \in 1 .. Len(h) : SubSeq(a, 1, Len(h))[i] = h[i]
    <3> HIDE DEF a
    <3> QED BY <1>1 DEF Histories
  <2> QED BY <2>1, SeqEqual DEF Histories
<1>3. IsPrefix(h, a)
  <2> HIDE DEF a
  <2> QED BY <1>1, PrefixDef
<1> HIDE DEF a
<1>4. Last(a) = w /\ Front(a) = h
  BY <1>1, <1>2 DEF Last, Front
<1> QED BY <1>1, <1>3, <1>4 DEF a

\* A history that is not empty is its front and its last write.
LEMMA FrontLast ==
  ASSUME NEW h \in Histories, h # <<>>
  PROVE  /\ Front(h) \in Histories /\ Last(h) \in Nat
         /\ h = Append(Front(h), Last(h)) /\ Len(h) >= 1
<1>1. Len(h) \in Nat /\ Len(h) >= 1
  BY EmptySeq, LenProperties DEF Histories
<1>2. Front(h) \in Histories /\ Len(Front(h)) = Len(h) - 1
      /\ \A i \in 1 .. Len(h) - 1 : Front(h)[i] = h[i]
  <2>1. Len(h) - 1 \in Int /\ Len(h) - 1 <= Len(h) /\ Len(h) - 1 >= 0
    BY <1>1
  <2>2. SubSeq(h, 1, Len(h) - 1) \in Histories
    BY <2>1, HistorySubSeq
  <2>3. Len(SubSeq(h, 1, Len(h) - 1)) = Len(h) - 1
        /\ \A i \in 1 .. Len(h) - 1 : SubSeq(h, 1, Len(h) - 1)[i] = h[i]
    <3> DEFINE n == Len(h) - 1
    <3>1. n \in Int /\ n >= 0 /\ \A i \in 1 .. n : h[i] \in Nat
      BY <1>1, <2>1 DEF Histories
    <3> HIDE DEF n
    <3>2. Len(SubSeq(h, 1, n)) = n /\ \A i \in 1 .. n : SubSeq(h, 1, n)[i] = h[i]
      BY <3>1, SubSeqProperties, Z3
    <3> QED BY <3>2 DEF n
  <2> QED BY <2>2, <2>3 DEF Front
<1>3. Last(h) \in Nat
  BY HistoryLast
<1> DEFINE a == Append(Front(h), Last(h))
<1>4. a \in Histories /\ Len(a) = Len(h) /\ \A i \in 1 .. Len(h) : a[i] = h[i]
  <2>1. a \in Histories /\ Len(a) = Len(h) /\ a[Len(h)] = Last(h)
        /\ \A i \in 1 .. Len(h) - 1 : a[i] = Front(h)[i]
    <3> HIDE DEF a
    <3> QED BY <1>1, <1>2, <1>3, AppendProperties DEF Histories, a
  <2> HIDE DEF a
  <2> QED BY <1>1, <1>2, <2>1 DEF Last
<1> HIDE DEF a
<1>5. a = h
  BY <1>4, SeqEqual DEF Histories
<1> QED BY <1>1, <1>2, <1>3, <1>5 DEF a

\* A prefix of a history with a write more is that history or a prefix of
\* the one without.
LEMMA PrefixOfAppend ==
  ASSUME NEW g \in Histories, NEW h \in Histories, NEW w \in Nat,
         IsPrefix(g, Append(h, w))
  PROVE  g = Append(h, w) \/ IsPrefix(g, h)
<1> DEFINE a == Append(h, w)
<1>1. /\ a \in Histories /\ Len(a) = Len(h) + 1
      /\ \A i \in 1 .. Len(h) : a[i] = h[i]
      /\ Len(h) \in Nat /\ Len(g) \in Nat
  BY AppendProperties, HistoryLen DEF Histories
<1> HIDE DEF a
<1>2. Len(g) <= Len(a) /\ \A i \in 1 .. Len(g) : g[i] = a[i]
  BY <1>1, PrefixDef DEF a
<1>3. CASE Len(g) = Len(a)
  BY <1>1, <1>2, <1>3, SeqEqual DEF Histories, a
<1>4. CASE Len(g) <= Len(h)
  BY <1>1, <1>2, <1>4, PrefixDef
<1> QED BY <1>1, <1>2, <1>3, <1>4

\* A prefix stays one when the longer history is continued.
LEMMA PrefixConcat ==
  ASSUME NEW g \in Histories, NEW h \in Histories
  PROVE  IsPrefix(g, g \o h)
<1> DEFINE c == g \o h
<1>1. /\ c \in Histories /\ Len(c) = Len(g) + Len(h)
      /\ \A i \in 1 .. Len(g) : c[i] = g[i]
      /\ Len(g) \in Nat /\ Len(h) \in Nat
  BY HistoryLen DEF Histories
<1> HIDE DEF c
<1>2. IsPrefix(g, c)
  BY <1>1, PrefixDef
<1> QED BY <1>2 DEF c

\* Frames appended behind a snapshot: concatenation with one more write.
LEMMA ConcatAppend ==
  ASSUME NEW g \in Histories, NEW h \in Histories, NEW w \in Nat
  PROVE  g \o Append(h, w) = Append(g \o h, w) /\ g \o <<>> = g /\ <<>> \o g = g
         /\ g \o <<w>> = Append(g, w)
<1>1. g \o Append(h, w) = Append(g \o h, w)
  <2> DEFINE a == g \o Append(h, w)
             b == Append(g \o h, w)
  <2>1. a \in Histories /\ b \in Histories /\ Len(a) = Len(b)
        /\ \A i \in 1 .. Len(a) : a[i] = b[i]
    BY HistoryLen DEF Histories
  <2> HIDE DEF a, b
  <2>2. a = b
    BY <2>1, SeqEqual DEF Histories
  <2> QED BY <2>2 DEF a, b
<1>2. g \o <<>> = g /\ <<>> \o g = g
  BY ConcatEmptySeq DEF Histories
<1>3. g \o <<w>> = Append(g, w)
  BY AppendIsConcat DEF Histories
<1> QED BY <1>1, <1>2, <1>3

\* Frames written in two portions are the frames written at once.
LEMMA ConcatAssoc ==
  ASSUME NEW f \in Histories, NEW g \in Histories, NEW h \in Histories
  PROVE  f \o (g \o h) = (f \o g) \o h
BY DEF Histories

-----------------------------------------------------------------------------
(***************************************************************************)
(* Files: what the operations of the writer leave to be replayed.          *)
(***************************************************************************)

\* write_all on a file without junk: replay sees the frames behind the rest.
LEMMA WriteFramesReplay ==
  ASSUME NEW f \in File, NEW h \in Histories, f.junk = 0
  PROVE  LET g == WriteFrames(f, h)
         IN  /\ Replay(g) = Replay(f) \o h /\ g.junk = 0 /\ g.cmds = f.cmds \o h
             /\ g.snap = f.snap /\ g.snapLen = f.snapLen /\ g.synced = f.synced
             /\ g.cut = <<>> /\ Size(g) = Size(f) + Len(h)
<1> DEFINE g == WriteFrames(f, h)
<1>1. /\ g.junk = 0 /\ g.cmds = f.cmds \o h /\ g.snap = f.snap
      /\ g.snapLen = f.snapLen /\ g.synced = f.synced /\ g.cut = <<>>
  BY DEF WriteFrames, File
<1>2. f.snap \o (f.cmds \o h) = (f.snap \o f.cmds) \o h
  BY FileFields, ConcatAssoc
<1>3. Len(f.cmds \o h) = Len(f.cmds) + Len(h)
  BY FileFields, HistoryLen, ConcatProperties DEF Histories
<1>4. Size(g) = Size(f) + Len(h)
  BY <1>1, <1>3, FileFields, HistoryLen DEF Size
<1> QED BY <1>1, <1>2, <1>4 DEF Replay

\* sync_data changes nothing of what replay sees.
LEMMA SyncReplay ==
  ASSUME NEW f \in File
  PROVE  LET g == Sync(f)
         IN  /\ Replay(g) = Replay(f) /\ g.junk = f.junk /\ g.cmds = f.cmds
             /\ g.snap = f.snap /\ g.snapLen = f.snapLen
             /\ g.synced = Size(f) /\ g.cut = <<>> /\ Size(g) = Size(f)
<1> DEFINE g == Sync(f)
<1>1. /\ g.junk = f.junk /\ g.cmds = f.cmds /\ g.snap = f.snap
      /\ g.snapLen = f.snapLen /\ g.synced = Size(f) /\ g.cut = <<>>
  BY DEF Sync, File
<1> HIDE DEF g
<1>2. Replay(g) = Replay(f) /\ Size(g) = Size(f)
  BY <1>1 DEF Replay, Size
<1> QED BY <1>1, <1>2 DEF g

\* A write_all that fails leaves junk, behind which replay does not look.
LEMMA WritePartialReplay ==
  ASSUME NEW f \in File
  PROVE  LET g == WritePartial(f)
         IN  /\ Replay(g) = Replay(f) /\ g.cmds = f.cmds /\ g.snap = f.snap
             /\ g.snapLen = f.snapLen /\ g.synced = f.synced /\ g.cut = <<>>
<1> DEFINE g == WritePartial(f)
<1>1. /\ g.cmds = f.cmds /\ g.snap = f.snap
      /\ g.snapLen = f.snapLen /\ g.synced = f.synced /\ g.cut = <<>>
  BY DEF WritePartial, File
<1> HIDE DEF g
<1>2. Replay(g) = Replay(f)
  BY <1>1 DEF Replay
<1> QED BY <1>1, <1>2 DEF g

\* A new file holds what it was made of.
LEMMA NewFileReplay ==
  ASSUME NEW h \in Histories, NEW n \in Nat
  PROVE  LET g == NewFile(h, n)
         IN  Replay(g) = h /\ g.junk = 0 /\ g.cut = <<>>
BY ConcatAppend DEF NewFile, Replay

\* Truncating behind the last frame that can be parsed: the junk goes.
LEMMA KeepParsed ==
  ASSUME NEW f \in File, NEW n \in Nat, n = f.snapLen + Len(f.cmds)
  PROVE  LET g == Keep(f, n)
         IN  /\ Replay(g) = Replay(f) /\ g.junk = 0 /\ g.cmds = f.cmds
             /\ g.snap = f.snap /\ g.snapLen = f.snapLen /\ g.cut = f.cut
             /\ g.synced = (IF n < f.synced THEN n ELSE f.synced)
             /\ Size(g) = n
<1> USE FileFields
<1> DEFINE g == Keep(f, n)
<1>1. /\ g.junk = 0 /\ g.cmds = f.cmds /\ g.snap = f.snap
      /\ g.snapLen = f.snapLen /\ g.cut = f.cut
      /\ g.synced = (IF n < f.synced THEN n ELSE f.synced)
  BY DEF Keep, File
<1> HIDE DEF g
<1>2. Replay(g) = Replay(f) /\ Size(g) = n
  BY <1>1 DEF Replay, Size
<1> QED BY <1>1, <1>2 DEF g

\* Truncating the last frame of a file without junk: a rolled back write.
LEMMA KeepFront ==
  ASSUME NEW f \in File, NEW n \in Nat, f.cmds # <<>>,
         n = f.snapLen + Len(f.cmds) - 1
  PROVE  LET g == Keep(f, n)
         IN  /\ Replay(f) = Append(Replay(g), Last(f.cmds)) /\ g.junk = 0
             /\ g.cmds = Front(f.cmds)
             /\ g.snap = f.snap /\ g.snapLen = f.snapLen
             /\ g.synced = (IF n < f.synced THEN n ELSE f.synced)
             /\ Size(g) = n
<1> USE FileFields
<1> DEFINE g == Keep(f, n)
<1>1. /\ Front(f.cmds) \in Histories /\ Last(f.cmds) \in Nat
      /\ f.cmds = Append(Front(f.cmds), Last(f.cmds)) /\ Len(f.cmds) >= 1
  BY FrontLast
<1>2. Len(Front(f.cmds)) = Len(f.cmds) - 1
  <2> DEFINE r == Front(f.cmds)
  <2>1. Len(Append(r, Last(f.cmds))) = Len(r) + 1 /\ Len(r) \in Nat
    <3> HIDE DEF r
    <3> QED BY <1>1, HistoryLen, AppendProperties DEF Histories, r
  <2> QED BY <1>1, <2>1
<1>3. /\ g.junk = 0 /\ g.cmds = Front(f.cmds) /\ g.snap = f.snap
      /\ g.snapLen = f.snapLen
      /\ g.synced = (IF n < f.synced THEN n ELSE f.synced)
  <2>1. n - f.snapLen = Len(f.cmds) - 1 /\ ~(n < f.snapLen) /\ n < f.snapLen + Len(f.cmds)
    BY <1>1
  <2> QED BY <2>1 DEF Keep, File, Front
<1> HIDE DEF g
<1>4. Size(g) = n
  BY <1>1, <1>2, <1>3 DEF Size
<1>5. Replay(f) = Append(Replay(g), Last(f.cmds))
  <2>1. f.snap \o Append(Front(f.cmds), Last(f.cmds))
          = Append(f.snap \o Front(f.cmds), Last(f.cmds))
    <3>1. Front(f.cmds) \in Histories /\ Last(f.cmds) \in Nat /\ f.snap \in Histories
      BY <1>1
    <3> QED BY ONLY <3>1, ConcatAppend
  <2> QED BY <1>1, <1>3, <2>1, Zenon DEF Replay
<1> QED BY <1>3, <1>4, <1>5 DEF g

\* set_len keeps what Keep keeps, and what it cuts off may come back.
LEMMA SetLenReplay ==
  ASSUME NEW f \in File, NEW n \in Nat
  PROVE  LET g == SetLen(f, n)
             k == Keep(f, n)
         IN  /\ Replay(g) = Replay(k) /\ g.junk = k.junk /\ g.cmds = k.cmds
             /\ g.snap = k.snap /\ g.snapLen = k.snapLen /\ g.synced = k.synced
             /\ Size(g) = Size(k)
             /\ g.cut = IF f.snapLen <= n /\ n < f.snapLen + Len(f.cmds)
                        THEN SubSeq(f.cmds, n - f.snapLen + 1, Len(f.cmds)) ELSE <<>>
<1> DEFINE g == SetLen(f, n)
           k == Keep(f, n)
           c == IF f.snapLen <= n /\ n < f.snapLen + Len(f.cmds)
                THEN SubSeq(f.cmds, n - f.snapLen + 1, Len(f.cmds)) ELSE <<>>
<1>1. k \in File
  BY KeepType
<1>2. g = [k EXCEPT !.cut = c]
  BY DEF SetLen
<1> HIDE DEF g, k, c
<1>3. /\ g.junk = k.junk /\ g.cmds = k.cmds /\ g.cut = c
      /\ g.snap = k.snap /\ g.snapLen = k.snapLen /\ g.synced = k.synced
  BY <1>1, <1>2 DEF File
<1>4. Replay(g) = Replay(k) /\ Size(g) = Size(k)
  BY <1>3 DEF Replay, Size
<1> QED BY <1>3, <1>4 DEF g, k, c

-----------------------------------------------------------------------------
(***************************************************************************)
(* The connections, the messages and the history that is logged.           *)
(***************************************************************************)
CoreInv ==
  /\ GateInv /\ ConnInv /\ ChanInv /\ WriterInv /\ LogInv /\ RewriteInv
  /\ StoppedInv

\* The types that the steps below use, in one place.
LEMMA CoreTypes ==
  ASSUME CoreInv
  PROVE  /\ db \in Histories /\ undo \in Histories /\ acked \in Histories
         /\ pc \in [Conns -> {"idle", "gate", "applied", "sent"}]
         /\ issued \in Nat /\ rejected \subseteq Nat
         /\ chan \in Seq(Messages) /\ ack \in [Tasks -> {"none", "ok", "err"}]
         /\ prevLen \in Nat /\ currentSize \in Nat
         /\ rwBuffer \in [on: BOOLEAN, frames: Histories]
         /\ active \in File /\ temp \in File /\ snapshot \in Histories
         /\ Replay(active) \in Histories /\ Replay(temp) \in Histories
         /\ Logged \in Histories
<1>1. TypeOK
  BY DEF CoreInv, GateInv
<1>2. Replay(active) \in Histories /\ Replay(temp) \in Histories
  BY <1>1, ReplayType DEF TypeOK, FileTypeOK
<1> QED BY <1>1, <1>2
    DEF TypeOK, ConnTypeOK, QueueTypeOK, WriterTypeOK, FileTypeOK, TaskTypeOK, Logged

\* At most one write is between its apply and its reply, and then no rewrite
\* is taking its snapshot.
LEMMA LoneWriter ==
  ASSUME CoreInv, NEW c \in Conns, pc[c] \in {"applied", "sent"}
  PROVE  /\ up /\ Holds(c) /\ rpc # "start"
         /\ \A d \in Conns : pc[d] \in {"applied", "sent"} => d = c
<1>1. WritesSerialized /\ Rewriter \notin Conns
  BY ConstantsAssumption DEF CoreInv, GateInv
<1>2. \A p \in Tasks : InCritical(p) => p = c
  BY <1>1 DEF WritesSerialized, Holds, InCritical, Tasks
<1>3. up
  BY DEF CoreInv, GateInv, TypeOK, LifeTypeOK
<1> QED BY <1>1, <1>2, <1>3 DEF InCritical, Tasks, WritesSerialized

\* What is logged while a write is under way ...
LEMMA LoggedUnderWay ==
  ASSUME CoreInv, NEW c \in Conns, pc[c] \in {"applied", "sent"}
  PROVE  /\ db = Append(undo, Last(db)) /\ Last(db) \in Nat /\ db # <<>>
         /\ Undecided <=> (pc[c] = "applied" \/ ack[c] # "ok")
         /\ Logged = IF pc[c] = "applied" \/ ack[c] # "ok" THEN undo ELSE db
<1>1. db = Append(undo, Last(db)) /\ db # <<>>
  BY DEF CoreInv, ConnInv, GateInv
<1>2. Last(db) \in Nat
  BY <1>1, CoreTypes, HistoryLast
<1>3. \A d \in Conns : pc[d] \in {"applied", "sent"} => d = c
  BY LoneWriter
<1>4. Undecided <=> (pc[c] = "applied" \/ ack[c] # "ok")
  BY <1>3 DEF Undecided
<1> QED BY <1>1, <1>2, <1>4 DEF Logged

\* ... and while none is.
LEMMA LoggedQuiet ==
  ASSUME \A c \in Conns : pc[c] \notin {"applied", "sent"}
  PROVE  ~Undecided /\ Logged = db
BY DEF Undecided, Logged

\* The writer handles the write of the one connection that waits for it.
LEMMA HeadIsWrite ==
  ASSUME CoreInv, Handling("write")
  PROVE  /\ Head(chan).from \in Conns /\ pc[Head(chan).from] = "sent"
         /\ ack[Head(chan).from] = "none" /\ Head(chan).w = Last(db)
         /\ up /\ chan # <<>> /\ Head(chan).from # Rewriter
         /\ Logged = undo /\ Undecided
         /\ db = Append(undo, Last(db)) /\ Last(db) \in Nat
<1>1. chan \in Seq(Messages) /\ chan # <<>> /\ up /\ Head(chan).type = "write"
  BY CoreTypes DEF Handling
<1>2. Head(chan) \in Messages /\ Head(chan) = chan[1] /\ 1 \in 1 .. Len(chan)
  BY <1>1
<1>3. Head(chan).from \in Conns
  BY <1>1, <1>2 DEF Messages
<1>4. pc[Head(chan).from] = "sent" /\ ack[Head(chan).from] = "none" /\ Head(chan).w = Last(db)
  BY <1>1, <1>2 DEF CoreInv, ChanInv
<1>5. Head(chan).from # Rewriter
  BY <1>3, ConstantsAssumption
<1>6. Logged = undo /\ Undecided /\ db = Append(undo, Last(db)) /\ Last(db) \in Nat
  BY <1>3, <1>4, LoggedUnderWay
<1> QED BY <1>1, <1>3, <1>4, <1>5, <1>6

\* ... or a message of the rewrite task, which waits for that answer.
LEMMA HeadIsTask ==
  ASSUME CoreInv, chan # <<>>, Head(chan).type # "write"
  PROVE  /\ Head(chan).from = Rewriter /\ ack[Rewriter] = "none"
         /\ rpc = Head(chan).type /\ rpc \in {"start", "finish", "abort"}
<1>1. chan \in Seq(Messages)
  BY CoreTypes
<1>2. Head(chan) \in Messages /\ Head(chan) = chan[1] /\ 1 \in 1 .. Len(chan)
  BY <1>1
<1>3. Head(chan).from = Rewriter /\ Head(chan).type \in {"start", "finish", "abort"}
  BY <1>2 DEF Messages
<1> QED BY <1>2, <1>3 DEF CoreInv, ChanInv

\* The writer's answer goes to the sender of the message and to nobody else.
LEMMA AnswerChan ==
  ASSUME CoreInv, chan # <<>>, NEW r \in {"ok", "err"}, Answer(r),
         UNCHANGED <<pc, db, rpc>>
  PROVE  /\ ChanInv' /\ wpc' = "recv" /\ ack'[Head(chan).from] = r
         /\ \A p \in Tasks : p # Head(chan).from => ack'[p] = ack[p]
<1>1. chan \in Seq(Messages) /\ ack \in [Tasks -> {"none", "ok", "err"}]
  BY CoreTypes
<1>2. /\ chan' = Tail(chan) /\ Len(chan') = Len(chan) - 1 /\ Len(chan) \in Nat
      /\ \A i \in 1 .. Len(chan') : chan'[i] = chan[i + 1] /\ i + 1 \in 1 .. Len(chan)
      /\ Head(chan) = chan[1] /\ 1 \in 1 .. Len(chan) /\ Head(chan) \in Messages
  BY <1>1 DEF Answer
<1>3. Head(chan).from \in Tasks
  BY <1>2 DEF Messages, Tasks
<1>4. /\ ack'[Head(chan).from] = r
      /\ \A p \in Tasks : p # Head(chan).from => ack'[p] = ack[p]
  BY <1>1, <1>3 DEF Answer
<1>5. \A i \in 1 .. Len(chan) : chan[i] \in Messages /\ chan[i].from \in Tasks
  BY <1>1 DEF Messages, Tasks
<1>6. ASSUME NEW i \in 1 .. Len(chan')
      PROVE  /\ ack'[chan'[i].from] = "none"
             /\ chan'[i].type = "write" => pc'[chan'[i].from] = "sent" /\ chan'[i].w = Last(db')
             /\ chan'[i].type # "write" => rpc' = chan'[i].type
  <2>1. chan'[i] = chan[i + 1] /\ i + 1 \in 1 .. Len(chan) /\ i + 1 # 1
    BY <1>2
  <2>2. chan[i + 1].from # Head(chan).from
    BY <1>2, <2>1 DEF CoreInv, ChanInv
  <2> QED BY <1>4, <1>5, <2>1, <2>2 DEF CoreInv, ChanInv
<1>7. ASSUME NEW i \in 1 .. Len(chan'), NEW j \in 1 .. Len(chan'), i # j
      PROVE  chan'[i].from # chan'[j].from
  BY <1>2, <1>7 DEF CoreInv, ChanInv
<1>8. ack'[Rewriter] # "none" => rpc' \in {"start", "finish", "abort"}
  <2>1. CASE Head(chan).type = "write"
    <3>1. Head(chan).from # Rewriter
      BY <1>2, <2>1, ConstantsAssumption DEF Messages
    <3> QED BY <1>4, <3>1 DEF CoreInv, ChanInv, Tasks
  <2>2. CASE Head(chan).type # "write"
    BY <2>2, HeadIsTask
  <2> QED BY <2>1, <2>2
<1>9. wpc' = "recv"
  BY DEF Answer
<1> QED BY <1>4, <1>6, <1>7, <1>8, <1>9 DEF ChanInv

\* The answer to a write decides it: "ok" makes it part of what is logged.
LEMMA AnswerToWrite ==
  ASSUME CoreInv, Handling("write"), NEW r \in {"ok", "err"}, Answer(r),
         UNCHANGED <<connVars, taskVars, up>>
  PROVE  /\ ConnInv' /\ ChanInv' /\ StoppedInv' /\ wpc' = "recv"
         /\ Logged' = (IF r = "ok" THEN db ELSE undo)
         /\ ack'[Rewriter] = ack[Rewriter]
         /\ r = "err" => \E c \in Conns : pc'[c] = "sent" /\ ack'[c] = "err"
<1> DEFINE c == Head(chan).from
<1>1. /\ c \in Conns /\ pc[c] = "sent" /\ up /\ chan # <<>> /\ c # Rewriter
      /\ Logged = undo /\ db = Append(undo, Last(db)) /\ Last(db) \in Nat
  BY HeadIsWrite
<1>2. /\ ChanInv' /\ wpc' = "recv" /\ ack'[c] = r
      /\ \A p \in Tasks : p # c => ack'[p] = ack[p]
  BY <1>1, AnswerChan DEF connVars, taskVars
<1>3. \A d \in Conns : pc[d] \in {"applied", "sent"} => d = c
  BY <1>1, LoneWriter
<1> HIDE DEF c
<1>4. /\ UNCHANGED <<db, undo, pc, acked, rpc, up>>
  BY DEF connVars, taskVars
<1>5. Undecided' <=> r # "ok"
  BY <1>1, <1>2, <1>3, <1>4 DEF Undecided
<1>6. Logged' = (IF r = "ok" THEN db ELSE undo)
  BY <1>4, <1>5 DEF Logged
<1>7. ConnInv'
  <2>1. IsPrefix(acked, undo)
    BY <1>1 DEF CoreInv, ConnInv
  <2>2. IsPrefix(undo, db) /\ IsPrefix(acked, db)
    <3>1. IsPrefix(undo, Append(undo, Last(db)))
      BY <1>1, CoreTypes, AppendParts
    <3>2. IsPrefix(undo, db)
      BY <1>1, <3>1
    <3> QED BY <2>1, <3>2, CoreTypes, PrefixTrans
  <2>3. IsPrefix(acked', Logged')
    BY <1>4, <1>6, <2>1, <2>2
  <2>4. ASSUME NEW d \in Conns
        PROVE  /\ pc'[d] \in {"applied", "sent"} => db' = Append(undo', Last(db'))
               /\ ack'[d] # "none" => pc'[d] = "sent"
    <3>1. d \in Tasks
      BY DEF Tasks
    <3> QED BY <1>1, <1>2, <1>4, <3>1 DEF CoreInv, ConnInv
  <2> QED BY <2>3, <2>4 DEF ConnInv
<1>8. StoppedInv'
  BY <1>1, <1>4 DEF StoppedInv
<1>9. ack'[Rewriter] = ack[Rewriter]
  BY <1>1, <1>2 DEF Tasks
<1> QED BY <1>1, <1>2, <1>4, <1>6, <1>7, <1>8, <1>9

\* The answer to the rewrite task changes nothing of what is logged.
LEMMA AnswerToTask ==
  ASSUME CoreInv, up, chan # <<>>, Head(chan).type # "write",
         NEW r \in {"ok", "err"}, Answer(r),
         UNCHANGED <<connVars, taskVars, up>>
  PROVE  /\ ConnInv' /\ ChanInv' /\ StoppedInv' /\ wpc' = "recv"
         /\ Logged' = Logged /\ ack'[Rewriter] = r
         /\ \A w : LeftBehind(w)' <=> LeftBehind(w)
<1>1. Head(chan).from = Rewriter
  BY HeadIsTask
<1>2. /\ ChanInv' /\ wpc' = "recv" /\ ack'[Rewriter] = r
      /\ \A p \in Tasks : p # Rewriter => ack'[p] = ack[p]
  BY <1>1, AnswerChan DEF connVars, taskVars
<1>3. \A c \in Conns : ack'[c] = ack[c]
  BY <1>2, ConstantsAssumption DEF Tasks
<1>4. /\ UNCHANGED <<db, undo, pc, acked, rejected, rpc, up>>
  BY DEF connVars, taskVars
<1>5. Logged' = Logged
  BY <1>3, <1>4 DEF Logged, Undecided
<1>6. \A w : LeftBehind(w)' <=> LeftBehind(w)
  BY <1>3, <1>4 DEF LeftBehind
<1>7. ConnInv'
  BY <1>3, <1>4, <1>5 DEF ConnInv, CoreInv
<1>8. StoppedInv'
  BY <1>4 DEF StoppedInv
<1> QED BY <1>2, <1>5, <1>6, <1>7, <1>8

\* A step of the writer that answers nobody.
LEMMA NoAnswer ==
  ASSUME CoreInv, up, UNCHANGED <<connVars, chan, ack, rpc, up>>
  PROVE  /\ ConnInv' /\ ChanInv' /\ StoppedInv' /\ Logged' = Logged
         /\ \A w : LeftBehind(w)' <=> LeftBehind(w)
<1>1. /\ UNCHANGED <<db, undo, pc, acked, rejected, rpc, up, chan, ack>>
  BY DEF connVars
<1>2. Logged' = Logged
  BY <1>1 DEF Logged, Undecided
<1>3. ConnInv' /\ ChanInv'
  BY <1>1, <1>2 DEF ConnInv, CoreInv, ChanInv
<1>4. \A w : LeftBehind(w)' <=> LeftBehind(w)
  BY <1>1 DEF LeftBehind
<1> QED BY <1>1, <1>2, <1>3, <1>4 DEF StoppedInv

-----------------------------------------------------------------------------
(***************************************************************************)
(* The steps of the writer task keep CoreInv, one lemma for each.  GateInv *)
(* is kept by every step (NextGate).                                       *)
(***************************************************************************)
LogParts == ConnInv /\ ChanInv /\ WriterInv /\ LogInv /\ RewriteInv /\ StoppedInv

\* A step that leaves the rewrite, its buffer and what is logged alone.
LEMMA RewriteKept ==
  ASSUME CoreInv, UNCHANGED <<rwInProgress, rpc, rwBuffer, snapshot, temp>>,
         ack'[Rewriter] = ack[Rewriter], Logged' = Logged,
         wpc' \in {"rename", "switch"} => wpc \in {"rename", "switch"}
  PROVE  RewriteInv'
BY DEF CoreInv, RewriteInv, Replay

\* A step that leaves the active file and what is logged alone.
LEMMA RestKept ==
  ASSUME CoreInv, up, AtRest, UNCHANGED <<active, currentSize, writeFailed>>,
         Logged' = Logged, \A w : LeftBehind(w) => LeftBehind(w)'
  PROVE  AtRest'
BY DEF AtRest, Replay, Size

\* RejectWrite.
LEMMA RejectWriteLog == ASSUME CoreInv, RejectWrite PROVE LogParts'
<1> USE DEF RejectWrite
<1>1. Handling("write") /\ UNCHANGED <<connVars, taskVars, up>> /\ Answer("err")
  BY DEF lifeVars
<1>2. /\ ConnInv' /\ ChanInv' /\ StoppedInv' /\ wpc' = "recv" /\ Logged' = undo
      /\ ack'[Rewriter] = ack[Rewriter]
      /\ \E c \in Conns : pc'[c] = "sent" /\ ack'[c] = "err"
  BY <1>1, AnswerToWrite
<1>3. up /\ Logged = undo
  BY <1>1, HeadIsWrite
<1>4. UNCHANGED <<rejected, db, rwInProgress, rpc, rwBuffer, snapshot, temp, linked,
                  active, currentSize, writeFailed, up>>
  BY DEF connVars, taskVars, fileVars, lifeVars
<1>5. \A w : LeftBehind(w) => LeftBehind(w)'
  BY <1>2, <1>4 DEF LeftBehind
<1>6. AtRest'
  <2>1. AtRest
    BY <1>3 DEF CoreInv, LogInv
  <2> QED BY <1>2, <1>3, <1>4, <1>5, <2>1, RestKept
<1>7. RewriteInv'
  BY <1>2, <1>3, <1>4, RewriteKept
<1>8. WriterInv'
  BY <1>2, <1>4 DEF WriterInv, CoreInv
<1> QED BY <1>2, <1>6, <1>7, <1>8 DEF LogParts, LogInv

\* WriteOne.
LEMMA WriteOneLog == ASSUME CoreInv, WriteOne PROVE LogParts'
<1> USE DEF WriteOne
<1>1. /\ up /\ Logged = undo /\ db = Append(undo, Last(db)) /\ Last(db) \in Nat
      /\ Head(chan).w = Last(db) /\ chan # <<>> /\ Head(chan).type = "write"
  BY HeadIsWrite DEF Handling
<1>2. UNCHANGED <<connVars, chan, ack, up, rwInProgress, rpc, rwBuffer, snapshot, temp,
                  linked, writeFailed, db>>
  BY DEF connVars, taskVars, lifeVars
<1>3. /\ ConnInv' /\ ChanInv' /\ StoppedInv' /\ Logged' = Logged
  BY <1>1, <1>2, NoAnswer
<1>4. /\ active.junk = 0 /\ Replay(active) = undo
      /\ SizeKept => currentSize = Size(active)
  BY <1>1 DEF CoreInv, LogInv, AtRest
<1>5. /\ Replay(active') = undo \o <<Last(db)>> /\ active'.junk = 0
      /\ active'.cmds = active.cmds \o <<Last(db)>>
      /\ Size(active') = Size(active) + 1
  <2>1. active \in File /\ <<Last(db)>> \in Histories /\ Len(<<Last(db)>>) = 1
    BY <1>1, CoreTypes DEF Histories
  <2> QED BY <1>1, <1>4, <2>1, WriteFramesReplay
<1>6. Replay(active') = db
  <2>1. undo \o <<Last(db)>> = Append(undo, Last(db))
    BY <1>1, CoreTypes, ConcatAppend
  <2> QED BY <1>1, <1>5, <2>1
<1>7. active'.cmds # <<>>
  <2>1. active.cmds \in Histories
    BY CoreTypes, FileFields
  <2>2. Len(active.cmds \o <<Last(db)>>) = Len(active.cmds) + 1
    BY <1>1, <2>1 DEF Histories
  <2> QED BY <1>5, <2>1, <2>2, HistoryLen
<1>8. Size(active) \in Nat
  BY CoreTypes, SizeType
<1>9. LogInv'
  <2>1. WriteIsLast'
    BY <1>2, <1>4, <1>5, <1>6, <1>7, <1>8 DEF WriteIsLast
  <2>2. SizeKept => currentSize' = Size(active')
    BY <1>4, <1>5
  <2> QED BY <2>1, <2>2 DEF LogInv
<1>10. RewriteInv'
  BY <1>2, <1>3, RewriteKept
<1>11. WriterInv'
  BY <1>1, <1>2 DEF WriterInv, CoreInv
<1> QED BY <1>3, <1>9, <1>10, <1>11 DEF LogParts

\* WriteOneFails.
LEMMA WriteOneFailsLog ==
  ASSUME RollbackSound, CoreInv, WriteOneFails PROVE LogParts'
<1> USE DEF WriteOneFails
<1>1. /\ up /\ Logged = undo /\ chan # <<>> /\ Head(chan).type = "write"
  BY HeadIsWrite DEF Handling
<1>2. UNCHANGED <<connVars, chan, ack, up, rwInProgress, rpc, rwBuffer, snapshot, temp,
                  linked, writeFailed, db>>
  BY DEF connVars, taskVars, lifeVars
<1>3. /\ ConnInv' /\ ChanInv' /\ StoppedInv' /\ Logged' = Logged
  BY <1>1, <1>2, NoAnswer
<1>4. SizeKept
  BY DEF RollbackSound
<1>5. active.junk = 0 /\ Replay(active) = Logged /\ currentSize = Size(active)
  BY <1>1, <1>4 DEF CoreInv, LogInv, AtRest
<1>6. /\ Replay(active') = Replay(active) /\ active'.snapLen = active.snapLen
      /\ active'.cmds = active.cmds
  BY CoreTypes, WritePartialReplay
<1>7. currentSize = active.snapLen + Len(active.cmds)
  <2>1. active.junk = 0 /\ active.snapLen \in Nat /\ Len(active.cmds) \in Nat
    BY <1>5, CoreTypes, FileFields
  <2> QED BY <1>5, <2>1 DEF Size
<1>8. LogInv'
  BY <1>3, <1>5, <1>6, <1>7 DEF LogInv
<1>9. RewriteInv'
  BY <1>2, <1>3, RewriteKept
<1>10. WriterInv'
  BY <1>1, <1>2, <1>4 DEF WriterInv, CoreInv
<1> QED BY <1>3, <1>8, <1>9, <1>10 DEF LogParts

\* SyncAfterWrite.
LEMMA SyncAfterWriteLog == ASSUME CoreInv, SyncAfterWrite PROVE LogParts'
<1> USE DEF SyncAfterWrite
<1> DEFINE w == Head(chan).w
<1>1. Handling("write") /\ UNCHANGED <<connVars, taskVars, up>> /\ Answer("ok")
  BY DEF lifeVars
<1>2. /\ ConnInv' /\ ChanInv' /\ StoppedInv' /\ wpc' = "recv" /\ Logged' = db
      /\ ack'[Rewriter] = ack[Rewriter]
  BY <1>1, AnswerToWrite
<1>3. /\ up /\ Logged = undo /\ db = Append(undo, w) /\ w \in Nat
  BY <1>1, HeadIsWrite
<1>4. UNCHANGED <<db, rwInProgress, rpc, snapshot, temp, linked, currentSize,
                  writeFailed, up>>
  BY DEF connVars, taskVars, lifeVars
<1>5. /\ active.junk = 0 /\ Replay(active) = db /\ ~writeFailed
      /\ SizeKept => currentSize = Size(active)
  BY <1>3 DEF CoreInv, LogInv, WriteIsLast, WriterInv
<1>6. Replay(active') = Replay(active) /\ active'.junk = active.junk
      /\ Size(active') = Size(active)
  <2>1. active' \in {active, Sync(active)}
    OBVIOUS
  <2> QED BY <2>1, CoreTypes, SyncReplay
<1>7. LogInv'
  BY <1>2, <1>4, <1>5, <1>6 DEF LogInv, AtRest
<1>8. RewriteInv'
  <2>1. rpc # "start"
    <3>1. Head(chan).from \in Conns /\ pc[Head(chan).from] = "sent"
      BY <1>1, HeadIsWrite
    <3> QED BY <3>1, LoneWriter
  <2>2. wpc \notin {"rename", "switch"} /\ wpc' \notin {"rename", "switch"}
    BY <1>2
  <2>3. rwBuffer'.on => rwBuffer.on /\ rwBuffer'.frames = Append(rwBuffer.frames, w)
    BY CoreTypes DEF PushToRewriteBuffer, Off
  <2>4. ASSUME snapshot \o rwBuffer.frames = Logged
        PROVE  snapshot \o Append(rwBuffer.frames, w) = Logged'
    <3>1. snapshot \in Histories /\ rwBuffer.frames \in Histories
      BY CoreTypes
    <3>2. snapshot \o Append(rwBuffer.frames, w) = Append(snapshot \o rwBuffer.frames, w)
      BY <1>3, <3>1, ConcatAppend
    <3> QED BY <1>2, <1>3, <2>4, <3>2
  <2> QED BY <1>2, <1>4, <2>1, <2>2, <2>3, <2>4 DEF RewriteInv, CoreInv, Replay
<1>9. WriterInv'
  BY <1>2, <1>4 DEF WriterInv, CoreInv
<1> QED BY <1>2, <1>7, <1>8, <1>9 DEF LogParts

\* SyncAfterWriteFails.
LEMMA SyncAfterWriteFailsLog ==
  ASSUME RollbackSound, CoreInv, SyncAfterWriteFails PROVE LogParts'
<1> USE DEF SyncAfterWriteFails
<1>1. /\ up /\ chan # <<>> /\ Head(chan).type = "write"
  BY HeadIsWrite DEF Handling
<1>2. UNCHANGED <<connVars, chan, ack, up, rwInProgress, rpc, rwBuffer, snapshot, temp,
                  linked, writeFailed, db, active, prevLen>>
  BY DEF connVars, taskVars, lifeVars, fileVars
<1>3. /\ ConnInv' /\ ChanInv' /\ StoppedInv' /\ Logged' = Logged
  BY <1>1, <1>2, NoAnswer
<1>4. SizeKept
  BY DEF RollbackSound
<1>5. WriteIsLast'
  BY <1>1, <1>2 DEF CoreInv, LogInv, WriteIsLast, Replay, Size
<1>6. RewriteInv'
  BY <1>2, <1>3, RewriteKept
<1>7. WriterInv'
  BY <1>1, <1>2, <1>4 DEF WriterInv, CoreInv
<1> QED BY <1>3, <1>5, <1>6, <1>7 DEF LogParts, LogInv

\* What rollback_active_file leaves when set_len succeeds: the file without
\* the write that failed, or without the part of it that was written.
LEMMA RolledBack ==
  ASSUME CoreInv, Handling("write"), wpc = "rollback"
  PROVE  Replay(SetLen(active, prevLen)) = Logged /\ SetLen(active, prevLen) \in File
<1>1. /\ up /\ Logged = undo /\ db = Append(undo, Last(db)) /\ Last(db) \in Nat
  BY HeadIsWrite
<1>2. active \in File /\ prevLen \in Nat /\ undo \in Histories
  BY CoreTypes
<1>3. SizeKept
  BY DEF CoreInv, WriterInv
<1>4. Replay(SetLen(active, prevLen)) = Replay(Keep(active, prevLen))
  BY <1>2, SetLenReplay
<1>5. CASE WriteIsLast
  <2>1. /\ active.junk = 0 /\ active.cmds # <<>> /\ Replay(active) = db
        /\ prevLen = active.snapLen + Len(active.cmds) - 1
    <3>1. active.snapLen \in Nat /\ Len(active.cmds) \in Nat
      BY <1>2, FileFields
    <3> QED BY <1>3, <1>5, <3>1 DEF WriteIsLast, Size
  <2>2. Replay(active) = Append(Replay(Keep(active, prevLen)), Last(active.cmds))
    BY <1>2, <2>1, KeepFront
  <2>3. /\ Replay(Keep(active, prevLen)) \in Histories /\ Last(active.cmds) \in Nat
    BY <1>2, <2>1, KeepType, ReplayType, FileFields, HistoryLast
  <2>4. Replay(Keep(active, prevLen)) = undo
    <3>1. Front(Append(undo, Last(db))) = undo
      BY <1>1, <1>2, AppendParts
    <3>2. Front(Append(Replay(Keep(active, prevLen)), Last(active.cmds)))
            = Replay(Keep(active, prevLen))
      BY <2>3, AppendParts
    <3> QED BY <1>1, <2>1, <2>2, <3>1, <3>2
  <2> QED BY <1>1, <1>2, <1>4, <2>4, SetLenType
<1>6. CASE Replay(active) = Logged /\ prevLen = active.snapLen + Len(active.cmds)
  BY <1>2, <1>4, <1>6, KeepParsed, SetLenType
<1> QED BY <1>1, <1>5, <1>6 DEF CoreInv, LogInv

\* RollbackActiveFile.
LEMMA RollbackLog == ASSUME CoreInv, RollbackActiveFile PROVE LogParts'
<1> USE DEF RollbackActiveFile
<1>1. Handling("write") /\ UNCHANGED <<connVars, taskVars, up>> /\ Answer("err")
  BY DEF lifeVars
<1>2. /\ ConnInv' /\ ChanInv' /\ StoppedInv' /\ wpc' = "recv" /\ Logged' = undo
      /\ ack'[Rewriter] = ack[Rewriter]
      /\ \E c \in Conns : pc'[c] = "sent" /\ ack'[c] = "err"
  BY <1>1, AnswerToWrite
<1>3. /\ up /\ Logged = undo /\ db = Append(undo, Last(db)) /\ Last(db) \in Nat
  BY <1>1, HeadIsWrite
<1>4. UNCHANGED <<rejected, db, rwInProgress, rpc, rwBuffer, snapshot, temp, linked, up>>
  BY DEF connVars, taskVars, lifeVars
<1>5. AtRest'
  <2>1. CASE active' \in {SetLen(active, prevLen), Sync(SetLen(active, prevLen))}
    <3>1. Replay(active') = Logged
      BY <1>1, <2>1, RolledBack, SyncReplay
    <3> QED BY <1>2, <1>3, <3>1 DEF AtRest
  <2>2. CASE "setlen" \in Faults /\ UNCHANGED active
    <3>1. CASE WriteIsLast
      <4>1. Replay(active') = db
        BY <2>2, <3>1 DEF WriteIsLast
      <4>2. LeftBehind(Last(db))'
        BY <1>2, <1>4, <2>2 DEF LeftBehind
      <4>3. Last(Replay(active')) = Last(db) /\ Replay(active') = Append(Logged', Last(Replay(active')))
        BY <1>2, <1>3, <4>1
      <4>4. LeftBehind(Last(Replay(active)))'
        BY <1>4, <4>2, <4>3 DEF LeftBehind
      <4> QED BY <4>3, <4>4 DEF AtRest
    <3>2. CASE Replay(active) = Logged
      BY <1>2, <1>3, <2>2, <3>2 DEF AtRest
    <3> QED BY <1>3, <3>1, <3>2 DEF CoreInv, LogInv
  <2> QED BY <2>1, <2>2
<1>6. RewriteInv'
  BY <1>2, <1>3, <1>4, RewriteKept
<1>7. WriterInv'
  BY <1>2, <1>4 DEF WriterInv, CoreInv
<1> QED BY <1>2, <1>5, <1>6, <1>7 DEF LogParts, LogInv

\* HandleStartRewrite.
LEMMA StartLog == ASSUME CoreInv, HandleStartRewrite PROVE LogParts'
<1> USE DEF HandleStartRewrite
<1>1. /\ up /\ chan # <<>> /\ Head(chan).type = "start"
      /\ UNCHANGED <<connVars, taskVars, up>>
  BY DEF Handling, lifeVars
<1>2. rpc = "start" /\ ack[Rewriter] = "none" /\ ~rwBuffer.on
  <2>1. rpc = "start" /\ ack[Rewriter] = "none"
    BY <1>1, HeadIsTask
  <2> QED BY <2>1 DEF CoreInv, RewriteInv
<1>3. /\ ConnInv' /\ ChanInv' /\ StoppedInv' /\ wpc' = "recv" /\ Logged' = Logged
      /\ ack'[Rewriter] = "ok" /\ \A w : LeftBehind(w)' <=> LeftBehind(w)
  BY <1>1, <1>2, AnswerToTask
<1>4. UNCHANGED <<rwInProgress, rpc, snapshot, temp, linked, active, currentSize,
                  writeFailed, up>>
  BY DEF taskVars, fileVars, lifeVars
<1>5. AtRest'
  BY <1>1, <1>3, <1>4, RestKept DEF CoreInv, LogInv
<1>6. RewriteInv'
  BY <1>2, <1>3, <1>4 DEF RewriteInv, CoreInv
<1>7. WriterInv'
  BY <1>3, <1>4 DEF WriterInv, CoreInv
<1> QED BY <1>3, <1>5, <1>6, <1>7 DEF LogParts, LogInv

\* HandleAbortRewrite.
LEMMA AbortLog == ASSUME CoreInv, HandleAbortRewrite PROVE LogParts'
<1> USE DEF HandleAbortRewrite
<1>1. /\ up /\ chan # <<>> /\ Head(chan).type = "abort"
      /\ UNCHANGED <<connVars, taskVars, up>>
  BY DEF Handling, lifeVars
<1>2. rpc = "abort"
  BY <1>1, HeadIsTask
<1>3. /\ ConnInv' /\ ChanInv' /\ StoppedInv' /\ wpc' = "recv" /\ Logged' = Logged
      /\ ack'[Rewriter] = "ok" /\ \A w : LeftBehind(w)' <=> LeftBehind(w)
  BY <1>1, AnswerToTask
<1>4. UNCHANGED <<rwInProgress, rpc, snapshot, temp, linked, active, currentSize,
                  writeFailed, up>>
  BY DEF taskVars, fileVars, lifeVars
<1>5. AtRest'
  BY <1>1, <1>3, <1>4, RestKept DEF CoreInv, LogInv
<1>6. RewriteInv'
  BY <1>2, <1>3, <1>4 DEF RewriteInv, CoreInv, Off
<1>7. WriterInv'
  BY <1>3, <1>4 DEF WriterInv, CoreInv
<1> QED BY <1>3, <1>5, <1>6, <1>7 DEF LogParts, LogInv

\* The steps that end a rewrite with an error and leave the active file be.
LEMMA FinishErrLog ==
  ASSUME CoreInv, FinishNotInProgress \/ FinishFlushFails \/ FinishRenameFails
  PROVE  LogParts'
<1> USE DEF FinishNotInProgress, FinishFlushFails, FinishRenameFails
<1>1. /\ up /\ chan # <<>> /\ Head(chan).type = "finish"
      /\ UNCHANGED <<connVars, taskVars, up>> /\ Answer("err")
  BY DEF Handling, lifeVars
<1>2. rpc = "finish"
  BY <1>1, HeadIsTask
<1>3. /\ ConnInv' /\ ChanInv' /\ StoppedInv' /\ wpc' = "recv" /\ Logged' = Logged
      /\ ack'[Rewriter] = "err" /\ \A w : LeftBehind(w)' <=> LeftBehind(w)
  BY <1>1, AnswerToTask
<1>4. UNCHANGED <<rwInProgress, rpc, snapshot, linked, active, currentSize,
                  writeFailed, up>>
  BY DEF taskVars, fileVars, lifeVars
<1>5. wpc \in {"recv", "rename"} /\ ~rwBuffer'.on
  BY DEF CoreInv, RewriteInv, Off
<1>6. AtRest'
  BY <1>1, <1>3, <1>4, <1>5, RestKept DEF CoreInv, LogInv
<1>7. RewriteInv'
  BY <1>2, <1>3, <1>4, <1>5 DEF RewriteInv, CoreInv
<1>8. WriterInv'
  BY <1>3, <1>4, <1>5 DEF WriterInv, CoreInv
<1> QED BY <1>3, <1>6, <1>7, <1>8 DEF LogParts, LogInv

\* FinishFlush: the temporary file now holds all that is logged.
LEMMA FinishFlushLog == ASSUME CoreInv, FinishFlush PROVE LogParts'
<1> USE DEF FinishFlush
<1>1. /\ up /\ chan # <<>> /\ Head(chan).type = "finish"
  BY DEF Handling
<1>2. rpc = "finish" /\ ack[Rewriter] = "none"
  BY <1>1, HeadIsTask
<1>3. UNCHANGED <<connVars, chan, ack, up, rwInProgress, rpc, snapshot, linked, active,
                  currentSize, writeFailed>>
  BY DEF taskVars, lifeVars
<1>4. /\ ConnInv' /\ ChanInv' /\ StoppedInv' /\ Logged' = Logged
      /\ \A w : LeftBehind(w)' <=> LeftBehind(w)
  BY <1>1, <1>3, NoAnswer
<1>5. temp.junk = 0 /\ Replay(temp) = snapshot /\ snapshot \o rwBuffer.frames = Logged
  BY <1>2 DEF CoreInv, RewriteInv
<1>6. temp'.junk = 0 /\ Replay(temp') = Logged
  <2>1. temp \in File /\ rwBuffer.frames \in Histories
    BY CoreTypes
  <2> DEFINE t == WriteFrames(temp, rwBuffer.frames)
  <2>2. t \in File /\ t.junk = 0 /\ Replay(t) = Replay(temp) \o rwBuffer.frames
    BY <1>5, <2>1, WriteFramesType, WriteFramesReplay
  <2> HIDE DEF t
  <2>3. Sync(t).junk = 0 /\ Replay(Sync(t)) = Replay(t)
    BY <2>2, SyncReplay
  <2> QED BY <1>5, <2>2, <2>3 DEF t
<1>7. AtRest'
  BY <1>1, <1>3, <1>4, RestKept DEF CoreInv, LogInv
<1>8. RewriteInv'
  BY <1>2, <1>3, <1>4, <1>6 DEF RewriteInv, CoreInv, Off
<1>9. WriterInv'
  BY <1>1, <1>3 DEF WriterInv, CoreInv
<1> QED BY <1>4, <1>7, <1>8, <1>9 DEF LogParts, LogInv

\* FinishRename.
LEMMA FinishRenameLog == ASSUME CoreInv, FinishRename PROVE LogParts'
<1> USE DEF FinishRename
<1>1. /\ up /\ chan # <<>> /\ Head(chan).type = "finish"
  BY DEF Handling
<1>2. UNCHANGED <<connVars, chan, ack, up, rwInProgress, rpc, snapshot, active,
                  currentSize, writeFailed, temp, rwBuffer>>
  BY DEF taskVars, lifeVars
<1>3. /\ ConnInv' /\ ChanInv' /\ StoppedInv' /\ Logged' = Logged
      /\ \A w : LeftBehind(w)' <=> LeftBehind(w)
  BY <1>1, <1>2, NoAnswer
<1>4. AtRest'
  BY <1>1, <1>2, <1>3, RestKept DEF CoreInv, LogInv
<1>5. RewriteInv'
  BY <1>2, <1>3, RewriteKept
<1>6. WriterInv'
  BY <1>1, <1>2 DEF WriterInv, CoreInv
<1> QED BY <1>3, <1>4, <1>5, <1>6 DEF LogParts, LogInv

\* FinishSwitch: the writer goes on with a file that holds what is logged.
LEMMA FinishSwitchLog == ASSUME CoreInv, FinishSwitch PROVE LogParts'
<1> USE DEF FinishSwitch
<1>1. /\ up /\ chan # <<>> /\ Head(chan).type = "finish"
      /\ UNCHANGED <<connVars, taskVars, up>>
  BY DEF Handling, lifeVars
<1>2. rpc = "finish"
  BY <1>1, HeadIsTask
<1>3. PICK r \in {"ok", "err"} : Answer(r)
  OBVIOUS
<1>4. /\ ConnInv' /\ ChanInv' /\ StoppedInv' /\ wpc' = "recv" /\ Logged' = Logged
      /\ ack'[Rewriter] = r
  BY <1>1, <1>3, AnswerToTask
<1>5. UNCHANGED <<rwInProgress, rpc, snapshot, rwBuffer, writeFailed, up>>
  BY DEF taskVars, lifeVars
<1>6. temp.junk = 0 /\ Replay(temp) = Logged /\ ~rwBuffer.on
  BY DEF CoreInv, RewriteInv
<1>7. SizeKept => currentSize' = Size(active')
  BY DEF SizeKept
<1>8. AtRest'
  BY <1>4, <1>5, <1>6, <1>7 DEF AtRest
<1>9. RewriteInv'
  BY <1>2, <1>4, <1>5, <1>6 DEF RewriteInv, CoreInv
<1>10. WriterInv'
  BY <1>4 DEF WriterInv
<1> QED BY <1>4, <1>8, <1>9, <1>10 DEF LogParts, LogInv

\* EverySecSync and EverySecSyncFails.
LEMMA TimerLog == ASSUME CoreInv, TimerStep PROVE LogParts'
<1> USE DEF TimerStep, EverySecSync, EverySecSyncFails
<1>1. /\ up /\ wpc = "recv"
      /\ UNCHANGED <<connVars, chan, ack, up, rwInProgress, rpc, snapshot, wpc,
                     currentSize, temp, rwBuffer, linked>>
  BY DEF taskVars, lifeVars, writerVars, fileVars
<1>2. /\ ConnInv' /\ ChanInv' /\ StoppedInv' /\ Logged' = Logged
      /\ \A w : LeftBehind(w)' <=> LeftBehind(w)
  BY <1>1, NoAnswer
<1>3. AtRest
  BY <1>1 DEF CoreInv, LogInv
<1>4. AtRest'
  <2>1. CASE EverySecSync
    <3>1. writeFailed' = writeFailed /\ active' = Sync(active)
      BY <2>1 DEF writerVars
    <3>2. Replay(active') = Replay(active) /\ active'.junk = active.junk
          /\ Size(active') = Size(active)
      BY <3>1, CoreTypes, SyncReplay
    <3> QED BY <1>1, <1>2, <1>3, <3>1, <3>2 DEF AtRest
  <2>2. CASE EverySecSyncFails
    <3>1. writeFailed' /\ UNCHANGED active
      BY <2>2 DEF fileVars
    <3>2. Replay(active') = Replay(active)
      BY <3>1
    <3> QED BY <1>2, <1>3, <3>1, <3>2 DEF AtRest
  <2> QED BY <2>1, <2>2
<1>5. RewriteInv'
  BY <1>1, <1>2, RewriteKept
<1>6. WriterInv'
  BY <1>1 DEF WriterInv, CoreInv
<1> QED BY <1>1, <1>2, <1>4, <1>5, <1>6 DEF LogParts, LogInv

-----------------------------------------------------------------------------
(***************************************************************************)
(* The steps of the connections keep CoreInv.                              *)
(***************************************************************************)

\* The steps outside the critical section: only the gate and what is read change.
LEMMA OutsideLog ==
  ASSUME CoreInv, up,
         UNCHANGED <<db, undo, acked, rejected, chan, ack, writerVars, fileVars,
                     taskVars, lifeVars>>,
         \A d \in Conns : \/ pc'[d] = pc[d]
                          \/ pc[d] \in {"idle", "gate"} /\ pc'[d] \in {"idle", "gate"}
  PROVE  LogParts'
<1>1. UNCHANGED <<up, wpc, prevLen, writeFailed, currentSize, rwBuffer, active, temp,
                  linked, rpc, rwInProgress, snapshot>>
  BY DEF writerVars, fileVars, taskVars, lifeVars
<1>2. \A d \in Conns : \A s \in {"applied", "sent"} : pc'[d] = s <=> pc[d] = s
  OBVIOUS
<1>3. Logged' = Logged
  BY <1>2 DEF Logged, Undecided
<1>4. \A w : LeftBehind(w)' <=> LeftBehind(w)
  BY <1>2 DEF LeftBehind
<1>5. ConnInv'
  BY <1>1, <1>2, <1>3 DEF CoreInv, ConnInv
<1>6. ChanInv'
  <2>1. ASSUME NEW i \in 1 .. Len(chan), chan[i].type = "write"
        PROVE  chan[i].from \in Conns
    BY <2>1, CoreTypes DEF Messages
  <2> QED BY <1>1, <1>2, <2>1 DEF CoreInv, ChanInv
<1>7. WriterInv'
  BY <1>1 DEF CoreInv, WriterInv
<1>8. LogInv'
  <2>1. AtRest => AtRest'
    BY <1>1, <1>3, <1>4, RestKept
  <2> QED BY <1>1, <1>3, <2>1 DEF CoreInv, LogInv, WriteIsLast, Replay, Size
<1>9. RewriteInv'
  BY <1>1, <1>3, RewriteKept
<1> QED BY <1>1, <1>5, <1>6, <1>7, <1>8, <1>9 DEF LogParts, StoppedInv

\* Who holds the gate is the only one that may be in a critical section.
LEMMA HolderAlone ==
  ASSUME CoreInv, NEW c \in Conns, Holds(c), pc[c] \notin {"applied", "sent"}
  PROVE  \A d \in Conns : pc[d] \notin {"applied", "sent"}
BY ConstantsAssumption DEF CoreInv, GateInv, WritesSerialized, InCritical, Holds, Tasks

\* While no connection waits for an answer the writer has no write to handle.
LEMMA NoPendingWrite ==
  ASSUME CoreInv, \A d \in Conns : pc[d] = "sent" => ack[d] # "none"
  PROVE  /\ \A i \in 1 .. Len(chan) : chan[i].type # "write"
         /\ wpc \notin {"sync", "rollback"} /\ (up => AtRest)
<1>1. ASSUME NEW i \in 1 .. Len(chan), chan[i].type = "write" PROVE FALSE
  <2>1. chan[i].from \in Conns
    BY <1>1, CoreTypes DEF Messages
  <2> QED BY <1>1, <2>1 DEF CoreInv, ChanInv
<1>2. wpc \notin {"sync", "rollback"}
  <2>1. chan # <<>> => Head(chan) = chan[1] /\ 1 \in 1 .. Len(chan)
    BY CoreTypes
  <2> QED BY <1>1, <2>1 DEF CoreInv, WriterInv
<1> QED BY <1>1, <1>2 DEF CoreInv, LogInv

\* ApplyCommand.
LEMMA ApplyLog == ASSUME CoreInv, NEW c \in Conns, ApplyCommand(c) PROVE LogParts'
<1> USE DEF ApplyCommand
<1>1. \A d \in Conns : pc[d] \notin {"applied", "sent"}
  BY HolderAlone
<1>2. Logged = db
  BY <1>1, LoggedQuiet
<1>3. UNCHANGED <<up, wpc, prevLen, writeFailed, currentSize, rwBuffer, active, temp,
                  linked, rpc, rwInProgress, snapshot, chan, ack, acked, rejected>>
  BY DEF writerVars, fileVars, taskVars, lifeVars
<1>4. /\ \A i \in 1 .. Len(chan) : chan[i].type # "write"
      /\ wpc \notin {"sync", "rollback"} /\ AtRest
  BY <1>1, NoPendingWrite
<1>5. pc'[c] = "applied" /\ \A d \in Conns : d # c => pc'[d] = pc[d]
  BY CoreTypes
<1>6. Logged' = db
  BY <1>5 DEF Logged, Undecided
<1>7. ConnInv'
  <2>1. db' = Append(undo', Last(db'))
    <3>1. Last(Append(db, issued + 1)) = issued + 1
      BY CoreTypes, AppendParts
    <3> QED BY <3>1
  <2> QED BY <1>1, <1>2, <1>3, <1>5, <1>6, <2>1 DEF CoreInv, ConnInv
<1>8. ChanInv'
  BY <1>3, <1>4 DEF CoreInv, ChanInv
<1>9. AtRest'
  <2>1. \A w : LeftBehind(w) => LeftBehind(w)'
    BY <1>1, <1>3 DEF LeftBehind
  <2> QED BY <1>2, <1>3, <1>4, <1>6, <2>1, RestKept
<1>10. RewriteInv'
  BY <1>2, <1>3, <1>6, RewriteKept
<1>11. WriterInv'
  BY <1>3 DEF CoreInv, WriterInv
<1> QED BY <1>3, <1>4, <1>7, <1>8, <1>9, <1>10, <1>11 DEF LogParts, LogInv, StoppedInv

\* A message is put behind the others in the channel.
LEMMA SendChan ==
  ASSUME CoreInv, NEW m \in Messages, Send(m)
  PROVE  /\ Len(chan') = Len(chan) + 1 /\ Len(chan) \in Nat /\ chan'[Len(chan) + 1] = m
         /\ \A i \in 1 .. Len(chan) : chan'[i] = chan[i]
         /\ chan # <<>> => chan' # <<>> /\ Head(chan') = Head(chan)
<1>1. chan \in Seq(Messages)
  BY CoreTypes
<1> QED BY <1>1, AppendProperties DEF Send

\* SendToWriter.
LEMMA SendLog == ASSUME CoreInv, NEW c \in Conns, SendToWriter(c) PROVE LogParts'
<1> USE DEF SendToWriter
<1>1. /\ up /\ \A d \in Conns : pc[d] \in {"applied", "sent"} => d = c
      /\ db = Append(undo, Last(db)) /\ Last(db) \in Nat /\ Logged = undo
  BY LoneWriter, LoggedUnderWay
<1>2. UNCHANGED <<up, wpc, prevLen, writeFailed, currentSize, rwBuffer, active, temp, db,
                  undo, linked, rpc, rwInProgress, snapshot, ack, acked, rejected>>
  BY DEF writerVars, fileVars, taskVars, lifeVars
<1>3. /\ \A i \in 1 .. Len(chan) : chan[i].type # "write"
      /\ wpc \notin {"sync", "rollback"} /\ AtRest
  BY <1>1, NoPendingWrite
<1>4. ack[c] = "none"
  BY DEF CoreInv, ConnInv
<1>5. pc'[c] = "sent" /\ \A d \in Conns : d # c => pc'[d] = pc[d]
  BY CoreTypes
<1>6. Logged' = undo
  BY <1>2, <1>4, <1>5 DEF Logged, Undecided
<1>7. ConnInv'
  BY <1>1, <1>2, <1>5, <1>6 DEF CoreInv, ConnInv
<1> DEFINE m == [type |-> "write", from |-> c, w |-> Last(db)]
<1>8. m \in Messages /\ m.type = "write" /\ m.from = c /\ m.w = Last(db)
  BY <1>1 DEF Messages
<1>9. /\ Len(chan') = Len(chan) + 1 /\ Len(chan) \in Nat /\ chan'[Len(chan) + 1] = m
      /\ \A i \in 1 .. Len(chan) : chan'[i] = chan[i]
      /\ chan # <<>> => chan' # <<>> /\ Head(chan') = Head(chan)
  BY <1>8, SendChan
<1> HIDE DEF m
<1>10. ChanInv'
  <2>1. \A i \in 1 .. Len(chan) : chan[i].from = Rewriter
    BY <1>3, CoreTypes DEF Messages
  <2>2. c # Rewriter
    BY ConstantsAssumption
  <2> QED BY <1>2, <1>3, <1>4, <1>5, <1>8, <1>9, <2>1, <2>2 DEF CoreInv, ChanInv
<1>11. AtRest'
  <2>1. \A w : LeftBehind(w) => LeftBehind(w)'
    BY <1>1, <1>2 DEF LeftBehind
  <2> QED BY <1>1, <1>2, <1>3, <1>6, <2>1, RestKept
<1>12. RewriteInv'
  BY <1>1, <1>2, <1>6, RewriteKept
<1>13. WriterInv'
  BY <1>2, <1>3, <1>9 DEF CoreInv, WriterInv
<1> QED BY <1>2, <1>3, <1>7, <1>10, <1>11, <1>12, <1>13 DEF LogParts, LogInv, StoppedInv

\* WriterKnownFailed and ReplyFailed: the write is taken back.
LEMMA RejectLog ==
  ASSUME CoreInv, NEW c \in Conns, WriterKnownFailed(c) \/ ReplyFailed(c)
  PROVE  LogParts'
<1> USE DEF WriterKnownFailed, ReplyFailed, Reject
<1>1. /\ up /\ \A d \in Conns : pc[d] \in {"applied", "sent"} => d = c
      /\ db = Append(undo, Last(db)) /\ Last(db) \in Nat /\ Logged = undo
  BY LoneWriter, LoggedUnderWay
<1>2. UNCHANGED <<up, wpc, prevLen, writeFailed, currentSize, rwBuffer, active, temp,
                  undo, linked, rpc, rwInProgress, snapshot, acked, chan>>
  BY DEF writerVars, fileVars, taskVars, lifeVars
<1>3. /\ \A i \in 1 .. Len(chan) : chan[i].type # "write"
      /\ wpc \notin {"sync", "rollback"} /\ AtRest
  BY <1>1, NoPendingWrite
<1>4. /\ \A d \in Conns : pc'[d] \notin {"applied", "sent"} /\ ack'[d] = "none"
      /\ ack'[Rewriter] = ack[Rewriter]
  <2>1. ack'[c] = "none"
    BY CoreTypes DEF Tasks, CoreInv, ConnInv
  <2>2. pc'[c] = "idle" /\ \A d \in Conns : d # c => pc'[d] = pc[d]
    BY CoreTypes
  <2>3. \A d \in Tasks : d # c => ack'[d] = ack[d]
    BY CoreTypes
  <2>4. ASSUME NEW d \in Conns, d # c PROVE ack'[d] = "none"
    BY <1>1, <2>3, <2>4 DEF CoreInv, ConnInv, Tasks
  <2> QED BY <1>1, <2>1, <2>2, <2>3, <2>4, ConstantsAssumption DEF Tasks
<1>5. Logged' = undo
  BY <1>4 DEF Logged, Undecided
<1>6. ConnInv'
  BY <1>1, <1>2, <1>4, <1>5 DEF CoreInv, ConnInv
<1>7. ChanInv'
  <2>1. \A i \in 1 .. Len(chan) : chan[i].from = Rewriter
    BY <1>3, CoreTypes DEF Messages
  <2> QED BY <1>2, <1>3, <1>4, <2>1 DEF CoreInv, ChanInv
<1>8. AtRest'
  <2>1. \A w : LeftBehind(w) => LeftBehind(w)'
    BY DEF LeftBehind
  <2> QED BY <1>1, <1>2, <1>3, <1>5, <2>1, RestKept
<1>9. RewriteInv'
  BY <1>1, <1>2, <1>4, <1>5, RewriteKept
<1>10. WriterInv'
  BY <1>2 DEF CoreInv, WriterInv
<1> QED BY <1>2, <1>3, <1>6, <1>7, <1>8, <1>9, <1>10 DEF LogParts, LogInv, StoppedInv

\* ReplyOk.
LEMMA ReplyOkLog == ASSUME CoreInv, NEW c \in Conns, ReplyOk(c) PROVE LogParts'
<1> USE DEF ReplyOk
<1>1. /\ up /\ \A d \in Conns : pc[d] \in {"applied", "sent"} => d = c
      /\ Logged = db
  BY LoneWriter, LoggedUnderWay
<1>2. UNCHANGED <<up, wpc, prevLen, writeFailed, currentSize, rwBuffer, active, temp, db,
                  undo, linked, rpc, rwInProgress, snapshot, rejected, chan>>
  BY DEF writerVars, fileVars, taskVars, lifeVars
<1>3. /\ \A i \in 1 .. Len(chan) : chan[i].type # "write"
      /\ wpc \notin {"sync", "rollback"} /\ AtRest
  BY <1>1, NoPendingWrite
<1>4. /\ \A d \in Conns : pc'[d] \notin {"applied", "sent"} /\ ack'[d] = "none"
      /\ ack'[Rewriter] = ack[Rewriter]
  <2>1. ack'[c] = "none"
    BY CoreTypes DEF Tasks
  <2>2. pc'[c] = "idle" /\ \A d \in Conns : d # c => pc'[d] = pc[d]
    BY CoreTypes
  <2>3. \A d \in Tasks : d # c => ack'[d] = ack[d]
    BY CoreTypes
  <2>4. ASSUME NEW d \in Conns, d # c PROVE ack'[d] = "none"
    BY <1>1, <2>3, <2>4 DEF CoreInv, ConnInv, Tasks
  <2> QED BY <1>1, <2>1, <2>2, <2>3, <2>4, ConstantsAssumption DEF Tasks
<1>5. Logged' = db
  BY <1>4 DEF Logged, Undecided
<1>6. ConnInv'
  BY <1>2, <1>4, <1>5, CoreTypes, PrefixRefl DEF CoreInv, ConnInv
<1>7. ChanInv'
  <2>1. \A i \in 1 .. Len(chan) : chan[i].from = Rewriter
    BY <1>3, CoreTypes DEF Messages
  <2> QED BY <1>2, <1>3, <1>4, <2>1 DEF CoreInv, ChanInv
<1>8. AtRest'
  <2>1. \A w : LeftBehind(w) => LeftBehind(w)'
    BY <1>1, <1>2 DEF LeftBehind
  <2> QED BY <1>1, <1>2, <1>3, <1>5, <2>1, RestKept
<1>9. RewriteInv'
  BY <1>1, <1>2, <1>4, <1>5, RewriteKept
<1>10. WriterInv'
  BY <1>2 DEF CoreInv, WriterInv
<1> QED BY <1>2, <1>3, <1>6, <1>7, <1>8, <1>9, <1>10 DEF LogParts, LogInv, StoppedInv

-----------------------------------------------------------------------------
(***************************************************************************)
(* The steps of the rewrite task, the crashes and the restart.             *)
(***************************************************************************)

\* The rewrite task changes nothing of what is logged.
LEMMA TaskLog ==
  ASSUME CoreInv, up, UNCHANGED <<connVars, writerVars, active, linked, up>>,
         \A c \in Conns : ack'[c] = ack[c]
  PROVE  ConnInv' /\ LogInv' /\ StoppedInv' /\ Logged' = Logged
<1>1. UNCHANGED <<db, undo, pc, acked, rejected, wpc, prevLen, writeFailed, currentSize>>
  BY DEF connVars, writerVars
<1>2. Logged' = Logged
  BY <1>1 DEF Logged, Undecided
<1>3. ConnInv'
  BY <1>1, <1>2 DEF CoreInv, ConnInv
<1>4. LogInv'
  <2>1. \A w : LeftBehind(w)' <=> LeftBehind(w)
    BY <1>1 DEF LeftBehind
  <2>2. AtRest => AtRest'
    BY <1>1, <1>2, <2>1, RestKept
  <2> QED BY <1>1, <1>2, <2>2 DEF CoreInv, LogInv, WriteIsLast, Replay, Size
<1> QED BY <1>2, <1>3, <1>4 DEF StoppedInv

\* A rewrite task that waits for no answer has no message under way.
LEMMA NoPendingTask ==
  ASSUME CoreInv,
         ack[Rewriter] # "none" \/ rpc \notin {"start", "finish", "abort"}
  PROVE  /\ \A i \in 1 .. Len(chan) : chan[i].type = "write" /\ chan[i].from # Rewriter
         /\ wpc \notin {"rename", "switch"}
<1>1. ASSUME NEW i \in 1 .. Len(chan) PROVE chan[i].type = "write" /\ chan[i].from # Rewriter
  <2>1. chan[i] \in Messages
    BY CoreTypes
  <2>2. /\ chan[i].type # "write" => /\ chan[i].type \in {"start", "finish", "abort"}
                                     /\ chan[i].from = Rewriter
        /\ chan[i].type = "write" => chan[i].from # Rewriter
    BY <2>1, ConstantsAssumption DEF Messages
  <2> QED BY <2>2 DEF CoreInv, ChanInv
<1>2. chan # <<>> => Head(chan) = chan[1] /\ 1 \in 1 .. Len(chan)
  BY CoreTypes
<1> QED BY <1>1, <1>2 DEF CoreInv, WriterInv

\* ScheduleRewrite and PauseWrites.
LEMMA ScheduleLog ==
  ASSUME CoreInv, ScheduleRewrite \/ PauseWrites PROVE LogParts'
<1> USE DEF ScheduleRewrite, PauseWrites
<1>1. UNCHANGED <<connVars, writerVars, active, linked, up, ack, chan, temp, pc, db,
                  wpc, writeFailed, rwBuffer, snapshot>>
  BY DEF connVars, writerVars, fileVars, lifeVars
<1>2. up /\ rpc \in {"idle", "spawned"} /\ rpc' \in {"spawned", "gate"} /\ rwInProgress'
  <2>1. CASE ScheduleRewrite
    <3>1. up /\ ~rwInProgress /\ rwInProgress' /\ rpc' = "spawned"
      BY <2>1 DEF ScheduleRewrite
    <3>2. rpc = "idle"
      BY <3>1 DEF CoreInv, RewriteInv
    <3> QED BY <3>1, <3>2
  <2>2. CASE PauseWrites
    <3>1. up /\ rwInProgress' = rwInProgress /\ rpc' = "gate" /\ rpc = "spawned"
      BY <2>2 DEF PauseWrites
    <3>2. rwInProgress
      BY <3>1 DEF CoreInv, RewriteInv
    <3> QED BY <3>1, <3>2
  <2> QED BY <2>1, <2>2
<1>3. ConnInv' /\ LogInv' /\ StoppedInv' /\ Logged' = Logged
  BY <1>1, <1>2, TaskLog
<1>4. /\ \A i \in 1 .. Len(chan) : chan[i].type = "write"
      /\ wpc \notin {"rename", "switch"} /\ ack[Rewriter] = "none"
  BY <1>2, NoPendingTask DEF CoreInv, ChanInv
<1>5. ChanInv'
  BY <1>1, <1>4 DEF CoreInv, ChanInv
<1>6. WriterInv'
  BY <1>1 DEF CoreInv, WriterInv
<1>7. RewriteInv'
  BY <1>1, <1>2, <1>4 DEF CoreInv, RewriteInv
<1> QED BY <1>3, <1>5, <1>6, <1>7 DEF LogParts

\* A message of the rewrite task is the only one it has under way.
LEMMA TaskSends ==
  ASSUME CoreInv, rpc \notin {"start", "finish", "abort"},
         NEW t \in {"start", "finish", "abort"}, rpc' = t,
         Send([type |-> t, from |-> Rewriter, w |-> 0]),
         UNCHANGED <<ack, pc, db, wpc, linked, writeFailed>>
  PROVE  ChanInv' /\ WriterInv' /\ ack[Rewriter] = "none" /\ wpc \notin {"rename", "switch"}
<1> DEFINE m == [type |-> t, from |-> Rewriter, w |-> 0]
<1>1. m \in Messages /\ m.type = t /\ m.from = Rewriter
  BY DEF Messages
<1>2. /\ Len(chan') = Len(chan) + 1 /\ Len(chan) \in Nat /\ chan'[Len(chan) + 1] = m
      /\ \A i \in 1 .. Len(chan) : chan'[i] = chan[i]
      /\ chan # <<>> => chan' # <<>> /\ Head(chan') = Head(chan)
  BY <1>1, SendChan
<1>3. /\ \A i \in 1 .. Len(chan) : chan[i].type = "write" /\ chan[i].from # Rewriter
      /\ wpc \notin {"rename", "switch"}
  BY NoPendingTask
<1>4. ack[Rewriter] = "none"
  BY DEF CoreInv, ChanInv
<1> HIDE DEF m
<1>5. ChanInv'
  BY <1>1, <1>2, <1>3, <1>4 DEF CoreInv, ChanInv
<1>6. WriterInv'
  BY <1>2, <1>3 DEF CoreInv, WriterInv
<1> QED BY <1>3, <1>4, <1>5, <1>6

\* StartRewriteBuffering.
LEMMA StartBufferingLog == ASSUME CoreInv, StartRewriteBuffering PROVE LogParts'
<1> USE DEF StartRewriteBuffering
<1>1. UNCHANGED <<connVars, writerVars, active, linked, up, ack, temp, pc, db,
                  wpc, writeFailed, rwBuffer, snapshot, rwInProgress>>
  BY DEF connVars, writerVars, fileVars, lifeVars
<1>2. ConnInv' /\ LogInv' /\ StoppedInv' /\ Logged' = Logged
  BY <1>1, TaskLog
<1>3. ChanInv' /\ WriterInv' /\ ack[Rewriter] = "none" /\ wpc \notin {"rename", "switch"}
  BY <1>1, TaskSends
<1>4. RewriteInv'
  BY <1>1, <1>3 DEF CoreInv, RewriteInv
<1> QED BY <1>2, <1>3, <1>4 DEF LogParts

\* WriteSnapshot: the temporary file holds the snapshot.
LEMMA WriteSnapshotLog == ASSUME CoreInv, WriteSnapshot PROVE LogParts'
<1> USE DEF WriteSnapshot
<1>1. UNCHANGED <<connVars, writerVars, active, linked, up, ack, pc, db,
                  wpc, writeFailed, rwBuffer, snapshot, rwInProgress>>
  BY DEF connVars, writerVars, lifeVars
<1>2. ConnInv' /\ LogInv' /\ StoppedInv' /\ Logged' = Logged
  BY <1>1, TaskLog
<1>3. ChanInv' /\ WriterInv' /\ ack[Rewriter] = "none" /\ wpc \notin {"rename", "switch"}
  BY <1>1, TaskSends
<1>4. temp'.junk = 0 /\ Replay(temp') = snapshot
  <2>1. PICK n \in Nat : temp' = Sync(NewFile(snapshot, n))
    BY ConstantsAssumption
  <2>2. NewFile(snapshot, n) \in File /\ Replay(NewFile(snapshot, n)) = snapshot
        /\ NewFile(snapshot, n).junk = 0
    BY CoreTypes, NewFileType, NewFileReplay
  <2> QED BY <2>1, <2>2, SyncReplay
<1>5. RewriteInv'
  BY <1>1, <1>2, <1>3, <1>4 DEF CoreInv, RewriteInv
<1> QED BY <1>2, <1>3, <1>5 DEF LogParts

\* WriteSnapshotFails.
LEMMA WriteSnapshotFailsLog == ASSUME CoreInv, WriteSnapshotFails PROVE LogParts'
<1> USE DEF WriteSnapshotFails
<1>1. UNCHANGED <<connVars, writerVars, active, linked, up, ack, pc, db,
                  wpc, writeFailed, rwBuffer, snapshot, rwInProgress>>
  BY DEF connVars, writerVars, lifeVars
<1>2. ConnInv' /\ LogInv' /\ StoppedInv' /\ Logged' = Logged
  BY <1>1, TaskLog
<1>3. ChanInv' /\ WriterInv' /\ ack[Rewriter] = "none" /\ wpc \notin {"rename", "switch"}
  BY <1>1, TaskSends
<1>4. RewriteInv'
  BY <1>1, <1>2, <1>3 DEF CoreInv, RewriteInv
<1> QED BY <1>2, <1>3, <1>4 DEF LogParts

\* The rewrite task has its answer and sends nothing.
LEMMA TaskAnswered ==
  ASSUME CoreInv, ack[Rewriter] # "none", ack' = [ack EXCEPT ![Rewriter] = "none"],
         UNCHANGED <<chan, pc, db, wpc, linked, writeFailed>>
  PROVE  /\ ChanInv' /\ WriterInv' /\ wpc \notin {"rename", "switch"}
         /\ ack'[Rewriter] = "none" /\ \A c \in Conns : ack'[c] = ack[c]
<1>1. ack'[Rewriter] = "none" /\ \A p \in Tasks : p # Rewriter => ack'[p] = ack[p]
  BY CoreTypes DEF Tasks
<1>2. /\ \A i \in 1 .. Len(chan) : chan[i].type = "write" /\ chan[i].from # Rewriter
      /\ wpc \notin {"rename", "switch"}
  BY NoPendingTask
<1>3. ChanInv'
  <2>1. \A i \in 1 .. Len(chan) : chan[i].from \in Tasks
    BY CoreTypes DEF Messages, Tasks
  <2> QED BY <1>1, <1>2, <2>1 DEF CoreInv, ChanInv
<1>4. WriterInv'
  BY DEF CoreInv, WriterInv
<1> QED BY <1>1, <1>2, <1>3, <1>4, ConstantsAssumption DEF Tasks

\* TakeSnapshot: under the gate what is logged is the key space.
LEMMA TakeSnapshotLog == ASSUME CoreInv, TakeSnapshot PROVE LogParts'
<1> USE DEF TakeSnapshot
<1>1. UNCHANGED <<connVars, writerVars, active, linked, up, pc, db, chan,
                  wpc, writeFailed, rwBuffer, temp>>
  BY DEF connVars, writerVars, fileVars, lifeVars
<1>2. /\ ChanInv' /\ WriterInv' /\ wpc \notin {"rename", "switch"}
      /\ ack'[Rewriter] = "none" /\ \A c \in Conns : ack'[c] = ack[c]
  BY <1>1, TaskAnswered
<1>3. ConnInv' /\ LogInv' /\ StoppedInv' /\ Logged' = Logged
  BY <1>1, <1>2, TaskLog
<1>4. Logged = db
  <2>1. \A c \in Conns : pc[c] \notin {"applied", "sent"}
    BY LoneWriter
  <2> QED BY <2>1, LoggedQuiet
<1>5. ack[Rewriter] = "ok" /\ rwBuffer.on /\ rwBuffer.frames = <<>>
  BY CoreTypes DEF CoreInv, RewriteInv, Tasks
<1>6. db \o <<>> = db
  BY CoreTypes, ConcatAppend
<1>7. RewriteInv'
  BY <1>1, <1>2, <1>3, <1>4, <1>5, <1>6 DEF CoreInv, RewriteInv
<1> QED BY <1>2, <1>3, <1>7 DEF LogParts

\* RewriteEnds.
LEMMA RewriteEndsLog == ASSUME CoreInv, RewriteEnds PROVE LogParts'
<1> USE DEF RewriteEnds
<1>1. UNCHANGED <<connVars, writerVars, active, linked, up, pc, db, chan,
                  wpc, writeFailed, rwBuffer>>
  BY DEF connVars, writerVars, lifeVars
<1>2. /\ ChanInv' /\ WriterInv' /\ wpc \notin {"rename", "switch"}
      /\ ack'[Rewriter] = "none" /\ \A c \in Conns : ack'[c] = ack[c]
  BY <1>1, TaskAnswered
<1>3. ConnInv' /\ LogInv' /\ StoppedInv' /\ Logged' = Logged
  BY <1>1, <1>2, TaskLog
<1>4. RewriteInv'
  BY <1>1, <1>2 DEF CoreInv, RewriteInv
<1> QED BY <1>2, <1>3, <1>4 DEF LogParts

\* Kill and PowerLoss: of the process nothing is left.
LEMMA StopLog == ASSUME CoreInv, NEW f, Stop(f) PROVE LogParts'
<1> USE DEF Stop
<1>1. /\ ~up' /\ chan' = <<>> /\ wpc' = "recv" /\ ~writeFailed' /\ rpc' = "idle"
      /\ ~rwInProgress' /\ rwBuffer'.on = FALSE /\ linked' = "active"
      /\ \A c \in Conns : pc'[c] = "idle"
      /\ \A p \in Tasks : ack'[p] = "none"
  BY DEF Off
<1>2. ConnInv'
  BY <1>1 DEF ConnInv, Tasks
<1>3. ChanInv'
  BY <1>1 DEF ChanInv, Tasks
<1>4. WriterInv' /\ LogInv' /\ StoppedInv'
  BY <1>1 DEF WriterInv, LogInv, StoppedInv
<1>5. RewriteInv'
  BY <1>1 DEF RewriteInv
<1> QED BY <1>2, <1>3, <1>4, <1>5 DEF LogParts

\* Restart: replay, and the bad tail is cut off.
LEMMA RestartLog == ASSUME CoreInv, Restart PROVE LogParts'
<1> USE DEF Restart
<1>1. /\ chan = <<>> /\ wpc = "recv" /\ ~writeFailed /\ rpc = "idle"
      /\ \A c \in Conns : pc[c] = "idle"
  BY DEF CoreInv, StoppedInv
<1>2. UNCHANGED <<undo, pc, rejected, chan, ack, wpc, prevLen, writeFailed, rwBuffer,
                  temp, linked, rpc, rwInProgress, snapshot>> /\ up'
  BY DEF taskVars
<1>3. Logged' = Replay(active) /\ db' = Replay(active)
  BY <1>1, <1>2 DEF Logged, Undecided
<1> DEFINE n == Size(active) - active.junk
<1>4. active \in File /\ n \in Nat /\ n = active.snapLen + Len(active.cmds)
  BY CoreTypes, FileFields, SizeType DEF Size
<1>5. active'.junk = 0 /\ Replay(active') = Replay(active) /\ Size(active') = n
  <2>1. CASE active.junk = 0
    BY <1>4, <2>1, SizeType
  <2>2. CASE active.junk # 0
    <3>1. /\ Keep(active, n) \in File /\ Keep(active, n).junk = 0
          /\ Replay(Keep(active, n)) = Replay(active) /\ Size(Keep(active, n)) = n
      BY <1>4, KeepType, KeepParsed
    <3>2. active' = Sync(Keep(active, n))
      BY <2>2
    <3> QED BY <3>1, <3>2, SyncReplay
  <2> QED BY <2>1, <2>2
<1>6. SizeKept => currentSize' = n
  BY DEF SizeKept
<1> HIDE DEF n
<1>7. LogInv'
  BY <1>1, <1>2, <1>3, <1>5, <1>6 DEF LogInv, AtRest
<1>8. ConnInv'
  <2>1. IsPrefix(acked', Replay(active))
    BY CoreTypes, PrefixRefl
  <2> QED BY <1>1, <1>2, <1>3, <2>1 DEF CoreInv, ConnInv
<1>9. ChanInv' /\ WriterInv' /\ StoppedInv'
  BY <1>1, <1>2 DEF CoreInv, ChanInv, WriterInv, StoppedInv
<1>10. RewriteInv'
  BY <1>1, <1>2 DEF CoreInv, RewriteInv
<1> QED BY <1>7, <1>8, <1>9, <1>10 DEF LogParts

-----------------------------------------------------------------------------
(***************************************************************************)
(* CoreInv is inductive, and what follows from it.                         *)
(***************************************************************************)

\* CoreInv holds when the server has been started on an empty file.
LEMMA InitCore == Init => CoreInv
<1> SUFFICES ASSUME Init PROVE CoreInv
  OBVIOUS
<1> USE DEF Init
<1>1. GateInv
  BY InitGate
<1>2. Logged = <<>>
  BY DEF Logged, Undecided
<1>3. ConnInv
  BY <1>2, HistoryEmpty, PrefixEmpty DEF ConnInv, Tasks
<1>4. ChanInv /\ WriterInv /\ StoppedInv
  BY DEF ChanInv, WriterInv, StoppedInv, Tasks
<1>5. /\ Replay(active) = <<>> /\ active.junk = 0 /\ Size(active) = 0
  <2>1. active = NewFile(<<>>, 0)
    BY DEF EmptyFile
  <2>2. active.snapLen = 0 /\ active.cmds = <<>> /\ active.junk = 0
    BY <2>1 DEF NewFile
  <2> QED BY <2>1, <2>2, HistoryEmpty, NewFileReplay DEF Size
<1>6. LogInv
  BY <1>2, <1>5 DEF LogInv, AtRest
<1>7. RewriteInv
  BY DEF RewriteInv, Off
<1> QED BY <1>1, <1>3, <1>4, <1>6, <1>7 DEF CoreInv

\* Every step keeps CoreInv.
LEMMA NextCore == RollbackSound /\ CoreInv /\ [Next]_vars => CoreInv'
<1> SUFFICES ASSUME RollbackSound, CoreInv, [Next]_vars PROVE CoreInv'
  OBVIOUS
<1>1. GateInv'
  BY NextGate DEF CoreInv
<1>2. SUFFICES LogParts'
  BY <1>1 DEF LogParts, CoreInv
<1>3. ASSUME NEW c \in Conns, ReadWriteCommand(c) PROVE LogParts'
  <2>1. \A d \in Conns : d # c => pc'[d] = pc[d]
    BY <1>3, CoreTypes DEF ReadWriteCommand
  <2>2. pc'[c] = "gate"
    BY <1>3, CoreTypes DEF ReadWriteCommand
  <2> QED BY <1>3, <2>1, <2>2, OutsideLog DEF ReadWriteCommand
<1>4. ASSUME NEW c \in Conns, RefuseCommand(c) PROVE LogParts'
  <2>1. \A d \in Conns : d # c => pc'[d] = pc[d]
    BY <1>4, CoreTypes DEF RefuseCommand
  <2>2. pc'[c] = "idle"
    BY <1>4, CoreTypes DEF RefuseCommand
  <2> QED BY <1>4, <2>1, <2>2, OutsideLog DEF RefuseCommand
<1>5. ASSUME NEW r \in Readers, ReadCommand(r) PROVE LogParts'
  BY <1>5, OutsideLog DEF ReadCommand
<1>6. ASSUME NEW c \in Conns, ConnStep(c) PROVE LogParts'
  BY <1>4, <1>6, ApplyLog, SendLog, RejectLog, ReplyOkLog DEF ConnStep
<1>7. CASE WriterStep
  BY <1>7, RejectWriteLog, WriteOneLog, WriteOneFailsLog, SyncAfterWriteLog,
     SyncAfterWriteFailsLog, RollbackLog, StartLog, AbortLog, FinishErrLog,
     FinishFlushLog, FinishRenameLog, FinishSwitchLog
  DEF WriterStep
<1>8. CASE ScheduleRewrite \/ RewriteStep
  BY <1>8, ScheduleLog, StartBufferingLog, TakeSnapshotLog, WriteSnapshotLog,
     WriteSnapshotFailsLog, RewriteEndsLog
  DEF RewriteStep
<1>9. CASE Kill \/ PowerLoss
  <2>1. PICK f : Stop(f)
    BY <1>9 DEF Kill, PowerLoss
  <2> QED BY <2>1, StopLog
<1>10. CASE UNCHANGED vars
  <2>1. CASE up
    BY <1>10, <2>1, OutsideLog DEF vars, connVars, lifeVars
  <2>2. CASE ~up
    <3>1. UNCHANGED <<up, db, undo, pc, chan, ack, wpc, prevLen, writeFailed,
                      currentSize, rwBuffer, active, temp, linked, rpc, rwInProgress,
                      snapshot>>
      BY <1>10 DEF vars, connVars, writerVars, fileVars, taskVars, lifeVars
    <3>2. \A c \in Conns : pc[c] = "idle"
      BY <2>2 DEF CoreInv, StoppedInv
    <3>3. ConnInv' /\ ChanInv' /\ WriterInv' /\ LogInv' /\ StoppedInv'
      BY <2>2, <3>1, <3>2
      DEF CoreInv, ConnInv, ChanInv, WriterInv, LogInv, StoppedInv
    <3>4. Logged' = Logged
      BY <3>1 DEF Logged, Undecided
    <3>5. RewriteInv'
      BY <3>1, <3>4, RewriteKept
    <3> QED BY <3>3, <3>5 DEF LogParts
  <2> QED BY <2>1, <2>2
<1> QED
  BY <1>3, <1>5, <1>6, <1>7, <1>8, <1>9, <1>10, TimerLog, RestartLog DEF Next

\* CoreInv is an invariant, where a rollback knows the size it goes back to.
LEMMA CoreAlways == ASSUME RollbackSound PROVE Spec => []CoreInv
<1>1. Init => CoreInv
  BY InitCore
<1>2. CoreInv /\ [Next]_vars => CoreInv'
  BY NextCore
<1> QED BY <1>1, <1>2, PTL DEF Spec

\* AofMirrorsDb is an invariant: whenever no write is under way replay() of the
\* file would rebuild the key space, up to the one rejected write that a
\* failed truncation leaves behind: for any number of connections, writes,
\* rewrites and crashes, every policy, and all faults but a size that is not
\* known together with one that is rolled back to it.
THEOREM FileMirrorsDb == ASSUME RollbackSound PROVE Spec => []AofMirrorsDb
<1>1. CoreInv => AofMirrorsDb
  <2> SUFFICES ASSUME CoreInv, Quiet
               PROVE  \/ Replay(PathFile) = db
                      \/ writeFailed /\ \E w \in rejected : Replay(PathFile) = Append(db, w)
    BY DEF AofMirrorsDb
  <2>1. Logged = db
    BY LoggedQuiet DEF Quiet
  <2>2. CASE linked = "temp"
    BY <2>1, <2>2 DEF CoreInv, WriterInv, RewriteInv, PathFile
  <2>3. CASE linked # "temp"
    <3>1. PathFile = active /\ AtRest
      BY <2>3, NoPendingWrite DEF PathFile, Quiet
    <3>2. \A w : LeftBehind(w) => w \in rejected
      BY DEF LeftBehind, Quiet
    <3> QED BY <2>1, <3>1, <3>2 DEF AtRest
  <2> QED BY <2>2, <2>3
<1> QED BY <1>1, CoreAlways, PTL

\* SizeMatches is an invariant: current_size is the length of the file run_writer
\* appends to, where the metadata call and the sync after a switch do not fail.
THEOREM SizeAlwaysMatches == ASSUME SizeKept PROVE Spec => []SizeMatches
<1>1. RollbackSound
  BY DEF RollbackSound
<1>2. CoreInv => SizeMatches
  BY DEF CoreInv, LogInv, AtRest, SizeMatches
<1> QED BY <1>1, <1>2, CoreAlways, PTL

=============================================================================
