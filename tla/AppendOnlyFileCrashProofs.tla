--------------------- MODULE AppendOnlyFileCrashProofs ---------------------
(***************************************************************************)
(* What readers, rejected writes and crashes find, proved on top of        *)
(* CoreInv: the rest of AofInv, and the safety properties about it.        *)
(***************************************************************************)
EXTENDS AppendOnlyFileProofs

-----------------------------------------------------------------------------
(***************************************************************************)
(* The life of the key space.  Whatever step is taken, the history of the  *)
(* key space does one of five things.                                      *)
(***************************************************************************)

\* Nothing is applied or taken back; the write under way may be logged, or a
\* reader reads.
Steady ==
  /\ UNCHANGED <<db, rejected, issued, up>>
  /\ IsPrefix(Logged, Logged') /\ (Logged' = Logged \/ SyncAfterWrite)
  /\ seen' = seen \/ \E r \in Readers : up /\ seen' = [seen EXCEPT ![r] = db]

\* A write is applied and not logged yet.
Applies ==
  /\ up /\ db' = Append(db, issued + 1) /\ issued' = issued + 1
  /\ Logged = db /\ Logged' = db
  /\ UNCHANGED <<rejected, seen, up>>

\* A write is taken back: what is left is what was logged.
TakesBack ==
  /\ up /\ db # <<>> /\ db = Append(Logged, Last(db)) /\ db' = Logged /\ Logged' = Logged
  /\ rejected' = rejected \cup {Last(db)}
  /\ UNCHANGED <<seen, up, issued>>

Stops ==
  /\ up /\ ~up' /\ db' = <<>> /\ Logged' = <<>> /\ seen' = [r \in Readers |-> <<>>]
  /\ UNCHANGED <<rejected, issued>>

Starts ==
  /\ ~up /\ up' /\ db' = Replay(active) /\ Logged' = Replay(active)
  /\ UNCHANGED <<rejected, issued, seen>>

\* A step that leaves the connections' part of the history alone.
LEMMA SteadyWhenKept ==
  ASSUME CoreInv, UNCHANGED <<db, undo, rejected, issued, up, seen>>,
         \A c \in Conns : ack'[c] = ack[c]
                          /\ \A s \in {"applied", "sent"} : pc'[c] = s <=> pc[c] = s
  PROVE  Steady
<1>1. Logged' = Logged
  BY DEF Logged, Undecided
<1> QED BY <1>1, CoreTypes, PrefixRefl DEF Steady

\* The writer's answer to a write: what is logged may have grown by it.
LEMMA SteadyWhenAnswered ==
  ASSUME CoreInv, Handling("write"), NEW r \in {"ok", "err"}, Answer(r),
         r = "ok" => SyncAfterWrite, UNCHANGED <<connVars, taskVars, up>>
  PROVE  Steady
<1>1. Logged' = (IF r = "ok" THEN db ELSE undo)
  BY AnswerToWrite
<1>2. Logged = undo /\ db = Append(undo, Last(db)) /\ Last(db) \in Nat
  BY HeadIsWrite
<1>3. IsPrefix(undo, db) /\ IsPrefix(undo, undo)
  <2>1. IsPrefix(undo, Append(undo, Last(db)))
    BY <1>2, CoreTypes, AppendParts
  <2> QED BY <1>2, <2>1, CoreTypes, PrefixRefl
<1> QED BY <1>1, <1>2, <1>3 DEF Steady, connVars

\* Every step does one of the five.
LEMMA HistoryStep ==
  ASSUME CoreInv, [Next]_vars
  PROVE  Steady \/ Applies \/ TakesBack \/ Stops \/ Starts
<1>1. ASSUME NEW c \in Conns, ReadWriteCommand(c) \/ RefuseCommand(c) PROVE Steady
  <2>1. ASSUME NEW d \in Conns
        PROVE \A s \in {"applied", "sent"} : pc'[d] = s <=> pc[d] = s
    BY <1>1, CoreTypes DEF ReadWriteCommand, RefuseCommand
  <2>2. UNCHANGED <<db, undo, rejected, issued, up, seen, ack>>
    BY <1>1 DEF ReadWriteCommand, RefuseCommand, lifeVars
  <2> QED BY <2>1, <2>2, SteadyWhenKept
<1>2. ASSUME NEW c \in Conns, ApplyCommand(c) PROVE Applies
  <2>1. \A d \in Conns : pc[d] \notin {"applied", "sent"}
    BY <1>2, HolderAlone DEF ApplyCommand
  <2>2. Logged = db
    BY <2>1, LoggedQuiet
  <2>3. pc'[c] = "applied"
    BY <1>2, CoreTypes DEF ApplyCommand
  <2>4. Logged' = db
    BY <1>2, <2>3 DEF Logged, Undecided, ApplyCommand
  <2> QED BY <1>2, <2>2, <2>4 DEF Applies, ApplyCommand, lifeVars
<1>3. ASSUME NEW c \in Conns, SendToWriter(c) PROVE Steady
  <2>1. ack[c] = "none" /\ Logged = undo
    BY <1>3, LoggedUnderWay DEF SendToWriter, CoreInv, ConnInv
  <2>2. pc'[c] = "sent" /\ UNCHANGED <<db, undo, rejected, issued, up, seen, ack>>
    BY <1>3, CoreTypes DEF SendToWriter, lifeVars
  <2>3. Logged' = undo
    BY <2>1, <2>2 DEF Logged, Undecided
  <2> QED BY <2>1, <2>2, <2>3, CoreTypes, PrefixRefl DEF Steady
<1>4. ASSUME NEW c \in Conns, WriterKnownFailed(c) \/ ReplyFailed(c) PROVE TakesBack
  <2>1. /\ up /\ \A d \in Conns : pc[d] \in {"applied", "sent"} => d = c
        /\ db = Append(undo, Last(db)) /\ db # <<>> /\ Logged = undo
    BY <1>4, LoneWriter, LoggedUnderWay DEF WriterKnownFailed, ReplyFailed
  <2>2. pc'[c] = "idle" /\ \A d \in Conns : d # c => pc'[d] = pc[d]
    BY <1>4, CoreTypes DEF WriterKnownFailed, ReplyFailed, Reject
  <2>3. /\ db' = undo /\ rejected' = rejected \cup {Last(db)}
        /\ UNCHANGED <<seen, up, issued>>
    BY <1>4 DEF WriterKnownFailed, ReplyFailed, Reject, lifeVars
  <2>4. Logged' = undo
    BY <2>1, <2>2, <2>3 DEF Logged, Undecided
  <2> QED BY <2>1, <2>3, <2>4 DEF TakesBack
<1>5. ASSUME NEW c \in Conns, ReplyOk(c) PROVE Steady
  <2>1. /\ up /\ \A d \in Conns : pc[d] \in {"applied", "sent"} => d = c
        /\ Logged = db
    BY <1>5, LoneWriter, LoggedUnderWay DEF ReplyOk
  <2>2. pc'[c] = "idle" /\ \A d \in Conns : d # c => pc'[d] = pc[d]
    BY <1>5, CoreTypes DEF ReplyOk
  <2>3. UNCHANGED <<db, rejected, issued, up, seen>>
    BY <1>5 DEF ReplyOk, lifeVars
  <2>4. Logged' = db
    BY <2>1, <2>2, <2>3 DEF Logged, Undecided
  <2> QED BY <2>1, <2>3, <2>4, CoreTypes, PrefixRefl DEF Steady
<1>6. ASSUME NEW r \in Readers, ReadCommand(r) PROVE Steady
  <2>1. Logged' = Logged
    BY <1>6 DEF ReadCommand, Logged, Undecided
  <2> QED BY <1>6, <2>1, CoreTypes, PrefixRefl DEF Steady, ReadCommand, lifeVars
<1>7. CASE WriterStep
  <2> USE DEF RejectWrite, WriteOne, WriteOneFails, SyncAfterWrite, SyncAfterWriteFails,
      RollbackActiveFile, HandleStartRewrite, HandleAbortRewrite, FinishNotInProgress,
      FinishFlush, FinishFlushFails, FinishRename, FinishRenameFails, FinishSwitch
  <2>1. CASE RejectWrite \/ SyncAfterWrite \/ RollbackActiveFile
    <3>1. /\ Handling("write") /\ UNCHANGED <<connVars, taskVars, up>>
          /\ \E r \in {"ok", "err"} : Answer(r) /\ (r = "ok" => SyncAfterWrite)
      BY <2>1 DEF lifeVars
    <3> QED BY <3>1, SteadyWhenAnswered
  <2>2. CASE \/ HandleStartRewrite \/ HandleAbortRewrite \/ FinishNotInProgress
             \/ FinishFlushFails \/ FinishRenameFails \/ FinishSwitch
    <3>1. /\ up /\ chan # <<>> /\ Head(chan).type # "write"
          /\ UNCHANGED <<connVars, taskVars, up>>
      BY <2>2 DEF lifeVars, Handling
    <3>2. PICK r \in {"ok", "err"} : Answer(r)
      BY <2>2
    <3>3. Logged' = Logged
      BY <3>1, <3>2, AnswerToTask
    <3> QED BY <3>1, <3>3, CoreTypes, PrefixRefl DEF Steady, connVars
  <2>3. CASE \/ WriteOne \/ WriteOneFails \/ SyncAfterWriteFails \/ FinishFlush
             \/ FinishRename
    <3>1. UNCHANGED <<connVars, ack, up>>
      BY <2>3 DEF lifeVars
    <3> QED BY <3>1, SteadyWhenKept DEF connVars
  <2> QED BY <1>7, <2>1, <2>2, <2>3 DEF WriterStep
<1>8. CASE TimerStep
  <2>1. UNCHANGED <<connVars, ack, up>>
    BY <1>8 DEF TimerStep, EverySecSync, EverySecSyncFails, lifeVars
  <2> QED BY <2>1, SteadyWhenKept DEF connVars
<1>9. CASE ScheduleRewrite \/ RewriteStep
  <2> USE DEF RewriteStep, ScheduleRewrite, PauseWrites, StartRewriteBuffering, TakeSnapshot,
      WriteSnapshot, WriteSnapshotFails, RewriteEnds
  <2>1. /\ UNCHANGED <<connVars, up>>
        /\ ack' = ack \/ ack' = [ack EXCEPT ![Rewriter] = "none"]
    BY <1>9 DEF lifeVars
  <2>2. \A c \in Conns : ack'[c] = ack[c]
    BY <2>1, CoreTypes, ConstantsAssumption DEF Tasks
  <2> QED BY <2>1, <2>2, SteadyWhenKept DEF connVars
<1>10. CASE Kill \/ PowerLoss
  <2>1. PICK f : Stop(f)
    BY <1>10 DEF Kill, PowerLoss
  <2>2. \A c \in Conns : pc'[c] = "idle"
    BY <2>1 DEF Stop
  <2>3. Logged' = <<>>
    BY <2>1, <2>2 DEF Logged, Undecided, Stop
  <2> QED BY <2>1, <2>3 DEF Stops, Stop
<1>11. CASE Restart
  <2>1. \A c \in Conns : pc'[c] = "idle"
    BY <1>11 DEF Restart, CoreInv, StoppedInv
  <2>2. Logged' = Replay(active)
    BY <1>11, <2>1 DEF Logged, Undecided, Restart
  <2> QED BY <1>11, <2>2 DEF Starts, Restart
<1>12. CASE UNCHANGED vars
  BY <1>12, SteadyWhenKept DEF vars, connVars, lifeVars
<1> QED
  BY <1>1, <1>2, <1>3, <1>4, <1>5, <1>6, <1>7, <1>8, <1>9, <1>10, <1>11, <1>12
  DEF Next, ConnStep

-----------------------------------------------------------------------------
(***************************************************************************)
(* What readers see.                                                       *)
(***************************************************************************)

\* What one reader saw, as SeenInv has it.
SeenBy(s, d, l, rej) ==
  \/ IsPrefix(s, d)
  \/ s # <<>> /\ Last(s) \in rej /\ IsPrefix(Front(s), l)

\* SeenInv holds of what was seen whatever happens to the history next.
LEMMA SeenStep ==
  ASSUME CoreInv, CoreInv', Steady \/ Applies \/ TakesBack, NEW s \in Histories,
         SeenBy(s, db, Logged, rejected)
  PROVE  SeenBy(s, db', Logged', rejected')
<1>1. /\ db \in Histories /\ db' \in Histories /\ Logged \in Histories
      /\ Logged' \in Histories
  <2>1. db \in Histories /\ Logged \in Histories
    BY CoreTypes
  <2>2. db' \in Histories /\ undo' \in Histories
    BY DEF CoreInv, GateInv, TypeOK, ConnTypeOK
  <2> QED BY <2>1, <2>2 DEF Logged
<1>2. s # <<>> => Front(s) \in Histories
  BY FrontLast
<1>3. CASE Steady
  BY <1>1, <1>2, <1>3, PrefixTrans DEF Steady, SeenBy
<1>4. CASE Applies
  <2>1. IsPrefix(db, db')
    BY <1>1, <1>4, CoreTypes, AppendParts DEF Applies
  <2> QED BY <1>1, <1>4, <2>1, PrefixTrans DEF Applies, SeenBy
<1>5. CASE TakesBack
  <2>1. /\ db = Append(Logged, Last(db)) /\ db' = Logged /\ Logged' = Logged
        /\ rejected' = rejected \cup {Last(db)} /\ Last(db) \in Nat
    BY <1>1, <1>5, HistoryLast DEF TakesBack
  <2>2. CASE IsPrefix(s, db)
    <3>1. s = db \/ IsPrefix(s, Logged)
      <4> DEFINE w == Last(db)
                 l == Logged
      <4>1. db = Append(l, w) /\ l \in Histories /\ w \in Nat /\ IsPrefix(s, db)
        BY <1>1, <2>1, <2>2
      <4> HIDE DEF w, l
      <4>2. s = Append(l, w) \/ IsPrefix(s, l)
        BY <4>1, PrefixOfAppend
      <4> QED BY <4>1, <4>2 DEF l
    <3>2. CASE s = db
      <4>1. Front(s) = Logged /\ s # <<>> /\ Last(s) \in rejected'
        BY <1>1, <2>1, <3>2, AppendParts
      <4> QED BY <1>1, <2>1, <4>1, PrefixRefl DEF SeenBy
    <3> QED BY <2>1, <3>1, <3>2 DEF SeenBy
  <2> QED BY <2>1, <2>2 DEF SeenBy
<1> QED BY <1>3, <1>4, <1>5

\* SeenInv is kept by every step.
LEMMA NextSeen ==
  ASSUME CoreInv, CoreInv', SeenInv, [Next]_vars PROVE SeenInv'
<1>1. seen \in [Readers -> Histories]
  BY DEF CoreInv, GateInv, TypeOK, ConnTypeOK
<1> SUFFICES ASSUME NEW r \in Readers
             PROVE  (up' \/ seen'[r] = <<>>) /\ SeenBy(seen'[r], db', Logged', rejected')
  BY DEF SeenInv, SeenBy
<1>2. (up \/ seen[r] = <<>>) /\ SeenBy(seen[r], db, Logged, rejected)
  BY DEF SeenInv, SeenBy
<1>3. db' \in Histories
  BY DEF CoreInv, GateInv, TypeOK, ConnTypeOK
<1>4. CASE Steady
  <2>1. CASE seen'[r] = seen[r]
    BY <1>1, <1>2, <1>4, <2>1, SeenStep DEF Steady
  <2>2. CASE up /\ seen'[r] = db
    BY <1>3, <1>4, <2>2, PrefixRefl DEF Steady, SeenBy
  <2> QED BY <1>1, <1>4, <2>1, <2>2 DEF Steady
<1>5. CASE Applies \/ TakesBack
  <2>1. seen' = seen /\ up' = up
    BY <1>5 DEF Applies, TakesBack
  <2> QED BY <1>1, <1>2, <1>5, <2>1, SeenStep
<1>6. CASE Stops
  BY <1>3, <1>6, PrefixEmpty DEF Stops, SeenBy
<1>7. CASE Starts
  <2>1. seen'[r] = <<>> /\ up'
    BY <1>2, <1>7 DEF Starts
  <2> QED BY <1>3, <2>1, PrefixEmpty DEF SeenBy
<1> QED BY <1>4, <1>5, <1>6, <1>7, HistoryStep
-----------------------------------------------------------------------------
(***************************************************************************)
(* Writes are issued in order, and every file keeps that order.            *)
(***************************************************************************)

\* The numbers in a history are positions it has.
LEMMA HistoryElement ==
  ASSUME NEW h \in Histories, NEW i \in 1 .. Len(h) PROVE h[i] \in Nat
BY DEF Histories

\* Part of an ordered history is ordered, and later bounds hold as well.
LEMMA OrderedPrefix ==
  ASSUME NEW g \in Histories, NEW h \in Histories, NEW n \in Nat, NEW m \in Nat,
         Ordered(h, n), IsPrefix(g, h), n <= m
  PROVE  Ordered(g, m)
<1>1. Len(g) \in Nat /\ Len(h) \in Nat /\ Len(g) <= Len(h) /\ \A i \in 1 .. Len(g) : g[i] = h[i]
  BY PrefixDef, HistoryLen
<1> SUFFICES ASSUME NEW i \in 1 .. Len(g)
             PROVE  g[i] <= m /\ \A j \in 1 .. i - 1 : g[j] < g[i]
  BY DEF Ordered
<1>2. i \in 1 .. Len(h) /\ g[i] = h[i] /\ h[i] \in Nat
  BY <1>1, HistoryElement
<1>3. h[i] <= n /\ \A j \in 1 .. i - 1 : h[j] < h[i]
  BY <1>2 DEF Ordered
<1>4. \A j \in 1 .. i - 1 : g[j] = h[j]
  BY <1>1
<1> QED BY <1>2, <1>3, <1>4

\* The next write, as ApplyCommand numbers it, comes last.
LEMMA OrderedAppend ==
  ASSUME NEW h \in Histories, NEW n \in Nat, Ordered(h, n)
  PROVE  Ordered(Append(h, n + 1), n + 1)
<1> DEFINE a == Append(h, n + 1)
<1>1. /\ a \in Histories /\ Len(a) = Len(h) + 1 /\ a[Len(h) + 1] = n + 1
      /\ \A i \in 1 .. Len(h) : a[i] = h[i]
      /\ Len(h) \in Nat
  BY AppendProperties, HistoryLen DEF Histories
<1> HIDE DEF a
<1> SUFFICES ASSUME NEW i \in 1 .. Len(a)
             PROVE  a[i] <= n + 1 /\ \A j \in 1 .. i - 1 : a[j] < a[i]
  BY DEF Ordered, a
<1>2. \A k \in 1 .. Len(h) : a[k] = h[k] /\ h[k] \in Nat /\ h[k] <= n
                            /\ \A j \in 1 .. k - 1 : h[j] < h[k]
  BY <1>1, HistoryElement DEF Ordered
<1>3. CASE i \in 1 .. Len(h)
  BY <1>1, <1>2, <1>3
<1>4. CASE i = Len(h) + 1
  BY <1>1, <1>2, <1>4
<1> QED BY <1>1, <1>3, <1>4

\* In an ordered history the last write comes once.
LEMMA OrderedLast ==
  ASSUME NEW h \in Histories, NEW w \in Nat, NEW n \in Nat, Ordered(Append(h, w), n)
  PROVE  ~Contains(h, w) /\ w <= n
<1> DEFINE a == Append(h, w)
<1>1. /\ a \in Histories /\ Len(a) = Len(h) + 1 /\ a[Len(h) + 1] = w
      /\ \A i \in 1 .. Len(h) : a[i] = h[i]
      /\ Len(h) \in Nat
  BY AppendProperties, HistoryLen DEF Histories
<1>2. Ordered(a, n)
  OBVIOUS
<1> HIDE DEF a
<1>3. w <= n /\ \A j \in 1 .. Len(h) : a[j] < w
  BY <1>1, <1>2 DEF Ordered
<1>4. \A j \in 1 .. Len(h) : h[j] \in Nat /\ h[j] < w
  BY <1>1, <1>3, HistoryElement
<1> QED BY <1>3, <1>4 DEF Contains

\* What a history does not contain, no part of it does.
LEMMA ContainsPrefix ==
  ASSUME NEW g \in Histories, NEW h \in Histories, IsPrefix(g, h), NEW w, ~Contains(h, w)
  PROVE  ~Contains(g, w)
<1>1. Len(g) \in Nat /\ Len(h) \in Nat /\ Len(g) <= Len(h) /\ \A i \in 1 .. Len(g) : g[i] = h[i]
  BY PrefixDef, HistoryLen
<1> QED BY <1>1 DEF Contains

\* A new write is not one of those rejected before.
LEMMA ContainsAppend ==
  ASSUME NEW h \in Histories, NEW v \in Nat, NEW w \in Nat, ~Contains(h, w), v # w
  PROVE  ~Contains(Append(h, v), w)
<1> DEFINE a == Append(h, v)
<1>1. /\ a \in Histories /\ Len(a) = Len(h) + 1 /\ a[Len(h) + 1] = v
      /\ \A i \in 1 .. Len(h) : a[i] = h[i]
      /\ Len(h) \in Nat
  BY AppendProperties, HistoryLen DEF Histories
<1> HIDE DEF a
<1>2. ~Contains(a, w)
  BY <1>1 DEF Contains
<1> QED BY <1>2 DEF a

-----------------------------------------------------------------------------
(***************************************************************************)
(* What a file may turn out to hold after a power loss.                    *)
(***************************************************************************)

\* Two parts of one history: the shorter is part of the longer.
LEMMA PrefixByLen ==
  ASSUME NEW f \in Histories, NEW g \in Histories, NEW h \in Histories,
         IsPrefix(f, h), IsPrefix(g, h), Len(f) <= Len(g)
  PROVE  IsPrefix(f, g)
BY PrefixDef, HistoryLen

\* A part as long as the whole is the whole.
LEMMA PrefixSameLen ==
  ASSUME NEW g \in Histories, NEW h \in Histories, IsPrefix(g, h), Len(g) >= Len(h)
  PROVE  g = h
<1>1. /\ Len(g) = Len(h) /\ Len(g) \in Nat /\ \A i \in 1 .. Len(g) : g[i] = h[i]
  BY PrefixDef, HistoryLen
<1> QED BY <1>1, SeqEqual DEF Histories

\* Frames kept behind the same snapshot.
LEMMA PrefixUnder ==
  ASSUME NEW s \in Histories, NEW g \in Histories, NEW h \in Histories, IsPrefix(g, h)
  PROVE  IsPrefix(s \o g, s \o h) /\ Len(s \o g) = Len(s) + Len(g)
<1>1. Len(g) \in Nat /\ Len(h) \in Nat /\ Len(s) \in Nat /\ Len(g) <= Len(h)
      /\ \A i \in 1 .. Len(g) : g[i] = h[i]
  BY PrefixDef, HistoryLen
<1> DEFINE a == s \o g
           b == s \o h
<1>2. /\ a \in Histories /\ Len(a) = Len(s) + Len(g)
      /\ \A i \in 1 .. Len(a) : a[i] = IF i <= Len(s) THEN s[i] ELSE g[i - Len(s)]
  BY <1>1, ConcatProperties DEF Histories
<1>3. /\ b \in Histories /\ Len(b) = Len(s) + Len(h)
      /\ \A i \in 1 .. Len(b) : b[i] = IF i <= Len(s) THEN s[i] ELSE h[i - Len(s)]
  BY <1>1, ConcatProperties DEF Histories
<1> HIDE DEF a, b
<1>4. ASSUME NEW i \in 1 .. Len(a) PROVE a[i] = b[i]
  <2>1. i \in 1 .. Len(b)
    BY <1>1, <1>2, <1>3
  <2>2. CASE i <= Len(s)
    BY <1>2, <1>3, <2>1, <2>2
  <2>3. CASE i > Len(s)
    <3>1. i - Len(s) \in 1 .. Len(g)
      BY <1>1, <1>2, <2>3
    <3> QED BY <1>1, <1>2, <1>3, <2>1, <2>3, <3>1
  <2> QED BY <1>1, <2>2, <2>3
<1>5. IsPrefix(a, b)
  <2>1. Len(a) <= Len(b)
    BY <1>1, <1>2, <1>3
  <2>2. a \in Histories /\ b \in Histories
    BY <1>2, <1>3
  <2> QED BY ONLY <1>4, <2>1, <2>2, PrefixDef
<1> QED BY <1>2, <1>5 DEF a, b

\* The writes that replay() finds in the first n frames of f.
Parsed(f, n) == IF n < f.snapLen THEN 0 ELSE Len(f.snap) + (n - f.snapLen)

\* The first n frames of a file without junk.
LEMMA KeepReplay ==
  ASSUME NEW u \in File, u.junk = 0, NEW n \in Nat, n <= Size(u)
  PROVE  LET k == Keep(u, n)
         IN  /\ k \in File /\ IsPrefix(Replay(k), Replay(u))
             /\ Len(Replay(k)) = Parsed(u, n)
             /\ k.junk = 0 /\ Size(k) = n
<1> USE FileFields
<1> DEFINE k == Keep(u, n)
<1>1. k \in File /\ Replay(u) \in Histories
  BY KeepType, ReplayType
<1>2. n <= u.snapLen + Len(u.cmds)
  BY DEF Size
<1>3. CASE n < u.snapLen
  <2>1. k.snap = <<>> /\ k.cmds = <<>> /\ k.junk = 0 /\ k.snapLen = n
    BY <1>2, <1>3 DEF Keep, File
  <2> HIDE DEF k
  <2>2. Replay(k) = <<>> /\ Size(k) = n
    BY <2>1, ConcatAppend, HistoryEmpty DEF Replay, Size
  <2> QED BY <1>1, <1>3, <2>1, <2>2, PrefixEmpty DEF k, Parsed
<1>4. CASE ~(n < u.snapLen)
  <2>1. k.snap = u.snap /\ k.junk = 0 /\ k.snapLen = u.snapLen
    BY <1>2, <1>4 DEF Keep, File
  <2>2. k.cmds = IF n < u.snapLen + Len(u.cmds) THEN SubSeq(u.cmds, 1, n - u.snapLen)
                 ELSE u.cmds
    BY <1>4 DEF Keep, File
  <2>3. k.cmds \in Histories /\ Len(k.cmds) = n - u.snapLen /\ IsPrefix(k.cmds, u.cmds)
    <3>1. CASE n < u.snapLen + Len(u.cmds)
      <4> DEFINE m == n - u.snapLen
                 s == SubSeq(u.cmds, 1, m)
      <4>1. m \in Nat /\ m < Len(u.cmds)
        BY <1>4, <3>1
      <4> HIDE DEF m
      <4>2. s \in Histories /\ Len(s) = m /\ \A i \in 1 .. m : s[i] = u.cmds[i]
        BY <4>1 DEF Histories
      <4> HIDE DEF s
      <4>3. IsPrefix(s, u.cmds)
        BY <4>1, <4>2, PrefixDef
      <4> QED BY <2>2, <3>1, <4>2, <4>3 DEF m, s
    <3>2. CASE ~(n < u.snapLen + Len(u.cmds))
      BY <1>2, <2>2, <3>2, PrefixRefl
    <3> QED BY <3>1, <3>2
  <2> HIDE DEF k
  <2>4. IsPrefix(Replay(k), Replay(u)) /\ Len(Replay(k)) = Len(u.snap) + (n - u.snapLen)
    BY <2>1, <2>3, PrefixUnder DEF Replay
  <2>5. Size(k) = n
    BY <1>4, <2>1, <2>3 DEF Size
  <2> QED BY <1>1, <1>4, <2>1, <2>4, <2>5 DEF k, Parsed
<1> QED BY <1>3, <1>4

\* All that a file may hold is what it holds and what a truncation took.
LEMMA WholeReplay ==
  ASSUME NEW f \in File
  PROVE  /\ Whole(f) \in Histories /\ IsPrefix(Replay(f), Whole(f))
         /\ f.cut = <<>> => Whole(f) = Replay(f)
         /\ Len(Replay(f)) = Len(f.snap) + Len(f.cmds)
         /\ Len(Whole(f)) = Len(f.snap) + Len(f.cmds) + Len(f.cut)
<1>1. f.snap \in Histories /\ f.cmds \in Histories /\ f.cut \in Histories
  BY FileFields
<1>2. Replay(f) \in Histories
  BY ReplayType
<1>3. Len(Replay(f)) = Len(f.snap) + Len(f.cmds)
  BY <1>1, PrefixRefl, PrefixUnder DEF Replay
<1> QED BY <1>1, <1>2, <1>3, HistoryConcat, PrefixConcat, ConcatAppend, PrefixUnder, PrefixRefl
    DEF Whole

\* The file before a truncation that may be undone.
LEMMA UntruncatedReplay ==
  ASSUME NEW f \in File
  PROVE  LET u == Untruncated(f)
         IN  /\ u \in File /\ u.junk = 0 /\ Replay(u) = Whole(f)
             /\ u.snapLen = f.snapLen /\ u.snap = f.snap
             /\ Size(u) = f.snapLen + Len(f.cmds) + Len(f.cut)
<1> USE FileFields
<1> DEFINE u == Untruncated(f)
<1>1. /\ u \in File /\ u.junk = 0 /\ u.cmds = f.cmds \o f.cut /\ u.snapLen = f.snapLen
      /\ u.snap = f.snap
  BY HistoryConcat DEF Untruncated, File
<1> HIDE DEF u
<1>2. Replay(u) = Whole(f)
  <2>1. f.snap \o (f.cmds \o f.cut) = (f.snap \o f.cmds) \o f.cut
    BY ConcatAssoc
  <2> QED BY ONLY <1>1, <2>1 DEF Replay, Whole
<1>3. Len(f.cmds \o f.cut) = Len(f.cmds) + Len(f.cut) /\ Len(f.cut) \in Nat
  BY PrefixUnder, PrefixRefl, HistoryLen
<1>4. Size(u) = f.snapLen + Len(f.cmds) + Len(f.cut)
  <2>1. Len(u.cmds) = Len(f.cmds) + Len(f.cut)
    BY ONLY <1>1, <1>3, Zenon
  <2>2. u.snapLen = f.snapLen /\ u.junk = 0 /\ f.snapLen \in Nat /\ Len(f.cmds) \in Nat
    BY <1>1
  <2>3. Len(f.cut) \in Nat
    BY <1>3
  <2>4. f.snapLen + (Len(f.cmds) + Len(f.cut)) + 0 = f.snapLen + Len(f.cmds) + Len(f.cut)
    <3>1. \A x, y, z \in Nat : x + (y + z) + 0 = x + y + z
      OBVIOUS
    <3> QED BY ONLY <2>2, <2>3, <3>1, Zenon
  <2> QED BY ONLY <2>1, <2>2, <2>4, Zenon DEF Size
<1> QED BY <1>1, <1>2, <1>4 DEF u

\* How much of a file is on the disk for certain.
LEMMA OnDiskPart ==
  ASSUME NEW f \in File
  PROVE  LET s == f.snapLen + Len(f.cmds) + Len(f.cut)
             n == IF f.synced < s THEN f.synced ELSE s
         IN  /\ OnDisk(f) \in Histories /\ IsPrefix(OnDisk(f), Whole(f))
             /\ Len(OnDisk(f)) = Parsed(f, n) /\ s \in Nat /\ n \in Nat
<1> DEFINE u == Untruncated(f)
           s == f.snapLen + Len(f.cmds) + Len(f.cut)
           n == IF f.synced < s THEN f.synced ELSE s
<1>1. /\ u \in File /\ u.junk = 0 /\ Replay(u) = Whole(f)
      /\ u.snapLen = f.snapLen /\ u.snap = f.snap /\ Size(u) = s
  BY UntruncatedReplay
<1>2. s \in Nat /\ n \in Nat /\ n <= s
  <2>1. \A x, y, z \in Nat : x + y + z \in Nat
    OBVIOUS
  <2>2. s \in Nat /\ f.synced \in Nat
    <3> HIDE DEF u, n
    <3> QED BY <2>1, FileFields, HistoryLen, Zenon
  <2> HIDE DEF s
  <2> QED BY <2>2
<1>3. OnDisk(f) = Replay(Keep(u, n))
  BY <1>1 DEF OnDisk
<1> HIDE DEF u, s, n
<1>4. /\ Keep(u, n) \in File /\ IsPrefix(Replay(Keep(u, n)), Replay(u))
      /\ Len(Replay(Keep(u, n))) = Parsed(u, n)
  BY <1>1, <1>2, KeepReplay
<1>5. Parsed(u, n) = Parsed(f, n)
  BY <1>1 DEF Parsed
<1> QED BY <1>1, <1>2, <1>3, <1>4, <1>5, ReplayType DEF s, n

\* A file synced to its end is on the disk, with what a truncation took.
LEMMA OnDiskAll ==
  ASSUME NEW f \in File, f.synced >= f.snapLen + Len(f.cmds) + Len(f.cut)
  PROVE  OnDisk(f) = Whole(f)
<1> DEFINE s == f.snapLen + Len(f.cmds) + Len(f.cut)
           n == IF f.synced < s THEN f.synced ELSE s
<1>1. /\ OnDisk(f) \in Histories /\ IsPrefix(OnDisk(f), Whole(f))
      /\ Len(OnDisk(f)) = Parsed(f, n) /\ s \in Nat /\ n \in Nat
  BY OnDiskPart
<1>2. n = s
  <2>1. f.synced >= s /\ f.synced \in Nat
    BY FileFields
  <2> HIDE DEF s
  <2> QED BY <1>1, <2>1
<1>3. Whole(f) \in Histories /\ Len(Whole(f)) = Len(f.snap) + Len(f.cmds) + Len(f.cut)
  BY WholeReplay
<1>4. Parsed(f, s) = Len(f.snap) + Len(f.cmds) + Len(f.cut)
  <2> DEFINE a == f.snapLen
             b == Len(f.cmds)
             c == Len(f.cut)
             d == Len(f.snap)
  <2>1. a \in Nat /\ b \in Nat /\ c \in Nat /\ d \in Nat
    BY FileFields, HistoryLen
  <2>2. s = a + b + c
    OBVIOUS
  <2> HIDE DEF a, b, c, d, s, n
  <2>3. (IF s < a THEN 0 ELSE d + (s - a)) = d + b + c
    BY ONLY <2>1, <2>2
  <2> QED BY ONLY <2>3 DEF Parsed, a, b, c, d
<1>5. Len(OnDisk(f)) = Len(Whole(f))
  BY ONLY <1>1, <1>2, <1>3, <1>4, Zenon
<1>6. OnDisk(f) \in Histories /\ IsPrefix(OnDisk(f), Whole(f)) /\ Whole(f) \in Histories
  BY <1>1, <1>3
<1>7. Len(OnDisk(f)) >= Len(Whole(f))
  BY ONLY <1>5, <1>6, HistoryLen
<1> QED BY ONLY <1>6, <1>7, PrefixSameLen

\* sync_data puts on the disk what replay would see.
LEMMA OnDiskSync ==
  ASSUME NEW f \in File
  PROVE  /\ Sync(f) \in File /\ Replay(Sync(f)) = Replay(f)
         /\ OnDisk(Sync(f)) = Replay(f) /\ Whole(Sync(f)) = Replay(f)
<1> DEFINE g == Sync(f)
<1>1. g \in File /\ Replay(g) = Replay(f) /\ g.cmds = f.cmds /\ g.snapLen = f.snapLen
      /\ g.synced = Size(f) /\ g.cut = <<>>
  BY SyncReplay, SyncType
<1> HIDE DEF g
<1>2. g.synced >= g.snapLen + Len(g.cmds) + Len(g.cut)
  <2>1. /\ f.snapLen \in Nat /\ Len(f.cmds) \in Nat /\ f.junk \in Nat
    BY FileFields
  <2>2. Len(g.cut) = 0 /\ Len(g.cmds) = Len(f.cmds)
    BY <1>1
  <2>3. \A x, y, z \in Nat : x + y + z >= x + y + 0
    OBVIOUS
  <2> QED BY ONLY <1>1, <2>1, <2>2, <2>3, Zenon DEF Size
<1>3. OnDisk(g) = Whole(g) /\ Whole(g) = Replay(g)
  BY <1>1, <1>2, OnDiskAll, WholeReplay
<1> QED BY <1>1, <1>3 DEF g

\* What is on the disk of one file is on the disk of another that keeps the
\* same snapshot and has as much of its own frames synced.
LEMMA OnDiskTransfer ==
  ASSUME NEW f \in File, NEW g \in File, g.snap = f.snap, g.snapLen = f.snapLen,
         g.synced >= f.synced \/ g.synced >= g.snapLen + Len(g.cmds),
         NEW h \in Histories, IsPrefix(h, OnDisk(f)), IsPrefix(h, Replay(g))
  PROVE  IsPrefix(h, OnDisk(g))
<1> DEFINE s(x) == x.snapLen + Len(x.cmds) + Len(x.cut)
           n(x) == IF x.synced < s(x) THEN x.synced ELSE s(x)
<1>1. /\ OnDisk(f) \in Histories /\ Len(OnDisk(f)) = Parsed(f, n(f))
      /\ s(f) \in Nat /\ n(f) \in Nat
  BY OnDiskPart
<1>2. /\ OnDisk(g) \in Histories /\ Len(OnDisk(g)) = Parsed(g, n(g))
      /\ s(g) \in Nat /\ n(g) \in Nat /\ IsPrefix(OnDisk(g), Whole(g))
  BY OnDiskPart
<1>3. IsPrefix(h, Whole(g)) /\ Whole(g) \in Histories /\ Replay(g) \in Histories
      /\ Len(Replay(g)) = Len(g.snap) + Len(g.cmds)
  BY WholeReplay, ReplayType, PrefixTrans
<1>4. /\ Len(h) <= Parsed(f, n(f)) /\ Len(h) <= Len(g.snap) + Len(g.cmds) /\ Len(h) \in Nat
  <2>1. Len(h) <= Len(OnDisk(f)) /\ Len(h) <= Len(Replay(g)) /\ Len(h) \in Nat
    <3> HIDE DEF s, n
    <3> QED BY <1>1, <1>3, PrefixDef, HistoryLen
  <2> QED BY ONLY <1>1, <1>3, <2>1, Zenon
<1>5. Len(h) <= Parsed(g, n(g))
  <2> DEFINE a == g.snapLen
             b == Len(g.cmds)
             c == Len(g.cut)
             d == Len(g.snap)
             k == n(f)
             l == Len(h)
             m == n(g)
  <2>1. a \in Nat /\ b \in Nat /\ c \in Nat /\ d \in Nat /\ k \in Nat
        /\ f.synced \in Nat /\ g.synced \in Nat
    BY <1>1, FileFields, HistoryLen
  <2>2. k <= f.synced
    BY <1>1, FileFields
  <2>3. m = IF g.synced < a + b + c THEN g.synced ELSE a + b + c
    OBVIOUS
  <2>4. g.synced >= f.synced \/ g.synced >= a + b
    OBVIOUS
  <2>5. /\ Len(h) <= IF k < a THEN 0 ELSE d + (k - a)
        /\ Len(h) <= d + b /\ Len(h) \in Nat
    BY <1>4 DEF Parsed
  <2> HIDE DEF a, b, c, d, k, m, l, s, n
  <2>6. m \in Nat /\ (m >= k \/ m >= a + b)
    BY ONLY <2>1, <2>2, <2>3, <2>4
  <2>7. l <= (IF k < a THEN 0 ELSE d + (k - a)) /\ l <= d + b /\ l \in Nat
    BY <2>5 DEF l
  <2>8. l <= IF m < a THEN 0 ELSE d + (m - a)
    <3>1. CASE m < a
      BY ONLY <2>1, <2>6, <2>7, <3>1
    <3>2. CASE m >= a
      BY ONLY <2>1, <2>6, <2>7, <3>2
    <3> QED BY ONLY <2>1, <2>6, <3>1, <3>2
  <2> QED BY <2>8 DEF Parsed, a, d, m, l
<1> HIDE DEF s, n
<1>6. Len(h) <= Len(OnDisk(g))
  BY ONLY <1>2, <1>5, Zenon
<1> QED BY ONLY <1>2, <1>3, <1>6, h \in Histories, PrefixByLen

\* A power loss leaves at least what was synced and at most what was written
\* or cut off; what it leaves is on the disk.
LEMMA SurvivorsReplay ==
  ASSUME NEW f \in File, NEW g \in Survivors(f)
  PROVE  /\ g \in File /\ OnDisk(g) = Replay(g) /\ Whole(g) = Replay(g)
         /\ IsPrefix(OnDisk(f), Replay(g)) /\ IsPrefix(Replay(g), Whole(f))
<1> DEFINE u == Untruncated(f)
<1>1. /\ u \in File /\ u.junk = 0 /\ Replay(u) = Whole(f) /\ Size(u) \in Nat
      /\ f.synced \in Nat
  BY UntruncatedReplay, SizeType, FileFields
<1>2. PICK n \in {m \in 0 .. Size(u) : m >= f.synced \/ m = Size(u)}, j \in 0 .. 1 :
        g = [Sync(Keep(u, n)) EXCEPT !.junk = j]
  BY SMT DEF Survivors
<1> DEFINE k == Keep(u, n)
           o == IF f.synced < Size(u) THEN f.synced ELSE Size(u)
<1>3. n \in Nat /\ n <= Size(u) /\ o \in Nat /\ o <= n /\ o <= Size(u)
  <2> HIDE DEF u, k
  <2> QED BY <1>1
<1>4. OnDisk(f) = Replay(Keep(u, o))
  BY DEF OnDisk
<1> HIDE DEF u, o
<1>5. /\ k \in File /\ IsPrefix(Replay(k), Whole(f)) /\ Len(Replay(k)) = Parsed(u, n)
      /\ k.junk = 0 /\ Size(k) = n
  BY <1>1, <1>3, KeepReplay
<1>6. /\ OnDisk(f) \in Histories /\ IsPrefix(OnDisk(f), Whole(f))
      /\ Len(OnDisk(f)) = Parsed(u, o)
  BY <1>1, <1>3, <1>4, KeepReplay, ReplayType
<1>7. IsPrefix(OnDisk(f), Replay(k))
  <2>1. Parsed(u, o) <= Parsed(u, n)
    <3>1. u.snapLen \in Nat /\ Len(u.snap) \in Nat
      BY <1>1, FileFields, HistoryLen
    <3> QED BY ONLY <1>3, <3>1 DEF Parsed
  <2>2. Len(OnDisk(f)) <= Len(Replay(k))
    BY ONLY <1>5, <1>6, <2>1, Zenon
  <2>3. Replay(k) \in Histories /\ Whole(f) \in Histories
    BY <1>5, ReplayType, WholeReplay
  <2> QED BY ONLY <1>5, <1>6, <2>2, <2>3, PrefixByLen
<1> HIDE DEF k
<1>8. /\ g \in File /\ g.cmds = k.cmds /\ g.snap = k.snap /\ g.snapLen = k.snapLen
      /\ g.synced = Size(k) /\ g.cut = <<>>
  BY <1>2, <1>5, SurvivorsType DEF Sync, File, k
<1>9. Replay(g) = Replay(k)
  BY ONLY <1>8, Zenon DEF Replay
<1>10. g.synced >= g.snapLen + Len(g.cmds) + Len(g.cut)
  <2>1. k.snapLen \in Nat /\ Len(k.cmds) \in Nat
    BY <1>5, FileFields
  <2>2. Len(g.cut) = 0 /\ Len(g.cmds) = Len(k.cmds)
    BY <1>8
  <2>3. \A x, y \in Nat : x + y + 0 >= x + y + 0
    OBVIOUS
  <2> QED BY ONLY <1>5, <1>8, <2>1, <2>2, <2>3, Zenon DEF Size
<1>11. OnDisk(g) = Replay(g) /\ Whole(g) = Replay(g)
  BY <1>8, <1>10, OnDiskAll, WholeReplay
<1> QED BY <1>5, <1>7, <1>8, <1>9, <1>11

-----------------------------------------------------------------------------
(***************************************************************************)
(* The life of the files.  Whatever step is taken, the files do one of     *)
(* seven things.                                                           *)
(***************************************************************************)

\* What is logged is part of the key space.
LEMMA LoggedInDb == ASSUME CoreInv PROVE IsPrefix(Logged, db)
<1>1. CASE Undecided
  <2>1. PICK c \in Conns : pc[c] \in {"applied", "sent"}
    BY <1>1 DEF Undecided
  <2> DEFINE w == Last(db)
  <2>2. db = Append(undo, w) /\ w \in Nat /\ Logged = undo /\ undo \in Histories
    BY <1>1, <2>1, LoggedUnderWay, CoreTypes DEF Logged
  <2> HIDE DEF w
  <2> QED BY <2>2, AppendParts
<1>2. CASE ~Undecided
  BY <1>2, CoreTypes, PrefixRefl DEF Logged
<1> QED BY <1>1, <1>2

\* While the server runs, both the file it appends to and the file the path
\* names hold everything that is logged.
LEMMA PathLogged ==
  ASSUME CoreInv, up
  PROVE  /\ IsPrefix(Logged, Replay(active)) /\ IsPrefix(Logged, Replay(PathFile))
         /\ wpc = "switch" => PathFile = temp
         /\ wpc # "switch" => PathFile = active /\ linked = "active"
<1>1. /\ wpc = "switch" => PathFile = temp
      /\ wpc # "switch" => PathFile = active /\ linked = "active"
  BY DEF CoreInv, WriterInv, PathFile, GateInv, TypeOK, FileTypeOK
<1>2. IsPrefix(Logged, Logged) /\ IsPrefix(Logged, db)
  BY CoreTypes, LoggedInDb, PrefixRefl
<1>3. IsPrefix(Logged, Replay(active))
  <2>1. CASE wpc = "sync" \/ WriteIsLast
    BY <1>2, <2>1 DEF CoreInv, LogInv, WriteIsLast
  <2>2. CASE Replay(active) = Logged
    BY <1>2, <2>2
  <2>3. ASSUME NEW w, w = Last(Replay(active)), Replay(active) = Append(Logged, w),
               LeftBehind(w)
        PROVE  IsPrefix(Logged, Replay(active))
    <3>1. w \in Nat
      <4>1. CASE w \in rejected
        BY <4>1, CoreTypes
      <4>2. CASE w = Last(db) /\ \E c \in Conns : pc[c] = "sent"
        BY <4>2, LoggedUnderWay
      <4> QED BY <2>3, <4>1, <4>2 DEF LeftBehind
    <3> QED BY ONLY <2>3, <3>1, CoreTypes, CoreInv, AppendParts
  <2> QED BY <2>1, <2>2, <2>3 DEF CoreInv, LogInv, AtRest
<1>4. wpc = "switch" => IsPrefix(Logged, Replay(temp))
  BY <1>2 DEF CoreInv, RewriteInv
<1> QED BY <1>1, <1>3, <1>4

\* Only ReplyOk acknowledges, and what it acknowledges is logged.
AcksLogged == \/ acked' = acked
              \/ up /\ acked' = Logged

\* The files are left alone, and under appendfsync always nothing is logged.
Rests ==
  /\ UNCHANGED <<active, linked, stale, hardened, up>> /\ PathFile' = PathFile
  /\ Policy = "always" /\ up => Logged' = Logged
  /\ AcksLogged

\* The writer writes or truncates, and does not sync.
Writes ==
  /\ up /\ UNCHANGED <<linked, stale, hardened, up, acked>> /\ Logged' = Logged
  /\ linked = "active"
  /\ active'.snap = active.snap /\ active'.snapLen = active.snapLen
  /\ \/ active'.synced >= active.synced
     \/ active'.synced >= active'.snapLen + Len(active'.cmds)
  /\ IsPrefix(Whole(active'), Whole(active)) \/ Whole(active') = db

\* The writer syncs: everything answered so far is hardened.
Syncs ==
  /\ up /\ UNCHANGED <<linked, stale, up, acked>> /\ hardened' = acked
  /\ linked = "active"
  /\ \E g \in File : active' = Sync(g) /\ IsPrefix(Replay(g), Replay(active))

\* The rename: the path names the new file, for now.
Renames ==
  /\ up /\ UNCHANGED <<active, temp, hardened, up, acked>> /\ Logged' = Logged
  /\ linked = "active" /\ linked' = "temp" /\ wpc = "rename"
  /\ stale' = stale \cup {active}

\* The writer goes over to the new file.
Switches ==
  /\ up /\ UNCHANGED <<up, acked>> /\ Logged' = Logged
  /\ wpc = "switch" /\ active' = temp /\ linked' = "active"
  /\ \/ stale' = {} /\ hardened' = acked
     \/ "dirsync" \in Faults /\ UNCHANGED <<stale, hardened>>

\* Kill and PowerLoss.
Crashed ==
  /\ up /\ ~up' /\ UNCHANGED <<hardened, acked>> /\ linked' = "active"
  /\ \/ "kill" \in Crashes /\ active' = PathFile /\ stale' = stale
     \/ /\ "power" \in Crashes /\ stale' = {}
        /\ \E g \in {PathFile} \cup stale : active' \in Survivors(g)

\* Restart.
Recovers ==
  /\ ~up /\ up' /\ UNCHANGED <<linked, stale>> /\ Logged' = Replay(active)
  /\ \/ active.junk = 0 /\ active' = active /\ hardened' = hardened
     \/ /\ hardened' = acked'
        /\ \E g \in File : active' = Sync(g) /\ Replay(g) = Replay(active)
  /\ acked' = IF IsPrefix(acked, Replay(active)) THEN acked ELSE Replay(active)

\* What set_len leaves after a failed write: what was logged, and behind it
\* on the disk perhaps the write that was cut off.
LEMMA RolledBackFile ==
  ASSUME CoreInv, Handling("write"), wpc = "rollback"
  PROVE  LET g == SetLen(active, prevLen)
         IN  /\ g \in File /\ g.snap = active.snap /\ g.snapLen = active.snapLen
             /\ \/ g.synced >= active.synced \/ g.synced >= g.snapLen + Len(g.cmds)
             /\ Whole(g) = Replay(active) /\ IsPrefix(Replay(g), Replay(active))
<1> DEFINE g == SetLen(active, prevLen)
           k == Keep(active, prevLen)
           c == active.cmds
<1>1. /\ active \in File /\ prevLen \in Nat /\ SizeKept /\ up
  BY CoreTypes DEF CoreInv, WriterInv, Handling
<1>2. /\ active.snapLen \in Nat /\ Len(c) \in Nat /\ active.synced \in Nat /\ c \in Histories
      /\ Replay(active) \in Histories
  BY <1>1, FileFields, ReplayType
<1>3. /\ g \in File /\ g.snap = k.snap /\ g.snapLen = k.snapLen /\ g.cmds = k.cmds
      /\ g.synced = k.synced /\ Replay(g) = Replay(k)
      /\ g.cut = IF active.snapLen <= prevLen /\ prevLen < active.snapLen + Len(c)
                 THEN SubSeq(c, prevLen - active.snapLen + 1, Len(c)) ELSE <<>>
  BY <1>1, SetLenReplay, SetLenType
<1>4. CASE WriteIsLast
  <2>1. /\ active.junk = 0 /\ c # <<>> /\ prevLen = active.snapLen + Len(c) - 1
        /\ Len(c) >= 1
    BY <1>1, <1>2, <1>4, FrontLast DEF WriteIsLast, Size
  <2>2. /\ Replay(active) = Append(Replay(k), Last(c)) /\ k.snap = active.snap
        /\ k.snapLen = active.snapLen /\ k.cmds = Front(c) /\ k.junk = 0
        /\ k.synced = (IF prevLen < active.synced THEN prevLen ELSE active.synced)
        /\ Size(k) = prevLen
    BY <1>1, <2>1, KeepFront
  <2>3. k.synced >= active.synced \/ k.synced >= k.snapLen + Len(k.cmds)
    <3>1. k \in File
      BY <1>1, KeepType
    <3>2. k.snapLen \in Nat /\ Len(k.cmds) \in Nat
      BY <3>1, FileFields
    <3>3. k.snapLen + Len(k.cmds) = prevLen
      <4> HIDE DEF k
      <4> QED BY ONLY <2>2, <3>2 DEF Size
    <3> HIDE DEF k
    <3> QED BY ONLY <1>1, <1>2, <2>2, <3>3
  <2>4. g.cut = <<Last(c)>>
    <3>1. prevLen - active.snapLen + 1 = Len(c) /\ active.snapLen <= prevLen
          /\ prevLen < active.snapLen + Len(c)
      BY <1>2, <2>1
    <3>2. SubSeq(c, Len(c), Len(c)) = <<Last(c)>>
      <4> HIDE DEF c
      <4>1. c[Len(c)] \in Nat
        BY <1>2, <2>1, HistoryElement
      <4> DEFINE s == SubSeq(c, Len(c), Len(c))
                 e == <<c[Len(c)]>>
      <4>2. s \in Histories /\ Len(s) = 1 /\ s[1] = c[Len(c)]
        BY <1>2, <2>1 DEF Histories
      <4>3. e \in Histories /\ Len(e) = 1 /\ e[1] = c[Len(c)]
        BY <4>1 DEF Histories
      <4> HIDE DEF s, e
      <4>4. \A i \in 1 .. 1 : s[i] = e[i]
        BY <4>2, <4>3
      <4>5. s = e
        BY <4>2, <4>3, <4>4, SeqEqual DEF Histories
      <4> QED BY <4>5 DEF s, e, Last
    <3> QED BY <1>3, <3>1, <3>2
  <2>5. Replay(k) \in Histories /\ Last(c) \in Nat
    BY <1>1, <1>2, <2>1, KeepType, ReplayType, HistoryLast
  <2>6. Replay(k) \o <<Last(c)>> = Append(Replay(k), Last(c))
        /\ IsPrefix(Replay(k), Append(Replay(k), Last(c)))
    <3> HIDE DEF c, k
    <3> QED BY ONLY <2>5, ConcatAppend, AppendParts
  <2>7. Whole(g) = Replay(active)
    BY ONLY <1>3, <2>2, <2>4, <2>6, Zenon DEF Whole
  <2>8. IsPrefix(Replay(g), Replay(active))
    BY ONLY <1>3, <2>2, <2>6, Zenon
  <2>9. g.synced >= active.synced \/ g.synced >= g.snapLen + Len(g.cmds)
    BY ONLY <1>3, <2>3, Zenon
  <2> QED BY ONLY <1>3, <2>2, <2>7, <2>8, <2>9
<1>5. CASE Replay(active) = Logged /\ prevLen = active.snapLen + Len(active.cmds)
  <2>1. /\ Replay(k) = Replay(active) /\ k.cmds = c /\ k.snap = active.snap
        /\ k.snapLen = active.snapLen
        /\ k.synced = (IF prevLen < active.synced THEN prevLen ELSE active.synced)
    BY <1>1, <1>5, KeepParsed
  <2>2. g.cut = <<>>
    BY <1>1, <1>2, <1>3, <1>5
  <2> HIDE DEF g, k, c
  <2>3. Whole(g) = Replay(active) /\ IsPrefix(Replay(g), Replay(active))
    BY <1>2, <1>3, <2>1, <2>2, WholeReplay, PrefixRefl
  <2>4. g.synced >= active.synced \/ g.synced >= g.snapLen + Len(g.cmds)
    BY <1>1, <1>2, <1>3, <1>5, <2>1 DEF c
  <2> QED BY <1>3, <2>1, <2>3, <2>4 DEF g
<1> QED BY <1>1, <1>4, <1>5 DEF CoreInv, LogInv

\* Only the answer to a write that is in the file adds to what is logged.
LEMMA LoggedStep ==
  ASSUME CoreInv, [Next]_vars, up, up' PROVE Logged' = Logged \/ SyncAfterWrite
BY HistoryStep DEF Steady, Applies, TakesBack, Stops, Starts

\* A step that leaves alone the files that the path and the writer name.
LEMMA RestsWhenKept ==
  ASSUME CoreInv, [Next]_vars, ~SyncAfterWrite, AcksLogged,
         active' = active, linked' = linked, stale' = stale, hardened' = hardened, up' = up,
         temp' = temp \/ linked # "temp"
  PROVE  Rests
<1>1. PathFile' = PathFile
  BY DEF PathFile
<1>2. up => Logged' = Logged
  BY LoggedStep
<1> QED BY <1>1, <1>2 DEF Rests

\* The writer's steps.
LEMMA WriterFileStep ==
  ASSUME CoreInv, [Next]_vars, WriterStep \/ TimerStep
  PROVE  Rests \/ Writes \/ Syncs \/ Renames \/ Switches
<1>1. /\ active \in File /\ temp \in File /\ prevLen \in Nat
      /\ Replay(active) \in Histories
  BY CoreTypes
<1>2. wpc # "switch" => linked = "active"
  BY DEF CoreInv, WriterInv, GateInv, TypeOK, FileTypeOK
<1>3. CASE \/ RejectWrite \/ SyncAfterWriteFails \/ HandleStartRewrite \/ HandleAbortRewrite
           \/ FinishNotInProgress \/ FinishRenameFails \/ EverySecSyncFails
  <2>1. /\ UNCHANGED <<fileVars, up, acked>>
        /\ wpc' = "rollback" \/ ~writeFailed' \/ writeFailed \/ UNCHANGED <<ack, wpc>>
    BY <1>3 DEF RejectWrite, SyncAfterWriteFails, HandleStartRewrite, HandleAbortRewrite,
         FinishNotInProgress, FinishRenameFails, EverySecSyncFails, connVars, lifeVars
  <2>2. ~SyncAfterWrite
    BY <1>3 DEF RejectWrite, SyncAfterWriteFails, HandleStartRewrite, HandleAbortRewrite,
         FinishNotInProgress, FinishRenameFails, EverySecSyncFails, SyncAfterWrite, Handling,
         Answer
  <2>3. AcksLogged
    BY <2>1 DEF AcksLogged
  <2> QED BY <2>1, <2>2, <2>3, RestsWhenKept DEF fileVars
<1>4. CASE FinishFlush \/ FinishFlushFails
  <2>1. /\ UNCHANGED <<active, linked, stale, hardened, up, acked>> /\ wpc = "recv"
    BY <1>4 DEF FinishFlush, FinishFlushFails, connVars, lifeVars
  <2>2. ~SyncAfterWrite
    BY <2>1 DEF SyncAfterWrite
  <2>3. AcksLogged
    BY <2>1 DEF AcksLogged
  <2> QED BY <1>2, <2>1, <2>2, <2>3, RestsWhenKept
<1>5. CASE WriteOne
  <2> USE DEF WriteOne
  <2>1. /\ up /\ Logged = undo /\ db = Append(undo, Last(db)) /\ Last(db) \in Nat
        /\ Head(chan).w = Last(db) /\ undo \in Histories
    BY <1>5, HeadIsWrite, CoreTypes
  <2>2. /\ UNCHANGED <<linked, stale, hardened, up, acked>> /\ wpc = "recv" /\ ~SyncAfterWrite
    BY <1>5 DEF connVars, lifeVars, SyncAfterWrite
  <2>3. active.junk = 0 /\ Replay(active) = undo
    BY <1>5, <2>1, <2>2 DEF CoreInv, LogInv, AtRest
  <2> DEFINE w == Last(db)
             g == WriteFrames(active, <<w>>)
  <2>4. active' = g /\ <<w>> \in Histories
    BY <1>5, <2>1 DEF Histories
  <2>5. /\ Replay(g) = Replay(active) \o <<w>> /\ g.snap = active.snap
        /\ g.snapLen = active.snapLen /\ g.synced = active.synced /\ g.cut = <<>>
        /\ g \in File
    <3>1. <<w>> \in Histories
      BY <2>4
    <3> HIDE DEF w
    <3> QED BY <1>1, <2>3, <3>1, WriteFramesReplay, WriteFramesType
  <2>6. Replay(active) \o <<w>> = Append(undo, w)
    <3>1. w \in Nat
      BY <2>1
    <3> HIDE DEF w
    <3> QED BY <1>1, <2>3, <3>1, ConcatAppend
  <2>7. Whole(g) = db
    <3>1. db = Append(undo, w)
      BY <2>1
    <3> HIDE DEF w, g
    <3>2. Whole(g) = Replay(g)
      BY <2>5, WholeReplay
    <3> QED BY ONLY <2>5, <2>6, <3>1, <3>2, Zenon
  <2>8. g.synced >= active.synced
    BY <1>1, <2>5, FileFields
  <2>9. Logged' = Logged
    BY <2>1, <2>2, LoggedStep
  <2> HIDE DEF g, w
  <2> QED BY <1>2, <2>1, <2>2, <2>4, <2>5, <2>7, <2>8, <2>9 DEF Writes
<1>6. CASE WriteOneFails
  <2>1. /\ UNCHANGED <<linked, stale, hardened, up, acked>> /\ wpc = "recv" /\ up
        /\ active' = active \/ active' = WritePartial(active)
    BY <1>6 DEF WriteOneFails, connVars, lifeVars, Handling
  <2>2. ~SyncAfterWrite
    BY <2>1 DEF SyncAfterWrite
  <2>3. CASE active' = active
    <3>1. AcksLogged
      BY <2>1 DEF AcksLogged
    <3> QED BY <1>2, <2>1, <2>2, <2>3, <3>1, RestsWhenKept
  <2>4. CASE active' = WritePartial(active)
    <3> DEFINE g == WritePartial(active)
    <3>1. /\ g \in File /\ Replay(g) = Replay(active) /\ g.snap = active.snap
          /\ g.snapLen = active.snapLen /\ g.synced = active.synced /\ g.cut = <<>>
      BY <1>1, WritePartialType, WritePartialReplay
    <3>2. active.synced \in Nat
      BY <1>1, FileFields
    <3>3. Logged' = Logged
      BY <2>1, <2>2, LoggedStep
    <3> HIDE DEF g
    <3>4. IsPrefix(Whole(g), Whole(active))
      BY <1>1, <3>1, WholeReplay
    <3> QED BY <1>2, <2>1, <2>4, <3>1, <3>2, <3>3, <3>4 DEF Writes, g
  <2> QED BY <2>1, <2>3, <2>4
<1>7. CASE SyncAfterWrite
  <2>1. /\ up /\ UNCHANGED <<linked, stale, up, acked, temp>> /\ wpc = "sync"
        /\ \/ active' = Sync(active) /\ hardened' = acked
           \/ Policy # "always" /\ UNCHANGED <<active, hardened>>
    BY <1>7 DEF SyncAfterWrite, connVars, lifeVars, Handling
  <2>2. CASE active' = Sync(active) /\ hardened' = acked
    BY <1>1, <1>2, <2>1, <2>2, PrefixRefl DEF Syncs
  <2>3. CASE Policy # "always" /\ UNCHANGED <<active, hardened>>
    <3>1. AcksLogged /\ PathFile' = PathFile
      BY <2>1, <2>3 DEF AcksLogged, PathFile
    <3> QED BY <2>1, <2>3, <3>1 DEF Rests
  <2> QED BY <2>1, <2>2, <2>3
<1>8. CASE RollbackActiveFile
  <2> DEFINE g == SetLen(active, prevLen)
  <2>1. /\ Handling("write") /\ up /\ UNCHANGED <<linked, stale, up, acked, temp>>
        /\ wpc = "rollback" /\ ~SyncAfterWrite
        /\ \/ active' = Sync(g) /\ hardened' = acked
           \/ active' = g /\ UNCHANGED hardened
           \/ UNCHANGED <<active, hardened>>
    BY <1>8 DEF RollbackActiveFile, connVars, lifeVars, Handling, SyncAfterWrite
  <2>2. /\ g \in File /\ g.snap = active.snap /\ g.snapLen = active.snapLen
        /\ g.synced >= active.synced \/ g.synced >= g.snapLen + Len(g.cmds)
        /\ Whole(g) = Replay(active) /\ IsPrefix(Replay(g), Replay(active))
    BY <2>1, RolledBackFile
  <2> HIDE DEF g
  <2>3. CASE active' = Sync(g) /\ hardened' = acked
    BY <1>2, <2>1, <2>2, <2>3 DEF Syncs
  <2>4. CASE active' = g /\ UNCHANGED hardened
    <3>1. Logged' = Logged
      BY <2>1, LoggedStep
    <3>2. IsPrefix(Whole(g), Whole(active))
      BY <1>1, <2>2, WholeReplay
    <3> QED BY <1>2, <2>1, <2>2, <2>4, <3>1, <3>2 DEF Writes
  <2>5. CASE UNCHANGED <<active, hardened>>
    <3>1. AcksLogged
      BY <2>1 DEF AcksLogged
    <3> QED BY <2>1, <2>5, <3>1, RestsWhenKept
  <2> QED BY <2>1, <2>3, <2>4, <2>5
<1>9. CASE FinishRename
  <2>1. /\ up /\ UNCHANGED <<active, temp, hardened, up, acked>> /\ wpc = "rename"
        /\ linked' = "temp" /\ stale' = stale \cup {active} /\ ~SyncAfterWrite
    BY <1>9 DEF FinishRename, connVars, lifeVars, Handling, SyncAfterWrite
  <2> QED BY <1>2, <2>1, LoggedStep DEF Renames, PathFile
<1>10. CASE FinishSwitch
  <2>1. /\ up /\ UNCHANGED <<up, acked>> /\ wpc = "switch"
        /\ active' = temp /\ linked' = "active" /\ ~SyncAfterWrite
        /\ \/ stale' = {} /\ hardened' = acked
           \/ "dirsync" \in Faults /\ UNCHANGED <<stale, hardened>>
    BY <1>10 DEF FinishSwitch, connVars, lifeVars, Handling, SyncAfterWrite
  <2> QED BY <2>1, LoggedStep DEF Switches
<1>11. CASE EverySecSync
  <2>1. /\ up /\ UNCHANGED <<linked, stale, up, acked>> /\ wpc = "recv"
        /\ active' = Sync(active) /\ hardened' = acked
    BY <1>11 DEF EverySecSync, connVars, lifeVars
  <2> QED BY <1>1, <1>2, <2>1, PrefixRefl DEF Syncs
<1> QED BY <1>3, <1>4, <1>5, <1>6, <1>7, <1>8, <1>9, <1>10, <1>11 DEF WriterStep, TimerStep

\* Every step does one of the seven.
LEMMA FileStep ==
  ASSUME CoreInv, [Next]_vars
  PROVE  Rests \/ Writes \/ Syncs \/ Renames \/ Switches \/ Crashed \/ Recovers
<1>1. wpc # "switch" => linked = "active"
  BY DEF CoreInv, WriterInv, GateInv, TypeOK, FileTypeOK
<1>2. ASSUME \/ \E c \in Conns : \/ ReadWriteCommand(c) \/ RefuseCommand(c) \/ ApplyCommand(c)
                                 \/ SendToWriter(c) \/ WriterKnownFailed(c) \/ ReplyFailed(c)
             \/ \E r \in Readers : ReadCommand(r)
      PROVE  Rests
  <2> USE DEF ReadWriteCommand, RefuseCommand, ApplyCommand, SendToWriter, WriterKnownFailed,
      ReplyFailed, ReadCommand
  <2>1. UNCHANGED <<fileVars, up, acked, wpc>>
    BY <1>2 DEF lifeVars, writerVars
  <2>2. ~SyncAfterWrite
    BY <2>1 DEF SyncAfterWrite, Answer
  <2>3. AcksLogged
    BY <2>1 DEF AcksLogged
  <2> QED BY <2>1, <2>2, <2>3, RestsWhenKept DEF fileVars
<1>3. ASSUME NEW c \in Conns, ReplyOk(c) PROVE Rests
  <2>1. UNCHANGED <<fileVars, up, wpc>> /\ up /\ acked' = db
    BY <1>3 DEF ReplyOk, lifeVars, writerVars
  <2>2. ~SyncAfterWrite
    BY <2>1 DEF SyncAfterWrite, Answer
  <2>3. Logged = db
    BY <1>3, LoggedUnderWay DEF ReplyOk
  <2>4. AcksLogged
    BY <2>1, <2>3 DEF AcksLogged
  <2> QED BY <2>1, <2>2, <2>4, RestsWhenKept DEF fileVars
<1>4. CASE WriterStep \/ TimerStep
  BY <1>4, WriterFileStep
<1>5. CASE ScheduleRewrite \/ PauseWrites \/ StartRewriteBuffering \/ TakeSnapshot
           \/ UNCHANGED vars
  <2>1. UNCHANGED <<fileVars, up, acked, wpc>>
    BY <1>5 DEF ScheduleRewrite, PauseWrites, StartRewriteBuffering, TakeSnapshot, vars,
         connVars, writerVars, lifeVars
  <2>2. ~SyncAfterWrite
    BY <2>1 DEF SyncAfterWrite, Answer
  <2>3. AcksLogged
    BY <2>1 DEF AcksLogged
  <2> QED BY <2>1, <2>2, <2>3, RestsWhenKept DEF fileVars
<1>6. CASE WriteSnapshot \/ WriteSnapshotFails \/ RewriteEnds
  <2>1. UNCHANGED <<active, linked, stale, hardened, up, acked, wpc>>
    BY <1>6 DEF WriteSnapshot, WriteSnapshotFails, RewriteEnds, connVars, writerVars, lifeVars
  <2>2. ~SyncAfterWrite
    BY <2>1 DEF SyncAfterWrite, Answer
  <2>3. AcksLogged
    BY <2>1 DEF AcksLogged
  <2>4. linked # "temp"
    BY <1>1, <1>6, NoPendingTask DEF WriteSnapshot, WriteSnapshotFails, RewriteEnds
  <2> QED BY <2>1, <2>2, <2>3, <2>4, RestsWhenKept
<1>7. CASE Kill
  BY <1>7 DEF Kill, Stop, Crashed
<1>8. CASE PowerLoss
  <2>1. PICK f \in Survivors(PathFile) \cup UNION {Survivors(g) : g \in stale} : Stop(f)
    BY <1>8 DEF PowerLoss
  <2>2. \E g \in {PathFile} \cup stale : f \in Survivors(g)
    BY <2>1
  <2> QED BY <1>8, <2>1, <2>2 DEF PowerLoss, Stop, Crashed
<1>9. CASE Restart
  <2> DEFINE g == Keep(active, Size(active) - active.junk)
  <2>1. /\ ~up /\ up' /\ UNCHANGED <<linked, stale>>
        /\ acked' = IF IsPrefix(acked, Replay(active)) THEN acked ELSE Replay(active)
        /\ \/ active.junk = 0 /\ active' = active /\ hardened' = hardened
           \/ active' = Sync(g) /\ hardened' = acked'
    BY <1>9 DEF Restart
  <2>2. Logged' = Replay(active)
    BY <1>9, HistoryStep DEF Steady, Applies, TakesBack, Stops, Starts, Restart
  <2>3. g \in File /\ Replay(g) = Replay(active)
    <3>1. active \in File
      BY CoreTypes
    <3>2. /\ Size(active) - active.junk = active.snapLen + Len(active.cmds)
          /\ Size(active) - active.junk \in Nat
      BY <3>1, FileFields DEF Size
    <3> QED BY <3>1, <3>2, KeepParsed, KeepType
  <2> HIDE DEF g
  <2> QED BY <2>1, <2>2, <2>3 DEF Recovers
<1> QED
  BY <1>2, <1>3, <1>4, <1>5, <1>6, <1>7, <1>8, <1>9 DEF Next, ConnStep, RewriteStep

\* A file that was synced is what it is synced as.
LEMMA SyncTwice == ASSUME NEW f \in File PROVE Sync(Sync(f)) = Sync(f)
<1> DEFINE g == Sync(f)
<1>1. g \in File /\ g.synced = Size(f) /\ g.cut = <<>> /\ Size(g) = Size(f)
  BY SyncReplay, SyncType
<1> HIDE DEF g
<1>2. Sync(g) = g
  BY <1>1 DEF Sync, File
<1> QED BY <1>2 DEF g

\* The temporary file that may be renamed has been synced.
TempSynced == wpc \in {"rename", "switch"} => temp = Sync(temp)

\* It stays so until the writer has gone over to it.
LEMMA NextTemp ==
  ASSUME CoreInv, TempSynced, [Next]_vars PROVE TempSynced'
<1>1. CASE FinishFlush
  <2>1. WriteFrames(temp, rwBuffer.frames) \in File
    BY CoreTypes, WriteFramesType
  <2>2. temp' = Sync(WriteFrames(temp, rwBuffer.frames))
    BY <1>1 DEF FinishFlush
  <2> QED BY <2>1, <2>2, SyncTwice DEF TempSynced
<1>2. CASE FinishRename
  BY <1>2 DEF FinishRename, TempSynced
<1>3. CASE WriteSnapshot \/ WriteSnapshotFails \/ RewriteEnds
  <2>1. wpc \notin {"rename", "switch"} /\ wpc' = wpc
    BY <1>3, NoPendingTask DEF WriteSnapshot, WriteSnapshotFails, RewriteEnds, writerVars
  <2> QED BY <2>1 DEF TempSynced
<1>4. CASE \/ RejectWrite \/ WriteOne \/ WriteOneFails
           \/ SyncAfterWrite \/ SyncAfterWriteFails \/ RollbackActiveFile
           \/ HandleStartRewrite \/ HandleAbortRewrite
           \/ FinishNotInProgress \/ FinishFlushFails
           \/ FinishRenameFails \/ FinishSwitch \/ TimerStep \/ Kill \/ PowerLoss
  <2>1. wpc' \in {"recv", "sync", "rollback"}
    BY <1>4 DEF RejectWrite, WriteOne, WriteOneFails, SyncAfterWrite, SyncAfterWriteFails,
         RollbackActiveFile, HandleStartRewrite, HandleAbortRewrite, FinishNotInProgress,
         FinishFlushFails, FinishRenameFails, FinishSwitch, TimerStep, EverySecSync,
         EverySecSyncFails, Kill, PowerLoss, Stop, Answer, writerVars
  <2> QED BY <2>1 DEF TempSynced
<1>5. CASE \/ \E c \in Conns : ReadWriteCommand(c) \/ ConnStep(c)
           \/ \E r \in Readers : ReadCommand(r)
           \/ ScheduleRewrite \/ PauseWrites \/ StartRewriteBuffering \/ TakeSnapshot
           \/ Restart \/ UNCHANGED vars
  <2>1. wpc' = wpc /\ temp' = temp
    BY <1>5 DEF ReadWriteCommand, ConnStep, RefuseCommand, ApplyCommand, SendToWriter,
         WriterKnownFailed, ReplyFailed, ReplyOk, ReadCommand, ScheduleRewrite, PauseWrites,
         StartRewriteBuffering, TakeSnapshot, Restart, vars, writerVars, fileVars
  <2> QED BY <2>1 DEF TempSynced
<1> QED BY <1>1, <1>2, <1>3, <1>4, <1>5 DEF Next, WriterStep, RewriteStep

-----------------------------------------------------------------------------
(***************************************************************************)
(* The order of the writes, in the key space and in every file.            *)
(***************************************************************************)

\* The types of the next state and of the files.
LEMMA FileTypes ==
  ASSUME CoreInv
  PROVE  /\ active \in File /\ temp \in File /\ PathFile \in File /\ stale \subseteq File
         /\ hardened \in Histories /\ acked \in Histories /\ db \in Histories
         /\ issued \in Nat /\ rejected \subseteq Nat /\ Logged \in Histories
<1>1. stale \subseteq File /\ hardened \in Histories
  BY DEF CoreInv, GateInv, TypeOK, FileTypeOK
<1> QED BY <1>1, CoreTypes DEF PathFile

\* The same of the next state.
LEMMA NextFileTypes ==
  CoreInv' => /\ active' \in File /\ temp' \in File /\ PathFile' \in File /\ stale' \subseteq File
              /\ hardened' \in Histories /\ acked' \in Histories /\ db' \in Histories
              /\ issued' \in Nat /\ rejected' \subseteq Nat /\ Logged' \in Histories
<1> DEFINE T == /\ active \in File /\ temp \in File /\ PathFile \in File /\ stale \subseteq File
                /\ hardened \in Histories /\ acked \in Histories /\ db \in Histories
                /\ issued \in Nat /\ rejected \subseteq Nat /\ Logged \in Histories
<1>1. CoreInv => T
  BY FileTypes
<1> HIDE DEF T
<1>2. CoreInv' => T'
  BY <1>1, PTL
<1> QED BY <1>2 DEF T

\* While the server is down there is one file and nobody at work.
LEMMA DownPath ==
  ASSUME CoreInv, ~up PROVE PathFile = active /\ wpc = "recv"
BY DEF CoreInv, StoppedInv, WriterInv, PathFile

\* The file behind the path keeps the order, in the middle of a rewrite too.
LEMMA PathOrdered ==
  ASSUME CoreInv, OrderInv, NEW f \in {PathFile} \cup {active} \cup stale
  PROVE  Ordered(Whole(f), issued)
<1>1. CASE f \in {active} \cup stale
  BY <1>1 DEF OrderInv
<1>2. CASE f = PathFile /\ f # active
  <2>1. wpc = "switch" /\ f = temp /\ up
    BY <1>2, DownPath, PathLogged
  <2>2. Whole(temp) = Logged
    <3>1. Whole(Sync(temp)) = Replay(temp)
      BY FileTypes, OnDiskSync
    <3> QED BY <2>1, <3>1 DEF OrderInv, CoreInv, RewriteInv
  <2> QED BY <2>1, <2>2, LoggedInDb, OrderedPrefix, FileTypes DEF OrderInv
<1> QED BY <1>1, <1>2

\* OrderInv is kept by every step.
LEMMA NextOrder ==
  ASSUME CoreInv, CoreInv', OrderInv, [Next]_vars PROVE OrderInv'
<1>1. /\ active' \in File /\ PathFile' \in File /\ stale' \subseteq File /\ db' \in Histories
      /\ issued' \in Nat
  BY NextFileTypes
<1>2. /\ active \in File /\ temp \in File /\ PathFile \in File /\ stale \subseteq File
      /\ db \in Histories /\ issued \in Nat /\ Logged \in Histories
      /\ Replay(active) \in Histories
  BY FileTypes, ReplayType
<1>3. issued' >= issued
  BY <1>1, <1>2, HistoryStep DEF Steady, Applies, TakesBack, Stops, Starts
<1>4. Ordered(db, issued) /\ \A f \in {PathFile} \cup {active} \cup stale : Ordered(Whole(f), issued)
  BY PathOrdered DEF OrderInv
<1>5. ASSUME NEW h \in Histories, NEW f \in {PathFile} \cup {active} \cup stale, IsPrefix(h, Whole(f))
      PROVE  Ordered(h, issued')
  <2>1. Whole(f) \in Histories
    BY <1>2, WholeReplay
  <2> QED BY <1>1, <1>2, <1>3, <1>4, <1>5, <2>1, OrderedPrefix
<1>6. ASSUME NEW h \in Histories, IsPrefix(h, db) PROVE Ordered(h, issued')
  BY <1>1, <1>2, <1>3, <1>4, <1>6, OrderedPrefix
<1>7. IsPrefix(db, db) /\ IsPrefix(Logged, db) /\ IsPrefix(<<>>, db) /\ <<>> \in Histories
  BY <1>2, LoggedInDb, PrefixRefl, PrefixEmpty, HistoryEmpty
<1>8. \A f \in File : /\ Whole(f) \in Histories /\ IsPrefix(Whole(f), Whole(f))
                      /\ IsPrefix(Replay(f), Whole(f))
  BY WholeReplay, PrefixRefl
<1>9. Ordered(db', issued')
  <2>1. CASE Steady
    BY <1>2, <1>6, <1>7, <2>1 DEF Steady
  <2>2. CASE Applies
    BY <1>2, <1>4, <2>2, OrderedAppend DEF Applies
  <2>3. CASE TakesBack
    BY <1>2, <1>6, <1>7, <2>3 DEF TakesBack
  <2>4. CASE Stops
    BY <1>6, <1>7, <2>4 DEF Stops
  <2>5. CASE Starts
    BY <1>2, <1>5, <1>8, <2>5 DEF Starts
  <2> QED BY <2>1, <2>2, <2>3, <2>4, <2>5, HistoryStep
<1>10. Ordered(Whole(active'), issued')
  <2>1. CASE active' = active
    BY <1>2, <1>5, <1>8, <2>1
  <2>2. CASE Writes
    BY <1>1, <1>2, <1>5, <1>6, <1>7, <1>8, <2>2 DEF Writes
  <2>3. ASSUME NEW g \in File, active' = Sync(g), IsPrefix(Replay(g), Replay(active))
        PROVE  Ordered(Whole(active'), issued')
    <3>1. Whole(active') = Replay(g) /\ Replay(g) \in Histories
      BY <2>3, OnDiskSync, ReplayType
    <3>2. IsPrefix(Replay(g), Whole(active))
      BY <1>2, <1>8, <2>3, <3>1, PrefixTrans
    <3> QED BY <1>5, <3>1, <3>2
  <2>4. CASE Switches
    <3>1. active' = temp /\ up /\ PathFile = temp
      BY <2>4, PathLogged DEF Switches
    <3> QED BY <1>2, <1>5, <1>8, <3>1
  <2>5. CASE Crashed
    <3>1. CASE active' = PathFile
      BY <1>2, <1>5, <1>8, <3>1
    <3>2. ASSUME NEW g \in {PathFile} \cup stale, active' \in Survivors(g)
          PROVE  Ordered(Whole(active'), issued')
      <4>1. IsPrefix(Whole(active'), Whole(g))
        BY <1>2, <3>2, SurvivorsReplay
      <4> QED BY <1>1, <1>5, <1>8, <3>2, <4>1
    <3> QED BY <2>5, <3>1, <3>2 DEF Crashed
  <2>6. CASE Recovers
    <3>1. IsPrefix(Replay(active), Replay(active))
      BY <1>2, PrefixRefl
    <3> QED BY <2>1, <2>3, <2>6, <3>1 DEF Recovers
  <2> QED BY <2>1, <2>2, <2>3, <2>4, <2>5, <2>6, FileStep DEF Rests, Renames, Syncs
<1>11. stale' \subseteq stale \cup {active}
  BY FileStep DEF Rests, Writes, Syncs, Renames, Switches, Crashed, Recovers
<1>12. \A f \in stale' : Ordered(Whole(f), issued')
  BY <1>1, <1>5, <1>8, <1>11
<1>13. TempSynced'
  BY NextTemp DEF OrderInv, TempSynced
<1> QED BY <1>9, <1>10, <1>12, <1>13 DEF OrderInv, TempSynced

-----------------------------------------------------------------------------
(***************************************************************************)
(* Rejected writes.                                                        *)
(***************************************************************************)

\* When every truncation succeeds the file behind the path holds no more than
\* the key space.
LEMMA PathInDb ==
  ASSUME CoreInv, up, "setlen" \notin Faults PROVE IsPrefix(Replay(PathFile), db)
<1>1. IsPrefix(db, db) /\ IsPrefix(Logged, db)
  BY FileTypes, LoggedInDb, PrefixRefl
<1>2. Replay(active) = db \/ Replay(active) = Logged
  BY DEF CoreInv, LogInv, AtRest, WriteIsLast, LeftBehind
<1>3. wpc = "switch" => Replay(temp) = Logged
  BY DEF CoreInv, RewriteInv
<1> QED BY <1>1, <1>2, <1>3, PathLogged

\* The same of the next state.
LEMMA NextPathInDb ==
  "setlen" \notin Faults /\ CoreInv' /\ up' => IsPrefix(Replay(PathFile'), db')
<1> DEFINE P == IsPrefix(Replay(PathFile), db)
           D == "setlen" \notin Faults
<1>1. D /\ CoreInv /\ up => P
  BY PathInDb
<1>2. D => D'
  OBVIOUS
<1> HIDE DEF P, D
<1>3. D /\ CoreInv' /\ up' => P'
  BY <1>1, <1>2, PTL
<1> QED BY <1>3 DEF P, D

\* RejectInv is kept by every step.
LEMMA NextReject ==
  ASSUME CoreInv, CoreInv', OrderInv, RejectInv, [Next]_vars PROVE RejectInv'
<1> SUFFICES ASSUME "power" \notin Crashes, "setlen" \notin Faults, NEW w \in rejected'
             PROVE  /\ w <= issued' /\ ~Contains(db', w) /\ ~Contains(Replay(PathFile'), w)
  BY DEF RejectInv
<1>1. /\ db' \in Histories /\ issued' \in Nat /\ PathFile' \in File /\ Replay(PathFile') \in Histories
      /\ w \in Nat
  BY NextFileTypes, ReplayType
<1>2. /\ db \in Histories /\ issued \in Nat /\ Logged \in Histories /\ active \in File
      /\ Replay(active) \in Histories /\ IsPrefix(Logged, db)
  BY FileTypes, ReplayType, LoggedInDb
<1>3. \A v \in rejected : /\ v <= issued /\ ~Contains(db, v) /\ ~Contains(Replay(PathFile), v)
  BY DEF RejectInv
<1>4. w <= issued' /\ ~Contains(db', w)
  <2>1. CASE Steady
    BY <1>3, <2>1 DEF Steady
  <2>2. CASE Applies
    <3>1. w \in rejected /\ issued' = issued + 1 /\ db' = Append(db, issued + 1)
      BY <2>2 DEF Applies
    <3>2. w <= issued /\ issued + 1 \in Nat /\ w # issued + 1
      BY <1>1, <1>2, <1>3, <3>1
    <3> QED BY <1>1, <1>2, <1>3, <3>1, <3>2, ContainsAppend
  <2>3. CASE TakesBack
    <3>1. CASE w \in rejected
      BY <1>2, <1>3, <2>3, <3>1, ContainsPrefix DEF TakesBack
    <3>2. CASE w = Last(db)
      <4>1. db = Append(Logged, w) /\ Ordered(db, issued) /\ db' = Logged /\ issued' = issued
        BY <2>3, <3>2 DEF TakesBack, OrderInv
      <4>2. Ordered(Append(Logged, w), issued)
        BY ONLY <4>1, Zenon
      <4>3. ~Contains(Logged, w) /\ w <= issued
        BY ONLY <1>1, <1>2, <4>2, OrderedLast
      <4> QED BY ONLY <4>1, <4>3, Zenon
    <3> QED BY <2>3, <3>1, <3>2 DEF TakesBack
  <2>4. CASE Stops
    BY <1>3, <2>4 DEF Stops, Contains
  <2>5. CASE Starts
    BY <1>3, <2>5, DownPath DEF Starts
  <2> QED BY <2>1, <2>2, <2>3, <2>4, <2>5, HistoryStep
<1>5. CASE up'
  <2>1. IsPrefix(Replay(PathFile'), db')
    BY <1>5, NextPathInDb
  <2> QED BY <1>1, <1>4, <2>1, ContainsPrefix
<1>6. CASE ~up'
  <2>1. rejected' = rejected
    BY <1>6, HistoryStep DEF Steady, Applies, TakesBack, Stops, Starts
  <2>2. PathFile' = PathFile
    BY <1>6, FileStep DEF Rests, Writes, Syncs, Renames, Switches, Crashed, Recovers, PathFile
  <2> QED BY <1>3, <1>4, <2>1, <2>2
<1> QED BY <1>5, <1>6

-----------------------------------------------------------------------------
(***************************************************************************)
(* What crashes leave of the writes that were answered.                    *)
(***************************************************************************)

\* PathLogged of the next state, with what was acknowledged.
LEMMA NextPathLogged ==
  CoreInv' /\ up' => /\ IsPrefix(Logged', Replay(active')) /\ IsPrefix(Logged', Replay(PathFile'))
                     /\ IsPrefix(acked', Logged')
<1> DEFINE P == /\ IsPrefix(Logged, Replay(active)) /\ IsPrefix(Logged, Replay(PathFile))
                /\ IsPrefix(acked, Logged)
<1>1. CoreInv /\ up => P
  BY PathLogged DEF CoreInv, ConnInv
<1> HIDE DEF P
<1>2. CoreInv' /\ up' => P'
  BY <1>1, PTL
<1> QED BY <1>2 DEF P

\* What a power loss leaves of f holds the histories that it must hold.
Holding(f, h, a, l) ==
  /\ IsPrefix(h, OnDisk(f))
  /\ Policy = "always" => IsPrefix(a, OnDisk(f)) /\ IsPrefix(l, OnDisk(f))

\* A file that is on the disk as it is holds every part of itself.
LEMMA HoldingAll ==
  ASSUME NEW f \in File, OnDisk(f) = Replay(f), NEW h, NEW a, NEW l,
         IsPrefix(h, Replay(f)), IsPrefix(a, Replay(f)), IsPrefix(l, Replay(f))
  PROVE  Holding(f, h, a, l)
BY DEF Holding

\* A file that was written to, or cut off behind what is logged.
LEMMA HoldingTransfer ==
  ASSUME NEW f \in File, NEW g \in File, g.snap = f.snap, g.snapLen = f.snapLen,
         g.synced >= f.synced \/ g.synced >= g.snapLen + Len(g.cmds),
         NEW h \in Histories, NEW a \in Histories, NEW l \in Histories,
         IsPrefix(h, Replay(g)), IsPrefix(a, Replay(g)), IsPrefix(l, Replay(g)),
         Holding(f, h, a, l)
  PROVE  Holding(g, h, a, l)
<1>1. IsPrefix(h, OnDisk(g))
  BY OnDiskTransfer DEF Holding
<1>2. ASSUME Policy = "always" PROVE IsPrefix(a, OnDisk(g)) /\ IsPrefix(l, OnDisk(g))
  <2>1. IsPrefix(a, OnDisk(f)) /\ IsPrefix(l, OnDisk(f))
    BY <1>2 DEF Holding
  <2> QED BY <2>1, OnDiskTransfer
<1> QED BY <1>1, <1>2 DEF Holding

\* What an fsync has covered was acknowledged, and stays so.
LEMMA NextHardened ==
  ASSUME CoreInv, CoreInv', DurableInv, [Next]_vars PROVE HardenedAcked'
<1> SUFFICES ASSUME "power" \notin Crashes \/ DirectoryKept PROVE IsPrefix(hardened', acked')
  BY DEF HardenedAcked, DirectoryKept
<1>1. /\ hardened \in Histories /\ acked \in Histories /\ Logged \in Histories
      /\ hardened' \in Histories /\ acked' \in Histories
  BY FileTypes, NextFileTypes
<1>2. IsPrefix(hardened, acked)
  BY DEF DurableInv, HardenedAcked
<1>3. up => IsPrefix(acked, Logged)
  BY DEF CoreInv, ConnInv
<1>4. CASE Rests
  BY <1>1, <1>2, <1>3, <1>4, PrefixTrans DEF Rests, AcksLogged
<1>5. CASE Writes \/ Syncs \/ Renames \/ Switches \/ Crashed
  BY <1>1, <1>2, <1>5, PrefixRefl DEF Writes, Syncs, Renames, Switches, Crashed
<1>6. CASE Recovers
  <2>1. CASE hardened' = acked'
    BY <1>1, <2>1, PrefixRefl
  <2>2. CASE hardened' = hardened
    <3>1. ~up /\ PathFile = active
      BY <1>6, DownPath DEF Recovers
    <3>2. IsPrefix(hardened, Replay(active))
      <4>1. CASE "power" \notin Crashes
        <5>1. IsPrefix(acked, Replay(active)) /\ Replay(active) \in Histories
          BY <3>1, <4>1, FileTypes, ReplayType DEF DurableInv, AckedWritten
        <5> QED BY <1>1, <1>2, <5>1, PrefixTrans
      <4>2. CASE DirectoryKept
        BY <3>1, <4>2 DEF DurableInv, PowerSafe
      <4> QED BY <4>1, <4>2
    <3> QED BY <1>2, <1>6, <2>2, <3>2 DEF Recovers
  <2> QED BY <1>6, <2>1, <2>2 DEF Recovers
<1> QED BY <1>4, <1>5, <1>6, FileStep

\* kill -9 takes nothing that was acknowledged.
LEMMA NextAcked ==
  ASSUME CoreInv, CoreInv', DurableInv, [Next]_vars PROVE AckedWritten'
<1> SUFFICES ASSUME "power" \notin Crashes PROVE IsPrefix(acked', Replay(PathFile'))
  BY DEF AckedWritten
<1>1. /\ acked' \in Histories /\ Logged' \in Histories /\ Replay(PathFile') \in Histories
  BY NextFileTypes, ReplayType
<1>2. CASE up'
  BY <1>1, <1>2, NextPathLogged, PrefixTrans
<1>3. CASE ~up'
  <2>1. PathFile' = PathFile /\ acked' = acked
    BY <1>3, FileStep
    DEF Rests, Writes, Syncs, Renames, Switches, Crashed, Recovers, PathFile, AcksLogged
  <2> QED BY <2>1 DEF DurableInv, AckedWritten
<1> QED BY <1>2, <1>3

\* A power loss takes nothing that was hardened, and with appendfsync always
\* nothing that was acknowledged or logged.
LEMMA NextPower ==
  ASSUME CoreInv, CoreInv', OrderInv, DurableInv, [Next]_vars PROVE PowerSafe'
<1> SUFFICES ASSUME DirectoryKept PROVE PowerSafe'
  BY DEF PowerSafe, DirectoryKept
<1>1. /\ active \in File /\ temp \in File /\ PathFile \in File /\ stale \subseteq File
      /\ hardened \in Histories /\ acked \in Histories /\ Logged \in Histories
      /\ Replay(active) \in Histories
  BY FileTypes, ReplayType
<1>2. /\ active' \in File /\ PathFile' \in File /\ stale' \subseteq File
      /\ hardened' \in Histories /\ acked' \in Histories /\ Logged' \in Histories
      /\ Replay(active') \in Histories
  BY NextFileTypes, ReplayType
<1>3. "kill" \notin Crashes /\ "dirsync" \notin Faults
  BY DEF DirectoryKept
<1>4. /\ stale # {} => wpc = "switch"
      /\ ~up => OnDisk(active) = Replay(active)
      /\ IsPrefix(hardened, acked)
  BY DEF DurableInv, HardenedAcked, PowerSafe
<1>5. \A f \in {PathFile} \cup stale :
        /\ IsPrefix(hardened, OnDisk(f))
        /\ Policy = "always" =>
            /\ IsPrefix(acked, OnDisk(f))
            /\ up => IsPrefix(Logged, OnDisk(f))
  BY DEF DurableInv, PowerSafe
<1>6. up => /\ IsPrefix(acked, Logged) /\ IsPrefix(hardened, Logged)
            /\ \A f \in {PathFile} \cup stale : Holding(f, hardened, acked, Logged)
  BY <1>1, <1>4, <1>5, PrefixTrans DEF CoreInv, ConnInv, Holding
<1>7. /\ linked = "temp" <=> wpc = "switch"
      /\ linked' = "temp" <=> wpc' = "switch"
      /\ linked = "active" => PathFile = active /\ stale = {}
      /\ linked' = "active" => PathFile' = active'
  BY <1>4 DEF CoreInv, WriterInv, PathFile
<1>8. up' => /\ IsPrefix(Logged', Replay(active')) /\ IsPrefix(acked', Logged')
             /\ IsPrefix(acked', Replay(active'))
  BY <1>2, NextPathLogged, PrefixTrans
<1>9. stale' # {} => wpc' = "switch"
  <2>1. CASE Rests
    BY <1>4, <1>7, <2>1 DEF Rests
  <2>2. CASE Writes \/ Syncs
    BY <1>7, <2>2 DEF Writes, Syncs
  <2>3. CASE Renames
    BY <1>7, <2>3 DEF Renames
  <2>4. CASE Switches \/ Crashed
    BY <1>3, <2>4 DEF Switches, Crashed
  <2>5. CASE Recovers
    BY <1>4, <1>7, <2>5, DownPath DEF Recovers
  <2> QED BY <2>1, <2>2, <2>3, <2>4, <2>5, FileStep
<1>10. ASSUME Crashed
       PROVE  /\ ~up' /\ PathFile' = active' /\ stale' = {} /\ OnDisk(active') = Replay(active')
              /\ IsPrefix(hardened', OnDisk(active'))
              /\ Policy = "always" => IsPrefix(acked', OnDisk(active'))
  <2>1. PICK g \in {PathFile} \cup stale : active' \in Survivors(g)
    BY <1>3, <1>10 DEF Crashed
  <2>2. /\ ~up' /\ linked' = "active" /\ stale' = {} /\ hardened' = hardened /\ acked' = acked
    BY <1>3, <1>10 DEF Crashed
  <2>3. OnDisk(active') = Replay(active') /\ IsPrefix(OnDisk(g), Replay(active'))
        /\ OnDisk(g) \in Histories
    BY <1>1, <2>1, SurvivorsReplay, OnDiskPart
  <2>4. IsPrefix(hardened, Replay(active')) /\ (Policy = "always" => IsPrefix(acked, Replay(active')))
    BY <1>1, <1>2, <1>5, <2>1, <2>3, PrefixTrans
  <2> QED BY <1>7, <2>2, <2>3, <2>4
<1>11. ~up' => OnDisk(active') = Replay(active')
  BY <1>4, <1>10, FileStep DEF Rests, Writes, Syncs, Renames, Switches, Recovers
<1>12. ASSUME up' PROVE \A f \in {PathFile'} \cup stale' : Holding(f, hardened', acked', Logged')
  <2>1. CASE Rests
    BY <1>5, <1>12, <2>1 DEF Rests, AcksLogged, Holding
  <2>2. CASE Writes
    <3>1. /\ up /\ stale' = {} /\ PathFile' = active' /\ PathFile = active
          /\ hardened' = hardened /\ acked' = acked /\ Logged' = Logged
          /\ active'.snap = active.snap /\ active'.snapLen = active.snapLen
          /\ \/ active'.synced >= active.synced
             \/ active'.synced >= active'.snapLen + Len(active'.cmds)
      BY <1>7, <2>2 DEF Writes
    <3>2. IsPrefix(hardened, Replay(active')) /\ IsPrefix(acked, Replay(active'))
          /\ IsPrefix(Logged, Replay(active'))
      BY <1>1, <1>2, <1>6, <1>8, <1>12, <3>1, PrefixTrans
    <3>3. Holding(active, hardened, acked, Logged)
      BY <1>6, <3>1
    <3>4. Holding(active', hardened, acked, Logged)
      BY <1>1, <1>2, <3>1, <3>2, <3>3, HoldingTransfer
    <3> QED BY <3>1, <3>4
  <2>3. CASE Syncs
    <3>1. /\ stale' = {} /\ PathFile' = active' /\ hardened' = acked'
      BY <1>7, <2>3 DEF Syncs
    <3>2. OnDisk(active') = Replay(active')
      BY <2>3, OnDiskSync DEF Syncs
    <3> QED BY <1>2, <1>8, <1>12, <3>1, <3>2, HoldingAll
  <2>4. CASE Renames \/ Switches
    <3>1. up /\ wpc \in {"rename", "switch"} /\ Logged' = Logged /\ acked' = acked
      BY <2>4 DEF Renames, Switches
    <3>2. OnDisk(temp) = Replay(temp) /\ Replay(temp) = Logged
      <4>1. temp = Sync(temp)
        BY <3>1 DEF OrderInv
      <4>2. OnDisk(Sync(temp)) = Replay(temp)
        BY <1>1, OnDiskSync
      <4>3. OnDisk(temp) = Replay(temp)
        BY ONLY <4>1, <4>2, Zenon
      <4> QED BY <3>1, <4>3 DEF CoreInv, RewriteInv
    <3>3. IsPrefix(Logged, Logged)
      BY <1>1, PrefixRefl
    <3>4. /\ PathFile' = temp /\ IsPrefix(hardened', Logged)
          /\ \A f \in stale' : f = active /\ f = PathFile /\ hardened' = hardened
      BY <1>3, <1>6, <1>7, <2>4, <3>1 DEF Renames, Switches, PathFile
    <3>5. Holding(temp, hardened', acked', Logged')
      BY <1>1, <1>6, <3>1, <3>2, <3>3, <3>4, HoldingAll
    <3>6. \A f \in stale' : Holding(f, hardened', acked', Logged')
      BY <1>6, <3>1, <3>4
    <3> QED BY <3>4, <3>5, <3>6
  <2>5. CASE Recovers
    <3>1. /\ ~up /\ PathFile = active /\ linked' = linked /\ stale' = stale
          /\ wpc = "recv" /\ linked # "temp" /\ stale = {} /\ Logged' = Replay(active)
          /\ acked' = IF IsPrefix(acked, Replay(active)) THEN acked ELSE Replay(active)
      BY <1>4, <1>7, <2>5, DownPath DEF Recovers
    <3>2. PathFile' = active' /\ stale' = {}
      BY <3>1 DEF PathFile
    <3>3. OnDisk(active) = Replay(active) /\ IsPrefix(hardened, Replay(active))
      BY <1>4, <1>5, <3>1
    <3>4. OnDisk(active') = Replay(active') /\ Replay(active') = Replay(active)
          /\ hardened' \in {hardened, acked'}
      <4>1. CASE active' = active /\ hardened' = hardened
        BY <3>3, <4>1
      <4>2. ASSUME NEW g \in File, active' = Sync(g), Replay(g) = Replay(active), hardened' = acked'
            PROVE  OnDisk(active') = Replay(active') /\ Replay(active') = Replay(active)
        BY <4>2, OnDiskSync
      <4> QED BY <2>5, <4>1, <4>2 DEF Recovers
    <3>5. IsPrefix(hardened', Replay(active'))
      BY <1>8, <1>12, <3>3, <3>4
    <3> QED BY <1>2, <1>8, <1>12, <3>2, <3>4, <3>5, HoldingAll
  <2> QED BY <1>10, <1>12, <2>1, <2>2, <2>3, <2>4, <2>5, FileStep
<1>13. ASSUME ~up', NEW f \in {PathFile'} \cup stale'
       PROVE  /\ IsPrefix(hardened', OnDisk(f))
              /\ Policy = "always" => IsPrefix(acked', OnDisk(f))
  <2>1. CASE Rests
    BY <1>5, <1>13, <2>1 DEF Rests, AcksLogged
  <2>2. CASE Crashed
    BY <1>10, <1>13, <2>2
  <2> QED BY <1>13, <2>1, <2>2, FileStep DEF Writes, Syncs, Renames, Switches, Recovers
<1> QED BY <1>9, <1>11, <1>12, <1>13 DEF PowerSafe, Holding

-----------------------------------------------------------------------------
(***************************************************************************)
(* The inductive invariant, and what follows from it.                      *)
(***************************************************************************)
FullInv == CoreInv /\ SeenInv /\ OrderInv /\ RejectInv /\ DurableInv

\* main has replayed an empty file and nobody has connected.
LEMMA InitFull == Init => FullInv
<1> SUFFICES ASSUME Init PROVE FullInv
  OBVIOUS
<1> USE DEF Init
<1>1. CoreInv
  BY InitCore
<1>2. EmptyFile \in File /\ Replay(EmptyFile) = <<>> /\ EmptyFile.cut = <<>>
      /\ IsPrefix(<<>>, <<>>) /\ <<>> \in Histories
  BY HistoryEmpty, NewFileType, NewFileReplay, PrefixRefl DEF EmptyFile
<1>3. Whole(EmptyFile) = <<>> /\ OnDisk(EmptyFile) = <<>>
  <2>1. Whole(EmptyFile) = <<>>
    BY <1>2, WholeReplay
  <2>2. IsPrefix(OnDisk(EmptyFile), <<>>) /\ OnDisk(EmptyFile) \in Histories
    BY <1>2, <2>1, OnDiskPart
  <2>3. Len(OnDisk(EmptyFile)) >= Len(<<>>)
    BY <2>2, HistoryLen
  <2> QED BY <1>2, <2>1, <2>2, <2>3, PrefixSameLen
<1>4. PathFile = EmptyFile /\ Logged = <<>>
  <2>1. \A c \in Conns : pc[c] = "idle"
    OBVIOUS
  <2> QED BY <2>1, LoggedQuiet DEF PathFile
<1>5. SeenInv
  BY <1>2 DEF SeenInv
<1>6. OrderInv
  BY <1>3 DEF OrderInv, Ordered
<1>7. RejectInv
  BY DEF RejectInv
<1>8. HardenedAcked /\ AckedWritten
  BY <1>2, <1>4 DEF HardenedAcked, AckedWritten
<1>9. PowerSafe
  BY <1>2, <1>3, <1>4 DEF PowerSafe
<1> QED BY <1>1, <1>5, <1>6, <1>7, <1>8, <1>9 DEF FullInv, DurableInv

\* The full invariant is kept by every step.
LEMMA NextFull == ASSUME RollbackSound PROVE FullInv /\ [Next]_vars => FullInv'
<1> SUFFICES ASSUME FullInv, [Next]_vars PROVE FullInv'
  OBVIOUS
<1>1. CoreInv /\ CoreInv'
  BY NextCore DEF FullInv
<1> QED BY <1>1, NextSeen, NextOrder, NextReject, NextHardened, NextAcked, NextPower
    DEF FullInv, DurableInv

\* The full invariant is an invariant.
LEMMA FullAlways == ASSUME RollbackSound PROVE Spec => []FullInv
<1>1. Init => FullInv
  BY InitFull
<1>2. FullInv /\ [Next]_vars => FullInv'
  BY NextFull
<1> QED BY <1>1, <1>2, PTL DEF Spec

\* AofInv, all the parts together, is an invariant of the write path: what
\* run_writer, the connections and the rewrite task assume of each other.
THEOREM AofInvariant == ASSUME RollbackSound PROVE Spec => []AofInv
<1>1. FullInv => AofInv
  BY DEF FullInv, AofInv, CoreInv
<1> QED BY <1>1, FullAlways, PTL

\* ReadsAtMostOneAhead: a read command, which takes no side of the gate, sees
\* at most one write that is taken back later.
THEOREM ReadersAtMostOneAhead == ASSUME RollbackSound PROVE Spec => []ReadsAtMostOneAhead
<1>1. FullInv => ReadsAtMostOneAhead
  <2> SUFFICES ASSUME FullInv, NEW r \in Readers
               PROVE  \/ IsPrefix(seen[r], db)
                      \/ /\ seen[r] # <<>> /\ Last(seen[r]) \in rejected
                         /\ IsPrefix(Front(seen[r]), db)
    BY DEF ReadsAtMostOneAhead
  <2>1. CASE IsPrefix(seen[r], db)
    BY <2>1
  <2>2. CASE seen[r] # <<>> /\ Last(seen[r]) \in rejected /\ IsPrefix(Front(seen[r]), Logged)
    <3>1. seen[r] \in Histories
      BY DEF FullInv, CoreInv, GateInv, TypeOK, ConnTypeOK
    <3>2. Front(seen[r]) \in Histories
      BY <2>2, <3>1, FrontLast
    <3> QED BY <2>2, <3>2, FileTypes, LoggedInDb, PrefixTrans DEF FullInv
  <2> QED BY <2>1, <2>2 DEF FullInv, SeenInv
<1> QED BY <1>1, FullAlways, PTL

\* AckedOnDisk: every write answered without an error is in the file that the
\* next start replays, after kill -9 under every policy, and after a power
\* loss under appendfsync always if sync_parent_dir does its work.
THEOREM AckedSurvives ==
  ASSUME RollbackSound, "power" \notin Crashes \/ (Policy = "always" /\ DirectoryKept)
  PROVE  Spec => []AckedOnDisk
<1>1. FullInv => AckedOnDisk
  <2> SUFFICES ASSUME FullInv PROVE IsPrefix(acked, Replay(PathFile))
    BY DEF AckedOnDisk
  <2>1. CoreInv /\ AckedWritten /\ PowerSafe
    BY DEF FullInv, DurableInv
  <2>2. acked \in Histories /\ Logged \in Histories /\ Replay(PathFile) \in Histories
    BY <2>1, FileTypes, ReplayType
  <2>3. CASE up
    BY <2>1, <2>2, <2>3, PathLogged, PrefixTrans DEF CoreInv, ConnInv
  <2>4. CASE ~up
    BY <2>1, <2>4, DownPath DEF AckedWritten, PowerSafe
  <2> QED BY <2>3, <2>4
<1> QED BY <1>1, FullAlways, PTL

\* HardenedSurvives: what a sync has covered is never lost, not by a power
\* loss either, whatever the policy.
THEOREM HardenedNeverLost ==
  ASSUME RollbackSound, "power" \notin Crashes \/ DirectoryKept
  PROVE  Spec => []HardenedSurvives
<1>1. FullInv => HardenedSurvives
  <2> SUFFICES ASSUME FullInv PROVE IsPrefix(hardened, Replay(PathFile))
    BY DEF HardenedSurvives
  <2>1. CoreInv /\ HardenedAcked /\ AckedWritten /\ PowerSafe
    BY DEF FullInv, DurableInv
  <2>2. acked \in Histories /\ hardened \in Histories /\ Logged \in Histories
        /\ Replay(PathFile) \in Histories
    BY <2>1, FileTypes, ReplayType
  <2>3. IsPrefix(hardened, acked)
    BY <2>1 DEF HardenedAcked
  <2>4. CASE up
    <3>1. IsPrefix(acked, Logged) /\ IsPrefix(Logged, Replay(PathFile))
      BY <2>1, <2>4, PathLogged DEF CoreInv, ConnInv
    <3> QED BY <2>2, <2>3, <3>1, PrefixTrans
  <2>5. CASE ~up /\ "power" \notin Crashes
    BY <2>1, <2>2, <2>3, <2>5, PrefixTrans DEF AckedWritten
  <2>6. CASE ~up /\ DirectoryKept
    BY <2>1, <2>6, DownPath DEF PowerSafe
  <2> QED BY <2>4, <2>5, <2>6
<1> QED BY <1>1, FullAlways, PTL

\* NoResurrection: a write answered "ERR AOF write failed" is gone for good,
\* as long as set_len does not fail and the power stays on.
THEOREM RejectedStayAway ==
  ASSUME RollbackSound, "power" \notin Crashes, "setlen" \notin Faults
  PROVE  Spec => []NoResurrection
<1>1. FullInv => NoResurrection
  BY DEF FullInv, RejectInv, NoResurrection
<1> QED BY <1>1, FullAlways, PTL

\* Once the writer has failed the file behind the path is left alone or
\* synced, or another takes its place in the rename.
LEMMA FailedFileStep ==
  ASSUME CoreInv, [Next]_vars, writeFailed, writeFailed'
  PROVE  /\ up
         /\ \/ PathFile' = PathFile
            \/ wpc # "switch" /\ linked' = linked /\ active' = Sync(active)
            \/ wpc = "rename" /\ linked' = "temp" /\ temp' = temp
<1>1. /\ wpc \notin {"sync", "rollback"} /\ up
      /\ linked = "temp" <=> wpc = "switch"
      /\ linked \in {"active", "temp"}
  BY DEF CoreInv, WriterInv, StoppedInv, GateInv, TypeOK, FileTypeOK
<1>2. CASE \/ \E c \in Conns : ReadWriteCommand(c) \/ ConnStep(c)
           \/ \E q \in Readers : ReadCommand(q)
  BY <1>1, <1>2 DEF ConnStep, ReadWriteCommand, RefuseCommand, ApplyCommand, SendToWriter,
       WriterKnownFailed, ReplyFailed, ReplyOk, ReadCommand, Reject, fileVars, PathFile
<1>3. CASE RejectWrite \/ HandleStartRewrite \/ HandleAbortRewrite \/ FinishNotInProgress
           \/ FinishRenameFails \/ EverySecSyncFails
  BY <1>1, <1>3 DEF RejectWrite, HandleStartRewrite, HandleAbortRewrite, FinishNotInProgress,
       FinishRenameFails, EverySecSyncFails, fileVars, PathFile
<1>4. CASE FinishFlush \/ FinishFlushFails
  BY <1>1, <1>4 DEF FinishFlush, FinishFlushFails, PathFile
<1>5. CASE FinishRename
  BY <1>1, <1>5 DEF FinishRename
<1>6. CASE FinishSwitch
  BY <1>1, <1>6 DEF FinishSwitch, PathFile
<1>7. CASE EverySecSync
  BY <1>1, <1>7 DEF EverySecSync
<1>8. CASE ScheduleRewrite \/ PauseWrites \/ StartRewriteBuffering \/ TakeSnapshot
           \/ UNCHANGED vars
  BY <1>1, <1>8 DEF ScheduleRewrite, PauseWrites, StartRewriteBuffering, TakeSnapshot, vars,
       fileVars, PathFile
<1>9. CASE WriteSnapshot \/ WriteSnapshotFails \/ RewriteEnds
  <2>1. linked = "active"
    BY <1>1, <1>9, NoPendingTask DEF WriteSnapshot, WriteSnapshotFails, RewriteEnds
  <2> QED BY <1>1, <1>9, <2>1 DEF WriteSnapshot, WriteSnapshotFails, RewriteEnds, PathFile
<1>10. CASE Kill \/ PowerLoss \/ Restart
  BY <1>1, <1>10 DEF Kill, PowerLoss, Stop, Restart
<1>11. ~(WriteOne \/ WriteOneFails \/ SyncAfterWrite \/ SyncAfterWriteFails
         \/ RollbackActiveFile)
  BY <1>1 DEF WriteOne, WriteOneFails, SyncAfterWrite, SyncAfterWriteFails, RollbackActiveFile
<1> QED BY <1>2, <1>3, <1>4, <1>5, <1>6, <1>7, <1>8, <1>9, <1>10, <1>11
        DEF Next, WriterStep, TimerStep, RewriteStep

\* LogKeepsHistory: the rename of finish_rewrite_file leaves what a restart
\* would rebuild as it is, but for the one unacknowledged write that a failed
\* rollback may have left; and after write_failed nothing is added to it.
THEOREM LogKeeps == ASSUME RollbackSound PROVE Spec => LogKeepsHistory
<1> DEFINE A == linked = "active" /\ linked' = "temp"
                => \/ Replay(temp) = Replay(active)
                   \/ /\ writeFailed /\ Replay(temp) = Front(Replay(active))
                      /\ ~Contains(acked, Last(Replay(active)))
           B == writeFailed /\ writeFailed'
                => IsPrefix(Replay(PathFile)', Replay(PathFile))
<1>1. FullInv /\ [Next]_vars => A
  <2> SUFFICES ASSUME FullInv, [Next]_vars, linked = "active", linked' = "temp"
               PROVE  \/ Replay(temp) = Replay(active)
                      \/ /\ writeFailed /\ Replay(temp) = Front(Replay(active))
                         /\ ~Contains(acked, Last(Replay(active)))
    OBVIOUS
  <2>1. CoreInv /\ OrderInv
    BY DEF FullInv
  <2>2. up /\ wpc = "rename"
    BY <2>1, FileStep DEF Rests, Writes, Syncs, Renames, Switches, Crashed, Recovers
  <2>3. Replay(temp) = Logged /\ AtRest /\ IsPrefix(acked, Logged)
    BY <2>1, <2>2 DEF CoreInv, RewriteInv, LogInv, ConnInv
  <2>4. CASE Replay(active) = Logged
    BY <2>3, <2>4
  <2>5. CASE Replay(active) # Logged
    <3> DEFINE w == Last(Replay(active))
               h == Replay(active)
    <3>1. writeFailed /\ LeftBehind(w) /\ h = Append(Logged, w)
      BY <2>3, <2>5 DEF AtRest
    <3>2. active \in File /\ h \in Histories /\ Logged \in Histories /\ acked \in Histories
          /\ issued \in Nat /\ Whole(active) \in Histories /\ IsPrefix(h, Whole(active))
      BY <2>1, FileTypes, ReplayType, WholeReplay
    <3>3. w \in Nat
      <4>1. w \in rejected \/ \E c \in Conns : pc[c] = "sent" /\ w = Last(db)
        BY <3>1 DEF LeftBehind
      <4> QED BY <2>1, <4>1, FileTypes, LoggedUnderWay
    <3>4. Ordered(h, issued)
      <4>1. Ordered(Whole(active), issued)
        BY <2>1 DEF OrderInv
      <4> HIDE DEF h
      <4> QED BY <3>2, <4>1, OrderedPrefix
    <3> HIDE DEF w, h
    <3>5. ~Contains(Logged, w) /\ Front(h) = Logged
      <4>1. Ordered(Append(Logged, w), issued)
        BY ONLY <3>1, <3>4, Zenon
      <4>2. Front(Append(Logged, w)) = Logged
        BY ONLY <3>2, <3>3, AppendParts
      <4> QED BY ONLY <3>1, <3>2, <3>3, <4>1, <4>2, OrderedLast
    <3>6. ~Contains(acked, w)
      BY <2>3, <3>2, <3>5, ContainsPrefix
    <3> QED BY <2>3, <3>1, <3>5, <3>6 DEF w, h
  <2> QED BY <2>4, <2>5
<1>2. FullInv /\ [Next]_vars => B
  <2> SUFFICES ASSUME FullInv, [Next]_vars, writeFailed, writeFailed'
               PROVE  IsPrefix(Replay(PathFile)', Replay(PathFile))
    OBVIOUS
  <2>1. CoreInv
    BY DEF FullInv
  <2>2. up /\ PathFile \in File /\ active \in File /\ Replay(PathFile) \in Histories
    BY <2>1, FailedFileStep, FileTypes, ReplayType
  <2>3. IsPrefix(Replay(PathFile), Replay(PathFile))
    BY <2>2, PrefixRefl
  <2>4. CASE PathFile' = PathFile
    <3>1. Replay(PathFile)' = Replay(PathFile)
      BY <2>4 DEF Replay
    <3> QED BY <2>3, <3>1
  <2>5. CASE wpc # "switch" /\ linked' = linked /\ active' = Sync(active)
    <3>1. PathFile = active /\ linked = "active"
      BY <2>1, <2>2, <2>5, PathLogged
    <3>2. PathFile' = Sync(active)
      BY <2>5, <3>1 DEF PathFile
    <3>3. Replay(Sync(active)) = Replay(active)
      BY <2>2 DEF Replay, Sync, File
    <3>4. Replay(PathFile)' = Replay(PathFile')
      BY DEF Replay
    <3> QED BY <2>3, <3>1, <3>2, <3>3, <3>4
  <2>6. CASE wpc = "rename" /\ linked' = "temp" /\ temp' = temp
    <3>1. Replay(temp) = Logged
      BY <2>1, <2>6 DEF CoreInv, RewriteInv
    <3>2. PathFile' = temp
      BY <2>6 DEF PathFile
    <3>3. Replay(PathFile)' = Replay(PathFile')
      BY DEF Replay
    <3>4. IsPrefix(Logged, Replay(PathFile))
      BY <2>1, <2>2, PathLogged
    <3> QED BY <3>1, <3>2, <3>3, <3>4
  <2> QED BY <2>1, <2>4, <2>5, <2>6, FailedFileStep
<1>3. FullInv /\ [Next]_vars => [A /\ B]_vars
  BY <1>1, <1>2
<1> QED BY <1>3, FullAlways, PTL DEF Spec, LogKeepsHistory


=============================================================================
