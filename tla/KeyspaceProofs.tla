--------------------------- MODULE KeyspaceProofs ---------------------------
(***************************************************************************)
(* The expiration index is exact, the sweeper invisible, a write that      *)
(* fails leaves nothing behind, and what reads reply: proved for all       *)
(* values of the constants of Keyspace.                                    *)
(*                                                                         *)
(* What commands do to a slot is the subject of CommandsProofs.  Every     *)
(* step of Keyspace applies them to slots, or puts back an entry that was  *)
(* read from a good one (Stepping).  That a write fails on its own is then *)
(* harmless; one that is taken back needs to know in addition which keys   *)
(* it has touched and that the rollback snapshot shows them as they were   *)
(* (WriteInv).                                                             *)
(***************************************************************************)
EXTENDS Keyspace, CommandsProofs
-----------------------------------------------------------------------------
\* IndexExact made inductive: the rows are exact, the entries that a rollback
\* may put back are well-formed, the sweeper's time is not ahead of the clock,
\* and a command that is under way is one that from_frame accepts.
KeyInv ==
    /\ slots = [k \in Keys |-> slots[k]]
    /\ rollback = [k \in Keys |-> rollback[k]]
    /\ \A k \in Keys : Good(slots[k]) /\ IsEntry(rollback[k])
    /\ now \in Int /\ sweepNow \in Int /\ sweepNow <= now
    /\ phase # "idle" => cmd \in Command

\* A step that locks one shard and writes one key leaves the others alone.
LEMMA OneKey ==
    ASSUME NEW f, f = [k \in Keys |-> f[k]], NEW h, NEW x
    PROVE  LET g == [f EXCEPT ![h] = x]
           IN  /\ g = [k \in Keys |-> g[k]]
               /\ \A k \in Keys : g[k] = IF k = h THEN x ELSE f[k]
OBVIOUS

\* The server starts with an empty key space and no command.
LEMMA Starting == Init => KeyInv
BY EmptyIsGood, AbsentIsEntry DEF Init, KeyInv

\* When handle drops the gate it drops the rollback snapshot.
LEMMA Ending ==
    ASSUME NEW r, EndWrite(r)
    PROVE  /\ rollback' = [k \in Keys |-> rollback'[k]]
           /\ \A k \in Keys : IsEntry(rollback'[k])
           /\ phase' = "idle"
BY AbsentIsEntry DEF EndWrite

\* Every step of a write command, of the sweeper and of the clock preserves
\* the invariant: one case per action.
LEMMA Stepping == KeyInv /\ [Next]_vars => KeyInv'
<1> SUFFICES ASSUME KeyInv, [Next]_vars PROVE KeyInv'
    OBVIOUS
<1> USE DEF KeyInv
<1>1. CASE Tick
    BY <1>1 DEF Tick, writeVars, sweepVars
<1>2. ASSUME NEW c \in Requests, BeginWrite(c) PROVE KeyInv'
    BY <1>2, KeyspaceAssumption DEF BeginWrite, sweepVars
<1>3. CASE SnapshotKey
    <2> DEFINE h == Head(todo)
               x == slots[h].entry
    <2>1. slots' = slots /\ now' = now /\ sweepNow' = sweepNow /\ cmd' = cmd
        BY <1>3 DEF SnapshotKey, sweepVars
    <2>2. phase # "idle" BY <1>3 DEF SnapshotKey
    <2>3. rollback' = [rollback EXCEPT ![h] = x] BY <1>3 DEF SnapshotKey
    <2>4. h \in Keys => IsEntry(x) BY DEF Good
    <2> HIDE DEF h, x
    <2>5. /\ rollback' = [k \in Keys |-> rollback'[k]]
          /\ \A k \in Keys : IsEntry(rollback'[k])
        BY <2>3, <2>4, OneKey
    <2> QED BY <2>1, <2>2, <2>5
<1>4. CASE ApplyToKey
    <2> DEFINE h == Head(todo)
               r == Apply(cmd, slots[h], now)
    <2>1. slots' = [slots EXCEPT ![h] = r.slot] BY <1>4 DEF ApplyToKey
    <2>2. now' = now /\ sweepNow' = sweepNow BY <1>4 DEF ApplyToKey, sweepVars
    <2>3. cmd \in Command BY <1>4 DEF ApplyToKey
    <2>4. h \in Keys => Good(r.slot) BY <2>3, Applying DEF Command
    <2>5. EndWrite("error") \/ UNCHANGED <<cmd, rollback>>
        BY <1>4 DEF ApplyToKey
    <2> HIDE DEF h, r
    <2>6. slots' = [k \in Keys |-> slots'[k]] /\ \A k \in Keys : Good(slots'[k])
        BY <2>1, <2>4, OneKey
    <2> QED BY <2>2, <2>3, <2>5, <2>6, Ending
<1>5. CASE LogOk
    BY <1>5, Ending DEF LogOk, sweepVars
<1>6. CASE LogFails
    BY <1>6 DEF LogFails, sweepVars
<1>7. CASE RestoreKey
    <2> DEFINE h == Head(todo)
               x == RestoreEntry(slots[h], rollback[h])
    <2>1. slots' = [slots EXCEPT ![h] = x] BY <1>7 DEF RestoreKey
    <2>2. now' = now /\ sweepNow' = sweepNow BY <1>7 DEF RestoreKey, sweepVars
    <2>3. cmd \in Command BY <1>7 DEF RestoreKey
    <2>4. h \in Keys => Good(x) BY Restoring
    <2>5. EndWrite("rejected") \/ UNCHANGED <<cmd, rollback>>
        BY <1>7 DEF RestoreKey
    <2> HIDE DEF h, x
    <2>6. slots' = [k \in Keys |-> slots'[k]] /\ \A k \in Keys : Good(slots'[k])
        BY <2>1, <2>4, OneKey
    <2> QED BY <2>2, <2>3, <2>5, <2>6, Ending
<1>8. CASE BeginSweep
    BY <1>8 DEF BeginSweep, writeVars
<1>9. CASE SweepShard
    <2>1. \A k \in Keys : Good(SweepEntry(slots[k], sweepNow))
        BY Sweeping, EmptyIsGood
    <2> QED BY <1>9, <2>1 DEF SweepShard, writeVars
<1>10. CASE UNCHANGED vars
    BY <1>10 DEF vars, writeVars, sweepVars
<1> QED
    BY <1>1, <1>2, <1>3, <1>4, <1>5, <1>6, <1>7, <1>8, <1>9, <1>10
    DEF Next, WriteStep, SweepStep

\* KeyInv holds throughout: the fact both theorems rest on.
LEMMA Invariance == Spec => []KeyInv
BY Starting, Stepping, PTL DEF Spec

\* The expiration index of db/expire.rs is exact at every moment: for every
\* set of keys, commands, shards and deadlines, each key with a deadline is in
\* exactly one row, its own, and no other key is in any.
THEOREM IndexAlwaysExact == Spec => []IndexExact
<1>1. KeyInv => IndexExact BY DEF KeyInv, Good, Indexed, IndexExact
<1> QED BY <1>1, Invariance, PTL

\* The entry a step of the sweeper leaves is, for a reader, the one it found.
LEMMA SweepUnseen ==
    ASSUME KeyInv, SweepStep, NEW k \in Keys
    PROVE  Live(slots'[k].entry, now) = Live(slots[k].entry, now)
<1>1. CASE BeginSweep BY <1>1 DEF BeginSweep
<1>2. CASE SweepShard
    <2> DEFINE e == slots[k].entry
    <2>1. slots'[k].entry \in {e, IF Expired(e, sweepNow) THEN Absent ELSE e}
        BY <1>2, Sweeping DEF SweepShard, KeyInv, EmptySlot
    <2>2. Expired(e, sweepNow) => Expired(e, now)
        BY Lasting DEF KeyInv, Good
    <2>3. ~Expired(Absent, now) BY DEF Expired, Absent
    <2> QED BY <2>1, <2>2, <2>3 DEF Live
<1> QED BY <1>1, <1>2 DEF SweepStep

\* No step of sweep_once changes what a reader sees, however long ago it read
\* the clock and whatever commands have run since.
THEOREM SweepNeverShows == Spec => SweepIsInvisible
<1> DEFINE Same == \A k \in Keys :
               Live(slots'[k].entry, now) = Live(slots[k].entry, now)
<1>1. KeyInv => [SweepStep => Same]_vars BY SweepUnseen
<1> QED BY <1>1, Invariance, PTL DEF SweepIsInvisible

-----------------------------------------------------------------------------
(***************************************************************************)
(* The write command that holds the gate.                                  *)
(***************************************************************************)

\* The types, with entries that are well formed wherever one is kept.
Framed ==
    /\ before = [k \in Keys |-> before[k]]
    /\ \A k \in Keys : /\ WellFormed(slots[k].entry)
                       /\ WellFormed(rollback[k])
                       /\ WellFormed(before[k])
    /\ now \in Times /\ sweepNow \in Times /\ sweepAt \in 0 .. NumShards
    /\ phase \in {"idle", "snapshot", "apply", "logging", "restore"}
    /\ reply \in {"none", "ok", "error", "rejected"}
    /\ cmd \in Requests \cup {NoCmd}
    /\ phase # "idle" => cmd \in Requests
    /\ todo \in Seq(Keys)
    /\ phase \in {"snapshot", "apply", "restore"} => todo # <<>>

\* A reader sees of the key, or would see of what was saved of it, what it would see
\* had the command not come.
SeenAsBefore(k) == Live(slots[k].entry, now) = Live(before[k], now)
SavedAsBefore(k) == Live(rollback[k], now) = Live(before[k], now)

\* How far the command is, and which keys are as before.  The keys of the command have
\* been saved before it is applied, and it only touches those; as long as it may still
\* fail on its own it has touched none.
Progress ==
    /\ phase = "idle" /\ reply \in {"error", "rejected"} => \A k \in Keys : SeenAsBefore(k)
    /\ phase = "snapshot" =>
          \A k \in Keys : /\ SeenAsBefore(k)
                          /\ k \in ToSet(cmd.keys) \ ToSet(todo) => SavedAsBefore(k)
    /\ phase = "apply" =>
          /\ \/ \A k \in Keys : SeenAsBefore(k)
             \/ cmd.op = "del"
             \/ cmd.op = "mset" /\ ~TooLarge(<<cmd.val>>)
          /\ cmd.op \notin {"mset", "del"} => Len(todo) = 1
          /\ ToSet(todo) \subseteq ToSet(cmd.keys)
    /\ phase \in {"apply", "logging"} =>
          \A k \in Keys : IF k \in ToSet(cmd.keys) THEN SavedAsBefore(k) ELSE SeenAsBefore(k)
    /\ phase = "restore" =>
          \A k \in Keys : IF k \in ToSet(todo) THEN SavedAsBefore(k) ELSE SeenAsBefore(k)

WriteInv == KeyInv /\ Framed /\ Progress

\* The phases after the first have a command and keys to visit.
LEMMA Visiting ==
    ASSUME Framed, phase \in {"snapshot", "apply", "restore"}
    PROVE  /\ cmd \in Requests /\ cmd \in Command
           /\ Head(todo) \in Keys /\ Tail(todo) \in Seq(Keys)
           /\ ToSet(todo) = {Head(todo)} \cup ToSet(Tail(todo))
           /\ Len(todo) = 1 => Tail(todo) = <<>>
           /\ ~TooLarge(<<cmd.val>>)
BY HeadAndTail, KeyspaceAssumption DEF Framed

\* Framed is kept, action by action.
LEMMA NextFramed ==
    ASSUME KeyInv, Framed, [Next]_vars
    PROVE  Framed'
<1>a. /\ slots = [k \in Keys |-> slots[k]] /\ rollback = [k \in Keys |-> rollback[k]]
      /\ \A k \in Keys : Good(slots[k])
    BY DEF KeyInv
<1>b. WellFormed(Absent) /\ <<>> \in Seq(Keys) BY MakeEntry, EmptySeq
<1>c. NumShards \in Nat \ {0} /\ MaxTime \in Nat /\ Times = 0 .. MaxTime
    BY KeyspaceAssumption, CommandsAssumption DEF Times
<1>d. ASSUME NEW r \in {"ok", "error", "rejected"}, EndWrite(r)
      PROVE  /\ phase' = "idle" /\ cmd' = NoCmd /\ todo' = <<>> /\ reply' = r
             /\ \A k \in Keys : WellFormed(rollback'[k])
    BY <1>b, <1>d DEF EndWrite
<1>1. CASE Tick
    BY <1>1, <1>c DEF Tick, Framed, writeVars, sweepVars
<1>2. ASSUME NEW c \in Requests, BeginWrite(c) PROVE Framed'
    <2>1. MutatedKeys(c) \in Seq(Keys) /\ MutatedKeys(c) # <<>>
        BY KeysOf, KeyspaceAssumption
    <2>2. /\ phase' = "snapshot" /\ cmd' = c /\ todo' = MutatedKeys(c) /\ reply' = "none"
          /\ before' = [k \in Keys |-> slots[k].entry]
          /\ UNCHANGED <<slots, now, rollback, sweepAt, sweepNow>>
        BY <1>2 DEF BeginWrite, sweepVars
    <2> QED BY <2>1, <2>2 DEF Framed
<1>3. CASE SnapshotKey
    <2> DEFINE h == Head(todo)
               x == slots[h].entry
    <2>1. cmd \in Requests /\ cmd \in Command /\ h \in Keys /\ Tail(todo) \in Seq(Keys)
        BY <1>3, Visiting DEF SnapshotKey
    <2>2. cmd.keys \in Seq(Keys) /\ cmd.keys # <<>> BY <2>1, KeysOf
    <2>3. WellFormed(x) BY <2>1 DEF Framed
    <2>4. /\ rollback' = [rollback EXCEPT ![h] = x]
          /\ \/ Tail(todo) # <<>> /\ todo' = Tail(todo) /\ phase' = "snapshot"
             \/ todo' = cmd.keys /\ phase' = "apply"
          /\ UNCHANGED <<slots, now, cmd, reply, before, sweepAt, sweepNow>>
        BY <1>3 DEF SnapshotKey, sweepVars
    <2> HIDE DEF h, x
    <2>5. \A k \in Keys : WellFormed(rollback'[k])
        BY <1>a, <2>3, <2>4, OneKey DEF Framed
    <2> QED BY <2>1, <2>2, <2>4, <2>5 DEF Framed
<1>4. CASE ApplyToKey
    <2> DEFINE h == Head(todo)
               r == Apply(cmd, slots[h], now)
               x == r.slot
    <2>1. /\ cmd \in Requests /\ cmd \in Command /\ h \in Keys /\ Tail(todo) \in Seq(Keys)
          /\ ~TooLarge(<<cmd.val>>)
        BY <1>4, Visiting DEF ApplyToKey
    <2>2. WellFormed(x.entry)
        BY <1>a, <2>1, ApplyEntry DEF Framed, Harmless
    <2>3. slots' = [slots EXCEPT ![h] = x] BY <1>4 DEF ApplyToKey
    <2>4. \/ EndWrite("error")
          \/ /\ todo' = Tail(todo)
             /\ phase' = IF Tail(todo) = <<>> THEN "logging" ELSE "apply"
             /\ UNCHANGED <<cmd, rollback, reply>>
        BY <1>4 DEF ApplyToKey
    <2>5. UNCHANGED <<before, now, sweepAt, sweepNow>>
        BY <1>4 DEF ApplyToKey, sweepVars
    <2> HIDE DEF h, r, x
    <2>6. \A k \in Keys : WellFormed(slots'[k].entry)
        BY <1>a, <2>2, <2>3, OneKey DEF Framed
    <2>7. CASE EndWrite("error") BY <1>b, <1>d, <2>5, <2>6, <2>7 DEF Framed
    <2>8. CASE ~EndWrite("error") BY <2>1, <2>4, <2>5, <2>6, <2>8 DEF Framed
    <2> QED BY <2>7, <2>8
<1>5. CASE LogOk
    <2>1. EndWrite("ok") /\ UNCHANGED <<slots, now, before, sweepAt, sweepNow>>
        BY <1>5 DEF LogOk, sweepVars
    <2> QED BY <1>b, <1>d, <2>1 DEF Framed
<1>6. CASE LogFails
    <2>1. cmd \in Command BY <1>6, KeyspaceAssumption DEF LogFails, Framed
    <2>2. MutatedKeys(cmd) \in Seq(Keys) /\ MutatedKeys(cmd) # <<>> BY <2>1, KeysOf
    <2>3. /\ phase = "logging" /\ phase' = "restore" /\ todo' = MutatedKeys(cmd)
          /\ UNCHANGED <<slots, now, cmd, rollback, reply, before, sweepAt, sweepNow>>
        BY <1>6 DEF LogFails, sweepVars
    <2> QED BY <2>2, <2>3 DEF Framed
<1>7. CASE RestoreKey
    <2> DEFINE h == Head(todo)
               x == RestoreEntry(slots[h], rollback[h])
    <2>1. cmd \in Requests /\ h \in Keys /\ Tail(todo) \in Seq(Keys)
        BY <1>7, Visiting DEF RestoreKey
    <2>2. x.entry = rollback[h] BY <1>a, <2>1, Restored
    <2>3. slots' = [slots EXCEPT ![h] = x] BY <1>7 DEF RestoreKey
    <2>4. \/ EndWrite("rejected")
          \/ /\ Tail(todo) # <<>> /\ todo' = Tail(todo)
             /\ UNCHANGED <<phase, cmd, rollback, reply>>
        BY <1>7 DEF RestoreKey
    <2>5. UNCHANGED <<before, now, sweepAt, sweepNow>>
        BY <1>7 DEF RestoreKey, sweepVars
    <2>6. WellFormed(x.entry) BY <2>1, <2>2 DEF Framed
    <2> HIDE DEF h, x
    <2>7. \A k \in Keys : WellFormed(slots'[k].entry)
        BY <1>a, <2>3, <2>6, OneKey DEF Framed
    <2>8. CASE EndWrite("rejected") BY <1>b, <1>d, <2>5, <2>7, <2>8 DEF Framed
    <2>9. CASE ~EndWrite("rejected") BY <2>1, <2>4, <2>5, <2>7, <2>9 DEF Framed
    <2> QED BY <2>8, <2>9
<1>8. CASE BeginSweep
    BY <1>8, <1>c DEF BeginSweep, Framed, writeVars
<1>9. CASE SweepShard
    <2>1. \A k \in Keys : WellFormed(SweepEntry(slots[k], sweepNow).entry)
        BY <1>b DEF SweepEntry, Framed
    <2>2. \A k \in Keys : WellFormed(slots'[k].entry)
        BY <1>9, <2>1 DEF SweepShard, Framed
    <2>3. sweepAt' \in 0 .. NumShards BY <1>9, <1>c DEF SweepShard, Framed
    <2> QED BY <1>9, <2>2, <2>3 DEF SweepShard, Framed, writeVars
<1>10. CASE UNCHANGED vars
    BY <1>10 DEF vars, Framed, writeVars, sweepVars
<1> QED
    BY <1>1, <1>2, <1>3, <1>4, <1>5, <1>6, <1>7, <1>8, <1>9, <1>10
    DEF Next, WriteStep, SweepStep

\* Two entries that look the same look the same later on.
LEMMA StillSame ==
    ASSUME NEW e, NEW f, IsEntry(e), IsEntry(f), NEW n \in Int, NEW m \in Int, n <= m,
           Live(e, n) = Live(f, n)
    PROVE  Live(e, m) = Live(f, m)
<1>1. \A x \in {e, f} : Expired(x, n) => Expired(x, m) BY Lasting
<1>2. ~Expired(Absent, n) /\ ~Expired(Absent, m) BY DEF Expired, Absent
<1> QED BY <1>1, <1>2 DEF Live

\* The clock and the sweeper disturb neither what is seen nor what was saved.
LEMMA Undisturbed ==
    ASSUME KeyInv, Framed, UNCHANGED <<before, rollback>>,
           Tick \/ SweepStep, NEW k \in Keys
    PROVE  /\ SeenAsBefore(k) => SeenAsBefore(k)'
           /\ SavedAsBefore(k) => SavedAsBefore(k)'
<1>1. IsEntry(slots[k].entry) /\ IsEntry(rollback[k]) /\ IsEntry(before[k])
    BY TakeEntry DEF Framed
<1>2. CASE Tick
    <2>1. slots' = slots /\ now \in Int /\ now' \in Int /\ now <= now'
        BY <1>2 DEF Tick, KeyInv
    <2> QED BY <1>1, <2>1, StillSame DEF SeenAsBefore, SavedAsBefore
<1>3. CASE SweepStep
    <2>1. now' = now BY <1>3 DEF SweepStep, BeginSweep, SweepShard
    <2>2. Live(slots'[k].entry, now) = Live(slots[k].entry, now) BY <1>3, SweepUnseen
    <2> QED BY <2>1, <2>2 DEF SeenAsBefore, SavedAsBefore
<1> QED BY <1>2, <1>3

\* Progress is kept, action by action.
LEMMA NextProgress ==
    ASSUME KeyInv, Framed, Progress, [Next]_vars
    PROVE  Progress'
<1>a. /\ slots = [k \in Keys |-> slots[k]] /\ rollback = [k \in Keys |-> rollback[k]]
      /\ \A k \in Keys : Good(slots[k]) /\ WellFormed(slots[k].entry)
    BY DEF KeyInv, Framed
<1>1. CASE Tick \/ SweepStep
    <2>1. UNCHANGED <<phase, cmd, todo, rollback, reply, before>>
        BY <1>1 DEF Tick, SweepStep, BeginSweep, SweepShard, writeVars
    <2>2. \A k \in Keys : /\ SeenAsBefore(k) => SeenAsBefore(k)'
                          /\ SavedAsBefore(k) => SavedAsBefore(k)'
        BY <1>1, <2>1, Undisturbed
    <2> QED BY <2>1, <2>2 DEF Progress
<1>2. ASSUME NEW c \in Requests, BeginWrite(c) PROVE Progress'
    <2>1. ToSet(MutatedKeys(c)) = ToSet(c.keys) BY KeysOf, KeyspaceAssumption
    <2>2. /\ phase' = "snapshot" /\ cmd' = c /\ todo' = MutatedKeys(c)
          /\ before' = [k \in Keys |-> slots[k].entry] /\ slots' = slots
        BY <1>2 DEF BeginWrite
    <2>3. \A k \in Keys : SeenAsBefore(k)' BY <2>2 DEF SeenAsBefore
    <2> QED BY <2>1, <2>2, <2>3 DEF Progress
<1>3. CASE SnapshotKey
    <2> DEFINE h == Head(todo)
               x == slots[h].entry
    <2>1. /\ cmd \in Command /\ h \in Keys /\ ToSet(todo) = {h} \cup ToSet(Tail(todo))
        BY <1>3, Visiting DEF SnapshotKey
    <2>2. phase = "snapshot" /\ UNCHANGED <<slots, now, cmd, before>>
        BY <1>3 DEF SnapshotKey
    <2>3. /\ rollback' = [rollback EXCEPT ![h] = x]
          /\ \/ todo' = Tail(todo) /\ phase' = "snapshot"
             \/ Tail(todo) = <<>> /\ todo' = cmd.keys /\ phase' = "apply"
        BY <1>3 DEF SnapshotKey
    <2>4. \A k \in Keys : SeenAsBefore(k) /\ SeenAsBefore(k)'
        BY <2>2 DEF Progress, SeenAsBefore
    <2>5. \A k \in Keys : rollback'[k] = IF k = h THEN x ELSE rollback[k]
        <3> HIDE DEF h, x
        <3> QED BY <1>a, <2>3, OneKey
    <2>6. ASSUME NEW k \in Keys, k \in ToSet(cmd.keys) \ ToSet(Tail(todo)) PROVE SavedAsBefore(k)'
        <3>1. CASE k = h BY <2>2, <2>4, <2>5, <3>1 DEF SeenAsBefore, SavedAsBefore
        <3>2. CASE k # h
            <4>1. SavedAsBefore(k) BY <2>1, <2>2, <2>6, <3>2 DEF Progress
            <4> QED BY <2>2, <2>5, <3>2, <4>1 DEF SavedAsBefore
        <3> QED BY <3>1, <3>2
    <2> HIDE DEF h, x
    <2>7. CASE todo' = Tail(todo) /\ phase' = "snapshot"
        BY <2>2, <2>4, <2>6, <2>7 DEF Progress
    <2>8. CASE Tail(todo) = <<>> /\ todo' = cmd.keys /\ phase' = "apply"
        <3>1. ToSet(Tail(todo)) = {} BY <2>8 DEF ToSet
        <3>2. cmd.op \notin {"mset", "del"} => Len(cmd.keys) = 1 BY <2>1, ApplyMany
        <3> QED BY <2>2, <2>4, <2>6, <2>8, <3>1, <3>2 DEF Progress
    <2> QED BY <2>3, <2>7, <2>8
<1>4. CASE ApplyToKey
    <2> DEFINE h == Head(todo)
               r == Apply(cmd, slots[h], now)
               x == r.slot
    <2>1. /\ cmd \in Command /\ h \in Keys /\ ToSet(todo) = {h} \cup ToSet(Tail(todo))
          /\ Len(todo) = 1 => Tail(todo) = <<>>
          /\ ~TooLarge(<<cmd.val>>)
        BY <1>4, Visiting DEF ApplyToKey
    <2>2. phase = "apply" /\ now' = now /\ before' = before
        BY <1>4 DEF ApplyToKey
    <2>3. slots' = [slots EXCEPT ![h] = x] BY <1>4 DEF ApplyToKey
    <2>4. Harmless(r, slots[h], now) BY <1>a, <2>1, ApplyEntry
    <2>5. /\ cmd.op = "del" => r.err = FALSE
          /\ cmd.op = "mset" => (r.err = TRUE <=> TooLarge(<<cmd.val>>))
        BY <2>1, ApplyMany
    <2>6. \/ r.err /\ EndWrite("error")
          \/ /\ ~r.err /\ todo' = Tail(todo)
             /\ phase' = IF Tail(todo) = <<>> THEN "logging" ELSE "apply"
             /\ UNCHANGED <<cmd, rollback, reply>>
        BY <1>4 DEF ApplyToKey
    <2>7. h \in ToSet(cmd.keys) BY <2>1, <2>2 DEF Progress
    <2>8. r.err => Live(x.entry, now) = Live(slots[h].entry, now) BY <2>4 DEF Harmless
    <2> HIDE DEF h, r, x
    <2>9. \A k \in Keys : slots'[k] = IF k = h THEN x ELSE slots[k]
        BY <1>a, <2>3, OneKey
    <2>10. CASE r.err /\ EndWrite("error")
        <3>1. \A k \in Keys : SeenAsBefore(k)
            BY <2>2, <2>5, <2>10 DEF Progress
        <3>2. \A k \in Keys : SeenAsBefore(k)'
            BY <2>2, <2>8, <2>9, <2>10, <3>1 DEF SeenAsBefore
        <3>3. phase' = "idle" BY <2>10 DEF EndWrite
        <3> QED BY <3>2, <3>3 DEF Progress
    <2>11. CASE ~r.err /\ todo' = Tail(todo) /\ UNCHANGED <<cmd, rollback, reply>>
                /\ phase' = IF Tail(todo) = <<>> THEN "logging" ELSE "apply"
        <3>1. \A k \in Keys : IF k \in ToSet(cmd.keys) THEN SavedAsBefore(k)' ELSE SeenAsBefore(k)'
            BY <2>2, <2>7, <2>9, <2>11 DEF Progress, SavedAsBefore, SeenAsBefore
        <3>2. Tail(todo) # <<>> => cmd.op = "del" \/ (cmd.op = "mset" /\ ~TooLarge(<<cmd.val>>))
            BY <2>1, <2>2, <2>5, <2>11 DEF Progress
        <3>3. ToSet(Tail(todo)) \subseteq ToSet(cmd.keys) BY <2>1, <2>2 DEF Progress
        <3> QED BY <2>11, <3>1, <3>2, <3>3 DEF Progress
    <2> QED BY <2>6, <2>10, <2>11
<1>5. CASE LogOk
    BY <1>5 DEF LogOk, EndWrite, Progress
<1>6. CASE LogFails
    <2>1. cmd \in Command BY <1>6, KeyspaceAssumption DEF LogFails, Framed
    <2>2. ToSet(MutatedKeys(cmd)) = ToSet(cmd.keys) BY <2>1, KeysOf
    <2>3. /\ phase = "logging" /\ phase' = "restore" /\ todo' = MutatedKeys(cmd)
          /\ UNCHANGED <<slots, now, cmd, rollback, before>>
        BY <1>6 DEF LogFails
    <2> QED BY <2>2, <2>3 DEF Progress, SavedAsBefore, SeenAsBefore
<1>7. CASE RestoreKey
    <2> DEFINE h == Head(todo)
               x == RestoreEntry(slots[h], rollback[h])
    <2>1. h \in Keys /\ ToSet(todo) = {h} \cup ToSet(Tail(todo))
        BY <1>7, Visiting DEF RestoreKey
    <2>2. phase = "restore" /\ now' = now /\ before' = before BY <1>7 DEF RestoreKey
    <2>3. slots' = [slots EXCEPT ![h] = x] BY <1>7 DEF RestoreKey
    <2>4. \/ Tail(todo) = <<>> /\ EndWrite("rejected")
          \/ todo' = Tail(todo) /\ phase' = "restore" /\ rollback' = rollback
        BY <1>7 DEF RestoreKey
    <2>5. x.entry = rollback[h] BY <1>a, <2>1, Restored
    <2> HIDE DEF h, x
    <2>6. \A k \in Keys : slots'[k] = IF k = h THEN x ELSE slots[k]
        BY <1>a, <2>3, OneKey
    <2>7. ASSUME NEW k \in Keys, k \notin ToSet(Tail(todo)) PROVE SeenAsBefore(k)'
        <3>1. CASE k = h
            <4>1. SavedAsBefore(k) BY <2>1, <2>2, <3>1 DEF Progress
            <4> QED BY <2>2, <2>5, <2>6, <3>1, <4>1 DEF SavedAsBefore, SeenAsBefore
        <3>2. CASE k # h
            <4>1. SeenAsBefore(k) BY <2>1, <2>2, <2>7, <3>2 DEF Progress
            <4> QED BY <2>2, <2>6, <3>2, <4>1 DEF SeenAsBefore
        <3> QED BY <3>1, <3>2
    <2>8. CASE Tail(todo) = <<>> /\ EndWrite("rejected")
        <3>1. ToSet(Tail(todo)) = {} /\ phase' = "idle" BY <2>8 DEF ToSet, EndWrite
        <3> QED BY <2>7, <3>1 DEF Progress
    <2>9. CASE todo' = Tail(todo) /\ phase' = "restore" /\ rollback' = rollback
        <3>1. \A k \in ToSet(Tail(todo)) : k \in Keys => SavedAsBefore(k)
            BY <2>1, <2>2 DEF Progress
        <3>2. \A k \in ToSet(Tail(todo)) : k \in Keys => SavedAsBefore(k)'
            BY <2>2, <2>9, <3>1 DEF SavedAsBefore
        <3> QED BY <2>7, <2>9, <3>2 DEF Progress
    <2> QED BY <2>4, <2>8, <2>9
<1>8. CASE UNCHANGED vars
    BY <1>8 DEF vars, writeVars, Progress, SavedAsBefore, SeenAsBefore
<1> QED BY <1>1, <1>2, <1>3, <1>4, <1>5, <1>6, <1>7, <1>8 DEF Next, WriteStep

\* WriteInv is an invariant.
LEMMA WriteAlways == Spec => []WriteInv
<1>1. Init => WriteInv
    <2>1. Init => KeyInv BY Starting
    <2>2. Init => Framed
        BY MakeEntry, EmptySeq, KeyspaceAssumption, CommandsAssumption
        DEF Init, Framed, EmptySlot, Times
    <2>3. Init => Progress BY DEF Init, Progress
    <2> QED BY <2>1, <2>2, <2>3 DEF WriteInv
<1>2. WriteInv /\ [Next]_vars => WriteInv'
    BY Stepping, NextFramed, NextProgress DEF WriteInv
<1> QED BY <1>1, <1>2, PTL DEF Spec

\* TypeOK is an invariant: every command leaves an entry of a type there is, with a
\* deadline there is, in rows that count how often the key is in them.
THEOREM KeyspaceTypeCorrect == Spec => []TypeOK
<1>1. WriteInv => TypeOK
    <2> SUFFICES ASSUME WriteInv PROVE TypeOK OBVIOUS
    <2>1. \A k \in Keys : slots[k] \in Slot
        BY DEF WriteInv, KeyInv, Framed, Good, Indexed, WellFormed, Slot
    <2>2. slots \in [Keys -> Slot] BY <2>1 DEF WriteInv, KeyInv
    <2>3. rollback \in [Keys -> Entry] /\ before \in [Keys -> Entry]
        BY DEF WriteInv, KeyInv, Framed, WellFormed
    <2> QED BY <2>2, <2>3, KeyspaceAssumption DEF WriteInv, Framed, TypeOK
<1> QED BY <1>1, WriteAlways, PTL

\* NoEmptyCollection is an invariant: LPOP, RPOP and HDEL remove the key with its last
\* item, and no error of a command leaves the empty list or hash it has inserted.
THEOREM NeverEmptyCollection == Spec => []NoEmptyCollection
<1>1. WriteInv => NoEmptyCollection BY DEF WriteInv, Framed, WellFormed, NoEmptyCollection
<1> QED BY <1>1, WriteAlways, PTL

\* FailedWriteChangesNothing is an invariant: a command that is answered with an error,
\* its own or that of the append-only file, leaves every key as a reader would have found
\* it without the command, whatever the sweeper and the clock did meanwhile.
THEOREM FailedWritesUnseen == Spec => []FailedWriteChangesNothing
<1>1. WriteInv => FailedWriteChangesNothing
    BY DEF WriteInv, Progress, SeenAsBefore, FailedWriteChangesNothing
<1> QED BY <1>1, WriteAlways, PTL

-----------------------------------------------------------------------------
(***************************************************************************)
(* Replies.                                                                *)
(***************************************************************************)

Fits(r) == ~TooLarge(r.items)

\* A reply that is checked fits: it is an error otherwise, which carries no strings.
LEMMA CheckedFits == \A s : Fits(Checked(s)) /\ Fits(ErrorReply) /\ Fits(Strings(<<>>))
BY CommandsAssumption DEF Fits, Checked, ErrorReply, Strings

\* A reply that is not checked holds one string of a well-formed entry, which fits.
LEMMA RepliesOf ==
    ASSUME NEW e, WellFormed(e)
    PROVE  /\ Fits(Get(e)) /\ Fits(HGetAll(e)) /\ Fits(LRange(e, 0, -1))
           /\ \A i \in Nat : Fits(LIndex(e, i))
           /\ \A f : Fits(HGet(e, f))
<1>1. \A b \in Sendable : Fits(Strings(<<b>>)) BY DEF Fits, Strings, Sendable
<1>2. Fits(Get(e))
    <2>1. e.type = "string" => e.data = <<e.data[1]>> /\ e.data[1] \in Sendable
        BY TakeEntry DEF StringEntry
    <2> QED BY <1>1, <2>1, CheckedFits DEF Get
<1>3. Fits(HGetAll(e))
    BY CheckedFits DEF HGetAll, OfHash
<1>4. Fits(LRange(e, 0, -1))
    BY CheckedFits DEF LRange
<1>5. ASSUME NEW i \in Nat PROVE Fits(LIndex(e, i))
    <2>1. CASE e.type = "list"
        <3>1. e.data \in Seq(Sendable) BY <2>1, TakeEntry
        <3>2. i < Len(e.data) => e.data[i + 1] \in Sendable BY <3>1
        <3>3. LIndex(e, i) = Strings(IF i < Len(e.data) THEN <<e.data[i + 1]>> ELSE <<>>)
            BY <2>1 DEF LIndex
        <3> QED BY <1>1, <3>2, <3>3, CheckedFits
    <2>2. CASE e.type # "list" BY <2>2, CheckedFits DEF LIndex
    <2> QED BY <2>1, <2>2
<1>6. ASSUME NEW f PROVE Fits(HGet(e, f))
    <2>1. e.type = "hash" => (f \in DOMAIN e.data => e.data[f] \in Sendable)
        BY TakeEntry
    <2> QED BY <1>1, <2>1, CheckedFits DEF HGet, OfHash
<1> QED BY <1>2, <1>3, <1>4, <1>5, <1>6

\* RepliesFit is an invariant: GET, LINDEX and HGET, which do not check the length of
\* their reply, are right not to, because every write command keeps each single string
\* of an entry within the limit: APPEND by its own check, the others because the command
\* could be read at all.
THEOREM RepliesAlwaysFit == Spec => []RepliesFit
<1>1. WriteInv => RepliesFit
    <2> SUFFICES ASSUME WriteInv PROVE RepliesFit OBVIOUS
    <2>1. \A k \in Keys : WellFormed(Live(slots[k].entry, now))
        BY LiveEntry DEF WriteInv, Framed
    <2>2. 0 .. MaxItems \subseteq Nat OBVIOUS
    <2>3. \A es : Fits(MGet(es)) BY CheckedFits DEF MGet
    <2> QED BY <2>1, <2>2, <2>3, RepliesOf DEF RepliesFit, Fits
<1> QED BY <1>1, WriteAlways, PTL

-----------------------------------------------------------------------------
(***************************************************************************)
(* The read commands, compared with each other.                            *)
(***************************************************************************)

\* The positions of a list that are before one, and those between two ...
Before(len, a) == {p \in 0 .. len - 1 : p < a}
Within(len, a, b) == {p \in 0 .. len - 1 : p >= a /\ p <= b}

\* ... and how many there are.
LEMMA Positions ==
    ASSUME NEW len \in Nat, NEW a \in Int, NEW b \in Int
    PROVE  /\ Cardinality(Before(len, a))
                = IF a < 0 THEN 0 ELSE IF a > len THEN len ELSE a
           /\ Cardinality(Within(len, a, b))
                = LET lo == IF a < 0 THEN 0 ELSE a
                      hi == IF b > len - 1 THEN len - 1 ELSE b
                  IN  IF lo > hi THEN 0 ELSE hi - lo + 1
<1> DEFINE lo == IF a < 0 THEN 0 ELSE a
           hi == IF b > len - 1 THEN len - 1 ELSE b
           c  == IF a < 0 THEN 0 ELSE IF a > len THEN len ELSE a
<1>1. Before(len, a) = 0 .. c - 1 BY DEF Before
<1>2. Within(len, a, b) = lo .. hi BY DEF Within
<1>3. lo \in Int /\ hi \in Int /\ c \in Nat OBVIOUS
<1>4. Cardinality(0 .. c - 1) = c
    <2> HIDE DEF c
    <2> QED BY <1>3, FS_Interval
<1>5. Cardinality(lo .. hi) = IF lo > hi THEN 0 ELSE hi - lo + 1
    <2> HIDE DEF lo, hi
    <2> QED BY <1>3, FS_Interval
<1> QED BY <1>1, <1>2, <1>4, <1>5

\* LRANGE gives the items between its two indices, wherever they point.
LEMMA RangeIsBetween ==
    ASSUME NEW e, e.type = "list", NEW S, e.data \in Seq(S), NEW i \in Int, NEW j \in Int
    PROVE  LRange(e, i, j) = Checked(Between(e.data, i, j))
<1> DEFINE d == e.data
           len == Len(d)
           a == IF i < 0 THEN len + i ELSE i
           b == IF j < 0 THEN len + j ELSE j
           lo == IF a < 0 THEN 0 ELSE a
           hi == IF b > len - 1 THEN len - 1 ELSE b
           first == Cardinality(Before(len, a))
           count == Cardinality(Within(len, a, b))
<1>1. len \in Nat BY LenProperties
<1>2. a \in Int /\ b \in Int BY <1>1
<1>3. Between(d, i, j) = SubSeq(d, first + 1, first + count)
    BY DEF Between, Before, Within
<1>4. LRange(e, i, j) = IF a >= len \/ b < 0 \/ lo > hi THEN Strings(<<>>)
                        ELSE Checked(SubSeq(d, lo + 1, hi + 1))
    BY DEF LRange
<1>5. Checked(<<>>) = Strings(<<>>) BY CommandsAssumption DEF Checked
<1> HIDE DEF d, len, a, b
<1>6. /\ first = IF a < 0 THEN 0 ELSE IF a > len THEN len ELSE a
      /\ count = IF lo > hi THEN 0 ELSE hi - lo + 1
    BY <1>1, <1>2, Positions
<1> HIDE DEF first, count
<1>7. CASE a >= len \/ b < 0 \/ lo > hi
    <2>1. lo > hi BY <1>1, <1>2, <1>7
    <2>2. count = 0 /\ first \in Nat BY <1>1, <1>2, <1>6, <2>1
    <2>3. SubSeq(d, first + 1, first + count) = <<>>
        <3>1. d \in Seq(S) BY DEF d
        <3> QED BY <2>2, <3>1
    <2> QED BY <1>3, <1>4, <1>5, <1>7, <2>3 DEF d
<1>8. CASE ~(a >= len \/ b < 0 \/ lo > hi)
    <2>1. first = lo /\ first + count = hi + 1 BY <1>1, <1>2, <1>6, <1>8
    <2> HIDE DEF lo, hi
    <2> QED BY <1>3, <1>4, <1>8, <2>1 DEF d
<1> QED BY <1>7, <1>8

\* LINDEX is LRANGE from an index to itself: the item there fits into a reply.
LEMMA IndexIsRange ==
    ASSUME NEW e, WellFormed(e), e.type = "list", NEW i \in Int
    PROVE  LIndex(e, i) = LRange(e, i, i)
<1> DEFINE d == e.data
           len == Len(d)
           a == IF i < 0 THEN len + i ELSE i
<1>1. d \in Seq(Sendable) BY TakeEntry
<1>2. len \in Nat /\ a \in Int BY <1>1, LenProperties
<1>3. LIndex(e, i) = IF 0 <= a /\ a < len THEN Strings(<<d[a + 1]>>) ELSE Strings(<<>>)
    BY <1>2 DEF LIndex
<1>4. LRange(e, i, i) = IF a >= len \/ a < 0 THEN Strings(<<>>)
                        ELSE Checked(SubSeq(d, a + 1, a + 1))
    BY <1>2 DEF LRange
<1> HIDE DEF d, len, a
<1>5. CASE 0 <= a /\ a < len
    <2>1. a + 1 \in 1 .. len BY <1>2, <1>5
    <2>2. d[a + 1] \in Sendable BY <1>1, <2>1 DEF len
    <2>3. SubSeq(d, a + 1, a + 1) = <<d[a + 1]>>
        <3> DEFINE q == SubSeq(d, a + 1, a + 1)
        <3>1. q \in Seq(Sendable) /\ Len(q) = 1 /\ q[1] = d[a + 1]
            BY <1>1, <1>2, <2>1 DEF len
        <3> HIDE DEF q
        <3>2. q = <<q[1]>> BY <3>1
        <3> QED BY <3>1, <3>2 DEF q
    <2>4. Checked(<<d[a + 1]>>) = Strings(<<d[a + 1]>>) BY <2>2 DEF Checked, Sendable
    <2>5. ~(a >= len \/ a < 0) BY <1>2, <1>5
    <2>6. LRange(e, i, i) = Checked(SubSeq(d, a + 1, a + 1)) BY <1>4, <2>5
    <2>7. LIndex(e, i) = Strings(<<d[a + 1]>>) BY <1>3, <1>5
    <2> QED BY <2>3, <2>4, <2>6, <2>7
<1>6. CASE ~(0 <= a /\ a < len)
    <2>1. a >= len \/ a < 0 BY <1>2, <1>6
    <2> QED BY <1>3, <1>4, <1>6, <2>1
<1> QED BY <1>5, <1>6

\* LLEN, LRANGE and LINDEX agree about a list.
LEMMA ListReads ==
    ASSUME NEW e, WellFormed(e), e.type = "list"
    PROVE  ListReadsAgree(e)
<1> DEFINE ids == -(MaxItems + 2) .. MaxItems + 1
<1>1. ids \subseteq Int BY KeyspaceAssumption
<1>2. e.data \in Seq(Sendable) BY TakeEntry
<1>3. LLen(e) = Number(Len(e.data)) BY DEF LLen
<1> HIDE DEF ids
<1>4. \A i, j \in ids : LRange(e, i, j) = Checked(Between(e.data, i, j))
    BY <1>1, <1>2, RangeIsBetween
<1>5. \A i \in ids : LIndex(e, i) = LRange(e, i, i) BY <1>1, IndexIsRange
<1> QED BY <1>3, <1>4, <1>5 DEF ListReadsAgree, ids

\* HLEN, HEXISTS and HGET agree about the fields of a hash, and HKEYS and HVALS list
\* them in the same order.
LEMMA HashReads ==
    ASSUME NEW e, WellFormed(e), e.type = "hash"
    PROVE  HashReadsAgree(e)
<1> DEFINE d == e.data
           F == DOMAIN d
<1>1. F \subseteq Fields /\ IsFiniteSet(F) /\ d \in [F -> Sendable]
    BY TakeEntry DEF FieldSets
<1>2. \A f : HExists(e, f) = Number(IF f \in F THEN 1 ELSE 0) BY DEF HExists, OfHash
<1>3. \A f : HGet(e, f).items = IF f \in F THEN <<d[f]>> ELSE <<>>
    BY DEF HGet, OfHash, Strings
<1>4. HLen(e) = Number(Cardinality(F)) BY DEF HLen, OfHash
<1>5. Number(1) # Number(0) BY DEF Number
<1>6. {f \in Fields : HExists(e, f) = Number(1)} = F BY <1>1, <1>2, <1>5
<1>7. \A f \in Fields : HExists(e, f) = Number(Len(HGet(e, f).items))
    <2>1. Len(<<>>) = 0 /\ \A f : Len(<<d[f]>>) = 1 OBVIOUS
    <2> QED BY <1>2, <1>3, <2>1
<1> DEFINE fs == SetToSeq(F)
           vs == [i \in DOMAIN fs |-> d[fs[i]]]
<1>8. HKeys(e) = Checked(fs) /\ HVals(e) = Checked(vs) BY DEF HKeys, HVals, OfHash
<1>9. \A i \in DOMAIN fs : fs[i] \in F
    <2>1. fs \in Seq(F) BY <1>1, SequenceOfSet
    <2> HIDE DEF fs
    <2> QED BY <2>1
<1>10. ASSUME HVals(e) # ErrorReply, NEW i \in DOMAIN HKeys(e).items
       PROVE  HGet(e, HKeys(e).items[i]).items = <<HVals(e).items[i]>>
    <2> HIDE DEF F, d, fs
    <2>1. HVals(e).items = vs BY <1>8, <1>10 DEF Checked, Strings
    <2>2. HKeys(e).items = fs \/ HKeys(e).items = <<>>
        BY <1>8 DEF Checked, Strings, ErrorReply
    <2>3. HKeys(e).items = fs /\ i \in DOMAIN fs BY <2>2
    <2> QED BY <1>3, <1>9, <2>1, <2>3
<1> QED BY <1>4, <1>6, <1>7, <1>10 DEF HashReadsAgree

\* ReadsAgree is an invariant: the read commands, each written by itself in string.rs,
\* list.rs, hash.rs and keyspace.rs, agree about every entry the write commands make,
\* for lists of any length and indices anywhere.
THEOREM ReadsAlwaysAgree == Spec => []ReadsAgree
<1>1. WriteInv => ReadsAgree
    <2> SUFFICES ASSUME WriteInv, NEW k \in Keys
                 PROVE  LET e == Live(slots[k].entry, now)
                        IN  /\ PTtl(slots[k].entry, now) = Number(-2) <=> Exists(e) = Number(0)
                            /\ e.type = "list" => ListReadsAgree(e)
                            /\ e.type = "hash" => HashReadsAgree(e)
        BY DEF ReadsAgree
    <2> DEFINE s == slots[k].entry
               e == Live(s, now)
    <2>1. WellFormed(s) /\ now \in Times BY DEF WriteInv, Framed
    <2>2. WellFormed(e) BY <2>1, LiveEntry
    <2>3. PTtl(s, now) = Number(-2) <=> Exists(e) = Number(0)
        <3>1. s.expires \in Deadlines /\ (s.type = "none" => s = Absent) BY <2>1, TakeEntry DEF IsEntry
        <3>2. now \in Nat BY <2>1, CommandsAssumption DEF Times
        <3>3. \A m, n : Number(m) = Number(n) <=> m = n BY DEF Number
        <3>4. Exists(e) = Number(0) <=> e.type = "none" BY <3>3 DEF Exists
        <3>5. e.type = "none" <=> s.type = "none" \/ Expired(s, now) BY DEF Live, Absent
        <3>6. PTtl(s, now) = Number(-2) <=> s.type = "none" \/ Expired(s, now)
            BY <3>1, <3>2, <3>3, CommandsAssumption DEF PTtl, Expired, Deadlines, Times, Never
        <3> QED BY <3>4, <3>5, <3>6
    <2> HIDE DEF e
    <2> QED BY <2>2, <2>3, ListReads, HashReads DEF e
<1> QED BY <1>1, WriteAlways, PTL

=============================================================================
