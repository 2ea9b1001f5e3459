---------------------------- MODULE PubSubProofs ----------------------------
(***************************************************************************)
(* The accept loop, the map of broadcast senders, the forwarding tasks and *)
(* the sessions, proved for any number of clients and channels; then that  *)
(* PubSub implements Feed, for any capacities as well: each step of a      *)
(* session, a forwarding task or a publish is a step of the abstract       *)
(* specification or leaves it as it is.                                    *)
(***************************************************************************)
EXTENDS PubSub, Induction, FiniteSetTheorems, SequenceTheorems, TLAPS

-----------------------------------------------------------------------------
(***************************************************************************)
(* The accept loop.                                                        *)
(***************************************************************************)

\* The connections that hold a permit, and those that the guard counts.
Holding(s) == {c \in Client : s[c] \notin {"away", "gone"}}
Counted(s) == {c \in Client : s[c] \in {"served", "leaving"}}

ClientsInv ==
  /\ ClientsTypeOK
  /\ IsFiniteSet(Holding(stage))
  /\ permits + Cardinality(Holding(stage)) = MaxClients
  /\ connected = Cardinality(Counted(stage))

\* A connection that moves on changes the sets by itself at most.
LEMMA MoveSets ==
  ASSUME stage \in [Client -> Stages], NEW c \in Client, NEW from \in Stages, NEW to \in Stages,
         Move(c, from, to)
  PROVE  /\ stage' \in [Client -> Stages]
         /\ Holding(stage') = IF to \in {"away", "gone"} THEN Holding(stage) \ {c}
                              ELSE Holding(stage) \cup {c}
         /\ Counted(stage') = IF to \in {"served", "leaving"} THEN Counted(stage) \cup {c}
                              ELSE Counted(stage) \ {c}
         /\ c \in Holding(stage) <=> from \notin {"away", "gone"}
         /\ c \in Counted(stage) <=> from \in {"served", "leaving"}
BY DEF Move, Holding, Counted

\* The counters are in range whatever connections there are.
LEMMA CountersType ==
  ASSUME NEW s \in [Client -> Stages], IsFiniteSet(Holding(s)), NEW p \in Int, NEW n,
         p >= 0, p + Cardinality(Holding(s)) = MaxClients, n = Cardinality(Counted(s))
  PROVE  p \in 0 .. MaxClients /\ n \in 0 .. MaxClients
<1>1. Counted(s) \in SUBSET Holding(s)
  BY DEF Counted, Holding
<1>2. Cardinality(Holding(s)) \in Nat
  BY FS_CardinalityType
<1>3. Cardinality(Counted(s)) \in Nat /\ Cardinality(Counted(s)) <= Cardinality(Holding(s))
  BY <1>1, FS_Subset, FS_CardinalityType
<1> QED BY <1>2, <1>3, ClientsAssumption

\* ClientsInv holds of an accept loop that starts.
LEMMA InitClients == ClientsInit => ClientsInv
<1> SUFFICES ASSUME ClientsInit PROVE ClientsInv
  OBVIOUS
<1>1. Holding(stage) = {} /\ Counted(stage) = {}
  BY DEF ClientsInit, Holding, Counted
<1>2. IsFiniteSet({}) /\ Cardinality({}) = 0
  BY FS_EmptySet
<1> QED BY <1>1, <1>2, ClientsAssumption DEF ClientsInit, ClientsInv, ClientsTypeOK, Stages

\* Every step of a connection's life keeps the books: accept_loop and the
\* two halves of the guard's drop.
LEMMA StageStep ==
  ASSUME ClientsInv, NEW c \in Client,
         \/ Accept(c) \/ RejectClient(c) \/ Serve(c) \/ HandleReturns(c) \/ DropGuard(c)
         \/ ReleasePermit(c)
  PROVE  ClientsInv'
<1> DEFINE H == Holding(stage)
           C == Counted(stage)
<1>1. /\ stage \in [Client -> Stages] /\ permits \in Nat /\ connected \in Nat /\ total \in Nat
      /\ IsFiniteSet(H) /\ permits + Cardinality(H) = MaxClients /\ connected = Cardinality(C)
  BY ClientsAssumption DEF ClientsInv, ClientsTypeOK
<1>2. C \subseteq H
  BY DEF Holding, Counted
<1>3. IsFiniteSet(C) /\ Cardinality(H) \in Nat /\ Cardinality(C) \in Nat
  BY <1>1, <1>2, FS_Subset, FS_CardinalityType
<1> HIDE DEF H, C
<1>4. /\ IsFiniteSet(H \cup {c}) /\ IsFiniteSet(H \ {c})
      /\ c \notin H => Cardinality(H \cup {c}) = Cardinality(H) + 1
      /\ c \in H => Cardinality(H \ {c}) = Cardinality(H) - 1
      /\ c \notin C => Cardinality(C \cup {c}) = Cardinality(C) + 1
      /\ c \in C => Cardinality(C \ {c}) = Cardinality(C) - 1
  BY <1>1, <1>3, FS_AddElement, FS_RemoveElement
<1>5. /\ c \in H => H \cup {c} = H /\ Cardinality(H) > 0
      /\ c \notin H => H \ {c} = H
      /\ c \in C => C \cup {c} = C /\ Cardinality(C) > 0
      /\ c \notin C => C \ {c} = C
  BY <1>1, <1>3, FS_EmptySet
<1>6. SUFFICES /\ stage' \in [Client -> Stages] /\ total' \in Nat
               /\ IsFiniteSet(Holding(stage')) /\ permits' \in Int /\ permits' >= 0
               /\ permits' + Cardinality(Holding(stage')) = MaxClients
               /\ connected' = Cardinality(Counted(stage'))
  BY CountersType DEF ClientsInv, ClientsTypeOK
<1>7. CASE Accept(c)
  <2>1. /\ stage' \in [Client -> Stages] /\ Holding(stage') = H \cup {c} /\ c \notin H
        /\ Counted(stage') = C \ {c} /\ c \notin C
    BY <1>1, <1>7, MoveSets DEF Accept, Stages, H, C
  <2>2. /\ IsFiniteSet(Holding(stage')) /\ Cardinality(Holding(stage')) = Cardinality(H) + 1
        /\ Cardinality(Counted(stage')) = Cardinality(C)
    BY <1>1, <1>4, <1>5, <2>1
  <2> QED BY <1>1, <1>3, <1>5, <1>7, <2>1, <2>2 DEF Accept
<1>8. CASE RejectClient(c)
  <2>1. /\ stage' \in [Client -> Stages] /\ Holding(stage') = H \ {c} /\ c \notin H
        /\ Counted(stage') = C \ {c} /\ c \notin C
    BY <1>1, <1>8, MoveSets DEF RejectClient, Stages, H, C
  <2>2. /\ IsFiniteSet(Holding(stage')) /\ Cardinality(Holding(stage')) = Cardinality(H)
        /\ Cardinality(Counted(stage')) = Cardinality(C)
    BY <1>1, <1>4, <1>5, <2>1
  <2> QED BY <1>1, <1>3, <1>5, <1>8, <2>1, <2>2 DEF RejectClient
<1>9. CASE Serve(c)
  <2>1. /\ stage' \in [Client -> Stages] /\ Holding(stage') = H \cup {c} /\ c \in H
        /\ Counted(stage') = C \cup {c} /\ c \notin C
    BY <1>1, <1>9, MoveSets DEF Serve, Stages, H, C
  <2>2. /\ IsFiniteSet(Holding(stage')) /\ Cardinality(Holding(stage')) = Cardinality(H)
        /\ Cardinality(Counted(stage')) = Cardinality(C) + 1
    BY <1>1, <1>4, <1>5, <2>1
  <2> QED BY <1>1, <1>3, <1>5, <1>9, <2>1, <2>2 DEF Serve
<1>10. CASE HandleReturns(c)
  <2>1. /\ stage' \in [Client -> Stages] /\ Holding(stage') = H \cup {c} /\ c \in H
        /\ Counted(stage') = C \cup {c} /\ c \in C
    BY <1>1, <1>10, MoveSets DEF HandleReturns, Stages, H, C
  <2>2. /\ IsFiniteSet(Holding(stage')) /\ Cardinality(Holding(stage')) = Cardinality(H)
        /\ Cardinality(Counted(stage')) = Cardinality(C)
    BY <1>1, <1>4, <1>5, <2>1
  <2> QED BY <1>1, <1>3, <1>5, <1>10, <2>1, <2>2 DEF HandleReturns
<1>11. CASE DropGuard(c)
  <2>1. /\ stage' \in [Client -> Stages] /\ Holding(stage') = H \cup {c} /\ c \in H
        /\ Counted(stage') = C \ {c} /\ c \in C
    BY <1>1, <1>11, MoveSets DEF DropGuard, Stages, H, C
  <2>2. /\ IsFiniteSet(Holding(stage')) /\ Cardinality(Holding(stage')) = Cardinality(H)
        /\ Cardinality(Counted(stage')) = Cardinality(C) - 1
    BY <1>1, <1>4, <1>5, <2>1
  <2> QED BY <1>1, <1>3, <1>5, <1>11, <2>1, <2>2 DEF DropGuard
<1>12. CASE ReleasePermit(c)
  <2>1. /\ stage' \in [Client -> Stages] /\ Holding(stage') = H \ {c} /\ c \in H
        /\ Counted(stage') = C \ {c} /\ c \notin C
    BY <1>1, <1>12, MoveSets DEF ReleasePermit, Stages, H, C
  <2>2. /\ IsFiniteSet(Holding(stage')) /\ Cardinality(Holding(stage')) = Cardinality(H) - 1
        /\ Cardinality(Counted(stage')) = Cardinality(C)
    BY <1>1, <1>4, <1>5, <2>1
  <2> QED BY <1>1, <1>3, <1>5, <1>12, <2>1, <2>2 DEF ReleasePermit
<1> QED BY <1>7, <1>8, <1>9, <1>10, <1>11, <1>12

\* Whatever pub/sub does, the counters are those of the connections.
LEMMA NextClients == ClientsInv /\ [Next]_vars => ClientsInv'
<1> SUFFICES ASSUME ClientsInv, [Next]_vars PROVE ClientsInv'
  OBVIOUS
<1>1. ASSUME UNCHANGED clientVars PROVE ClientsInv'
  BY <1>1 DEF clientVars, ClientsInv, ClientsTypeOK
<1>2. ASSUME NEW c \in Client, AcceptStep(c) \/ GuardStep(c) \/ Disconnect(c) \/ ErrorReturn(c)
      PROVE  ClientsInv'
  BY <1>2, StageStep DEF AcceptStep, GuardStep, Disconnect, ErrorReturn
<1>3. ASSUME NEW c \in Client, NEW chs, ReadSubscribe(c, chs) \/ ReadUnsubscribe(c, chs)
      PROVE  UNCHANGED clientVars
  BY <1>3 DEF ReadSubscribe, ReadUnsubscribe
<1>4. ASSUME NEW c \in Client, LoopStep(c) \/ Deliver(c) \/ CloseSlow(c) \/ ReadEof(c)
      PROVE  UNCHANGED clientVars
  BY <1>4 DEF LoopStep, Deliver, CloseSlow, ReadEof, SubscribeOne, UnsubscribeOne, CleanupOne,
       JoinAndCollect, UnsubscribeDone, CleanupDone
<1>5. ASSUME NEW p \in Pairs, ForwardStep(p) PROVE UNCHANGED clientVars
  BY <1>5 DEF ForwardStep, Recv, RecvLagged, TrySend, TrySendFull, TrySendClosed, Cancel, TaskEnds
<1>6. ASSUME NEW ch \in Channel, PublishSend(ch) PROVE UNCHANGED clientVars
  BY <1>6 DEF PublishSend
<1>7. ASSUME PublishCollect PROVE UNCHANGED clientVars
  BY <1>7 DEF PublishCollect
<1>8. ASSUME UNCHANGED vars PROVE UNCHANGED clientVars
  BY <1>8 DEF vars
<1> QED BY <1>1, <1>2, <1>3, <1>4, <1>5, <1>6, <1>7, <1>8 DEF Next

\* ClientsCounted is an invariant: a permit is never lost and never handed out
\* twice, and connected_clients is the number of guards, in whichever way
\* handle() returns.
THEOREM ClientsAlwaysCounted == Spec => []ClientsCounted
<1>1. Init => ClientsInv
  BY InitClients DEF Init
<1>2. ClientsInv => ClientsCounted
  BY DEF ClientsInv, ClientsCounted, Holding, Counted
<1> QED BY <1>1, <1>2, NextClients, PTL DEF Spec, SafeSpec
-----------------------------------------------------------------------------
(***************************************************************************)
(* The sessions and their forwarding tasks.                                *)
(***************************************************************************)

\* A task that is to send holds a message.
SenderHolds == \A p \in Pairs : fwd[p] = "send" => hand[p] # 0

\* Where a session may be with handles in its map, with a handle it awaits, and
\* with handles it dropped: ErrorReturn is the last thing a session does.
SessionInv ==
  \A c \in Client :
    /\ pc[c] = "command" => tasks[c] = {}
    /\ pc[c] # "command" => stage[c] = "served"
    /\ joining[c] # None => pc[c] \in {"unsubscribing", "cleanup"}
    /\ detached[c] # {} => stage[c] \in {"leaving", "uncounted", "gone"}

\* The channels a session has a handle for, in its map, awaited or dropped.
Handles(c) == tasks[c] \cup {joining[c]} \cup detached[c]

\* A task is aborted when its handle was taken out of the map to be awaited.
AbortedInv ==
  \A p \in Pairs : aborted[p] => joining[p[1]] = p[2] /\ p[2] \notin tasks[p[1]]

\* A task that runs is one its session has, or dropped, the handle of.
RunningInv == \A p \in Pairs : Running(p) => p[2] \in Handles(p[1])

PubSubInv ==
  /\ ClientsInv /\ TypeOK /\ SenderHolds /\ NeverDeaf
  /\ SessionInv /\ AbortedInv /\ RunningInv /\ ToldWhenStopped /\ OrphansOnlyFromErrors

\* The four ways a forwarding task ends.
Ends(p) == RecvLagged(p) \/ TrySendFull(p) \/ TrySendClosed(p) \/ Cancel(p)

\* A forwarding task is named by its client and its channel.
LEMMA PairParts ==
  /\ \A p \in Pairs : p[1] \in Client /\ p[2] \in Channel /\ p = <<p[1], p[2]>>
  /\ \A p, q \in Pairs : p[1] = q[1] /\ p[2] = q[2] => p = q
  /\ \A c \in Client, ch \in Channel : <<c, ch>> \in Pairs
BY DEF Pairs

\* What a publish does to everything but the inboxes.
LEMMA PublishEffect ==
  ASSUME NEW ch \in Channel, PublishSend(ch)
  PROVE  /\ publishing = None /\ sent[ch] < MaxMessages
         /\ sent' = [sent EXCEPT ![ch] = @ + 1]
         /\ publishing' = IF ch \in open THEN ch ELSE None
         /\ UNCHANGED <<clientVars, open, receivers, sessVars, fwd, aborted, hand, ioVars>>
BY DEF PublishSend, MutexFree

\* What the end of a task does to everything but its inbox.  It tells its session
\* unless that has left the subscribed mode or aborted the task.
LEMMA EndEffect ==
  ASSUME NEW p \in Pairs, Ends(p)
  PROVE  /\ p[1] \in Client /\ p[2] \in Channel /\ p = <<p[1], p[2]>>
         /\ Running(p)
         /\ fwd' = [fwd EXCEPT ![p] = "over"]
         /\ hand' = [hand EXCEPT ![p] = 0]
         /\ receivers' = [receivers EXCEPT ![p[2]] = @ \ {p[1]}]
         /\ UNCHANGED <<clientVars, open, publishing, sent, sessVars, aborted, out, last>>
         /\ \/ slow' = [slow EXCEPT ![p[1]] = pc[p[1]] \in Subscribed]
            \/ slow' = slow /\ (pc[p[1]] \notin Subscribed \/ aborted[p])
<1>1. p[1] \in Client /\ p[2] \in Channel /\ p = <<p[1], p[2]>>
  BY DEF Pairs
<1>2. TaskEnds(p) /\ Running(p) /\ out' = out
  BY DEF Ends, RecvLagged, TrySendFull, TrySendClosed, Cancel, Running
<1>3. \/ slow' = [slow EXCEPT ![p[1]] = pc[p[1]] \in Subscribed]
      \/ slow' = slow /\ (pc[p[1]] \notin Subscribed \/ aborted[p])
  BY DEF Ends, RecvLagged, TrySendFull, TrySendClosed, Cancel, SendSlow
<1> QED BY <1>1, <1>2, <1>3 DEF TaskEnds

\* The map of senders keeps its type.
LEMMA NextMapType ==
  ASSUME TypeOK, [Next]_vars
  PROVE  MapTypeOK'
<1>1. ASSUME UNCHANGED mapVars PROVE MapTypeOK'
  BY <1>1 DEF mapVars, TypeOK, MapTypeOK
<1>2. ASSUME NEW c \in Client, NEW ch \in Channel, SubscribeOne(c, ch) PROVE MapTypeOK'
  BY <1>2 DEF SubscribeOne, PubsubSubscribe, mapVars, TypeOK, MapTypeOK
<1>3. ASSUME NEW c \in Client, JoinAndCollect(c) PROVE MapTypeOK'
  BY <1>3 DEF JoinAndCollect, PubsubGc, RemoveChannel, TypeOK, MapTypeOK, SessTypeOK
<1>4. ASSUME NEW p \in Pairs, Ends(p) PROVE MapTypeOK'
  <2> receivers \in [Channel -> SUBSET Client]
    BY DEF TypeOK, MapTypeOK
  <2>1. receivers' \in [Channel -> SUBSET Client]
    BY <1>4, EndEffect
  <2> QED BY <1>4, <2>1, EndEffect DEF TypeOK, MapTypeOK
<1>5. ASSUME NEW ch \in Channel, PublishSend(ch) PROVE MapTypeOK'
  BY <1>5, PublishEffect, PubSubAssumption DEF TypeOK, MapTypeOK
<1>6. ASSUME PublishCollect PROVE MapTypeOK'
  BY <1>6 DEF PublishCollect, RemoveChannel, TypeOK, MapTypeOK
<1>7. ASSUME NEW c \in Client,
             \/ AcceptStep(c) \/ GuardStep(c) \/ Disconnect(c) \/ ErrorReturn(c)
             \/ \E chs \in SUBSET Channel : ReadSubscribe(c, chs) \/ ReadUnsubscribe(c, chs)
             \/ \E ch \in Channel : UnsubscribeOne(c, ch) \/ CleanupOne(c, ch)
             \/ UnsubscribeDone(c) \/ CleanupDone(c) \/ Deliver(c) \/ CloseSlow(c) \/ ReadEof(c)
      PROVE  UNCHANGED mapVars
  BY <1>7 DEF AcceptStep, GuardStep, Disconnect, ErrorReturn, ReadSubscribe, ReadUnsubscribe,
     UnsubscribeOne, CleanupOne, UnsubscribeDone, CleanupDone, Deliver, CloseSlow, ReadEof
<1>8. ASSUME NEW p \in Pairs, Recv(p) \/ TrySend(p) PROVE UNCHANGED mapVars
  BY <1>8 DEF Recv, TrySend
<1>9. ASSUME UNCHANGED vars PROVE UNCHANGED mapVars
  BY <1>9 DEF vars
<1> QED BY <1>1, <1>2, <1>3, <1>4, <1>5, <1>6, <1>7, <1>8, <1>9
        DEF Next, LoopStep, ForwardStep, Ends

\* The sessions keep their types.
LEMMA NextSessType ==
  ASSUME TypeOK, [Next]_vars
  PROVE  SessTypeOK'
<1> USE DEF TypeOK, SessTypeOK, Subscribed
<1>1. ASSUME UNCHANGED sessVars PROVE SessTypeOK'
  BY <1>1 DEF sessVars
<1>2. ASSUME NEW c \in Client, NEW chs \in SUBSET Channel,
             ReadSubscribe(c, chs) \/ ReadUnsubscribe(c, chs)
      PROVE  SessTypeOK'
  BY <1>2 DEF ReadSubscribe, ReadUnsubscribe, GoTo
<1>3. ASSUME NEW c \in Client, NEW ch \in Channel,
             SubscribeOne(c, ch) \/ UnsubscribeOne(c, ch) \/ CleanupOne(c, ch)
      PROVE  SessTypeOK'
  BY <1>3 DEF SubscribeOne, UnsubscribeOne, CleanupOne, Abort, GoTo
<1>4. ASSUME NEW c \in Client,
             JoinAndCollect(c) \/ UnsubscribeDone(c) \/ CleanupDone(c) \/ CloseSlow(c) \/ ReadEof(c)
      PROVE  SessTypeOK'
  BY <1>4 DEF JoinAndCollect, UnsubscribeDone, CleanupDone, CloseSlow, ReadEof, GoTo
<1>5. ASSUME NEW c \in Client, ErrorReturn(c) PROVE SessTypeOK'
  BY <1>5 DEF ErrorReturn, GoTo
<1>6. ASSUME NEW c \in Client, AcceptStep(c) \/ GuardStep(c) \/ Disconnect(c) \/ Deliver(c)
      PROVE  UNCHANGED sessVars
  BY <1>6 DEF AcceptStep, GuardStep, Disconnect, Deliver
<1>7. ASSUME NEW p \in Pairs, ForwardStep(p) PROVE UNCHANGED sessVars
  BY <1>7 DEF ForwardStep, Recv, RecvLagged, TrySend, TrySendFull, TrySendClosed, Cancel, TaskEnds
<1>8. ASSUME (\E ch \in Channel : PublishSend(ch)) \/ PublishCollect \/ UNCHANGED vars
      PROVE  UNCHANGED sessVars
  BY <1>8 DEF PublishSend, PublishCollect, vars
<1> QED BY <1>1, <1>2, <1>3, <1>4, <1>5, <1>6, <1>7, <1>8 DEF Next, LoopStep

\* A queue that is not full takes one more, and one that is not empty gives one up.
LEMMA QueueLaws ==
  ASSUME NEW S, NEW q \in Seq(S), NEW cap \in Nat, Len(q) <= cap
  PROVE  /\ \A m \in S : Len(q) # cap => Append(q, m) \in Seq(S) /\ Len(Append(q, m)) <= cap
         /\ q # <<>> => Head(q) \in S /\ Tail(q) \in Seq(S) /\ Len(Tail(q)) <= cap
         /\ <<>> \in Seq(S) /\ Len(<<>>) <= cap
<1>1. Len(q) \in Nat
  BY LenProperties
<1>2. ASSUME NEW m \in S, Len(q) # cap
      PROVE  Append(q, m) \in Seq(S) /\ Len(Append(q, m)) <= cap
  <2>1. Append(q, m) \in Seq(S) /\ Len(Append(q, m)) = Len(q) + 1
    BY AppendProperties
  <2> QED BY <1>1, <1>2, <2>1
<1>3. ASSUME q # <<>> PROVE Head(q) \in S /\ Tail(q) \in Seq(S) /\ Len(Tail(q)) <= cap
  <2>1. Head(q) \in S /\ Tail(q) \in Seq(S) /\ Len(Tail(q)) = Len(q) - 1
    BY <1>3, HeadTailProperties
  <2> QED BY <1>1, <2>1
<1>4. <<>> \in Seq(S) /\ Len(<<>>) <= cap
  BY EmptySeq
<1> QED BY <1>2, <1>3, <1>4

\* The forwarding tasks keep their types, an inbox never outgrows the broadcast
\* channel, and a task that is to send holds a message.
LEMMA NextFwdType ==
  ASSUME TypeOK, SenderHolds, [Next]_vars
  PROVE  FwdTypeOK' /\ SenderHolds'
<1>a. /\ FwdTypeOK
      /\ ChanCap \in Nat \ {0} /\ MaxMessages \in Nat
      /\ \A p \in Pairs : p[1] \in Client /\ p[2] \in Channel
  BY PubSubAssumption DEF TypeOK, Pairs
<1>b. \A p \in Pairs :
        /\ \A m \in Message : Len(inbox[p]) # ChanCap
             => Append(inbox[p], m) \in Seq(Message) /\ Len(Append(inbox[p], m)) <= ChanCap
        /\ inbox[p] # <<>>
             => Head(inbox[p]) \in Message /\ Tail(inbox[p]) \in Seq(Message)
                  /\ Len(Tail(inbox[p])) <= ChanCap
        /\ <<>> \in Seq(Message) /\ Len(<<>>) <= ChanCap
  <2> SUFFICES ASSUME NEW p \in Pairs
               PROVE  /\ \A m \in Message : Len(inbox[p]) # ChanCap
                           => Append(inbox[p], m) \in Seq(Message) /\ Len(Append(inbox[p], m)) <= ChanCap
                      /\ inbox[p] # <<>>
                           => Head(inbox[p]) \in Message /\ Tail(inbox[p]) \in Seq(Message)
                                /\ Len(Tail(inbox[p])) <= ChanCap
                      /\ <<>> \in Seq(Message) /\ Len(<<>>) <= ChanCap
    OBVIOUS
  <2>1. inbox[p] \in Seq(Message) /\ Len(inbox[p]) <= ChanCap /\ ChanCap \in Nat
    BY <1>a DEF FwdTypeOK
  <2> QED BY <2>1, QueueLaws, Zenon
<1>c. \A m \in Message : m \in 0 .. MaxMessages /\ m # 0
  BY <1>a DEF Message
<1>1. ASSUME UNCHANGED fwdVars PROVE FwdTypeOK' /\ SenderHolds'
  BY <1>1, <1>a DEF fwdVars, FwdTypeOK, SenderHolds
<1>2. ASSUME NEW c \in Client, NEW ch \in Channel, SubscribeOne(c, ch)
      PROVE  FwdTypeOK' /\ SenderHolds'
  BY <1>2, <1>a DEF SubscribeOne, FwdTypeOK, SenderHolds, Pairs
<1>3. ASSUME NEW c \in Client, NEW ch \in Channel, UnsubscribeOne(c, ch) \/ CleanupOne(c, ch)
      PROVE  FwdTypeOK' /\ SenderHolds'
  BY <1>3, <1>a DEF UnsubscribeOne, CleanupOne, Abort, FwdTypeOK, SenderHolds, Pairs
<1>4. ASSUME NEW c \in Client, JoinAndCollect(c) PROVE FwdTypeOK' /\ SenderHolds'
  BY <1>4, <1>a DEF JoinAndCollect, FwdTypeOK, SenderHolds, Pairs
<1>5. ASSUME NEW p \in Pairs, Recv(p) PROVE FwdTypeOK' /\ SenderHolds'
  <2>1. /\ fwd' = [fwd EXCEPT ![p] = "send"] /\ inbox[p] # <<>>
        /\ hand' = [hand EXCEPT ![p] = Head(inbox[p])]
        /\ inbox' = [inbox EXCEPT ![p] = Tail(inbox[p])]
        /\ aborted' = aborted /\ lagged' = lagged
    BY <1>5, <1>a DEF Recv, FwdTypeOK
  <2>2. /\ Head(inbox[p]) \in 0 .. MaxMessages /\ Head(inbox[p]) # 0
        /\ Tail(inbox[p]) \in Seq(Message) /\ Len(Tail(inbox[p])) <= ChanCap
    BY <1>b, <1>c, <2>1
  <2>3. inbox' \in [Pairs -> Seq(Message)] /\ \A q \in Pairs : Len(inbox'[q]) <= ChanCap
    BY <1>a, <2>1, <2>2 DEF FwdTypeOK
  <2> QED BY <1>a, <2>1, <2>2, <2>3 DEF FwdTypeOK, SenderHolds
<1>6. ASSUME NEW p \in Pairs, TrySend(p) PROVE FwdTypeOK' /\ SenderHolds'
  <2>1. /\ fwd' = [fwd EXCEPT ![p] = "recv"] /\ hand' = [hand EXCEPT ![p] = 0]
        /\ UNCHANGED <<aborted, inbox, lagged>>
    BY <1>6 DEF TrySend
  <2> QED BY <1>a, <2>1 DEF FwdTypeOK, SenderHolds
<1>7. ASSUME NEW p \in Pairs, Ends(p) PROVE FwdTypeOK' /\ SenderHolds'
  <2>1. /\ fwd' = [fwd EXCEPT ![p] = "over"] /\ hand' = [hand EXCEPT ![p] = 0]
        /\ aborted' = aborted
    BY <1>7, EndEffect
  <2>2. inbox' = [inbox EXCEPT ![p] = <<>>] /\ lagged' = [lagged EXCEPT ![p] = FALSE]
    BY <1>7 DEF Ends, RecvLagged, TrySendFull, TrySendClosed, Cancel, TaskEnds
  <2>3. inbox' \in [Pairs -> Seq(Message)] /\ \A q \in Pairs : Len(inbox'[q]) <= ChanCap
    BY <1>a, <1>b, <2>2 DEF FwdTypeOK
  <2> QED BY <1>a, <2>1, <2>2, <2>3 DEF FwdTypeOK, SenderHolds
<1>8. ASSUME NEW ch \in Channel, PublishSend(ch) PROVE FwdTypeOK' /\ SenderHolds'
  <2>1. sent[ch] + 1 \in Message
    BY <1>8, <1>a, PublishEffect DEF TypeOK, MapTypeOK, Message
  <2>2. /\ inbox' \in [Pairs -> Seq(Message)]
        /\ \A p \in Pairs : Len(inbox'[p]) <= ChanCap
    <3> SUFFICES ASSUME NEW p \in Pairs
                 PROVE  inbox'[p] \in Seq(Message) /\ Len(inbox'[p]) <= ChanCap
      BY <1>8 DEF PublishSend
    <3>1. \/ inbox'[p] = inbox[p]
          \/ inbox'[p] = <<>>
          \/ Len(inbox[p]) # ChanCap /\ inbox'[p] = Append(inbox[p], sent[ch] + 1)
      BY <1>8 DEF PublishSend, Pairs
    <3> QED BY <1>a, <1>b, <2>1, <3>1 DEF FwdTypeOK
  <2>3. lagged' \in [Pairs -> BOOLEAN]
    BY <1>8 DEF PublishSend
  <2>4. UNCHANGED <<fwd, aborted, hand>>
    BY <1>8, PublishEffect
  <2> QED BY <1>a, <2>2, <2>3, <2>4 DEF FwdTypeOK, SenderHolds
<1>9. ASSUME NEW c \in Client,
             \/ AcceptStep(c) \/ GuardStep(c) \/ Disconnect(c) \/ ErrorReturn(c)
             \/ \E chs \in SUBSET Channel : ReadSubscribe(c, chs) \/ ReadUnsubscribe(c, chs)
             \/ UnsubscribeDone(c) \/ CleanupDone(c) \/ Deliver(c) \/ CloseSlow(c) \/ ReadEof(c)
      PROVE  UNCHANGED fwdVars
  BY <1>9 DEF AcceptStep, GuardStep, Disconnect, ErrorReturn, ReadSubscribe, ReadUnsubscribe,
     UnsubscribeDone, CleanupDone, Deliver, CloseSlow, ReadEof
<1>10. ASSUME PublishCollect \/ UNCHANGED vars PROVE UNCHANGED fwdVars
  BY <1>10 DEF PublishCollect, vars
<1> QED BY <1>1, <1>2, <1>3, <1>4, <1>5, <1>6, <1>7, <1>8, <1>9, <1>10
        DEF Next, LoopStep, ForwardStep, Ends

\* The output channels keep their types and their capacity.
LEMMA NextIoType ==
  ASSUME TypeOK, SenderHolds, [Next]_vars
  PROVE  IoTypeOK'
<1>a. /\ IoTypeOK /\ SessTypeOK /\ FwdTypeOK
      /\ OutCap \in Nat \ {0} /\ MaxMessages \in Nat
      /\ \A p \in Pairs : p[1] \in Client /\ p[2] \in Channel
  BY PubSubAssumption DEF TypeOK, Pairs
<1>1. ASSUME UNCHANGED ioVars PROVE IoTypeOK'
  BY <1>1, <1>a DEF ioVars, IoTypeOK
<1>2. ASSUME NEW c \in Client, Deliver(c) PROVE IoTypeOK'
  <2> DEFINE m == Head(out[c])
  <2>1. /\ out[c] # <<>> /\ out' = [out EXCEPT ![c] = Tail(out[c])]
        /\ last' = [last EXCEPT ![<<c, m[1]>>] = m[2]] /\ slow' = slow
    BY <1>2, <1>a DEF Deliver, IoTypeOK
  <2>2. /\ m \in Channel \X Message
        /\ Tail(out[c]) \in Seq(Channel \X Message) /\ Len(Tail(out[c])) <= OutCap
    BY <1>a, <2>1, QueueLaws DEF IoTypeOK
  <2> HIDE DEF m
  <2>3. <<c, m[1]>> \in Pairs /\ m[2] \in 0 .. MaxMessages
    BY <1>a, <2>2 DEF Pairs, Message
  <2>4. last' \in [Pairs -> 0 .. MaxMessages]
    BY <1>a, <2>1, <2>3 DEF IoTypeOK
  <2>5. out' \in [Client -> Seq(Channel \X Message)] /\ \A d \in Client : Len(out'[d]) <= OutCap
    BY <1>a, <2>1, <2>2 DEF IoTypeOK
  <2> QED BY <1>a, <2>1, <2>4, <2>5 DEF IoTypeOK
<1>3. ASSUME NEW c \in Client, CleanupDone(c) \/ ErrorReturn(c) PROVE IoTypeOK'
  <2>1. /\ out' = [out EXCEPT ![c] = <<>>] /\ slow' = [slow EXCEPT ![c] = FALSE] /\ last' = last
    BY <1>3 DEF CleanupDone, ErrorReturn, DropOutput
  <2>2. <<>> \in Seq(Channel \X Message) /\ Len(<<>>) <= OutCap
    BY <1>a, EmptySeq
  <2>3. out' \in [Client -> Seq(Channel \X Message)] /\ \A d \in Client : Len(out'[d]) <= OutCap
    BY <1>a, <2>1, <2>2 DEF IoTypeOK
  <2> QED BY <1>a, <2>1, <2>3 DEF IoTypeOK
<1>4. ASSUME NEW p \in Pairs, TrySend(p) PROVE IoTypeOK'
  <2> DEFINE m == <<p[2], hand[p]>>
             q == out[p[1]]
  <2>1. /\ fwd[p] = "send" /\ Len(q) < OutCap
        /\ out' = [out EXCEPT ![p[1]] = Append(q, m)] /\ slow' = slow /\ last' = last
    BY <1>4, <1>a DEF TrySend, IoTypeOK
  <2>2. m \in Channel \X Message
    BY <1>a, <2>1 DEF SenderHolds, FwdTypeOK, Message
  <2>3. q \in Seq(Channel \X Message) /\ Len(q) \in Nat /\ Len(q) # OutCap /\ Len(q) <= OutCap
    BY <1>a, <2>1, LenProperties DEF IoTypeOK
  <2>4. Append(q, m) \in Seq(Channel \X Message) /\ Len(Append(q, m)) <= OutCap
    BY <1>a, <2>2, <2>3, QueueLaws
  <2> HIDE DEF m, q
  <2>5. out' \in [Client -> Seq(Channel \X Message)] /\ \A d \in Client : Len(out'[d]) <= OutCap
    BY <1>a, <2>1, <2>4 DEF IoTypeOK
  <2> QED BY <1>a, <2>1, <2>5 DEF IoTypeOK
<1>5. ASSUME NEW p \in Pairs, Ends(p) PROVE IoTypeOK'
  <2> DEFINE told == pc[p[1]] \in Subscribed
  <2>1. told \in BOOLEAN
    OBVIOUS
  <2>2. slow' = [slow EXCEPT ![p[1]] = told] \/ slow' = slow
    BY <1>5, EndEffect
  <2> HIDE DEF told
  <2>3. slow' \in [Client -> BOOLEAN]
    BY <1>a, <2>1, <2>2 DEF IoTypeOK
  <2> QED BY <1>5, <1>a, <2>3, EndEffect DEF IoTypeOK
<1>6. ASSUME NEW c \in Client,
             \/ AcceptStep(c) \/ GuardStep(c) \/ Disconnect(c)
             \/ \E chs \in SUBSET Channel : ReadSubscribe(c, chs) \/ ReadUnsubscribe(c, chs)
             \/ \E ch \in Channel : SubscribeOne(c, ch) \/ UnsubscribeOne(c, ch) \/ CleanupOne(c, ch)
             \/ JoinAndCollect(c) \/ UnsubscribeDone(c) \/ CloseSlow(c) \/ ReadEof(c)
      PROVE  UNCHANGED ioVars
  BY <1>6 DEF AcceptStep, GuardStep, Disconnect, ReadSubscribe, ReadUnsubscribe, SubscribeOne,
     UnsubscribeOne, CleanupOne, JoinAndCollect, UnsubscribeDone, CloseSlow, ReadEof
<1>7. ASSUME (\E p \in Pairs : Recv(p)) \/ (\E ch \in Channel : PublishSend(ch)) \/ PublishCollect
               \/ UNCHANGED vars
      PROVE  UNCHANGED ioVars
  BY <1>7 DEF Recv, PublishSend, PublishCollect, vars
<1> QED BY <1>1, <1>2, <1>3, <1>4, <1>5, <1>6, <1>7 DEF Next, LoopStep, ForwardStep, Ends

\* A sender is removed only when it has no receiver, and a receiver leaves with its
\* task: no task is left deaf.
LEMMA NextDeaf ==
  ASSUME TypeOK, NeverDeaf, [Next]_vars
  PROVE  NeverDeaf'
<1> USE DEF TypeOK, MapTypeOK, FwdTypeOK, NeverDeaf, Running
<1>1. ASSUME UNCHANGED <<open, receivers, fwd>> PROVE NeverDeaf'
  BY <1>1
<1>2. ASSUME NEW c \in Client, NEW ch \in Channel, SubscribeOne(c, ch) PROVE NeverDeaf'
  BY <1>2 DEF SubscribeOne, PubsubSubscribe, mapVars, Pairs
<1>3. ASSUME NEW c \in Client, JoinAndCollect(c) PROVE NeverDeaf'
  BY <1>3 DEF JoinAndCollect, PubsubGc, RemoveChannel, SessTypeOK, Pairs
<1>4. ASSUME NEW p \in Pairs, Recv(p) \/ TrySend(p) PROVE NeverDeaf'
  BY <1>4 DEF Recv, TrySend, mapVars
<1>5. ASSUME NEW p \in Pairs, Ends(p) PROVE NeverDeaf'
  <2> SUFFICES ASSUME NEW q \in Pairs, Running(q)' PROVE q[1] \in receivers'[q[2]] /\ q[2] \in open'
    OBVIOUS
  <2>1. q # p /\ Running(q)
    BY <1>5, EndEffect
  <2>2. q[1] \in Client /\ q[2] \in Channel /\ (q[1] # p[1] \/ q[2] # p[2])
    BY <2>1, PairParts
  <2> QED BY <1>5, <2>1, <2>2, EndEffect
<1>6. ASSUME PublishCollect PROVE NeverDeaf'
  BY <1>6 DEF PublishCollect, RemoveChannel, fwdVars, Pairs
<1>7. ASSUME NEW c \in Client,
             \/ AcceptStep(c) \/ GuardStep(c) \/ Disconnect(c) \/ ErrorReturn(c)
             \/ \E chs \in SUBSET Channel : ReadSubscribe(c, chs) \/ ReadUnsubscribe(c, chs)
             \/ \E ch \in Channel : UnsubscribeOne(c, ch) \/ CleanupOne(c, ch)
             \/ UnsubscribeDone(c) \/ CleanupDone(c) \/ Deliver(c) \/ CloseSlow(c) \/ ReadEof(c)
      PROVE  UNCHANGED <<open, receivers, fwd>>
  BY <1>7 DEF AcceptStep, GuardStep, Disconnect, ErrorReturn, ReadSubscribe, ReadUnsubscribe,
     UnsubscribeOne, CleanupOne, UnsubscribeDone, CleanupDone, Deliver, CloseSlow, ReadEof,
     mapVars, fwdVars
<1>8. ASSUME (\E ch \in Channel : PublishSend(ch)) \/ UNCHANGED vars
      PROVE  UNCHANGED <<open, receivers, fwd>>
  BY <1>8 DEF PublishSend, vars, mapVars, fwdVars
<1> QED BY <1>1, <1>2, <1>3, <1>4, <1>5, <1>6, <1>7, <1>8 DEF Next, LoopStep, ForwardStep, Ends

\* A session is where its handles say.
LEMMA NextSession ==
  ASSUME TypeOK, SessionInv, [Next]_vars
  PROVE  SessionInv'
<1> USE DEF TypeOK, SessTypeOK, SessionInv
<1>1. ASSUME UNCHANGED <<stage, pc, tasks, joining, detached>> PROVE SessionInv'
  BY <1>1
<1>2. ASSUME NEW c \in Client, AcceptStep(c) \/ GuardStep(c) \/ Disconnect(c) PROVE SessionInv'
  BY <1>2 DEF AcceptStep, GuardStep, Disconnect, Accept, RejectClient, Serve, HandleReturns,
     DropGuard, ReleasePermit, Move, sessVars, ClientsTypeOK
<1>3. ASSUME NEW c \in Client, NEW chs \in SUBSET Channel,
             ReadSubscribe(c, chs) \/ ReadUnsubscribe(c, chs)
      PROVE  SessionInv'
  BY <1>3 DEF ReadSubscribe, ReadUnsubscribe, GoTo, clientVars
<1>4. ASSUME NEW c \in Client, NEW ch \in Channel,
             SubscribeOne(c, ch) \/ UnsubscribeOne(c, ch) \/ CleanupOne(c, ch)
      PROVE  SessionInv'
  BY <1>4 DEF SubscribeOne, UnsubscribeOne, CleanupOne, Abort, GoTo, clientVars
<1>5. ASSUME NEW c \in Client,
             JoinAndCollect(c) \/ UnsubscribeDone(c) \/ CleanupDone(c) \/ CloseSlow(c) \/ ReadEof(c)
      PROVE  SessionInv'
  BY <1>5 DEF JoinAndCollect, UnsubscribeDone, CleanupDone, CloseSlow, ReadEof, GoTo, clientVars
<1>6. ASSUME NEW c \in Client, ErrorReturn(c) PROVE SessionInv'
  BY <1>6 DEF ErrorReturn, HandleReturns, Move, GoTo, ClientsTypeOK
<1>7. ASSUME NEW c \in Client, Deliver(c) PROVE UNCHANGED <<stage, pc, tasks, joining, detached>>
  BY <1>7 DEF Deliver, clientVars, sessVars
<1>8. ASSUME NEW p \in Pairs, ForwardStep(p)
      PROVE  UNCHANGED <<stage, pc, tasks, joining, detached>>
  BY <1>8 DEF ForwardStep, Recv, RecvLagged, TrySend, TrySendFull, TrySendClosed, Cancel, TaskEnds,
     clientVars, sessVars
<1>9. ASSUME (\E ch \in Channel : PublishSend(ch)) \/ PublishCollect \/ UNCHANGED vars
      PROVE  UNCHANGED <<stage, pc, tasks, joining, detached>>
  BY <1>9 DEF PublishSend, PublishCollect, vars, clientVars, sessVars
<1> QED BY <1>1, <1>2, <1>3, <1>4, <1>5, <1>6, <1>7, <1>8, <1>9 DEF Next, LoopStep

\* A task is aborted only on the way to being awaited.
LEMMA NextAborted ==
  ASSUME TypeOK, SessionInv, AbortedInv, [Next]_vars
  PROVE  AbortedInv'
<1>a. /\ SessTypeOK /\ aborted \in [Pairs -> BOOLEAN] /\ None \notin Channel
      /\ \A q \in Pairs : q[1] \in Client /\ q[2] \in Channel /\ q = <<q[1], q[2]>>
  BY PubSubAssumption, PairParts DEF TypeOK, FwdTypeOK
<1>b. \A q \in Pairs : joining[q[1]] = None => ~aborted[q]
  BY <1>a DEF AbortedInv
<1>1. ASSUME UNCHANGED <<tasks, joining>>, aborted' = aborted PROVE AbortedInv'
  BY <1>1 DEF AbortedInv
<1>2. ASSUME NEW c \in Client, NEW ch \in Channel, SubscribeOne(c, ch) PROVE AbortedInv'
  <2>1. /\ joining' = joining /\ joining[c] = None
        /\ \A d \in Client : d # c => tasks'[d] = tasks[d]
    BY <1>2, <1>a DEF SubscribeOne, SessionInv, SessTypeOK
  <2>2. aborted' = aborted
    BY <1>2 DEF SubscribeOne
  <2>3. ASSUME NEW q \in Pairs, aborted'[q]
        PROVE  joining'[q[1]] = q[2] /\ q[2] \notin tasks'[q[1]]
    <3>1. aborted[q] /\ q[1] # c
      BY <1>b, <2>1, <2>2, <2>3
    <3> QED BY <1>a, <2>1, <3>1 DEF AbortedInv
  <2> QED BY <2>3 DEF AbortedInv
<1>3. ASSUME NEW c \in Client, NEW ch \in Channel, UnsubscribeOne(c, ch) \/ CleanupOne(c, ch)
      PROVE  AbortedInv'
  <2>1. CASE Abort(c, ch)
    <3>1. /\ joining[c] = None /\ joining'[c] = ch /\ tasks'[c] = tasks[c] \ {ch}
          /\ \A d \in Client : d # c => tasks'[d] = tasks[d] /\ joining'[d] = joining[d]
      BY <2>1, <1>a DEF Abort, SessTypeOK
    <3>2. \A q \in Pairs : q # <<c, ch>> => aborted'[q] = aborted[q]
      BY <2>1, <1>a DEF Abort
    <3>3. ASSUME NEW q \in Pairs, aborted'[q]
          PROVE  joining'[q[1]] = q[2] /\ q[2] \notin tasks'[q[1]]
      <4>1. CASE q = <<c, ch>>
        BY <3>1, <4>1
      <4>2. CASE q # <<c, ch>>
        <5>1. aborted[q] /\ q[1] # c
          BY <1>b, <3>1, <3>2, <3>3, <4>2
        <5> QED BY <1>a, <3>1, <5>1 DEF AbortedInv
      <4> QED BY <4>1, <4>2
    <3> QED BY <3>3 DEF AbortedInv
  <2>2. CASE UNCHANGED <<tasks, aborted, joining>>
    BY <1>1, <2>2
  <2> QED BY <1>3, <2>1, <2>2 DEF UnsubscribeOne, CleanupOne
<1>4. ASSUME NEW c \in Client, JoinAndCollect(c) PROVE AbortedInv'
  <2>1. /\ joining[c] \in Channel /\ joining'[c] = None /\ tasks' = tasks
        /\ \A d \in Client : d # c => joining'[d] = joining[d]
    BY <1>4, <1>a DEF JoinAndCollect, SessTypeOK
  <2>2. /\ \A q \in Pairs : q # <<c, joining[c]>> => aborted'[q] = aborted[q]
        /\ <<c, joining[c]>> \in Pairs => ~aborted'[<<c, joining[c]>>]
    BY <1>4, <1>a DEF JoinAndCollect
  <2>3. ASSUME NEW q \in Pairs, aborted'[q]
        PROVE  joining'[q[1]] = q[2] /\ q[2] \notin tasks'[q[1]]
    <3>1. q # <<c, joining[c]>> /\ aborted[q]
      BY <2>2, <2>3
    <3>2. joining[q[1]] = q[2] /\ q[2] \notin tasks[q[1]] /\ q[1] # c
      BY <1>a, <3>1 DEF AbortedInv
    <3> QED BY <1>a, <2>1, <3>2
  <2> QED BY <2>3 DEF AbortedInv
<1>5. ASSUME NEW c \in Client, ErrorReturn(c) PROVE AbortedInv'
  <2>1. /\ joining' = joining /\ tasks' = [tasks EXCEPT ![c] = {}]
    BY <1>5 DEF ErrorReturn
  <2>2. aborted' = aborted
    BY <1>5 DEF ErrorReturn, fwdVars
  <2> QED BY <1>a, <2>1, <2>2 DEF AbortedInv, SessTypeOK
<1>6. ASSUME NEW c \in Client,
             \/ AcceptStep(c) \/ GuardStep(c) \/ Disconnect(c)
             \/ \E chs \in SUBSET Channel : ReadSubscribe(c, chs) \/ ReadUnsubscribe(c, chs)
             \/ UnsubscribeDone(c) \/ CleanupDone(c) \/ Deliver(c) \/ CloseSlow(c) \/ ReadEof(c)
      PROVE  UNCHANGED <<tasks, joining, aborted>>
  BY <1>6 DEF AcceptStep, GuardStep, Disconnect, ReadSubscribe, ReadUnsubscribe,
     UnsubscribeDone, CleanupDone, Deliver, CloseSlow, ReadEof, sessVars, fwdVars
<1>7. ASSUME NEW p \in Pairs, ForwardStep(p) PROVE UNCHANGED <<tasks, joining, aborted>>
  BY <1>7 DEF ForwardStep, Recv, RecvLagged, TrySend, TrySendFull, TrySendClosed, Cancel, TaskEnds,
     sessVars
<1>8. ASSUME (\E ch \in Channel : PublishSend(ch)) \/ PublishCollect \/ UNCHANGED vars
      PROVE  UNCHANGED <<tasks, joining, aborted>>
  BY <1>8 DEF PublishSend, PublishCollect, vars, sessVars, fwdVars
<1> QED BY <1>1, <1>2, <1>3, <1>4, <1>5, <1>6, <1>7, <1>8 DEF Next, LoopStep

\* A session keeps the handles it has, in its map, awaited or dropped, except that it
\* lets go of one it awaited when the task is over and the channel collected.
LEMMA NextHandles ==
  ASSUME TypeOK, SessionInv, [Next]_vars, NEW d \in Client, NEW x \in Channel, x \in Handles(d)
  PROVE  x \in Handles(d)' \/ (JoinAndCollect(d) /\ joining[d] = x)
<1>a. SessTypeOK /\ None \notin Channel
  BY PubSubAssumption DEF TypeOK
<1>1. ASSUME UNCHANGED <<tasks, joining, detached>> PROVE Handles(d)' = Handles(d)
  BY <1>1 DEF Handles
<1>2. ASSUME NEW c \in Client, NEW ch \in Channel,
             SubscribeOne(c, ch) \/ UnsubscribeOne(c, ch) \/ CleanupOne(c, ch)
      PROVE  x \in Handles(d)'
  BY <1>2, <1>a DEF SubscribeOne, UnsubscribeOne, CleanupOne, Abort, Handles, SessTypeOK
<1>3. ASSUME NEW c \in Client, JoinAndCollect(c)
      PROVE  x \in Handles(d)' \/ (JoinAndCollect(d) /\ joining[d] = x)
  <2>1. tasks' = tasks /\ detached' = detached /\ joining' = [joining EXCEPT ![c] = None]
    BY <1>3 DEF JoinAndCollect
  <2> QED BY <1>3, <1>a, <2>1 DEF Handles, SessTypeOK
<1>4. ASSUME NEW c \in Client, ErrorReturn(c) PROVE x \in Handles(d)'
  <2>1. stage[c] = "served" /\ joining' = joining
        /\ detached' = [detached EXCEPT ![c] = tasks[c]] /\ tasks' = [tasks EXCEPT ![c] = {}]
    BY <1>4 DEF ErrorReturn, HandleReturns, Move
  <2>2. detached[c] = {}
    BY <2>1 DEF SessionInv
  <2> QED BY <1>a, <2>1, <2>2 DEF Handles, SessTypeOK
<1>5. ASSUME NEW c \in Client,
             \/ AcceptStep(c) \/ GuardStep(c) \/ Disconnect(c)
             \/ \E chs \in SUBSET Channel : ReadSubscribe(c, chs) \/ ReadUnsubscribe(c, chs)
             \/ UnsubscribeDone(c) \/ CleanupDone(c) \/ Deliver(c) \/ CloseSlow(c) \/ ReadEof(c)
      PROVE  UNCHANGED <<tasks, joining, detached>>
  BY <1>5 DEF AcceptStep, GuardStep, Disconnect, ReadSubscribe, ReadUnsubscribe,
     UnsubscribeDone, CleanupDone, Deliver, CloseSlow, ReadEof, sessVars
<1>6. ASSUME NEW p \in Pairs, ForwardStep(p) PROVE UNCHANGED <<tasks, joining, detached>>
  BY <1>6 DEF ForwardStep, Recv, RecvLagged, TrySend, TrySendFull, TrySendClosed, Cancel, TaskEnds,
     sessVars
<1>7. ASSUME (\E ch \in Channel : PublishSend(ch)) \/ PublishCollect \/ UNCHANGED vars
      PROVE  UNCHANGED <<tasks, joining, detached>>
  BY <1>7 DEF PublishSend, PublishCollect, vars, sessVars
<1> QED BY <1>1, <1>2, <1>3, <1>4, <1>5, <1>6, <1>7 DEF Next, LoopStep

\* Tasks start when a session subscribes, run until they end, and are forgotten when
\* their session has awaited them.
LEMMA NextRuns ==
  ASSUME TypeOK, [Next]_vars, NEW q \in Pairs
  PROVE  /\ Running(q)' => Running(q) \/ q[2] \in tasks'[q[1]]
         /\ Running(q)' => ~(JoinAndCollect(q[1]) /\ joining[q[1]] = q[2])
         /\ fwd'[q] = "over" => fwd[q] = "over" \/ Ends(q)
<1>a. /\ SessTypeOK /\ fwd \in [Pairs -> {"none", "recv", "send", "over"}]
      /\ q[1] \in Client /\ q[2] \in Channel /\ q = <<q[1], q[2]>>
  BY PairParts DEF TypeOK, FwdTypeOK
<1> DEFINE Joined == JoinAndCollect(q[1]) /\ joining[q[1]] = q[2]
           Goal == /\ Running(q)' => Running(q) \/ q[2] \in tasks'[q[1]]
                   /\ fwd'[q] = "over" => fwd[q] = "over" \/ Ends(q)
<1>0. Joined => ~Running(q)'
  BY <1>a DEF JoinAndCollect, Running
<1>1. ASSUME fwd' = fwd PROVE Goal
  BY <1>1 DEF Running
<1>2. ASSUME NEW c \in Client, NEW ch \in Channel, SubscribeOne(c, ch) PROVE Goal
  BY <1>2, <1>a DEF SubscribeOne, Running, SessTypeOK
<1>3. ASSUME NEW c \in Client, JoinAndCollect(c) PROVE Goal
  BY <1>3, <1>a DEF JoinAndCollect, Running
<1>4. ASSUME NEW p \in Pairs, Recv(p) \/ TrySend(p) PROVE Goal
  BY <1>4, <1>a DEF Recv, TrySend, Running
<1>5. ASSUME NEW p \in Pairs, Ends(p) PROVE Goal
  BY <1>5, <1>a, EndEffect DEF Running
<1>6. ASSUME NEW c \in Client,
             \/ AcceptStep(c) \/ GuardStep(c) \/ Disconnect(c) \/ ErrorReturn(c)
             \/ \E chs \in SUBSET Channel : ReadSubscribe(c, chs) \/ ReadUnsubscribe(c, chs)
             \/ \E ch \in Channel : UnsubscribeOne(c, ch) \/ CleanupOne(c, ch)
             \/ UnsubscribeDone(c) \/ CleanupDone(c) \/ Deliver(c) \/ CloseSlow(c) \/ ReadEof(c)
      PROVE  fwd' = fwd
  BY <1>6 DEF AcceptStep, GuardStep, Disconnect, ErrorReturn, ReadSubscribe, ReadUnsubscribe,
     UnsubscribeOne, CleanupOne, UnsubscribeDone, CleanupDone, Deliver, CloseSlow, ReadEof, fwdVars
<1>7. ASSUME (\E ch \in Channel : PublishSend(ch)) \/ PublishCollect \/ UNCHANGED vars
      PROVE  fwd' = fwd
  BY <1>7 DEF PublishSend, PublishCollect, vars, fwdVars
<1> HIDE DEF Goal
<1>8. Goal
  BY <1>1, <1>2, <1>3, <1>4, <1>5, <1>6, <1>7 DEF Next, LoopStep, ForwardStep, Ends
<1> QED BY <1>0, <1>8 DEF Goal

\* A task that runs is one its session has, or dropped, the handle of.
LEMMA NextRunning ==
  ASSUME TypeOK, SessionInv, RunningInv, [Next]_vars
  PROVE  RunningInv'
<1> SUFFICES ASSUME NEW q \in Pairs, Running(q)' PROVE q[2] \in Handles(q[1])'
  BY DEF RunningInv
<1>1. q[1] \in Client /\ q[2] \in Channel
  BY PairParts
<1>2. /\ Running(q) \/ q[2] \in tasks'[q[1]]
      /\ ~(JoinAndCollect(q[1]) /\ joining[q[1]] = q[2])
  BY NextRuns
<1>3. CASE q[2] \in tasks'[q[1]]
  BY <1>3 DEF Handles
<1>4. CASE Running(q)
  <2>1. q[2] \in Handles(q[1])
    BY <1>4 DEF RunningInv
  <2> QED BY <1>1, <1>2, <2>1, NextHandles
<1> QED BY <1>2, <1>3, <1>4

\* What a session was told is forgotten only when it has no handle left to worry about.
LEMMA NextSlow ==
  ASSUME TypeOK, SessionInv, [Next]_vars, NEW d \in Client, tasks'[d] # {},
         slow[d] \/ pc[d] = "cleanup"
  PROVE  slow'[d] \/ pc'[d] = "cleanup"
<1>a. /\ SessTypeOK /\ slow \in [Client -> BOOLEAN]
  BY DEF TypeOK, IoTypeOK
<1>1. ASSUME slow' = slow, pc'[d] = pc[d] \/ pc[d] # "cleanup" PROVE slow'[d] \/ pc'[d] = "cleanup"
  BY <1>1
<1>2. ASSUME NEW c \in Client,
             \/ AcceptStep(c) \/ GuardStep(c) \/ Disconnect(c)
             \/ \E chs \in SUBSET Channel : ReadSubscribe(c, chs) \/ ReadUnsubscribe(c, chs)
             \/ \E ch \in Channel : SubscribeOne(c, ch) \/ UnsubscribeOne(c, ch) \/ CleanupOne(c, ch)
             \/ JoinAndCollect(c) \/ UnsubscribeDone(c) \/ Deliver(c) \/ CloseSlow(c) \/ ReadEof(c)
      PROVE  slow' = slow /\ (pc'[d] = pc[d] \/ pc[d] # "cleanup")
  BY <1>2, <1>a DEF AcceptStep, GuardStep, Disconnect, ReadSubscribe, ReadUnsubscribe, SubscribeOne,
     UnsubscribeOne, CleanupOne, JoinAndCollect, UnsubscribeDone, Deliver, CloseSlow, ReadEof, GoTo,
     SessTypeOK, sessVars, ioVars
<1>3. ASSUME NEW c \in Client, CleanupDone(c) \/ ErrorReturn(c)
      PROVE  slow'[d] \/ pc'[d] = "cleanup"
  <2>1. tasks'[c] = {}
    BY <1>3, <1>a DEF CleanupDone, ErrorReturn, SessTypeOK
  <2>2. c # d /\ pc' = [pc EXCEPT ![c] = "command"] /\ slow' = [slow EXCEPT ![c] = FALSE]
    BY <1>3, <2>1 DEF CleanupDone, ErrorReturn, GoTo, DropOutput
  <2> QED BY <1>a, <2>2 DEF SessTypeOK
<1>4. ASSUME NEW p \in Pairs, Recv(p) \/ TrySend(p) PROVE slow' = slow /\ pc' = pc
  BY <1>4 DEF Recv, TrySend, ioVars, sessVars
<1>5. ASSUME NEW p \in Pairs, Ends(p) PROVE slow'[d] \/ pc'[d] = "cleanup"
  <2>1. pc' = pc /\ tasks' = tasks
    BY <1>5, EndEffect DEF sessVars
  <2>2. pc[d] \in Subscribed
    BY <1>a, <2>1 DEF SessionInv, SessTypeOK
  <2>3. CASE p[1] = d
    BY <1>5, <1>a, <2>1, <2>2, <2>3, EndEffect
  <2>4. CASE p[1] # d
    <3>1. slow'[d] = slow[d]
      BY <1>5, <1>a, <2>4, EndEffect
    <3> QED BY <2>1, <3>1
  <2> QED BY <2>3, <2>4
<1>6. ASSUME (\E ch \in Channel : PublishSend(ch)) \/ PublishCollect \/ UNCHANGED vars
      PROVE  slow' = slow /\ pc' = pc
  BY <1>6 DEF PublishSend, PublishCollect, vars, ioVars, sessVars
<1> QED BY <1>1, <1>2, <1>3, <1>4, <1>5, <1>6 DEF Next, LoopStep, ForwardStep, Ends

\* A handle comes into the map with a task that runs.
LEMMA NextTasks ==
  ASSUME TypeOK, [Next]_vars, NEW d \in Client, NEW x \in Channel, x \in tasks'[d]
  PROVE  x \in tasks[d] \/ fwd'[<<d, x>>] = "recv"
<1>a. SessTypeOK /\ fwd \in [Pairs -> {"none", "recv", "send", "over"}] /\ <<d, x>> \in Pairs
  BY PairParts DEF TypeOK, FwdTypeOK
<1>1. ASSUME NEW c \in Client, NEW ch \in Channel,
             SubscribeOne(c, ch) \/ UnsubscribeOne(c, ch) \/ CleanupOne(c, ch)
      PROVE  x \in tasks[d] \/ fwd'[<<d, x>>] = "recv"
  BY <1>1, <1>a DEF SubscribeOne, UnsubscribeOne, CleanupOne, Abort, SessTypeOK
<1>2. ASSUME NEW c \in Client,
             \/ AcceptStep(c) \/ GuardStep(c) \/ Disconnect(c) \/ ErrorReturn(c)
             \/ \E chs \in SUBSET Channel : ReadSubscribe(c, chs) \/ ReadUnsubscribe(c, chs)
             \/ JoinAndCollect(c) \/ UnsubscribeDone(c) \/ CleanupDone(c) \/ Deliver(c)
             \/ CloseSlow(c) \/ ReadEof(c)
      PROVE  x \in tasks[d]
  BY <1>2, <1>a DEF AcceptStep, GuardStep, Disconnect, ErrorReturn, ReadSubscribe, ReadUnsubscribe,
     JoinAndCollect, UnsubscribeDone, CleanupDone, Deliver, CloseSlow, ReadEof, sessVars, SessTypeOK
<1>3. ASSUME NEW p \in Pairs, ForwardStep(p) PROVE x \in tasks[d]
  BY <1>3 DEF ForwardStep, Recv, RecvLagged, TrySend, TrySendFull, TrySendClosed, Cancel, TaskEnds,
     sessVars
<1>4. ASSUME (\E ch \in Channel : PublishSend(ch)) \/ PublishCollect \/ UNCHANGED vars
      PROVE  x \in tasks[d]
  BY <1>4 DEF PublishSend, PublishCollect, vars, sessVars
<1> QED BY <1>1, <1>2, <1>3, <1>4 DEF Next, LoopStep

\* A task that stops by itself tells its session.
LEMMA NextTold ==
  ASSUME TypeOK, SessionInv, AbortedInv, ToldWhenStopped, [Next]_vars
  PROVE  ToldWhenStopped'
<1> SUFFICES ASSUME NEW c \in Client, NEW ch \in tasks'[c], fwd'[<<c, ch>>] = "over"
             PROVE  slow'[c] \/ pc'[c] = "cleanup"
  BY DEF ToldWhenStopped
<1>1. ch \in Channel
  BY NextSessType DEF SessTypeOK
<1>2. <<c, ch>> \in Pairs /\ <<c, ch>>[1] = c /\ <<c, ch>>[2] = ch
  BY <1>1, PairParts
<1>3. ch \in tasks[c]
  BY <1>1, NextTasks
<1>4. CASE fwd[<<c, ch>>] = "over"
  <2>1. slow[c] \/ pc[c] = "cleanup"
    BY <1>3, <1>4 DEF ToldWhenStopped
  <2> QED BY <2>1, NextSlow
<1>5. CASE Ends(<<c, ch>>)
  <2>1. pc[c] \in Subscribed
    BY <1>3 DEF SessionInv, TypeOK, SessTypeOK
  <2>2. ~aborted[<<c, ch>>]
    BY <1>2, <1>3 DEF AbortedInv
  <2>3. slow' = [slow EXCEPT ![c] = pc[c] \in Subscribed]
    BY <1>2, <1>5, <2>1, <2>2, EndEffect
  <2>4. slow \in [Client -> BOOLEAN]
    BY DEF TypeOK, IoTypeOK
  <2> QED BY <2>1, <2>3, <2>4
<1> QED BY <1>2, <1>4, <1>5, NextRuns

\* A sender that is in the map without receivers after a step was there before it, and
\* either had no receivers then or lost the last one to the end of a task; no step
\* that looks at the receivers of a sender leaves it there without any.
LEMMA LastReceiver ==
  ASSUME TypeOK, [Next]_vars, NEW x \in Channel, x \in open', receivers'[x] = {}
  PROVE  /\ x \in open
         /\ receivers[x] = {} \/ \E p \in Pairs : Ends(p) /\ p[2] = x
         /\ publishing = x => publishing' = x
         /\ \A c \in Client : JoinAndCollect(c) => joining[c] # x
<1>a. /\ open \subseteq Channel /\ receivers \in [Channel -> SUBSET Client]
      /\ None \notin Channel
  BY PubSubAssumption DEF TypeOK, MapTypeOK
<1> DEFINE Goal == /\ x \in open
                   /\ receivers[x] = {} \/ \E p \in Pairs : Ends(p) /\ p[2] = x
                   /\ publishing = x => publishing' = x
<1>0. \A c \in Client : JoinAndCollect(c) => joining[c] # x
  BY <1>a DEF JoinAndCollect, PubsubGc, RemoveChannel
<1>1. ASSUME UNCHANGED mapVars PROVE Goal
  BY <1>1 DEF mapVars
<1>2. ASSUME NEW c \in Client, NEW ch \in Channel, SubscribeOne(c, ch) PROVE Goal
  BY <1>2, <1>a DEF SubscribeOne, PubsubSubscribe, mapVars
<1>3. ASSUME NEW c \in Client, JoinAndCollect(c) PROVE Goal
  BY <1>3, <1>a DEF JoinAndCollect, PubsubGc, RemoveChannel
<1>4. ASSUME NEW p \in Pairs, Ends(p) PROVE Goal
  <2>1. /\ open' = open /\ publishing' = publishing
        /\ receivers' = [receivers EXCEPT ![p[2]] = @ \ {p[1]}]
    BY <1>4, EndEffect
  <2>2. receivers[x] = {} \/ p[2] = x
    BY <1>a, <2>1
  <2> QED BY <1>4, <2>1, <2>2
<1>5. ASSUME NEW ch \in Channel, PublishSend(ch) PROVE Goal
  BY <1>5, <1>a, PublishEffect
<1>6. ASSUME PublishCollect PROVE Goal
  BY <1>6, <1>a DEF PublishCollect, RemoveChannel
<1>7. ASSUME NEW c \in Client,
             \/ AcceptStep(c) \/ GuardStep(c) \/ Disconnect(c) \/ ErrorReturn(c)
             \/ \E chs \in SUBSET Channel : ReadSubscribe(c, chs) \/ ReadUnsubscribe(c, chs)
             \/ \E ch \in Channel : UnsubscribeOne(c, ch) \/ CleanupOne(c, ch)
             \/ UnsubscribeDone(c) \/ CleanupDone(c) \/ Deliver(c) \/ CloseSlow(c) \/ ReadEof(c)
      PROVE  UNCHANGED mapVars
  BY <1>7 DEF AcceptStep, GuardStep, Disconnect, ErrorReturn, ReadSubscribe, ReadUnsubscribe,
     UnsubscribeOne, CleanupOne, UnsubscribeDone, CleanupDone, Deliver, CloseSlow, ReadEof
<1>8. ASSUME NEW p \in Pairs, Recv(p) \/ TrySend(p) PROVE UNCHANGED mapVars
  BY <1>8 DEF Recv, TrySend
<1>9. ASSUME UNCHANGED vars PROVE UNCHANGED mapVars
  BY <1>9 DEF vars
<1> HIDE DEF Goal
<1>10. Goal
  BY <1>1, <1>2, <1>3, <1>4, <1>5, <1>6, <1>7, <1>8, <1>9 DEF Next, LoopStep, ForwardStep, Ends
<1> QED BY <1>0, <1>10 DEF Goal

\* A sender loses its last receiver to somebody who will collect it, or who dropped
\* the handle on an error.
LEMMA NextOrphans ==
  ASSUME TypeOK, SessionInv, RunningInv, OrphansOnlyFromErrors, [Next]_vars
  PROVE  OrphansOnlyFromErrors'
<1> SUFFICES ASSUME NEW x \in open', receivers'[x] = {}, publishing' # x
             PROVE  \E c \in Client : x \in Handles(c)'
  BY DEF OrphansOnlyFromErrors, Handles
<1>1. x \in Channel
  BY NextMapType DEF MapTypeOK
<1>2. /\ x \in open
      /\ receivers[x] = {} \/ \E p \in Pairs : Ends(p) /\ p[2] = x
      /\ publishing # x
      /\ \A c \in Client : JoinAndCollect(c) => joining[c] # x
  BY <1>1, LastReceiver
<1>3. ASSUME NEW c \in Client, x \in Handles(c) PROVE x \in Handles(c)'
  BY <1>1, <1>2, <1>3, NextHandles
<1>4. CASE receivers[x] = {}
  <2>1. PICK c \in Client : x \in Handles(c)
    BY <1>2, <1>4 DEF OrphansOnlyFromErrors, Handles
  <2> QED BY <1>3, <2>1
<1>5. CASE \E p \in Pairs : Ends(p) /\ p[2] = x
  <2>1. PICK p \in Pairs : Ends(p) /\ p[2] = x
    BY <1>5
  <2>2. p[1] \in Client /\ x \in Handles(p[1])
    BY <2>1, EndEffect DEF RunningInv
  <2> QED BY <1>3, <2>2
<1> QED BY <1>2, <1>4, <1>5

\* PubSubInv holds initially ...
LEMMA InitPubSub == Init => PubSubInv
<1> SUFFICES ASSUME Init PROVE PubSubInv
  OBVIOUS
<1>1. ClientsInv
  BY InitClients DEF Init
<1>2. MapTypeOK /\ SessTypeOK
  BY PubSubAssumption DEF Init, MapTypeOK, SessTypeOK
<1>3. FwdTypeOK /\ IoTypeOK
  BY PubSubAssumption, EmptySeq DEF Init, FwdTypeOK, IoTypeOK
<1>4. SenderHolds /\ NeverDeaf /\ RunningInv /\ OrphansOnlyFromErrors
  BY DEF Init, SenderHolds, NeverDeaf, RunningInv, OrphansOnlyFromErrors, Running
<1>5. SessionInv /\ AbortedInv /\ ToldWhenStopped
  BY DEF Init, SessionInv, AbortedInv, ToldWhenStopped
<1> QED BY <1>1, <1>2, <1>3, <1>4, <1>5 DEF PubSubInv, TypeOK, ClientsInv

\* ... and is kept by every step.
LEMMA NextPubSub == PubSubInv /\ [Next]_vars => PubSubInv'
<1> SUFFICES ASSUME PubSubInv, [Next]_vars PROVE PubSubInv'
  OBVIOUS
<1> USE DEF PubSubInv
<1>1. ClientsInv'
  BY NextClients
<1>2. TypeOK'
  BY <1>1, NextMapType, NextSessType, NextFwdType, NextIoType DEF TypeOK, ClientsInv
<1>3. SenderHolds' /\ NeverDeaf' /\ SessionInv' /\ AbortedInv' /\ RunningInv'
  BY NextFwdType, NextDeaf, NextSession, NextAborted, NextRunning
<1>4. ToldWhenStopped' /\ OrphansOnlyFromErrors'
  BY NextTold, NextOrphans
<1> QED BY <1>1, <1>2, <1>3, <1>4

\* PubSubInv is an invariant.
LEMMA PubSubAlways == Spec => []PubSubInv
BY InitPubSub, NextPubSub, PTL DEF Spec, SafeSpec

\* TypeOK is an invariant: in particular neither a receiver's inbox nor the output
\* channel of a session ever holds more than its capacity.
THEOREM PubSubTypeCorrect == Spec => []TypeOK
<1>1. PubSubInv => TypeOK
  BY DEF PubSubInv
<1> QED BY <1>1, PubSubAlways, PTL

\* NeverDeaf is an invariant: whatever subscribe, publish, gc and the dropping of
\* receivers do in between, a forwarding task that runs has its receiver with the
\* sender that is in the map.
THEOREM NeverLeftDeaf == Spec => []NeverDeaf
<1>1. PubSubInv => NeverDeaf
  BY DEF PubSubInv
<1> QED BY <1>1, PubSubAlways, PTL

\* ToldWhenStopped is an invariant: a session with a subscription whose task stopped
\* by itself has the notice in slow_rx or is on its way out.
THEOREM StoppedAreTold == Spec => []ToldWhenStopped
<1>1. PubSubInv => ToldWhenStopped
  BY DEF PubSubInv
<1> QED BY <1>1, PubSubAlways, PTL

\* OrphansOnlyFromErrors is an invariant: a sender is in the map without receivers
\* only while somebody is about to look at it, or after an error dropped a handle.
THEOREM OrphansComeFromErrors == Spec => []OrphansOnlyFromErrors
<1>1. PubSubInv => OrphansOnlyFromErrors
  BY DEF PubSubInv
<1> QED BY <1>1, PubSubAlways, PTL

-----------------------------------------------------------------------------
(***************************************************************************)
(* What an output channel holds for one channel.                           *)
(***************************************************************************)

\* f has the messages of ch among the first i of q, for each i, and Queued is the last
\* of them.
Filters(f, q, ch) ==
  /\ f[0] = <<>> /\ Queued(q, ch) = f[Len(q)]
  /\ \A i \in 1 .. Len(q) :
       f[i] = IF q[i][1] = ch THEN Append(f[i - 1], q[i][2]) ELSE f[i - 1]

\* The recursive definition of Queued has such a function.
LEMMA QueuedFilter ==
  ASSUME NEW q \in Seq(Channel \X Message), NEW ch
  PROVE  \E f \in [0 .. Len(q) -> Seq(Message)] : Filters(f, q, ch)
<1> DEFINE N == Len(q)
           V == Seq(Message)
           turn == [i \in 1 .. N |-> [v \in V |->
                      IF q[i][1] = ch THEN Append(v, q[i][2]) ELSE v]]
           Is(f) == f = [i \in 0 .. N |->
                      IF i = 0 THEN <<>>
                      ELSE IF q[i][1] = ch THEN Append(f[i - 1], q[i][2]) ELSE f[i - 1]]
           upto == CHOOSE f : Is(f)
<1>1. N \in Nat /\ \A i \in 1 .. N : q[i] \in Channel \X Message /\ q[i][2] \in Message
  BY LenProperties
<1>2. turn \in [1 .. N -> [V -> V]]
  BY <1>1, AppendProperties
<1>3. <<>> \in V
  BY EmptySeq
<1> DEFINE none == <<>>
<1> HIDE DEF turn, V, N, none
<1>4. PICK f \in [0 .. N -> V] : Loop(f, N, none, turn)
  BY <1>1, <1>2, <1>3, LoopExists DEF none
<1>5. \A i \in 1 .. N : f[i] = IF q[i][1] = ch THEN Append(f[i - 1], q[i][2]) ELSE f[i - 1]
  <2> TAKE i \in 1 .. N
  <2>1. f[i - 1] \in V
    BY <1>1
  <2>2. turn[i] = [v \in V |-> IF q[i][1] = ch THEN Append(v, q[i][2]) ELSE v]
    BY DEF turn
  <2> QED BY <1>4, <2>1, <2>2 DEF Loop
<1>6. Is(f)
  <2>1. \A i \in 0 .. N : i = 0 \/ i \in 1 .. N
    BY <1>1
  <2>2. f[0] = <<>> BY <1>4 DEF none, Loop
  <2> QED BY <1>5, <2>1, <2>2
<1>7. Is(upto)
  BY <1>6
<1> HIDE DEF upto
<1>8. /\ upto[0] = <<>>
      /\ \A i \in 1 .. N : upto[i] = IF q[i][1] = ch THEN Append(upto[i - 1], q[i][2]) ELSE upto[i - 1]
  <2>1. upto[0] = <<>>
    <3>1. 0 \in 0 .. N BY <1>1
    <3> QED BY <1>7, <3>1
  <2>2. ASSUME NEW i \in 1 .. N
        PROVE  upto[i] = IF q[i][1] = ch THEN Append(upto[i - 1], q[i][2]) ELSE upto[i - 1]
    <3>1. i \in 0 .. N /\ i # 0 BY <1>1
    <3> QED BY <1>7, <3>1
  <2> QED BY <2>1, <2>2
<1>9. upto[N] = f[N]
  <2> DEFINE S == {i \in Nat : i <= N => upto[i] = f[i]}
  <2>1. 0 \in S BY <1>4, <1>8 DEF none, Loop
  <2>2. ASSUME NEW i \in Nat, i \in S PROVE i + 1 \in S
    <3> SUFFICES ASSUME i + 1 <= N PROVE upto[i + 1] = f[i + 1]
      OBVIOUS
    <3>1. i + 1 \in 1 .. N /\ (i + 1) - 1 = i /\ upto[i] = f[i]
      BY <1>1, <2>2
    <3> QED BY <1>5, <1>8, <3>1
  <2> HIDE DEF S
  <2>3. N \in S BY <1>1, <2>1, <2>2, ByInduction
  <2> QED BY <2>3 DEF S
<1>10. Queued(q, ch) = upto[N]
  BY DEF Queued, upto, N
<1> QED BY <1>4, <1>5, <1>9, <1>10 DEF Filters, Loop, N, V, none

\* Queued is a sequence of messages.
LEMMA QueuedType ==
  ASSUME NEW q \in Seq(Channel \X Message), NEW ch
  PROVE  Queued(q, ch) \in Seq(Message)
<1>1. PICK f \in [0 .. Len(q) -> Seq(Message)] : Filters(f, q, ch)
  BY QueuedFilter
<1>2. Len(q) \in Nat
  BY LenProperties
<1> QED BY <1>1, <1>2 DEF Filters

\* An empty output channel holds nothing.
LEMMA QueuedEmpty ==
  ASSUME NEW ch
  PROVE  Queued(<<>>, ch) = <<>>
<1> DEFINE q == <<>>
<1>1. q \in Seq(Channel \X Message) /\ Len(q) = 0
  BY EmptySeq
<1> HIDE DEF q
<1>2. PICK f \in [0 .. Len(q) -> Seq(Message)] : Filters(f, q, ch)
  BY <1>1, QueuedFilter
<1> QED BY <1>1, <1>2 DEF q, Filters

\* What an output channel holds.
Entry == Channel \X Message

\* A message that is sent is the last of its channel.
LEMMA QueuedAppend ==
  ASSUME NEW q \in Seq(Entry), NEW x \in Entry, NEW ch
  PROVE  Queued(Append(q, x), ch) =
           IF x[1] = ch THEN Append(Queued(q, ch), x[2]) ELSE Queued(q, ch)
<1> USE DEF Entry
<1> DEFINE r == Append(q, x)
           n == Len(q)
<1>1. /\ n \in Nat /\ r \in Seq(Channel \X Message) /\ Len(r) = n + 1
      /\ r[n + 1] = x /\ \A i \in 1 .. n : r[i] = q[i]
  BY LenProperties, AppendProperties
<1>2. PICK f \in [0 .. Len(q) -> Seq(Message)] : Filters(f, q, ch)
  BY QueuedFilter
<1> HIDE DEF r
<1>3. PICK g \in [0 .. Len(r) -> Seq(Message)] : Filters(g, r, ch)
  BY <1>1, QueuedFilter
<1> HIDE DEF n
<1>4. /\ \A i \in 1 .. n : f[i] = IF q[i][1] = ch THEN Append(f[i - 1], q[i][2]) ELSE f[i - 1]
      /\ \A i \in 1 .. n : g[i] = IF q[i][1] = ch THEN Append(g[i - 1], q[i][2]) ELSE g[i - 1]
      /\ g[n + 1] = IF x[1] = ch THEN Append(g[n], x[2]) ELSE g[n]
  <2>1. \A i \in 1 .. n : i \in 1 .. Len(r) BY <1>1
  <2>2. n + 1 \in 1 .. Len(r) /\ (n + 1) - 1 = n BY <1>1
  <2> QED BY <1>1, <1>2, <1>3, <2>1, <2>2 DEF Filters, n
<1>5. f[n] = g[n]
  <2> DEFINE S == {i \in Nat : i <= n => f[i] = g[i]}
  <2>1. 0 \in S BY <1>2, <1>3 DEF Filters
  <2>2. ASSUME NEW i \in Nat, i \in S PROVE i + 1 \in S
    <3> SUFFICES ASSUME i + 1 <= n PROVE f[i + 1] = g[i + 1]
      OBVIOUS
    <3>1. i + 1 \in 1 .. n /\ (i + 1) - 1 = i /\ f[i] = g[i] BY <1>1, <2>2
    <3> QED BY <1>4, <3>1
  <2> HIDE DEF S
  <2>3. n \in S BY <1>1, <2>1, <2>2, ByInduction
  <2> QED BY <2>3 DEF S
<1>6. Queued(q, ch) = f[n] /\ Queued(r, ch) = g[n + 1]
  BY <1>1, <1>2, <1>3 DEF n, Filters
<1> QED BY <1>4, <1>5, <1>6 DEF r

\* Append and concatenation.
LEMMA AppendBehind ==
  ASSUME NEW M, NEW s \in Seq(M), NEW t \in Seq(M), NEW m \in M
  PROVE  s \o Append(t, m) = Append(s \o t, m)
OBVIOUS

\* The message that is received is the first of its channel.
LEMMA QueuedTail ==
  ASSUME NEW q \in Seq(Channel \X Message), q # <<>>, NEW ch
  PROVE  Queued(q, ch) =
           (IF Head(q)[1] = ch THEN <<Head(q)[2]>> ELSE <<>>) \o Queued(Tail(q), ch)
<1> DEFINE r == Tail(q)
           n == Len(r)
           h == IF Head(q)[1] = ch THEN <<Head(q)[2]>> ELSE <<>>
<1>1. /\ n \in Nat /\ r \in Seq(Channel \X Message) /\ Len(q) = n + 1
      /\ q[1] = Head(q) /\ \A i \in 1 .. n : q[i + 1] = r[i]
  <2>1. Len(q) \in Nat /\ Len(q) # 0
    BY LenProperties, EmptySeq
  <2> QED BY <2>1, HeadTailProperties
<1>2. PICK f \in [0 .. Len(q) -> Seq(Message)] : Filters(f, q, ch)
  BY QueuedFilter
<1> HIDE DEF r
<1>3. PICK g \in [0 .. Len(r) -> Seq(Message)] : Filters(g, r, ch)
  BY <1>1, QueuedFilter
<1>4. \A i \in 1 .. n : r[i] \in Channel \X Message /\ r[i][2] \in Message
  BY <1>1
<1>5. Head(q) \in Channel \X Message /\ Head(q)[2] \in Message
  BY HeadTailProperties
<1>6. h \in Seq(Message) /\ h = IF Head(q)[1] = ch THEN Append(<<>>, Head(q)[2]) ELSE <<>>
  BY <1>5
<1> HIDE DEF n, h
<1>7. /\ \A i \in 1 .. n : f[i + 1] = IF r[i][1] = ch THEN Append(f[i], r[i][2]) ELSE f[i]
      /\ \A i \in 1 .. n : g[i] = IF r[i][1] = ch THEN Append(g[i - 1], r[i][2]) ELSE g[i - 1]
      /\ f[1] = h
  <2>1. \A i \in 1 .. n : i + 1 \in 1 .. Len(q) /\ (i + 1) - 1 = i BY <1>1
  <2>2. 1 \in 1 .. Len(q) /\ 1 - 1 = 0 BY <1>1
  <2>3. f[1] = h
    BY <1>1, <1>2, <1>6, <2>2 DEF Filters
  <2>4. \A i \in 1 .. n : f[i + 1] = IF r[i][1] = ch THEN Append(f[i], r[i][2]) ELSE f[i]
    BY <1>1, <1>2, <2>1 DEF Filters
  <2> QED BY <1>3, <2>3, <2>4 DEF Filters, n
<1>8. f[n + 1] = h \o g[n]
  <2> DEFINE P(i) == f[i + 1] = h \o g[i]
             S == {i \in Nat : i <= n => P(i)}
  <2>1. P(0)
    <3>1. g[0] = <<>> /\ f[1] = h BY <1>3, <1>7 DEF Filters
    <3>2. h \o <<>> = h BY <1>6
    <3>3. 0 + 1 = 1 OBVIOUS
    <3> QED BY ONLY <3>1, <3>2, <3>3
  <2>2. ASSUME NEW i \in Nat, i + 1 <= n, P(i) PROVE P(i + 1)
    <3> DEFINE j == i + 1
    <3>1. j \in 1 .. n /\ j - 1 = i /\ i \in 0 .. n BY <1>1, <2>2
    <3>2. f[j] = h \o g[i] BY <2>2
    <3>3. g[i] \in Seq(Message) BY <3>1 DEF n
    <3> HIDE DEF j
    <3>4. /\ f[j + 1] = IF r[j][1] = ch THEN Append(f[j], r[j][2]) ELSE f[j]
          /\ g[j] = IF r[j][1] = ch THEN Append(g[i], r[j][2]) ELSE g[i]
          /\ r[j][2] \in Message
      BY <1>4, <1>7, <3>1
    <3> DEFINE gi == g[i]
    <3>5. ASSUME NEW m \in Message PROVE h \o Append(gi, m) = Append(h \o gi, m)
      <4>1. h \in Seq(Message) /\ gi \in Seq(Message) BY <1>6, <3>3
      <4> HIDE DEF gi
      <4> QED BY ONLY <4>1, m \in Message, AppendBehind
    <3>6. f[j + 1] = h \o g[j]
      BY <3>2, <3>4, <3>5
    <3> QED BY <3>6 DEF j
  <2> HIDE DEF P
  <2>3. 0 \in S /\ \A i \in Nat : i \in S => i + 1 \in S
    BY <1>1, <2>1, <2>2
  <2> HIDE DEF S
  <2>4. n \in S BY <1>1, <2>3, ByInduction
  <2>5. P(n) BY <1>1, <2>4 DEF S
  <2> QED BY <2>5 DEF P
<1>9. Queued(q, ch) = f[n + 1] /\ Queued(r, ch) = g[n]
  BY <1>1, <1>2, <1>3 DEF n, Filters
<1> QED BY <1>8, <1>9 DEF r, h

-----------------------------------------------------------------------------
(***************************************************************************)
(* What the mapping needs to know besides PubSubInv: a task that does not  *)
(* run holds nothing and has no receiver, one that waits has empty hands,  *)
(* one that lagged has nothing it could still receive, and a connection in *)
(* command mode has no output channel.                                     *)
(***************************************************************************)
TaskInv ==
  \A p \in Pairs :
    /\ ~Running(p) => hand[p] = 0 /\ inbox[p] = <<>> /\ ~lagged[p]
    /\ fwd[p] = "recv" => hand[p] = 0
    /\ lagged[p] => inbox[p] = <<>>
    /\ p[1] \in receivers[p[2]] => Running(p)

OutInv == \A c \in Client : pc[c] = "command" => out[c] = <<>>

MapInv == PubSubInv /\ TaskInv /\ OutInv

\* What a publish does to one pair: nothing, if it has no receiver or lags already; its
\* inbox overruns; or the message is the last in it.
LEMMA PublishPair ==
  ASSUME TypeOK, TaskInv, NEW ch \in Channel, PublishSend(ch), NEW q \in Pairs
  PROVE  \/ /\ q[2] # ch \/ q[1] \notin receivers[ch] \/ lagged[q]
            /\ inbox'[q] = inbox[q] /\ (lagged'[q] <=> lagged[q])
         \/ /\ q[2] = ch /\ q[1] \in receivers[ch] /\ ~lagged[q]
            /\ inbox'[q] = <<>> /\ lagged'[q]
         \/ /\ q[2] = ch /\ q[1] \in receivers[ch] /\ ~lagged[q]
            /\ inbox'[q] = Append(inbox[q], sent[ch] + 1) /\ ~lagged'[q]
<1> DEFINE full == {c \in receivers[ch] : Len(inbox[<<c, ch>>]) = ChanCap}
<1>1. /\ inbox'[q] = IF q[2] # ch \/ q[1] \notin receivers[ch] \/ lagged[q] THEN inbox[q]
                     ELSE IF q[1] \in full THEN <<>>
                     ELSE Append(inbox[q], sent[ch] + 1)
      /\ lagged'[q] <=> lagged[q] \/ (q[2] = ch /\ q[1] \in full)
  BY DEF PublishSend
<1>2. q[2] = ch => q = <<q[1], ch>>
  BY PairParts
<1>3. full \subseteq receivers[ch]
  OBVIOUS
<1>4. q[2] = ch /\ lagged[q] => q[1] \notin full
  BY <1>2, PubSubAssumption DEF TaskInv
<1> HIDE DEF full
<1> QED BY <1>1, <1>3, <1>4

\* TaskInv is kept.
LEMMA NextTask ==
  ASSUME PubSubInv, TaskInv, [Next]_vars
  PROVE  TaskInv'
<1>a. TypeOK /\ MapTypeOK /\ SessTypeOK /\ FwdTypeOK
  BY DEF PubSubInv, TypeOK
<1>1. ASSUME UNCHANGED <<receivers, fwd, hand, inbox, lagged>> PROVE TaskInv'
  BY <1>1 DEF TaskInv, Running
<1>2. ASSUME NEW c \in Client, NEW ch \in Channel, SubscribeOne(c, ch) PROVE TaskInv'
  <2>1. /\ \/ /\ fwd' = [fwd EXCEPT ![<<c, ch>>] = "recv"]
              /\ receivers' = [receivers EXCEPT ![ch] = @ \cup {c}]
              /\ ch \notin tasks[c]
           \/ fwd' = fwd /\ receivers' = receivers
        /\ UNCHANGED <<hand, inbox, lagged>>
        /\ pc[c] = "subscribing"
    BY <1>2 DEF SubscribeOne, PubsubSubscribe, mapVars
  <2>2. CASE fwd' = fwd /\ receivers' = receivers
    BY <1>1, <2>1, <2>2
  <2>3. CASE ~(fwd' = fwd /\ receivers' = receivers)
    <3>1. ~Running(<<c, ch>>) /\ <<c, ch>> \in Pairs
      <4>1. stage[c] = "served" /\ joining[c] = None
        BY <2>1 DEF PubSubInv, SessionInv
      <4>2. detached[c] = {}
        BY <4>1 DEF PubSubInv, SessionInv
      <4> QED BY <2>1, <2>3, <4>1, <4>2, PairParts, PubSubAssumption
              DEF PubSubInv, RunningInv, Handles
    <3>2. hand[<<c, ch>>] = 0
      BY <3>1 DEF TaskInv
    <3> SUFFICES ASSUME NEW q \in Pairs
                 PROVE  /\ ~Running(q)' => hand'[q] = 0 /\ inbox'[q] = <<>> /\ ~lagged'[q]
                        /\ fwd'[q] = "recv" => hand'[q] = 0
                        /\ lagged'[q] => inbox'[q] = <<>>
                        /\ q[1] \in receivers'[q[2]] => Running(q)'
      BY DEF TaskInv
    <3>3. fwd' = [fwd EXCEPT ![<<c, ch>>] = "recv"] /\ receivers' = [receivers EXCEPT ![ch] = @ \cup {c}]
      BY <2>1, <2>3
    <3>4. q[1] \in Client /\ q[2] \in Channel /\ (q = <<c, ch>> <=> q[1] = c /\ q[2] = ch)
      BY PairParts, <3>1
    <3> QED BY <1>a, <2>1, <3>1, <3>2, <3>3, <3>4 DEF TaskInv, Running, FwdTypeOK, MapTypeOK
  <2> QED BY <2>2, <2>3
<1>3. ASSUME NEW c \in Client, JoinAndCollect(c) PROVE TaskInv'
  <2> DEFINE p == <<c, joining[c]>>
  <2>1. /\ p \in Pairs /\ fwd[p] = "over" /\ fwd' = [fwd EXCEPT ![p] = "none"]
        /\ UNCHANGED <<hand, inbox, lagged>>
        /\ \A ch \in Channel : receivers'[ch] \subseteq receivers[ch]
    BY <1>3, <1>a, PairParts DEF JoinAndCollect, PubsubGc, RemoveChannel, SessTypeOK, MapTypeOK
  <2> HIDE DEF p
  <2>2. \A q \in Pairs : (Running(q)' <=> Running(q)) /\ (fwd'[q] = "recv" <=> fwd[q] = "recv")
    BY <1>a, <2>1 DEF Running, FwdTypeOK
  <2>3. \A q \in Pairs : q[1] \in receivers'[q[2]] => q[1] \in receivers[q[2]]
    BY <2>1, PairParts
  <2> QED BY <2>1, <2>2, <2>3 DEF TaskInv
<1>4. ASSUME NEW p \in Pairs, Recv(p) PROVE TaskInv'
  <2>1. /\ fwd[p] = "recv" /\ ~lagged[p]
        /\ fwd' = [fwd EXCEPT ![p] = "send"]
        /\ hand' = [hand EXCEPT ![p] = Head(inbox[p])]
        /\ inbox' = [inbox EXCEPT ![p] = Tail(@)]
        /\ lagged' = lagged /\ receivers' = receivers
    BY <1>4 DEF Recv, mapVars
  <2> QED BY <1>a, <2>1 DEF TaskInv, Running, FwdTypeOK
<1>5. ASSUME NEW p \in Pairs, TrySend(p) PROVE TaskInv'
  <2>1. /\ fwd[p] = "send" /\ fwd' = [fwd EXCEPT ![p] = "recv"]
        /\ hand' = [hand EXCEPT ![p] = 0]
        /\ UNCHANGED <<inbox, lagged, receivers>>
    BY <1>5 DEF TrySend, mapVars
  <2> QED BY <1>a, <2>1 DEF TaskInv, Running, FwdTypeOK
<1>6. ASSUME NEW p \in Pairs, Ends(p) PROVE TaskInv'
  <2>1. /\ fwd' = [fwd EXCEPT ![p] = "over"] /\ hand' = [hand EXCEPT ![p] = 0]
        /\ receivers' = [receivers EXCEPT ![p[2]] = @ \ {p[1]}]
    BY <1>6, EndEffect
  <2>2. inbox' = [inbox EXCEPT ![p] = <<>>] /\ lagged' = [lagged EXCEPT ![p] = FALSE]
    BY <1>6 DEF Ends, RecvLagged, TrySendFull, TrySendClosed, Cancel, TaskEnds
  <2> SUFFICES ASSUME NEW q \in Pairs
               PROVE  /\ ~Running(q)' => hand'[q] = 0 /\ inbox'[q] = <<>> /\ ~lagged'[q]
                      /\ fwd'[q] = "recv" => hand'[q] = 0
                      /\ lagged'[q] => inbox'[q] = <<>>
                      /\ q[1] \in receivers'[q[2]] => Running(q)'
    BY DEF TaskInv
  <2>3. /\ q[1] \in Client /\ q[2] \in Channel /\ p[1] \in Client /\ p[2] \in Channel
        /\ q = p <=> q[1] = p[1] /\ q[2] = p[2]
    BY PairParts
  <2> QED BY <1>a, <2>1, <2>2, <2>3 DEF TaskInv, Running, FwdTypeOK, MapTypeOK
<1>7. ASSUME NEW ch \in Channel, PublishSend(ch) PROVE TaskInv'
  <2>1. UNCHANGED <<receivers, fwd, hand>>
    BY <1>7, PublishEffect
  <2>2. \A q \in Pairs : Running(q)' <=> Running(q)
    BY <2>1 DEF Running
  <2>3. ASSUME NEW q \in Pairs
        PROVE  /\ ~Running(q) => inbox'[q] = <<>> /\ ~lagged'[q]
               /\ lagged'[q] => inbox'[q] = <<>>
    BY <1>7, <1>a, PublishPair DEF TaskInv
  <2> QED BY <2>1, <2>2, <2>3 DEF TaskInv
<1>8. ASSUME PublishCollect PROVE TaskInv'
  <2>1. /\ UNCHANGED <<fwd, hand, inbox, lagged>>
        /\ \A ch \in Channel : receivers'[ch] \subseteq receivers[ch]
    BY <1>8, <1>a DEF PublishCollect, RemoveChannel, MapTypeOK, fwdVars
  <2>2. \A q \in Pairs : q[1] \in receivers'[q[2]] => q[1] \in receivers[q[2]]
    BY <2>1, PairParts
  <2> QED BY <2>1, <2>2 DEF TaskInv, Running
<1>9. ASSUME NEW c \in Client,
             \/ AcceptStep(c) \/ GuardStep(c) \/ Disconnect(c) \/ ErrorReturn(c)
             \/ \E chs \in SUBSET Channel : ReadSubscribe(c, chs) \/ ReadUnsubscribe(c, chs)
             \/ \E ch \in Channel : UnsubscribeOne(c, ch) \/ CleanupOne(c, ch)
             \/ UnsubscribeDone(c) \/ CleanupDone(c) \/ Deliver(c) \/ CloseSlow(c) \/ ReadEof(c)
      PROVE  UNCHANGED <<receivers, fwd, hand, inbox, lagged>>
  BY <1>9 DEF AcceptStep, GuardStep, Disconnect, ErrorReturn, ReadSubscribe, ReadUnsubscribe,
     UnsubscribeOne, CleanupOne, UnsubscribeDone, CleanupDone, Deliver, CloseSlow, ReadEof,
     mapVars, fwdVars
<1>10. ASSUME UNCHANGED vars PROVE UNCHANGED <<receivers, fwd, hand, inbox, lagged>>
  BY <1>10 DEF vars, mapVars, fwdVars
<1> QED BY <1>1, <1>2, <1>3, <1>4, <1>5, <1>6, <1>7, <1>8, <1>9, <1>10
        DEF Next, LoopStep, ForwardStep, Ends

\* OutInv is kept.
LEMMA NextOut ==
  ASSUME PubSubInv, OutInv, [Next]_vars
  PROVE  OutInv'
<1>a. TypeOK /\ SessTypeOK /\ IoTypeOK
  BY DEF PubSubInv, TypeOK
<1>1. ASSUME UNCHANGED out, \A c \in Client : pc'[c] = "command" => pc[c] = "command"
      PROVE  OutInv'
  BY <1>1 DEF OutInv
<1>2. ASSUME NEW c \in Client, Deliver(c) PROVE OutInv'
  BY <1>2, <1>a DEF Deliver, OutInv, sessVars, IoTypeOK
<1>3. ASSUME NEW c \in Client, CleanupDone(c) \/ ErrorReturn(c) PROVE OutInv'
  BY <1>3, <1>a DEF CleanupDone, ErrorReturn, DropOutput, GoTo, OutInv, SessTypeOK, IoTypeOK
<1>4. ASSUME NEW p \in Pairs, TrySend(p) PROVE OutInv'
  BY <1>4, <1>a, PairParts DEF TrySend, OutInv, sessVars, IoTypeOK, Subscribed
<1>5. ASSUME NEW p \in Pairs, Recv(p) \/ Ends(p) PROVE UNCHANGED <<out, pc>>
  BY <1>5, EndEffect DEF Recv, sessVars, ioVars
<1>6. ASSUME NEW c \in Client,
             \/ \E chs \in SUBSET Channel : ReadSubscribe(c, chs) \/ ReadUnsubscribe(c, chs)
             \/ \E ch \in Channel : SubscribeOne(c, ch)
             \/ UnsubscribeDone(c) \/ CloseSlow(c) \/ ReadEof(c)
      PROVE  /\ UNCHANGED out
             /\ pc' \in {[pc EXCEPT ![c] = to] : to \in Subscribed}
  BY <1>6 DEF ReadSubscribe, ReadUnsubscribe, SubscribeOne, UnsubscribeDone, CloseSlow, ReadEof,
     GoTo, ioVars, Subscribed
<1>7. ASSUME NEW c \in Client, UNCHANGED out, pc' \in {[pc EXCEPT ![c] = to] : to \in Subscribed}
      PROVE  OutInv'
  BY <1>1, <1>7, <1>a DEF SessTypeOK, Subscribed
<1>8. ASSUME NEW c \in Client,
             \/ AcceptStep(c) \/ GuardStep(c) \/ Disconnect(c) \/ JoinAndCollect(c)
             \/ \E ch \in Channel : UnsubscribeOne(c, ch) \/ CleanupOne(c, ch)
      PROVE  UNCHANGED <<out, pc>>
  BY <1>8 DEF AcceptStep, GuardStep, Disconnect, JoinAndCollect, UnsubscribeOne, CleanupOne,
     sessVars, ioVars
<1>9. ASSUME (\E ch \in Channel : PublishSend(ch)) \/ PublishCollect \/ UNCHANGED vars
      PROVE  UNCHANGED <<out, pc>>
  BY <1>9 DEF PublishSend, PublishCollect, vars, sessVars, ioVars
<1> QED BY <1>1, <1>2, <1>3, <1>4, <1>5, <1>6, <1>7, <1>8, <1>9
        DEF Next, LoopStep, ForwardStep, Ends

\* MapInv is an invariant.
LEMMA MapAlways == Spec => []MapInv
<1>1. Init => MapInv
  <2> SUFFICES ASSUME Init PROVE MapInv
    OBVIOUS
  <2>1. TaskInv
    BY DEF Init, TaskInv, Running, Pairs
  <2>2. OutInv
    BY DEF Init, OutInv
  <2> QED BY <2>1, <2>2, InitPubSub DEF MapInv
<1>2. MapInv /\ [Next]_vars => MapInv'
  BY NextPubSub, NextTask, NextOut DEF MapInv
<1> QED BY <1>1, <1>2, PTL DEF Spec, SafeSpec

\* A session in subscribed mode has dropped no handle: each of its tasks that runs is in
\* its map or awaited.
LEMMA HeldByHandle ==
  ASSUME PubSubInv, NEW p \in Pairs, Running(p), pc[p[1]] \in Subscribed
  PROVE  p[2] \in tasks[p[1]] \cup {joining[p[1]]}
<1>1. p[1] \in Client
  BY PairParts
<1>2. stage[p[1]] = "served"
  BY <1>1 DEF PubSubInv, SessionInv, Subscribed
<1>3. detached[p[1]] = {}
  BY <1>1, <1>2 DEF PubSubInv, SessionInv
<1> QED BY <1>3 DEF PubSubInv, RunningInv, Handles

-----------------------------------------------------------------------------
(***************************************************************************)
(* The steps of PubSub, mapped.                                            *)
(***************************************************************************)

\* The feed of a pair is as it was.
Same(p) == FeedState(p)' = FeedState(p) /\ OwedTo(p)' = OwedTo(p)

\* The channels a session has a handle for that it did not drop.
Held(p) == p[2] \in tasks[p[1]] \cup {joining[p[1]]}

\* What a feed depends on.
LEMMA SameInputs ==
  ASSUME NEW p \in Pairs,
         pc'[p[1]] \in Subscribed <=> pc[p[1]] \in Subscribed,
         Running(p)' <=> Running(p), lagged'[p] <=> lagged[p], Held(p)' <=> Held(p),
         out'[p[1]] = out[p[1]], hand'[p] = hand[p], inbox'[p] = inbox[p]
  PROVE  Same(p)
<1>1. FeedState(p)' = FeedState(p)
  BY DEF FeedState, Held
<1>2. OwedTo(p)' = OwedTo(p)
  BY DEF OwedTo
<1> QED BY <1>1, <1>2 DEF Same

\* When no feed changes, nothing is published and nothing is delivered, Feed stutters.
LEMMA Stutters ==
  ASSUME \A p \in Pairs : Same(p), UNCHANGED <<sent, last>>
  PROVE  UNCHANGED Feeds!vars
BY DEF Same, Feeds!vars

\* The sequence algebra of what is owed.
LEMMA OwedParts ==
  ASSUME TypeOK, NEW p \in Pairs
  PROVE  /\ p[1] \in Client /\ p[2] \in Channel
         /\ Queued(out[p[1]], p[2]) \in Seq(Message) /\ inbox[p] \in Seq(Message)
         /\ hand[p] # 0 => hand[p] \in Message
         /\ out[p[1]] \in Seq(Channel \X Message)
<1>1. p[1] \in Client /\ p[2] \in Channel
  BY PairParts
<1>2. out[p[1]] \in Seq(Channel \X Message)
  BY <1>1 DEF TypeOK, IoTypeOK
<1>3. hand[p] # 0 => hand[p] \in Message
  BY PubSubAssumption DEF TypeOK, FwdTypeOK, Message
<1> QED BY <1>1, <1>2, <1>3, QueuedType DEF TypeOK, FwdTypeOK

\* Steps that leave tasks, queues and modes alone, and the handles of each session but for
\* those that move from its map to where they are awaited.
LEMMA QuietSteps ==
  ASSUME PubSubInv,
         UNCHANGED <<fwd, hand, inbox, lagged, out, sent, last>>,
         \A c \in Client : pc'[c] \in Subscribed <=> pc[c] \in Subscribed,
         \A p \in Pairs : Held(p)' <=> Held(p)
  PROVE  UNCHANGED Feeds!vars
<1>1. ASSUME NEW p \in Pairs PROVE Same(p)
  <2>1. p[1] \in Client BY PairParts
  <2>2. Running(p)' <=> Running(p) BY DEF Running
  <2> QED BY <2>1, <2>2, SameInputs
<1> QED BY <1>1, Stutters

\* The steps of the accept loop, and those of a session that only move it on.
LEMMA MapControl ==
  ASSUME PubSubInv, NEW c \in Client,
         \/ AcceptStep(c) \/ GuardStep(c) \/ Disconnect(c)
         \/ \E chs \in SUBSET Channel : ReadUnsubscribe(c, chs)
         \/ UnsubscribeDone(c) \/ CloseSlow(c) \/ ReadEof(c)
  PROVE  UNCHANGED Feeds!vars
<1>1. UNCHANGED <<fwd, hand, inbox, lagged, out, sent, last, tasks, joining>>
  BY DEF AcceptStep, GuardStep, Disconnect, ReadUnsubscribe, UnsubscribeDone, CloseSlow, ReadEof,
     mapVars, sessVars, fwdVars, ioVars
<1>2. \/ pc' = pc
      \/ pc[c] \in Subscribed /\ pc' \in {[pc EXCEPT ![c] = to] : to \in Subscribed}
  BY DEF AcceptStep, GuardStep, Disconnect, ReadUnsubscribe, UnsubscribeDone, CloseSlow, ReadEof,
     sessVars, GoTo, Subscribed
<1>3. \A d \in Client : pc'[d] \in Subscribed <=> pc[d] \in Subscribed
  BY <1>2 DEF PubSubInv, TypeOK, SessTypeOK
<1>4. \A p \in Pairs : Held(p)' <=> Held(p)
  BY <1>1 DEF Held
<1> QED BY <1>1, <1>3, <1>4, QuietSteps

\* A handle that is taken out of the map is awaited.
LEMMA MapAbort ==
  ASSUME PubSubInv, NEW c \in Client, NEW ch \in Channel, UnsubscribeOne(c, ch) \/ CleanupOne(c, ch)
  PROVE  UNCHANGED Feeds!vars
<1>1. UNCHANGED <<fwd, hand, inbox, lagged, out, sent, last, pc>>
  BY DEF UnsubscribeOne, CleanupOne, mapVars, ioVars
<1>2. \/ UNCHANGED <<tasks, joining>>
      \/ /\ ch \in tasks[c] /\ joining[c] = None
         /\ tasks' = [tasks EXCEPT ![c] = @ \ {ch}]
         /\ joining' = [joining EXCEPT ![c] = ch]
  BY DEF UnsubscribeOne, CleanupOne, Abort
<1>3. ASSUME NEW p \in Pairs PROVE Held(p)' <=> Held(p)
  <2>1. p[1] \in Client /\ p[2] \in Channel /\ p[2] # None
    BY PairParts, PubSubAssumption
  <2>2. SessTypeOK BY DEF PubSubInv, TypeOK
  <2>3. CASE p[1] = c
    BY <1>2, <2>1, <2>2, <2>3 DEF Held, SessTypeOK
  <2>4. CASE p[1] # c
    BY <1>2, <2>1, <2>2, <2>4 DEF Held, SessTypeOK
  <2> QED BY <2>3, <2>4
<1> QED BY <1>1, <1>3, QuietSteps

\* A session that enters the subscribed mode has no feed yet and owes nothing.
LEMMA MapReadSubscribe ==
  ASSUME MapInv, NEW c \in Client, NEW chs \in SUBSET Channel, ReadSubscribe(c, chs)
  PROVE  UNCHANGED Feeds!vars
<1> USE DEF MapInv
<1>1. /\ UNCHANGED <<fwd, hand, inbox, lagged, out, sent, last, tasks, joining>>
      /\ pc' = [pc EXCEPT ![c] = "subscribing"]
      /\ stage[c] = "served"
  BY DEF ReadSubscribe, GoTo, mapVars, fwdVars, ioVars
<1>2. SessTypeOK
  BY DEF PubSubInv, TypeOK
<1>3. \A p \in Pairs : (Held(p)' <=> Held(p)) /\ (Running(p)' <=> Running(p))
  BY <1>1 DEF Held, Running
<1>4. CASE pc[c] = "selecting"
  <2>1. \A d \in Client : pc'[d] \in Subscribed <=> pc[d] \in Subscribed
    BY <1>1, <1>2, <1>4 DEF SessTypeOK, Subscribed
  <2> QED BY <1>1, <1>3, <2>1, QuietSteps
<1>5. CASE pc[c] = "command"
  <2>1. tasks[c] = {} /\ joining[c] = None /\ detached[c] = {} /\ out[c] = <<>>
    BY <1>1, <1>5 DEF PubSubInv, SessionInv, OutInv
  <2>2. ASSUME NEW p \in Pairs PROVE Same(p)
    <3>1. p[1] \in Client /\ p[2] \in Channel /\ p[2] # None
      BY PairParts, PubSubAssumption
    <3>2. CASE p[1] # c
      <4>1. pc'[p[1]] \in Subscribed <=> pc[p[1]] \in Subscribed
        BY <1>1, <1>2, <3>1, <3>2 DEF SessTypeOK
      <4> QED BY <1>1, <1>3, <4>1, SameInputs
    <3>3. CASE p[1] = c
      <4>1. ~Running(p) /\ ~Held(p)
        BY <2>1, <3>1, <3>3 DEF PubSubInv, RunningInv, Handles, Held
      <4>2. hand[p] = 0 /\ inbox[p] = <<>> /\ Queued(out[c], p[2]) = <<>>
        BY <2>1, <4>1, QueuedEmpty DEF TaskInv
      <4>3. pc[p[1]] \notin Subscribed /\ pc'[p[1]] \in Subscribed
        BY <1>1, <1>2, <1>5, <3>3 DEF SessTypeOK, Subscribed
      <4>4. FeedState(p) = "off" /\ FeedState(p)' = "off"
        BY <1>3, <4>1, <4>3 DEF FeedState, Held
      <4>5. OwedTo(p) = <<>>
        BY <4>3 DEF OwedTo
      <4>6. OwedTo(p)' = (<<>> \o <<>>) \o <<>>
        BY <1>1, <3>3, <4>2, <4>3 DEF OwedTo
      <4>7. (<<>> \o <<>>) \o <<>> = <<>>
        OBVIOUS
      <4> QED BY <4>4, <4>5, <4>6, <4>7 DEF Same
    <3> QED BY <3>2, <3>3
  <2> QED BY <1>1, <2>2, Stutters
<1>6. pc[c] = "command" \/ pc[c] = "selecting"
  BY DEF ReadSubscribe
<1> QED BY <1>4, <1>5, <1>6

\* Subscribing to a channel turns its feed on; to one that is in tasks already, does nothing.
LEMMA MapSubscribeOne ==
  ASSUME MapInv, NEW c \in Client, NEW ch \in Channel, SubscribeOne(c, ch)
  PROVE  Feeds!TurnOn(<<c, ch>>) \/ UNCHANGED Feeds!vars
<1> USE DEF MapInv
<1> DEFINE p == <<c, ch>>
<1>1. /\ UNCHANGED <<joining, hand, inbox, lagged, out, sent, last>>
      /\ pc[c] \in Subscribed /\ pc' \in {[pc EXCEPT ![c] = to] : to \in Subscribed}
      /\ pc[c] = "subscribing"
  BY DEF SubscribeOne, PubsubSubscribe, GoTo, mapVars, ioVars, Subscribed
<1>2. SessTypeOK /\ FwdTypeOK
  BY DEF PubSubInv, TypeOK
<1>3. \A d \in Client : pc'[d] \in Subscribed <=> pc[d] \in Subscribed
  BY <1>1, <1>2 DEF SessTypeOK
<1>4. CASE ch \in tasks[c]
  <2>1. fwd' = fwd /\ tasks' = tasks
    BY <1>4 DEF SubscribeOne
  <2>2. \A q \in Pairs : Held(q)' <=> Held(q)
    BY <1>1, <2>1 DEF Held
  <2> QED BY <1>1, <1>3, <2>1, <2>2, QuietSteps
<1>5. CASE ch \notin tasks[c]
  <2>1. tasks' = [tasks EXCEPT ![c] = @ \cup {ch}] /\ fwd' = [fwd EXCEPT ![p] = "recv"]
    BY <1>5 DEF SubscribeOne
  <2>2. p \in Pairs /\ p[1] = c /\ p[2] = ch /\ ch # None
    BY PairParts, PubSubAssumption
  <2>3. joining[c] = None /\ stage[c] = "served"
    BY <1>1 DEF PubSubInv, SessionInv
  <2>4. ~Held(p)
    BY <1>5, <2>2, <2>3 DEF Held
  <2>5. ~Running(p)
    BY <1>1, <2>2, <2>4, HeldByHandle DEF Held
  <2>6. ~lagged[p]
    BY <2>2, <2>5 DEF TaskInv
  <2> HIDE DEF p
  <2>7. FeedState(p) = "off"
    BY <1>1, <2>2, <2>4, <2>5 DEF FeedState, Held
  <2>8. pc'[c] \in Subscribed
    BY <1>1, <1>3
  <2>9. FeedState(p)' = "on"
    BY <1>1, <1>2, <2>1, <2>2, <2>6, <2>8 DEF FeedState, Running, FwdTypeOK
  <2>10. OwedTo(p)' = OwedTo(p)
    BY <1>1, <1>3, <2>2 DEF OwedTo
  <2>11. ASSUME NEW q \in Pairs, q # p PROVE Same(q)
    <3>1. q[1] \in Client /\ q[2] \in Channel
      BY PairParts
    <3>2. Running(q)' <=> Running(q)
      BY <1>2, <2>1, <2>11 DEF Running, FwdTypeOK
    <3>3. q[1] # c \/ q[2] # ch
      BY <2>2, <2>11, PairParts
    <3>4. Held(q)' <=> Held(q)
      BY <1>1, <1>2, <2>1, <3>1, <3>3 DEF Held, SessTypeOK
    <3> QED BY <1>1, <1>3, <3>1, <3>2, <3>4, SameInputs
  <2>12. \A q \in Pairs : OwedTo(q)' = OwedTo(q) /\ (q # p => FeedState(q)' = FeedState(q))
    BY <2>10, <2>11 DEF Same
  <2>13. Feeds!TurnOn(p)
    BY <1>1, <2>2, <2>7, <2>9, <2>12 DEF Feeds!TurnOn
  <2> QED BY <2>13 DEF p
<1> QED BY <1>4, <1>5

\* A task that was awaited is forgotten: its feed, cut when the task ended, is off.
LEMMA MapJoin ==
  ASSUME MapInv, NEW c \in Client, NEW ch \in Channel, joining[c] = ch, JoinAndCollect(c)
  PROVE  Feeds!TurnOff(<<c, ch>>) \/ UNCHANGED Feeds!vars
<1> USE DEF MapInv
<1> DEFINE p == <<c, ch>>
<1>1. /\ UNCHANGED <<pc, tasks, hand, inbox, lagged, out, sent, last>>
      /\ ch # None /\ fwd[p] = "over" /\ fwd' = [fwd EXCEPT ![p] = "none"]
      /\ joining' = [joining EXCEPT ![c] = None]
  BY DEF JoinAndCollect, PubsubGc, ioVars
<1>2. SessTypeOK /\ FwdTypeOK
  BY DEF PubSubInv, TypeOK
<1>3. p \in Pairs /\ p[1] = c /\ p[2] = ch
  BY PairParts
<1>4. pc[c] \in Subscribed
  BY <1>1 DEF PubSubInv, SessionInv, Subscribed
<1> HIDE DEF p
<1>5. \A q \in Pairs : Running(q)' <=> Running(q)
  BY <1>1, <1>2 DEF Running, FwdTypeOK
<1>6. ASSUME NEW q \in Pairs, q # p \/ Held(p)' PROVE Same(q)
  <2>1. q[1] \in Client /\ q[2] \in Channel /\ q[2] # None /\ (q = p <=> q[1] = c /\ q[2] = ch)
    BY <1>3, PairParts, PubSubAssumption
  <2>2. Held(q)' <=> Held(q)
    <3>1. CASE q = p
      BY <1>3, <1>6, <3>1 DEF Held
    <3>2. CASE q # p
      BY <1>1, <1>2, <2>1, <3>2 DEF Held, SessTypeOK
    <3> QED BY <3>1, <3>2
  <2> QED BY <1>1, <1>5, <2>2, SameInputs
<1>7. CASE Held(p)'
  BY <1>1, <1>6, <1>7, Stutters
<1>8. CASE ~Held(p)'
  <2>1. ~Running(p) /\ Held(p)
    BY <1>1, <1>3 DEF Running, Held
  <2>2. FeedState(p) = "cut" /\ FeedState(p)' = "off"
    BY <1>1, <1>3, <1>4, <1>5, <1>8, <2>1 DEF FeedState, Held
  <2>3. OwedTo(p)' = OwedTo(p)
    BY <1>1 DEF OwedTo
  <2>4. \A q \in Pairs : OwedTo(q)' = OwedTo(q) /\ (q # p => FeedState(q)' = FeedState(q))
    BY <1>6, <2>3 DEF Same
  <2>5. Feeds!TurnOff(p)
    BY <1>1, <1>3, <2>2, <2>4 DEF Feeds!TurnOff
  <2> QED BY <2>5 DEF p
<1> QED BY <1>7, <1>8

\* The subscribed mode ends and all feeds of the client with it.
LEMMA MapLeave ==
  ASSUME MapInv, NEW c \in Client, CleanupDone(c) \/ ErrorReturn(c)
  PROVE  Feeds!Leave(c)
<1> USE DEF MapInv
<1>1. /\ UNCHANGED <<joining, fwd, hand, inbox, lagged, sent, last>>
      /\ out' = [out EXCEPT ![c] = <<>>] /\ pc' = [pc EXCEPT ![c] = "command"]
      /\ tasks' = [tasks EXCEPT ![c] = {}]
  <2>1. CASE CleanupDone(c)
    BY <2>1 DEF CleanupDone, DropOutput, GoTo, mapVars, fwdVars, PubSubInv, TypeOK, SessTypeOK
  <2>2. CASE ErrorReturn(c)
    BY <2>2 DEF ErrorReturn, DropOutput, GoTo, mapVars, fwdVars
  <2> QED BY <2>1, <2>2
<1>2. SessTypeOK /\ IoTypeOK
  BY DEF PubSubInv, TypeOK
<1>3. ASSUME NEW p \in Pairs, p[1] # c PROVE Same(p)
  <2>1. p[1] \in Client
    BY PairParts
  <2>2. pc'[p[1]] = pc[p[1]] /\ out'[p[1]] = out[p[1]] /\ (Held(p)' <=> Held(p))
    BY <1>1, <1>2, <1>3, <2>1 DEF SessTypeOK, IoTypeOK, Held
  <2>3. Running(p)' <=> Running(p)
    BY <1>1 DEF Running
  <2> QED BY <1>1, <2>2, <2>3, SameInputs
<1>4. ASSUME NEW p \in Pairs, p[1] = c PROVE FeedState(p)' = "off" /\ OwedTo(p)' = <<>>
  <2>1. pc'[p[1]] \notin Subscribed
    BY <1>1, <1>2, <1>4 DEF SessTypeOK, Subscribed
  <2> QED BY <2>1 DEF FeedState, OwedTo
<1> QED BY <1>1, <1>3, <1>4 DEF Feeds!Leave, Feeds!Pairs, Pairs, Same

\* rx.recv() moves a message from the inbox to the task's hand: what is owed stays.
LEMMA MapRecv ==
  ASSUME MapInv, NEW p \in Pairs, Recv(p)
  PROVE  UNCHANGED Feeds!vars
<1> USE DEF MapInv
<1>1. /\ fwd[p] = "recv" /\ inbox[p] # <<>> /\ fwd' = [fwd EXCEPT ![p] = "send"]
      /\ hand' = [hand EXCEPT ![p] = Head(inbox[p])] /\ inbox' = [inbox EXCEPT ![p] = Tail(@)]
      /\ UNCHANGED <<lagged, out, sent, last, pc, tasks, joining>>
  BY DEF Recv, mapVars, sessVars, ioVars
<1>2. TypeOK /\ FwdTypeOK
  BY DEF PubSubInv, TypeOK
<1>3. \A q \in Pairs : (Running(q)' <=> Running(q)) /\ (Held(q)' <=> Held(q))
  BY <1>1, <1>2 DEF Running, Held, FwdTypeOK
<1>4. ASSUME NEW q \in Pairs, q # p PROVE Same(q)
  <2>1. hand'[q] = hand[q] /\ inbox'[q] = inbox[q]
    BY <1>1, <1>2, <1>4 DEF FwdTypeOK
  <2> QED BY <1>1, <1>3, <2>1, SameInputs
<1>5. Same(p)
  <2> DEFINE Q == Queued(out[p[1]], p[2])
             i == inbox[p]
  <2>1. Q \in Seq(Message) /\ i \in Seq(Message) /\ i # <<>> /\ hand[p] = 0
    BY <1>1, <1>2, OwedParts DEF TaskInv
  <2>2. hand'[p] = Head(i) /\ inbox'[p] = Tail(i)
    BY <1>1, <1>2 DEF FwdTypeOK
  <2>3. FeedState(p)' = FeedState(p)
    BY <1>1, <1>3 DEF FeedState, Held
  <2>4. CASE pc[p[1]] \notin Subscribed
    BY <1>1, <2>3, <2>4 DEF OwedTo, Same
  <2>5. CASE pc[p[1]] \in Subscribed
    <3>1. Head(i) \in Message /\ Head(i) # 0
      BY <2>1, PubSubAssumption DEF Message
    <3>2. OwedTo(p) = (Q \o <<>>) \o i
      BY <2>1, <2>5 DEF OwedTo
    <3>3. OwedTo(p)' = (Q \o <<Head(i)>>) \o Tail(i)
      BY <1>1, <2>2, <2>5, <3>1 DEF OwedTo
    <3> HIDE DEF Q, i
    <3>4. (Q \o <<>>) \o i = (Q \o <<Head(i)>>) \o Tail(i)
      BY ONLY <2>1
    <3> QED BY <2>3, <3>2, <3>3, <3>4 DEF Same
  <2> QED BY <2>4, <2>5
<1> QED BY <1>1, <1>4, <1>5, Stutters

\* try_send moves the message in hand behind those in the output channel.
LEMMA MapTrySend ==
  ASSUME MapInv, NEW p \in Pairs, TrySend(p)
  PROVE  UNCHANGED Feeds!vars
<1> USE DEF MapInv
<1>1. /\ fwd[p] = "send" /\ fwd' = [fwd EXCEPT ![p] = "recv"]
      /\ pc[p[1]] \in Subscribed
      /\ hand' = [hand EXCEPT ![p] = 0] /\ out' = [out EXCEPT ![p[1]] = Append(@, <<p[2], hand[p]>>)]
      /\ UNCHANGED <<inbox, lagged, sent, last, pc, tasks, joining>>
  BY DEF TrySend, mapVars, sessVars
<1>2. TypeOK /\ FwdTypeOK /\ IoTypeOK
  BY DEF PubSubInv, TypeOK
<1>3. \A q \in Pairs : (Running(q)' <=> Running(q)) /\ (Held(q)' <=> Held(q))
  BY <1>1, <1>2 DEF Running, Held, FwdTypeOK
<1>4. \A q \in Pairs : FeedState(q)' = FeedState(q)
  BY <1>1, <1>3 DEF FeedState, Held
<1>5. hand[p] \in Message /\ hand[p] # 0 /\ p[1] \in Client /\ p[2] \in Channel
  BY <1>1, <1>2, OwedParts DEF PubSubInv, SenderHolds
<1>6. ASSUME NEW q \in Pairs
      PROVE  Queued(out'[q[1]], q[2]) =
               IF q = p THEN Append(Queued(out[q[1]], q[2]), hand[p]) ELSE Queued(out[q[1]], q[2])
  <2> DEFINE o == out[p[1]]
             x == <<p[2], hand[p]>>
  <2>1. q[1] \in Client /\ (q = p <=> q[1] = p[1] /\ q[2] = p[2])
    BY PairParts
  <2>2. o \in Seq(Channel \X Message) /\ x \in Channel \X Message /\ x[1] = p[2] /\ x[2] = hand[p]
    BY <1>2, <1>5, OwedParts
  <2>3. CASE q[1] = p[1]
    <3>1. out'[q[1]] = Append(o, x)
      BY <1>1, <1>2, <1>5, <2>3 DEF IoTypeOK
    <3> HIDE DEF o, x
    <3>2. ASSUME NEW ch
          PROVE  Queued(Append(o, x), ch) =
                   IF x[1] = ch THEN Append(Queued(o, ch), x[2]) ELSE Queued(o, ch)
      <4>1. o \in Seq(Entry) /\ x \in Entry BY <2>2 DEF Entry
      <4> QED BY ONLY <4>1, QueuedAppend
    <3> QED BY <2>1, <2>2, <2>3, <3>1, <3>2 DEF o
  <2>4. CASE q[1] # p[1]
    BY <1>1, <1>2, <2>1, <2>4 DEF IoTypeOK
  <2> QED BY <2>3, <2>4
<1>7. ASSUME NEW q \in Pairs, q # p PROVE OwedTo(q)' = OwedTo(q)
  <2>1. hand'[q] = hand[q] /\ inbox'[q] = inbox[q]
    BY <1>1, <1>2, <1>7 DEF FwdTypeOK
  <2> QED BY <1>1, <1>6, <1>7, <2>1 DEF OwedTo
<1>8. OwedTo(p)' = OwedTo(p)
  <2> DEFINE Q == Queued(out[p[1]], p[2])
             i == inbox[p]
             m == hand[p]
  <2>1. Q \in Seq(Message) /\ i \in Seq(Message) /\ m \in Message /\ m # 0
    BY <1>2, <1>5, OwedParts
  <2>2. hand'[p] = 0 /\ inbox'[p] = i
    BY <1>1, <1>2 DEF FwdTypeOK
  <2>3. OwedTo(p) = (Q \o <<m>>) \o i
    BY <1>1, <2>1 DEF OwedTo
  <2>4. OwedTo(p)' = (Append(Q, m) \o <<>>) \o i
    BY <1>1, <1>6, <2>2 DEF OwedTo
  <2> HIDE DEF Q, i, m
  <2>5. Q \o <<m>> = Append(Q, m) \o <<>>
    BY ONLY <2>1
  <2> QED BY <2>3, <2>4, <2>5
<1> QED BY <1>1, <1>4, <1>7, <1>8, Stutters DEF Same

\* select! takes the oldest message of the output channel: the first its feed owes.
LEMMA MapDeliver ==
  ASSUME MapInv, NEW c \in Client, NEW ch \in Channel, out[c] # <<>>, Head(out[c])[1] = ch, Deliver(c)
  PROVE  Feeds!Deliver(<<c, ch>>)
<1> USE DEF MapInv
<1> DEFINE p == <<c, ch>>
           o == out[c]
           m == Head(o)[2]
<1>1. /\ pc[c] = "selecting" /\ out' = [out EXCEPT ![c] = Tail(@)]
      /\ last' = [last EXCEPT ![p] = m]
      /\ UNCHANGED <<fwd, hand, inbox, lagged, sent, pc, tasks, joining>>
  BY DEF Deliver, mapVars, sessVars, fwdVars
<1>2. TypeOK /\ IoTypeOK
  BY DEF PubSubInv, TypeOK
<1>3. p \in Pairs /\ p[1] = c /\ p[2] = ch
  BY PairParts
<1>4. o \in Seq(Channel \X Message) /\ o # <<>> /\ m \in Message /\ Tail(o) \in Seq(Channel \X Message)
  BY <1>2, HeadTailProperties DEF IoTypeOK
<1>5. out'[c] = Tail(o)
  BY <1>1, <1>2 DEF IoTypeOK
<1> HIDE DEF p
<1>6. \A q \in Pairs : FeedState(q)' = FeedState(q)
  <2> TAKE q \in Pairs
  <2>1. (Running(q)' <=> Running(q)) /\ (Held(q)' <=> Held(q))
    BY <1>1 DEF Running, Held
  <2> QED BY <1>1, <2>1 DEF FeedState, Held
<1>7. ASSUME NEW x PROVE Queued(o, x) = (IF ch = x THEN <<m>> ELSE <<>>) \o Queued(Tail(o), x)
  BY <1>4, QueuedTail
<1>8. ASSUME NEW q \in Pairs, q # p PROVE OwedTo(q)' = OwedTo(q)
  <2>1. q[1] \in Client /\ q[2] \in Channel /\ (q[1] # c \/ q[2] # ch)
    BY <1>3, <1>8, PairParts
  <2>2. Queued(out'[q[1]], q[2]) = Queued(out[q[1]], q[2])
    <3>1. CASE q[1] # c
      <4>1. out'[q[1]] = out[q[1]]
        BY <1>1, <1>2, <2>1, <3>1 DEF IoTypeOK
      <4> QED BY <4>1
    <3>2. CASE q[1] = c
      <4>1. Queued(o, q[2]) = <<>> \o Queued(Tail(o), q[2])
        BY <1>7, <2>1, <3>2
      <4>2. Queued(Tail(o), q[2]) \in Seq(Message)
        BY <1>4, QueuedType
      <4> DEFINE s == Queued(Tail(o), q[2])
      <4> HIDE DEF s, o
      <4>3. <<>> \o s = s
        BY <4>2 DEF s
      <4> QED BY <1>5, <3>2, <4>1, <4>3 DEF s, o
    <3> QED BY <3>1, <3>2
  <2> QED BY <1>1, <2>2 DEF OwedTo
<1>9. OwedTo(p) # <<>> /\ Head(OwedTo(p)) = m /\ OwedTo(p)' = Tail(OwedTo(p))
  <2> DEFINE s == Queued(Tail(o), ch)
             h == IF hand[p] = 0 THEN <<>> ELSE <<hand[p]>>
             i == inbox[p]
  <2>1. s \in Seq(Message) /\ h \in Seq(Message) /\ i \in Seq(Message)
    <3>1. s \in Seq(Message)
      BY <1>4, QueuedType
    <3> QED BY <1>2, <1>3, <3>1, OwedParts
  <2>2. pc[p[1]] \in Subscribed /\ pc'[p[1]] \in Subscribed
    BY <1>1, <1>3 DEF Subscribed
  <2>3. Queued(o, ch) = <<m>> \o s
    BY <1>7
  <2> HIDE DEF s
  <2>4. OwedTo(p) = ((<<m>> \o s) \o h) \o i
    BY <1>3, <2>2, <2>3 DEF OwedTo
  <2>5. OwedTo(p)' = (s \o h) \o i
    BY <1>1, <1>3, <1>5, <2>2 DEF OwedTo, s
  <2> DEFINE M == m
  <2>6. M \in Message
    BY <1>4
  <2> HIDE DEF h, i, o, M
  <2>7. /\ ((<<M>> \o s) \o h) \o i # <<>> /\ Head(((<<M>> \o s) \o h) \o i) = M
        /\ Tail(((<<M>> \o s) \o h) \o i) = (s \o h) \o i
    <3> DEFINE t == (s \o h) \o i
    <3>1. t \in Seq(Message)
      BY ONLY <2>1
    <3>2. ((<<M>> \o s) \o h) \o i = <<M>> \o t
      BY ONLY <2>1, <2>6
    <3> HIDE DEF t
    <3>3. <<M>> \o t # <<>> /\ Head(<<M>> \o t) = M /\ Tail(<<M>> \o t) = t
      BY ONLY <2>6, <3>1
    <3> QED BY <3>2, <3>3 DEF t
  <2> QED BY <2>4, <2>5, <2>7 DEF M
<1> HIDE DEF m
<1>10. Feeds!Deliver(p)
  BY <1>1, <1>3, <1>6, <1>8, <1>9 DEF Feeds!Deliver
<1> QED BY <1>10 DEF p

\* The first of two sequences put together is the whole without its latest messages.
LEMMA PrefixShortens ==
  ASSUME NEW s \in Seq(Message), NEW t \in Seq(Message)
  PROVE  s \in Feeds!Shortened(s \o t)
<1>1. Len(s) \in 0 .. Len(s \o t)
  OBVIOUS
<1>2. s = SubSeq(s \o t, 1, Len(s))
  OBVIOUS
<1> QED BY <1>1, <1>2 DEF Feeds!Shortened

\* A task that ends cuts its feed behind what is in the output channel; if its session
\* has left the subscribed mode there is no feed any more.
LEMMA MapEnds ==
  ASSUME MapInv, NEW p \in Pairs, Ends(p)
  PROVE  Feeds!Cut(p) \/ UNCHANGED Feeds!vars
<1> USE DEF MapInv
<1>1. /\ Running(p) /\ fwd' = [fwd EXCEPT ![p] = "over"] /\ hand' = [hand EXCEPT ![p] = 0]
      /\ inbox' = [inbox EXCEPT ![p] = <<>>] /\ lagged' = [lagged EXCEPT ![p] = FALSE]
      /\ UNCHANGED <<out, sent, last, pc, tasks, joining>>
  <2>1. inbox' = [inbox EXCEPT ![p] = <<>>] /\ lagged' = [lagged EXCEPT ![p] = FALSE]
    BY DEF Ends, RecvLagged, TrySendFull, TrySendClosed, Cancel, TaskEnds
  <2> QED BY <2>1, EndEffect DEF sessVars
<1>2. TypeOK /\ FwdTypeOK
  BY DEF PubSubInv, TypeOK
<1>3. \A q \in Pairs : Held(q)' <=> Held(q)
  BY <1>1 DEF Held
<1>4. ASSUME NEW q \in Pairs, q # p PROVE Same(q)
  <2>1. (Running(q)' <=> Running(q)) /\ hand'[q] = hand[q] /\ inbox'[q] = inbox[q] /\ lagged'[q] = lagged[q]
    BY <1>1, <1>2, <1>4 DEF Running, FwdTypeOK
  <2> QED BY <1>1, <1>3, <2>1, SameInputs
<1>5. CASE pc[p[1]] \notin Subscribed
  <2>1. Same(p)
    BY <1>1, <1>5 DEF Same, FeedState, OwedTo
  <2> QED BY <1>1, <1>4, <2>1, Stutters
<1>6. CASE pc[p[1]] \in Subscribed
  <2>1. Held(p)
    BY <1>1, <1>6, HeldByHandle DEF Held
  <2>2. ~Running(p)' /\ hand'[p] = 0 /\ inbox'[p] = <<>>
    BY <1>1, <1>2 DEF Running, FwdTypeOK
  <2>3. FeedState(p) \in {"on", "cut"} /\ FeedState(p)' = "cut"
    BY <1>1, <1>3, <1>6, <2>1, <2>2 DEF FeedState, Held
  <2> DEFINE Q == Queued(out[p[1]], p[2])
             h == IF hand[p] = 0 THEN <<>> ELSE <<hand[p]>>
             i == inbox[p]
  <2>4. Q \in Seq(Message) /\ h \in Seq(Message) /\ i \in Seq(Message)
    BY <1>2, OwedParts
  <2>5. OwedTo(p) = (Q \o h) \o i
    BY <1>6 DEF OwedTo
  <2>6. OwedTo(p)' = (Q \o <<>>) \o <<>>
    BY <1>1, <1>6, <2>2 DEF OwedTo
  <2> HIDE DEF Q, h, i
  <2>7. (Q \o h) \o i = Q \o (h \o i) /\ h \o i \in Seq(Message) /\ (Q \o <<>>) \o <<>> = Q
    BY ONLY <2>4
  <2>8. OwedTo(p)' \in Feeds!Shortened(OwedTo(p))
    <3> DEFINE t == h \o i
    <3>1. t \in Seq(Message) BY <2>7
    <3> HIDE DEF t
    <3>2. Q \in Feeds!Shortened(Q \o t)
      BY <2>4, <3>1, PrefixShortens
    <3> QED BY <2>5, <2>6, <2>7, <3>2 DEF t
  <2> DEFINE S == OwedTo(p)'
  <2>9. [q \in Pairs |-> OwedTo(q)]' = [[q \in Pairs |-> OwedTo(q)] EXCEPT ![p] = S]
    BY <1>4 DEF Same
  <2>10. [q \in Pairs |-> FeedState(q)]' = [[q \in Pairs |-> FeedState(q)] EXCEPT ![p] = "cut"]
    BY <1>4, <2>3 DEF Same
  <2>11. S \in Feeds!Shortened([q \in Pairs |-> OwedTo(q)][p])
    BY <2>8
  <2> HIDE DEF S
  <2>12. Feeds!Cut(p)
    BY <1>1, <2>3, <2>9, <2>10, <2>11 DEF Feeds!Cut
  <2> QED BY <2>12
<1> QED BY <1>5, <1>6

\* A publish adds the message to every feed that is on, but for those whose inbox
\* overruns: they are cut behind what has left the inbox.
LEMMA MapPublish ==
  ASSUME MapInv, NEW ch \in Channel, PublishSend(ch)
  PROVE  Feeds!Publish(ch)
<1> USE DEF MapInv
<1> DEFINE n == sent[ch] + 1
           on == {p \in Pairs : p[2] = ch /\ FeedState(p) = "on"}
           overrun == {p \in on : lagged'[p]}
<1>1. /\ sent' = [sent EXCEPT ![ch] = n]
      /\ UNCHANGED <<fwd, hand, out, last, pc, tasks, joining>>
  BY PublishEffect DEF sessVars, ioVars
<1>2. TypeOK /\ n \in Message
  <2>1. TypeOK BY DEF PubSubInv
  <2>2. sent[ch] \in 0 .. MaxMessages /\ sent[ch] < MaxMessages /\ MaxMessages \in Nat
    BY <2>1, PublishEffect, PubSubAssumption DEF TypeOK, MapTypeOK
  <2> QED BY <2>1, <2>2 DEF Message
<1>3. \A q \in Pairs : (Held(q)' <=> Held(q)) /\ (Running(q)' <=> Running(q))
  BY <1>1 DEF Held, Running
<1>4. ASSUME NEW q \in Pairs, q \notin on PROVE Same(q)
  <2>1. CASE pc[q[1]] \notin Subscribed
    BY <1>1, <2>1 DEF Same, FeedState, OwedTo
  <2>2. CASE pc[q[1]] \in Subscribed
    <3>1. q[2] # ch \/ q[1] \notin receivers[ch] \/ lagged[q]
      BY <1>4, <2>2 DEF FeedState, TaskInv
    <3>2. inbox'[q] = inbox[q] /\ (lagged'[q] <=> lagged[q])
      BY <1>2, <3>1, PublishPair
    <3> QED BY <1>1, <1>3, <3>2, SameInputs
  <2> QED BY <2>1, <2>2
<1>5. ASSUME NEW q \in on
      PROVE  /\ q \in Pairs /\ pc[q[1]] \in Subscribed /\ Running(q) /\ Held(q)
             /\ \/ inbox'[q] = <<>> /\ q \in overrun
                \/ inbox'[q] = Append(inbox[q], n) /\ q \notin overrun
  <2>1. q \in Pairs /\ q[2] = ch /\ pc[q[1]] \in Subscribed /\ Running(q) /\ ~lagged[q]
    BY <1>5 DEF FeedState
  <2>2. q[1] \in receivers[ch]
    BY <2>1 DEF PubSubInv, NeverDeaf
  <2>3. Held(q)
    BY <2>1, HeldByHandle DEF Held
  <2> QED BY <1>2, <1>5, <2>1, <2>2, <2>3, PublishPair
<1>6. \A q \in overrun : lagged'[q] /\ q \in on
  OBVIOUS
<1>7. \A q \in on : q \notin overrun => ~lagged'[q]
  OBVIOUS
<1> HIDE DEF on, overrun, n
<1>8. ASSUME NEW q \in on
      PROVE  /\ FeedState(q)' = IF q \in overrun THEN "cut" ELSE "on"
             /\ q \in overrun => OwedTo(q)' \in Feeds!Shortened(OwedTo(q))
             /\ q \notin overrun => OwedTo(q)' = Append(OwedTo(q), n)
  <2>1. q \in Pairs /\ pc'[q[1]] \in Subscribed /\ pc[q[1]] \in Subscribed /\ Running(q)' /\ Held(q)'
    BY <1>1, <1>3, <1>5
  <2>2. FeedState(q)' = IF q \in overrun THEN "cut" ELSE "on"
    BY <1>6, <1>7, <2>1 DEF FeedState, Held
  <2> DEFINE Q == Queued(out[q[1]], q[2])
             h == IF hand[q] = 0 THEN <<>> ELSE <<hand[q]>>
             i == inbox[q]
  <2>3. Q \in Seq(Message) /\ h \in Seq(Message) /\ i \in Seq(Message)
    BY <1>2, <2>1, OwedParts
  <2>4. OwedTo(q) = (Q \o h) \o i /\ OwedTo(q)' = (Q \o h) \o inbox'[q]
    BY <1>1, <2>1 DEF OwedTo
  <2> DEFINE s == Q \o h
  <2>5. s \in Seq(Message) BY <2>3
  <2>6. \/ inbox'[q] = <<>> /\ q \in overrun
        \/ inbox'[q] = Append(i, n) /\ q \notin overrun
    BY <1>5, Zenon
  <2>7. OwedTo(q) = s \o i /\ OwedTo(q)' = s \o inbox'[q]
    BY <2>4
  <2> HIDE DEF s, i
  <2>8. s \o <<>> = s /\ s \o Append(i, n) = Append(s \o i, n)
    BY <1>2, <2>3, <2>5, AppendBehind
  <2>9. s \in Feeds!Shortened(s \o i)
    BY <2>3, <2>5, PrefixShortens
  <2> QED BY <2>2, <2>6, <2>7, <2>8, <2>9
<1> DEFINE F == [p \in Pairs |-> FeedState(p)]
           O == [p \in Pairs |-> OwedTo(p)]
<1>9. on = {p \in Pairs : p[2] = ch /\ F[p] = "on"} /\ overrun \in SUBSET on
  BY <1>6 DEF on
<1>10. F' = [p \in Pairs |-> IF p \in overrun THEN "cut" ELSE F[p]]
  <2> SUFFICES ASSUME NEW q \in Pairs PROVE FeedState(q)' = IF q \in overrun THEN "cut" ELSE FeedState(q)
    OBVIOUS
  <2>1. CASE q \in on
    <3>1. FeedState(q) = "on" BY <2>1 DEF on
    <3> QED BY <1>8, <2>1, <3>1
  <2>2. CASE q \notin on
    BY <1>4, <1>6, <2>2 DEF Same
  <2> QED BY <2>1, <2>2
<1>11. ASSUME NEW q \in Pairs
       PROVE  IF q \in overrun THEN O'[q] \in Feeds!Shortened(O[q])
              ELSE IF q \in on THEN O'[q] = Append(O[q], n) ELSE O'[q] = O[q]
  <2>1. O'[q] = OwedTo(q)' /\ O[q] = OwedTo(q)
    OBVIOUS
  <2> HIDE DEF O
  <2>2. CASE q \in on
    BY <1>8, <2>1, <2>2
  <2>3. CASE q \notin on
    BY <1>4, <1>6, <2>1, <2>3 DEF Same
  <2> QED BY <2>2, <2>3
<1>12. DOMAIN O' = Pairs
  OBVIOUS
<1>13. Feeds!Pairs = Pairs
  BY DEF Feeds!Pairs, Pairs
<1> QED BY <1>1, <1>9, <1>10, <1>11, <1>12, <1>13 DEF Feeds!Publish, n

\* Every step of pub/sub is a step of Feed or leaves it as it is.
LEMMA NextFeed == MapInv /\ [Next]_vars => [Feeds!Next]_(Feeds!vars)
<1> SUFFICES ASSUME MapInv, [Next]_vars PROVE [Feeds!Next]_(Feeds!vars)
  OBVIOUS
<1>a. PubSubInv /\ TypeOK /\ Feeds!Pairs = Pairs
  BY DEF MapInv, PubSubInv, Feeds!Pairs, Pairs
<1>1. ASSUME NEW c \in Client,
             \/ AcceptStep(c) \/ GuardStep(c) \/ Disconnect(c)
             \/ \E chs \in SUBSET Channel : ReadUnsubscribe(c, chs)
             \/ UnsubscribeDone(c) \/ CloseSlow(c) \/ ReadEof(c)
      PROVE  UNCHANGED Feeds!vars
  BY <1>1, <1>a, MapControl
<1>2. ASSUME NEW c \in Client, NEW ch \in Channel, UnsubscribeOne(c, ch) \/ CleanupOne(c, ch)
      PROVE  UNCHANGED Feeds!vars
  BY <1>2, <1>a, MapAbort
<1>3. ASSUME NEW c \in Client, NEW chs \in SUBSET Channel, ReadSubscribe(c, chs)
      PROVE  UNCHANGED Feeds!vars
  BY <1>3, MapReadSubscribe
<1>4. ASSUME NEW c \in Client, NEW ch \in Channel, SubscribeOne(c, ch)
      PROVE  Feeds!Next \/ UNCHANGED Feeds!vars
  BY <1>4, <1>a, MapSubscribeOne, PairParts DEF Feeds!Next
<1>5. ASSUME NEW c \in Client, JoinAndCollect(c)
      PROVE  Feeds!Next \/ UNCHANGED Feeds!vars
  <2>1. PICK ch \in Channel : joining[c] = ch
    BY <1>5, <1>a DEF JoinAndCollect, TypeOK, SessTypeOK
  <2> QED BY <1>5, <1>a, <2>1, MapJoin, PairParts DEF Feeds!Next
<1>6. ASSUME NEW c \in Client, CleanupDone(c) \/ ErrorReturn(c)
      PROVE  Feeds!Next
  BY <1>6, MapLeave DEF Feeds!Next
<1>7. ASSUME NEW c \in Client, Deliver(c)
      PROVE  Feeds!Next
  <2>1. out[c] # <<>>
    BY <1>7 DEF Deliver
  <2>2. out[c] \in Seq(Channel \X Message)
    BY <1>a DEF TypeOK, IoTypeOK
  <2>3. Head(out[c]) \in Channel \X Message
    BY <2>1, <2>2, HeadTailProperties
  <2>4. PICK ch \in Channel : Head(out[c])[1] = ch
    BY <2>3
  <2>5. Feeds!Deliver(<<c, ch>>)
    BY <1>7, <2>1, <2>4, MapDeliver
  <2> QED BY <1>a, <2>5, PairParts DEF Feeds!Next
<1>8. ASSUME NEW p \in Pairs, Recv(p) \/ TrySend(p) PROVE UNCHANGED Feeds!vars
  BY <1>8, MapRecv, MapTrySend
<1>9. ASSUME NEW p \in Pairs, Ends(p) PROVE Feeds!Next \/ UNCHANGED Feeds!vars
  BY <1>9, <1>a, MapEnds DEF Feeds!Next
<1>10. ASSUME NEW ch \in Channel, PublishSend(ch) PROVE Feeds!Next
  BY <1>10, MapPublish DEF Feeds!Next
<1>11. ASSUME PublishCollect \/ UNCHANGED vars PROVE UNCHANGED Feeds!vars
  <2>1. UNCHANGED <<fwd, hand, inbox, lagged, out, sent, last, pc, tasks, joining>>
    BY <1>11 DEF PublishCollect, vars, mapVars, sessVars, fwdVars, ioVars
  <2>2. \A p \in Pairs : Held(p)' <=> Held(p)
    BY <2>1 DEF Held
  <2> QED BY <1>a, <2>1, <2>2, QuietSteps
<1> QED BY <1>1, <1>2, <1>3, <1>4, <1>5, <1>6, <1>7, <1>8, <1>9, <1>10, <1>11
        DEF Next, LoopStep, ForwardStep, Ends

\* Pub/sub starts as Feed does.
LEMMA InitFeed == Init => Feeds!Init
<1> SUFFICES ASSUME Init PROVE Feeds!Init
  OBVIOUS
<1>1. ASSUME NEW p \in Pairs PROVE FeedState(p) = "off" /\ OwedTo(p) = <<>>
  <2>1. pc[p[1]] \notin Subscribed
    BY PairParts DEF Init, Subscribed
  <2> QED BY <2>1 DEF FeedState, OwedTo
<1> QED BY <1>1 DEF Init, Feeds!Init, Feeds!Pairs, Pairs

\* Broadcast channel, forwarding task, output channel and session together implement
\* Feed: while a client is subscribed to a channel every message published to it reaches
\* the client in order, once and without gaps, or the feed is cut behind a prefix of them.
THEOREM PubSubImplementsFeed == Spec => FeedSpec
BY InitFeed, NextFeed, MapAlways, PTL DEF Spec, SafeSpec, FeedSpec, Feeds!Spec

=============================================================================
