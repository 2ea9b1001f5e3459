------------------------------- MODULE PubSub -------------------------------
(***************************************************************************)
(* Pub/sub of mini-redis-rs, composed with the accept loop of Clients: the *)
(* subscribed mode of a connection (run_subscribed of src/src/server.rs),  *)
(* one forwarding task per subscription (subscribe_one), and the map of    *)
(* broadcast senders (pubsub_subscribe, pubsub_publish and pubsub_gc of    *)
(* src/src/db/mod.rs).                                                     *)
(*                                                                         *)
(* A message is its number within its channel.  A broadcast receiver is    *)
(* the queue of what it has not received yet, a session's output channel   *)
(* is bounded by OutCap.  Replies change no state other than the socket's, *)
(* so a reply that succeeds is part of the step it answers, and one that   *)
(* fails is ErrorReturn coming before the session's next step.             *)
(***************************************************************************)
EXTENDS Clients, Sequences

CONSTANTS
    Channel,     \* the channel names
    None,        \* no channel
    ChanCap,     \* PUBSUB_CHAN_CAP
    OutCap,      \* PUBSUB_OUTPUT_CAP
    MaxMessages  \* bound: the messages ever published to a channel

ASSUME PubSubAssumption ==
    /\ None \notin Channel
    /\ ChanCap \in Nat \ {0} /\ OutCap \in Nat \ {0} /\ MaxMessages \in Nat

VARIABLES
    open,        \* the channels db.pubsub has a broadcast sender for
    receivers,   \* the clients whose receiver belongs to that sender
    publishing,  \* the channel of the publish that holds the pubsub mutex
    sent,        \* history: the messages published to each channel
    pc,          \* where each client's task is in handle and run_subscribed
    todo,        \* the channels its for loop has yet to go through
    tasks,       \* the channels in its map of join handles
    joining,     \* the channel whose forwarding task it awaits
    out,         \* msg_tx/msg_rx: the messages forwarded to it
    slow,        \* slow_rx holds a channel
    eof,         \* the peer has closed its side
    detached,    \* the channels whose join handles were dropped unawaited
    fwd,         \* where each forwarding task is
    aborted,     \* its JoinHandle::abort was called
    hand,        \* the message it holds between recv and try_send, 0 if none
    inbox,       \* what its receiver has yet to receive
    lagged,      \* the sender has overwritten a message in its inbox
    last         \* history: the last message of a channel written to a client

mapVars  == <<open, receivers, publishing, sent>>
sessVars == <<pc, todo, tasks, joining, eof, detached>>
fwdVars  == <<fwd, aborted, hand, inbox, lagged>>
ioVars   == <<out, slow, last>>
vars == <<clientVars, mapVars, sessVars, fwdVars, ioVars>>

Pairs == Client \X Channel
Message == 1 .. MaxMessages
Subscribed == {"subscribing", "selecting", "unsubscribing", "cleanup"}

MapTypeOK ==
    /\ open \subseteq Channel
    /\ receivers \in [Channel -> SUBSET Client]
    /\ publishing \in Channel \cup {None}
    /\ sent \in [Channel -> 0 .. MaxMessages]

SessTypeOK ==
    /\ pc \in [Client -> Subscribed \cup {"command"}]
    /\ todo \in [Client -> SUBSET Channel]
    /\ tasks \in [Client -> SUBSET Channel]
    /\ joining \in [Client -> Channel \cup {None}]
    /\ eof \in [Client -> BOOLEAN]
    /\ detached \in [Client -> SUBSET Channel]

FwdTypeOK ==
    /\ fwd \in [Pairs -> {"none", "recv", "send", "over"}]
    /\ aborted \in [Pairs -> BOOLEAN]
    /\ hand \in [Pairs -> 0 .. MaxMessages]
    /\ inbox \in [Pairs -> Seq(Message)]
    /\ \A p \in Pairs : Len(inbox[p]) <= ChanCap
    /\ lagged \in [Pairs -> BOOLEAN]

IoTypeOK ==
    /\ out \in [Client -> Seq(Channel \X Message)]
    /\ \A c \in Client : Len(out[c]) <= OutCap
    /\ slow \in [Client -> BOOLEAN]
    /\ last \in [Pairs -> 0 .. MaxMessages]

\* Every variable keeps its type, and no queue outgrows its capacity.
TypeOK == ClientsTypeOK /\ MapTypeOK /\ SessTypeOK /\ FwdTypeOK /\ IoTypeOK

Init ==
    /\ ClientsInit
    /\ open = {}
    /\ receivers = [ch \in Channel |-> {}]
    /\ publishing = None
    /\ sent = [ch \in Channel |-> 0]
    /\ pc = [c \in Client |-> "command"]
    /\ todo = [c \in Client |-> {}]
    /\ tasks = [c \in Client |-> {}]
    /\ joining = [c \in Client |-> None]
    /\ out = [c \in Client |-> <<>>]
    /\ slow = [c \in Client |-> FALSE]
    /\ eof = [c \in Client |-> FALSE]
    /\ detached = [c \in Client |-> {}]
    /\ fwd = [p \in Pairs |-> "none"]
    /\ aborted = [p \in Pairs |-> FALSE]
    /\ hand = [p \in Pairs |-> 0]
    /\ inbox = [p \in Pairs |-> <<>>]
    /\ lagged = [p \in Pairs |-> FALSE]
    /\ last = [p \in Pairs |-> 0]

-----------------------------------------------------------------------------
(***************************************************************************)
(* The map of senders.  Its mutex is held for one step by subscribe and    *)
(* gc, and from send to the second look at receiver_count by publish:      *)
(* receivers are dropped without the mutex.                                *)
(***************************************************************************)
MutexFree == publishing = None

\* pubsub_subscribe: a sender is created if there is none.
PubsubSubscribe(c, ch) ==
    /\ MutexFree
    /\ open' = open \cup {ch}
    /\ receivers' = [receivers EXCEPT ![ch] = @ \cup {c}]
    /\ UNCHANGED <<publishing, sent>>

\* The sender is dropped: receivers that are left would be without one.
RemoveChannel(ch) ==
    /\ open' = open \ {ch}
    /\ receivers' = [receivers EXCEPT ![ch] = {}]

\* Mutant of PubsubGc: the receivers are not counted.
GcUnconditionally(ch) ==
    /\ MutexFree
    /\ RemoveChannel(ch)
    /\ UNCHANGED <<publishing, sent>>

\* Mutant of PubsubGc: the channel stays.
GcNothing(ch) ==
    /\ MutexFree
    /\ UNCHANGED mapVars

\* pubsub_gc.
PubsubGc(ch) ==
    /\ MutexFree
    /\ IF receivers[ch] = {} THEN RemoveChannel(ch)
       ELSE UNCHANGED <<open, receivers>>
    /\ UNCHANGED <<publishing, sent>>

\* pubsub_publish up to tx.send: every receiver gets the message, one whose
\* inbox is full loses the oldest it has.
PublishSend(ch) ==
    /\ MutexFree
    /\ sent[ch] < MaxMessages
    /\ sent' = [sent EXCEPT ![ch] = @ + 1]
    /\ LET full == {c \in receivers[ch] : Len(inbox[<<c, ch>>]) = ChanCap}
       IN  /\ inbox' = [p \in Pairs |->
                 IF p[2] # ch \/ p[1] \notin receivers[ch] \/ lagged[p]
                 THEN inbox[p]
                 ELSE IF p[1] \in full THEN <<>>
                 ELSE Append(inbox[p], sent[ch] + 1)]
           /\ lagged' = [p \in Pairs |-> lagged[p] \/ (p[2] = ch /\ p[1] \in full)]
    /\ publishing' = IF ch \in open THEN ch ELSE None
    /\ UNCHANGED <<clientVars, open, receivers, sessVars, fwd, aborted, hand, ioVars>>

\* pubsub_publish: the second half, and the end of the critical section.
PublishCollect ==
    /\ publishing # None
    /\ publishing' = None
    /\ IF receivers[publishing] = {} THEN RemoveChannel(publishing)
       ELSE UNCHANGED <<open, receivers>>
    /\ UNCHANGED <<clientVars, sent, sessVars, fwdVars, ioVars>>

-----------------------------------------------------------------------------
(***************************************************************************)
(* The forwarding task of a subscription.  It outlives its session when    *)
(* its join handle is dropped instead of aborted.                          *)
(***************************************************************************)
Running(p) == fwd[p] \in {"recv", "send"}

\* The task returns or is cancelled, and its receiver is dropped.
TaskEnds(p) ==
    /\ fwd' = [fwd EXCEPT ![p] = "over"]
    /\ hand' = [hand EXCEPT ![p] = 0]
    /\ inbox' = [inbox EXCEPT ![p] = <<>>]
    /\ lagged' = [lagged EXCEPT ![p] = FALSE]
    /\ receivers' = [receivers EXCEPT ![p[2]] = @ \ {p[1]}]
    /\ UNCHANGED <<clientVars, open, publishing, sent, sessVars, aborted, last>>

\* rx.recv() returns a message.
Recv(p) ==
    /\ fwd[p] = "recv" /\ ~lagged[p] /\ inbox[p] # <<>>
    /\ fwd' = [fwd EXCEPT ![p] = "send"]
    /\ hand' = [hand EXCEPT ![p] = Head(inbox[p])]
    /\ inbox' = [inbox EXCEPT ![p] = Tail(@)]
    /\ UNCHANGED <<clientVars, mapVars, sessVars, aborted, lagged, ioVars>>

\* The session hears of it unless it has dropped slow_rx.
SendSlow(c) == slow' = [slow EXCEPT ![c] = pc[c] \in Subscribed]

\* Mutant of RecvLagged: the session is not told.
LagUnnoticed(p) ==
    /\ fwd[p] = "recv" /\ lagged[p]
    /\ TaskEnds(p)
    /\ UNCHANGED <<out, slow>>

\* Mutant of RecvLagged: the task goes on with what the sender still has.
LagSkipped(p) ==
    /\ fwd[p] = "recv" /\ lagged[p]
    /\ lagged' = [lagged EXCEPT ![p] = FALSE]
    /\ UNCHANGED <<clientVars, mapVars, sessVars, fwd, aborted, hand, inbox, ioVars>>

\* rx.recv() returns Lagged.
RecvLagged(p) ==
    /\ fwd[p] = "recv" /\ lagged[p]
    /\ SendSlow(p[1])
    /\ TaskEnds(p)
    /\ UNCHANGED out

\* Mutant of TrySend: an output channel without a bound.
TrySendUnbounded(p) ==
    /\ fwd[p] = "send"
    /\ pc[p[1]] \in Subscribed
    /\ out' = [out EXCEPT ![p[1]] = Append(@, <<p[2], hand[p]>>)]
    /\ fwd' = [fwd EXCEPT ![p] = "recv"]
    /\ hand' = [hand EXCEPT ![p] = 0]
    /\ UNCHANGED <<clientVars, mapVars, sessVars, aborted, inbox, lagged, slow, last>>

\* try_send succeeds ...
TrySend(p) ==
    /\ fwd[p] = "send"
    /\ pc[p[1]] \in Subscribed
    /\ Len(out[p[1]]) < OutCap
    /\ out' = [out EXCEPT ![p[1]] = Append(@, <<p[2], hand[p]>>)]
    /\ fwd' = [fwd EXCEPT ![p] = "recv"]
    /\ hand' = [hand EXCEPT ![p] = 0]
    /\ UNCHANGED <<clientVars, mapVars, sessVars, aborted, inbox, lagged, slow, last>>

\* Mutant of TrySendFull: the message is dropped and the task goes on.
TrySendDropping(p) ==
    /\ fwd[p] = "send"
    /\ pc[p[1]] \in Subscribed
    /\ Len(out[p[1]]) = OutCap
    /\ fwd' = [fwd EXCEPT ![p] = "recv"]
    /\ hand' = [hand EXCEPT ![p] = 0]
    /\ UNCHANGED <<clientVars, mapVars, sessVars, aborted, inbox, lagged, ioVars>>

\* ... the output channel is full ...
TrySendFull(p) ==
    /\ fwd[p] = "send"
    /\ pc[p[1]] \in Subscribed
    /\ Len(out[p[1]]) = OutCap
    /\ SendSlow(p[1])
    /\ TaskEnds(p)
    /\ UNCHANGED out

\* ... or msg_rx was dropped.
TrySendClosed(p) ==
    /\ fwd[p] = "send"
    /\ pc[p[1]] \notin Subscribed
    /\ TaskEnds(p)
    /\ UNCHANGED <<out, slow>>

\* The runtime cancels an aborted task at its await point.  One that is
\* running when it is aborted may get through more messages first.
Cancel(p) ==
    /\ aborted[p] /\ fwd[p] = "recv"
    /\ TaskEnds(p)
    /\ UNCHANGED <<out, slow>>

ForwardStep(p) ==
    Recv(p) \/ RecvLagged(p) \/ TrySend(p) \/ TrySendFull(p) \/ TrySendClosed(p)
        \/ Cancel(p)

-----------------------------------------------------------------------------
(***************************************************************************)
(* The session.                                                            *)
(***************************************************************************)
GoTo(c, to) == pc' = [pc EXCEPT ![c] = to]

\* handle() or run_subscribed reads SUBSCRIBE, channels in any order.
ReadSubscribe(c, chs) ==
    /\ stage[c] = "served"
    /\ (pc[c] = "command" /\ ~eof[c]) \/ pc[c] = "selecting"
    /\ todo' = [todo EXCEPT ![c] = chs]
    /\ GoTo(c, "subscribing")
    /\ UNCHANGED <<clientVars, mapVars, tasks, joining, eof, detached, fwdVars, ioVars>>

\* subscribe_one and its acknowledgement: nothing if the channel is in tasks.
SubscribeOne(c, ch) ==
    /\ pc[c] = "subscribing" /\ ch \in todo[c]
    /\ IF ch \in tasks[c] THEN UNCHANGED <<mapVars, tasks, fwd>>
       ELSE /\ PubsubSubscribe(c, ch)
            /\ tasks' = [tasks EXCEPT ![c] = @ \cup {ch}]
            /\ fwd' = [fwd EXCEPT ![<<c, ch>>] = "recv"]
    /\ todo' = [todo EXCEPT ![c] = @ \ {ch}]
    /\ GoTo(c, IF todo[c] = {ch} THEN "selecting" ELSE "subscribing")
    /\ UNCHANGED <<clientVars, joining, eof, detached, aborted, hand, inbox, lagged, ioVars>>

\* run_subscribed reads UNSUBSCRIBE; without arguments it means all channels.
\* The arm for an empty list is never taken: selecting has a task in tasks.
ReadUnsubscribe(c, chs) ==
    /\ pc[c] = "selecting"
    /\ todo' = [todo EXCEPT ![c] = IF chs = {} THEN tasks[c] ELSE chs]
    /\ GoTo(c, "unsubscribing")
    /\ UNCHANGED <<clientVars, mapVars, tasks, joining, eof, detached, fwdVars, ioVars>>

\* Mutant of Abort: the task is awaited and not aborted.
AwaitUnaborted(c, ch) ==
    /\ joining[c] = None
    /\ tasks' = [tasks EXCEPT ![c] = @ \ {ch}]
    /\ joining' = [joining EXCEPT ![c] = ch]
    /\ UNCHANGED aborted

\* tasks.remove, h.abort(), and the wait for the task begins.
Abort(c, ch) ==
    /\ joining[c] = None
    /\ tasks' = [tasks EXCEPT ![c] = @ \ {ch}]
    /\ aborted' = [aborted EXCEPT ![<<c, ch>>] = TRUE]
    /\ joining' = [joining EXCEPT ![c] = ch]

UnsubscribeOne(c, ch) ==
    /\ pc[c] = "unsubscribing" /\ joining[c] = None /\ ch \in todo[c]
    /\ todo' = [todo EXCEPT ![c] = @ \ {ch}]
    /\ IF ch \in tasks[c] THEN Abort(c, ch)
       ELSE UNCHANGED <<tasks, aborted, joining>>
    /\ UNCHANGED <<clientVars, mapVars, pc, eof, detached, fwd, hand, inbox, lagged, ioVars>>

\* h.await returns once the task is over; then pubsub_gc.
JoinAndCollect(c) ==
    /\ joining[c] # None
    /\ fwd[<<c, joining[c]>>] = "over"
    /\ PubsubGc(joining[c])
    /\ fwd' = [fwd EXCEPT ![<<c, joining[c]>>] = "none"]
    /\ aborted' = [aborted EXCEPT ![<<c, joining[c]>>] = FALSE]
    /\ joining' = [joining EXCEPT ![c] = None]
    /\ UNCHANGED <<clientVars, pc, todo, tasks, eof, detached, hand, inbox, lagged, ioVars>>

\* The last acknowledgement is written: break if nothing is left.
UnsubscribeDone(c) ==
    /\ pc[c] = "unsubscribing" /\ joining[c] = None /\ todo[c] = {}
    /\ GoTo(c, IF tasks[c] = {} THEN "cleanup" ELSE "selecting")
    /\ UNCHANGED <<clientVars, mapVars, todo, tasks, joining, eof, detached, fwdVars, ioVars>>

\* select! takes a message from msg_rx and writes it.
Deliver(c) ==
    /\ pc[c] = "selecting" /\ out[c] # <<>>
    /\ out' = [out EXCEPT ![c] = Tail(@)]
    /\ last' = [last EXCEPT ![<<c, Head(out[c])[1]>>] = Head(out[c])[2]]
    /\ UNCHANGED <<clientVars, mapVars, sessVars, fwdVars, slow>>

\* Mutant of CloseSlow: the error frame is written without the break.
WarnSlow(c) ==
    /\ pc[c] = "selecting" /\ slow[c]
    /\ slow' = [slow EXCEPT ![c] = FALSE]
    /\ UNCHANGED <<clientVars, mapVars, sessVars, fwdVars, out, last>>

\* select! takes from slow_rx: the error frame is written, break.
CloseSlow(c) ==
    /\ pc[c] = "selecting" /\ slow[c]
    /\ GoTo(c, "cleanup")
    /\ UNCHANGED <<clientVars, mapVars, todo, tasks, joining, eof, detached, fwdVars, ioVars>>

\* read_frame returns None: break; handle() will read None as well.
ReadEof(c) ==
    /\ pc[c] = "selecting"
    /\ GoTo(c, "cleanup")
    /\ eof' = [eof EXCEPT ![c] = TRUE]
    /\ UNCHANGED <<clientVars, mapVars, todo, tasks, joining, detached, fwdVars, ioVars>>

\* The loop after the select loop: abort, await and collect each task.
CleanupOne(c, ch) ==
    /\ pc[c] = "cleanup" /\ ch \in tasks[c]
    /\ Abort(c, ch)
    /\ UNCHANGED <<clientVars, mapVars, pc, todo, eof, detached, fwd, hand, inbox,
                   lagged, ioVars>>

\* run_subscribed's channels are dropped with what is in them.
DropOutput(c) ==
    /\ out' = [out EXCEPT ![c] = <<>>]
    /\ slow' = [slow EXCEPT ![c] = FALSE]

\* run_subscribed returns Ok: the connection takes commands again.
CleanupDone(c) ==
    /\ pc[c] = "cleanup" /\ tasks[c] = {} /\ joining[c] = None
    /\ GoTo(c, "command")
    /\ DropOutput(c)
    /\ UNCHANGED <<clientVars, mapVars, todo, tasks, joining, eof, detached, fwdVars, last>>

\* A protocol error, the idle timeout, an I/O error or a failed reply: `?`
\* and return skip the loop above, and the handles in tasks are dropped.
ErrorReturn(c) ==
    /\ pc[c] \in {"subscribing", "selecting", "unsubscribing"}
    /\ joining[c] = None
    /\ HandleReturns(c)
    /\ GoTo(c, "command")
    /\ detached' = [detached EXCEPT ![c] = tasks[c]]
    /\ tasks' = [tasks EXCEPT ![c] = {}]
    /\ todo' = [todo EXCEPT ![c] = {}]
    /\ DropOutput(c)
    /\ UNCHANGED <<mapVars, joining, eof, fwdVars, last>>

\* The connection ends outside subscribed mode.
Disconnect(c) ==
    /\ pc[c] = "command"
    /\ HandleReturns(c)
    /\ UNCHANGED <<mapVars, sessVars, fwdVars, ioVars>>

AcceptStep(c) ==
    /\ Accept(c) \/ RejectClient(c) \/ Serve(c)
    /\ UNCHANGED <<mapVars, sessVars, fwdVars, ioVars>>

GuardStep(c) ==
    /\ DropGuard(c) \/ ReleasePermit(c)
    /\ UNCHANGED <<mapVars, sessVars, fwdVars, ioVars>>

\* What a session does without waiting for its peer.
LoopStep(c) ==
    \/ \E ch \in Channel : SubscribeOne(c, ch) \/ UnsubscribeOne(c, ch) \/ CleanupOne(c, ch)
    \/ JoinAndCollect(c) \/ UnsubscribeDone(c) \/ CleanupDone(c)

Next ==
    \/ \E c \in Client :
          \/ AcceptStep(c) \/ GuardStep(c) \/ Disconnect(c)
          \/ \E chs \in SUBSET Channel \ {{}} : ReadSubscribe(c, chs)
          \/ \E chs \in SUBSET Channel : ReadUnsubscribe(c, chs)
          \/ LoopStep(c) \/ Deliver(c) \/ CloseSlow(c) \/ ReadEof(c) \/ ErrorReturn(c)
    \/ \E p \in Pairs : ForwardStep(p)
    \/ \E ch \in Channel : PublishSend(ch)
    \/ PublishCollect

-----------------------------------------------------------------------------
(***************************************************************************)
(* Fairness.  Tasks that can run do run: tokio polls every woken task, an  *)
(* aborted task is cancelled, the std mutex is held for a bounded time.    *)
(* The arms of select! are tried in random order each time around the      *)
(* loop, so one that is ready again and again is taken: strong fairness.   *)
(* Nothing is assumed of peers: no read and no publish has to happen, and  *)
(* a peer that does not take its messages makes the write time out, which  *)
(* is ErrorReturn.                                                         *)
(***************************************************************************)
Fairness ==
    /\ \A c \in Client :
          /\ WF_vars(LoopStep(c))
          /\ WF_vars(GuardStep(c))
          /\ SF_vars(Deliver(c))
          /\ SF_vars(CloseSlow(c))
    /\ \A p \in Pairs : WF_vars(ForwardStep(p))
    /\ WF_vars(PublishCollect)

SafeSpec == Init /\ [][Next]_vars
Spec == SafeSpec /\ Fairness

-----------------------------------------------------------------------------
(***************************************************************************)
(* Properties.                                                             *)
(***************************************************************************)

\* A forwarding task that runs has its receiver with the sender the map
\* holds: whatever subscribe, publish, gc and the dropping of receivers do
\* in between, no subscriber is left listening to a sender that was removed.
NeverDeaf ==
    \A p \in Pairs : Running(p) => p[1] \in receivers[p[2]] /\ p[2] \in open

\* A subscription whose forwarding task has stopped, because the output
\* channel was full or the receiver lagged, is one whose session is told:
\* a subscriber that misses messages never waits on in silence.
ToldWhenStopped ==
    \A c \in Client : \A ch \in tasks[c] :
        fwd[<<c, ch>>] = "over" => slow[c] \/ pc[c] = "cleanup"

\* A sender without receivers is one that somebody is about to collect, a
\* session on its way out or a publish, unless a session that ended with an
\* error had subscribed to it: the normal ways out leave no orphan channel.
OrphansOnlyFromErrors ==
    \A ch \in open :
        \/ receivers[ch] # {}
        \/ publishing = ch
        \/ \E c \in Client : ch \in tasks[c] \cup {joining[c]} \cup detached[c]

\* Permits and connected_clients agree with the connections there are, on
\* every way a connection can end.
ClientsCounted ==
    LET holding == {c \in Client : stage[c] \notin {"away", "gone"}}
        counted == {c \in Client : stage[c] \in {"served", "leaving"}}
    IN  /\ permits + Cardinality(holding) = MaxClients
        /\ connected = Cardinality(counted)

(***************************************************************************)
(* Pub/sub implements Feed.  What a feed owes is spread over the output    *)
(* channel, the hand of the forwarding task and the receiver's inbox.      *)
(***************************************************************************)
Queued(q, ch) ==
    LET upto[i \in 0 .. Len(q)] ==
            IF i = 0 THEN <<>>
            ELSE IF q[i][1] = ch THEN Append(upto[i - 1], q[i][2]) ELSE upto[i - 1]
    IN  upto[Len(q)]

OwedTo(p) ==
    LET held == IF hand[p] = 0 THEN <<>> ELSE <<hand[p]>>
    IN  IF pc[p[1]] \notin Subscribed THEN <<>>
        ELSE Queued(out[p[1]], p[2]) \o held \o inbox[p]

FeedState(p) ==
    IF pc[p[1]] \notin Subscribed THEN "off"
    ELSE IF Running(p) /\ ~lagged[p] THEN "on"
    ELSE IF p[2] \in tasks[p[1]] \cup {joining[p[1]]} THEN "cut"
    ELSE "off"

Feeds == INSTANCE Feed WITH
    feed <- [p \in Pairs |-> FeedState(p)],
    owed <- [p \in Pairs |-> OwedTo(p)]

\* Broadcast channel, forwarding task, output channel and session together
\* are a feed: while a client is subscribed every message published to the
\* channel reaches it in order, once and without gaps, or its feed is cut
\* behind a prefix of them; subscribing again does not bring old ones back.
FeedSpec == Feeds!Spec

\* A session that learns that one of its subscriptions is too slow leaves
\* the subscribed mode, all its forwarding tasks ended and awaited.
SlowIsEnded == \A c \in Client : slow[c] ~> pc[c] = "command"

\* A message that is owed to a subscriber is written to it, unless its feed
\* is cut or its subscribed mode ends.
OwedIsDelivered ==
    \A p \in Pairs : \A n \in Message :
        (\E i \in DOMAIN OwedTo(p) : OwedTo(p)[i] = n)
            ~> ~(\E i \in DOMAIN OwedTo(p) : OwedTo(p)[i] = n)

=============================================================================
