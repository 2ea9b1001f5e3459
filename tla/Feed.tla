-------------------------------- MODULE Feed --------------------------------
(***************************************************************************)
(* What pub/sub promises, without its tasks, queues and locks.  Messages   *)
(* of a channel are numbered in the order they are published.  Each pair   *)
(* of a client and a channel is a feed: while it is "on" every message     *)
(* published to the channel is owed to the client, and what is owed is     *)
(* delivered in order, without gaps and without repetitions.  A feed that  *)
(* cannot keep up, or that is being given up, is "cut": it owes nothing    *)
(* new and may forget the latest of what it owes, never anything in the    *)
(* middle.  Only after that may it be turned off and on again.             *)
(***************************************************************************)
EXTENDS Integers, Sequences

CONSTANTS Client, Channel

VARIABLES
    sent,      \* the number of messages published to each channel
    feed,      \* "on", "cut" or "off", per client and channel
    owed,      \* the messages yet to be delivered
    last       \* the number of the last message delivered

vars == <<sent, feed, owed, last>>

Pairs == Client \X Channel

TypeOK ==
    /\ sent \in [Channel -> Nat]
    /\ feed \in [Pairs -> {"on", "cut", "off"}]
    /\ owed \in [Pairs -> Seq(Nat)]
    /\ last \in [Pairs -> Nat]

Init ==
    /\ sent = [ch \in Channel |-> 0]
    /\ feed = [p \in Pairs |-> "off"]
    /\ owed = [p \in Pairs |-> <<>>]
    /\ last = [p \in Pairs |-> 0]

\* The sequences that are s without its latest messages.
Shortened(s) == {SubSeq(s, 1, n) : n \in 0 .. Len(s)}

\* Every feed that is on owes the message, or overruns and is cut.
Publish(ch) ==
    LET on == {p \in Pairs : p[2] = ch /\ feed[p] = "on"}
    IN  /\ sent' = [sent EXCEPT ![ch] = @ + 1]
        /\ \E overrun \in SUBSET on :
              /\ feed' = [p \in Pairs |->
                            IF p \in overrun THEN "cut" ELSE feed[p]]
              /\ DOMAIN owed' = Pairs
              /\ \A p \in Pairs :
                    IF p \in overrun THEN owed'[p] \in Shortened(owed[p])
                    ELSE IF p \in on THEN owed'[p] = Append(owed[p], sent[ch] + 1)
                    ELSE owed'[p] = owed[p]
        /\ UNCHANGED last

TurnOn(p) ==
    /\ feed[p] = "off"
    /\ feed' = [feed EXCEPT ![p] = "on"]
    /\ UNCHANGED <<sent, owed, last>>

Deliver(p) ==
    /\ owed[p] # <<>>
    /\ last' = [last EXCEPT ![p] = Head(owed[p])]
    /\ owed' = [owed EXCEPT ![p] = Tail(@)]
    /\ UNCHANGED <<sent, feed>>

\* The feed is cut, or forgets more of what it owed when it was.
Cut(p) ==
    /\ feed[p] \in {"on", "cut"}
    /\ feed' = [feed EXCEPT ![p] = "cut"]
    /\ \E s \in Shortened(owed[p]) : owed' = [owed EXCEPT ![p] = s]
    /\ UNCHANGED <<sent, last>>

TurnOff(p) ==
    /\ feed[p] = "cut"
    /\ feed' = [feed EXCEPT ![p] = "off"]
    /\ UNCHANGED <<sent, owed, last>>

\* The subscribed mode of a client ends, and with it all its feeds.
Leave(c) ==
    /\ feed' = [p \in Pairs |-> IF p[1] = c THEN "off" ELSE feed[p]]
    /\ owed' = [p \in Pairs |-> IF p[1] = c THEN <<>> ELSE owed[p]]
    /\ UNCHANGED <<sent, last>>

Next ==
    \/ \E ch \in Channel : Publish(ch)
    \/ \E p \in Pairs : TurnOn(p) \/ Deliver(p) \/ Cut(p) \/ TurnOff(p)
    \/ \E c \in Client : Leave(c)

Spec == Init /\ [][Next]_vars

=============================================================================
