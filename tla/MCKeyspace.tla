----------------------------- MODULE MCKeyspace -----------------------------
(* Keyspace for TLC: small byte strings and the workloads of the runs.      *)
EXTENDS Keyspace

CONSTANTS k1, k2, f1, empty, word, big, huge

\* Two big strings do not fit into one reply, neither as two nor as one, which
\* no client can send; otherwise two strings that are put together are some
\* text.
JoinBytes(a, b) == IF a = empty THEN b
                   ELSE IF b = empty THEN a
                   ELSE IF huge \in {a, b} \/ {a, b} = {big} THEN huge
                   ELSE IF big \in {a, b} THEN big ELSE word

ExceedsReply(s) ==
    huge \in ToSet(s) \/ \E i, j \in 1 .. Len(s) : i # j /\ s[i] = big /\ s[j] = big

TwoShards == [k \in Keys |-> IF k = k1 THEN 1 ELSE 2]

On(op, k, val, n, at) == Cmd(op, <<k>>, val, f1, n, at)

\* Deadlines set, moved, removed and passed on two keys, one and two at a time.
ExpiryRequests ==
    {On("set", k, word, 0, t) : k \in Keys, t \in {Never, 1, 2}}
    \cup {On("expire", k, empty, 0, t) : k \in Keys, t \in {0, 1, 3}}
    \cup {On("persist", k, empty, 0, Never) : k \in Keys}
    \cup {Cmd("mset", ks, word, f1, 0, Never) : ks \in {<<k1, k2>>, <<k2, k2>>}}
    \cup {Cmd("del", <<k2, k1>>, empty, f1, 0, Never)}

\* Every command on one key, so that every type meets every command.
TypeRequests ==
    {On("set", k1, b, 0, t) : b \in {word, big, MaxInt}, t \in {Never, 1}}
    \cup {On("mset", k1, b, 0, Never) : b \in {word}}
    \cup {On("expire", k1, empty, 0, t) : t \in {0, 1, 2}}
    \cup {On(op, k1, empty, 0, Never) : op \in {"persist", "del", "hdel"}}
    \cup {On(op, k1, empty, n, Never) : op \in {"incr", "decrby", "hincrby"},
                                        n \in {1, MinInt}}
    \cup {On(op, k1, b, 0, Never) : op \in {"lpush", "rpush", "append", "hset"},
                                    b \in {word, big}}
    \cup {On(op, k1, empty, n, Never) : op \in {"lpop", "rpop"},
                                        n \in {NoCount, 0, 1, 2}}

AllRequests == ExpiryRequests \cup TypeRequests

\* The clients of a behaviour send the requests of one of the two workloads.
VARIABLE workload

MCInit == Init /\ workload \in {"expiry", "types"}

Sent == IF workload = "expiry" THEN ExpiryRequests ELSE TypeRequests

MCNext ==
    \/ \E c \in Sent : BeginWrite(c) /\ UNCHANGED workload
    \/ WriteStep /\ UNCHANGED workload
    \/ SweepStep /\ UNCHANGED workload
    \/ Tick /\ UNCHANGED workload

MCSpec == MCInit /\ [][MCNext]_<<vars, workload>> /\ WF_vars(SweepStep)

=============================================================================
