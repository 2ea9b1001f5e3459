----------------------------- MODULE MCRecovery -----------------------------
(* Recovery for TLC: small byte strings and the workload of the runs.       *)
EXTENDS Recovery

CONSTANTS k1, k2, f1, empty, word, long

JoinBytes(a, b) == IF a = empty THEN b ELSE IF b = empty THEN a ELSE long

\* A long string is over the limit, a word only together with a deadline.
SplitLong(k, b, d) == b = long \/ (b = word /\ d # Never)
NeverSplit(k, b, d) == FALSE
InWords(k, b) == IF b = long THEN <<word, 1>> ELSE IF b = empty THEN <<>> ELSE <<b>>

AlwaysFits(s) == FALSE

On(op, k, val, n, at) == Cmd(op, <<k>>, val, f1, n, at)

\* Every type, with deadlines that pass, do not pass, and never can.
AllRequests ==
    {On("set", k1, 1, 0, t) : t \in {Never, 2, MaxTime}}
    \cup {On("expire", k, empty, 0, t) : k \in Keys, t \in {0, 1}}
    \cup {On("persist", k1, empty, 0, Never)}
    \cup {On("incr", k1, empty, 1, Never)}
    \cup {On(op, k1, word, 0, Never) : op \in {"append", "lpush", "hset"}}
    \cup {On("rpush", k1, 1, 0, Never)}
    \cup {On(op, k1, empty, 1, Never) : op \in {"lpop", "hdel", "hincrby", "decrby"}}
    \cup {Cmd("mset", <<k1, k2>>, word, f1, 0, Never),
          Cmd("del", <<k2, k1>>, empty, f1, 0, Never)}

=============================================================================
