SPECIFICATION MCSpec
CONSTANTS
    k1 = k1
    k2 = k2
    f1 = 1
    empty = empty
    word = word
    big = big
    huge = huge
    Keys = {k1, k2}
    Fields = {1}
    Texts = {empty, word, big, huge}
    EmptyBytes = empty
    MaxInt = 1
    MaxTime = 3
    Concat <- JoinBytes
    TooLarge <- ExceedsReply
    Requests <- AllRequests
    NumShards = 2
    ShardOf <- TwoShards
    MaxItems = 2
INVARIANTS
    TypeOK
    IndexExact
    NoEmptyCollection
    FailedWriteChangesNothing
    RepliesFit
    ReadsAgree
PROPERTIES
    SweepIsInvisible
    ExpiredIsReclaimed
