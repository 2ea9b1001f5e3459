SPECIFICATION Spec
CONSTANTS
    k1 = k1
    k2 = k2
    f1 = 1
    empty = empty
    word = word
    long = long
    Keys = {k1, k2}
    Fields = {1}
    Texts = {empty, word, long}
    EmptyBytes = empty
    MaxInt = 1
    MaxTime = 4
    Concat <- JoinBytes
    TooLarge <- AlwaysFits
    Requests <- AllRequests
    MaxAbsolute = 3
    MaxLog = 3
    Splits <- SplitLong
    Pieces <- InWords
INVARIANTS
    TypeOK
    SnapshotReplaysLater
PROPERTIES
    RestartIsFaithful
