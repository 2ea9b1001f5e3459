SPECIFICATION Spec
CONSTANTS
    Byte <- EntryBytes
    MaxBuffered = 90
    MaxArrayLen = 16
    MaxDepth = 2
    MaxLineLen = 20
    Sources <- Streams
    Rewrites <- RewrittenEntries
    FileReads <- WholeBuffer
INVARIANTS
    TypeOK
    SplitsDecideNothing
    RewriteReplays
    FailsOnlyIfUnwritable
    ChunksAreFull
    SnapshotRebuilds
CHECK_DEADLOCK FALSE
