SPECIFICATION Spec
CONSTANTS
    Byte <- EntryBytes
    MaxBuffered = 90
    MaxArrayLen = 8
    MaxDepth = 2
    MaxLineLen = 20
    Sources <- Streams
    Rewrites <- RewrittenEntries
    FileReads <- WholeBuffer
INVARIANTS
    RewriteReplays
CHECK_DEADLOCK FALSE
