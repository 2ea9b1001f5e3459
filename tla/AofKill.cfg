SPECIFICATION Spec
CONSTANTS
    c1 = c1
    c2 = c2
    r1 = r1
    Conns = {c1, c2}
    Readers = {r1}
    Rewriter = rewriter
    Policy = "everysec"
    Faults = {"write", "sync", "temp", "rename", "dirsync"}
    Crashes = {"kill"}
    MaxBuffer = 1
    MaxSnapLen = 2
    MaxWrites = 3
    MaxRewrites = 2
    MaxCrashes = 1
SYMMETRY ConnSymmetry
INVARIANTS
    AckedOnDisk
    NoResurrection
    ReadsAtMostOneAhead
CHECK_DEADLOCK FALSE
