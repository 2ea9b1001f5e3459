SPECIFICATION Spec
CONSTANTS
    c1 = c1
    c2 = c2
    Conns = {c1, c2}
    Readers = {}
    Rewriter = rewriter
    Policy = "always"
    Faults = {"temp", "rename", "dirsync", "postsync", "stat"}
    Crashes = {"kill"}
    MaxBuffer = 2
    MaxSnapLen = 2
    MaxWrites = 3
    MaxRewrites = 2
    MaxCrashes = 2
SYMMETRY ConnSymmetry
INVARIANTS
    AofMirrorsDb
CHECK_DEADLOCK FALSE
