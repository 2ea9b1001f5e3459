SPECIFICATION Spec
CONSTANTS
    c1 = c1
    Conns = {c1}
    Readers = {}
    Rewriter = rewriter
    Policy = "always"
    Faults = {"write", "postsync"}
    Crashes = {"kill"}
    MaxBuffer = 1
    MaxSnapLen = 2
    MaxWrites = 3
    MaxRewrites = 1
    MaxCrashes = 1
SYMMETRY ConnSymmetry
INVARIANTS
    AckedOnDisk
CHECK_DEADLOCK FALSE
