SPECIFICATION Spec
CONSTANTS
    c1 = c1
    c2 = c2
    Conns = {c1, c2}
    Readers = {}
    Rewriter = rewriter
    Policy = "always"
    Faults = {"write", "sync", "setlen", "temp", "rename"}
    Crashes = {"power"}
    MaxBuffer = 2
    MaxSnapLen = 2
    MaxWrites = 4
    MaxRewrites = 2
    MaxCrashes = 2
SYMMETRY ConnSymmetry
INVARIANTS
    TypeOK
    AckedOnDisk
    SizeMatches
    WritesSerialized
    AofInv
CHECK_DEADLOCK FALSE
