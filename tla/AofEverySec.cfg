SPECIFICATION FairSpec
CONSTANTS
    c1 = c1
    c2 = c2
    Conns = {c1, c2}
    Readers = {}
    Rewriter = rewriter
    Policy = "everysec"
    Faults = {"write", "sync", "setlen", "temp", "rename"}
    Crashes = {"power"}
    MaxBuffer = 1
    MaxSnapLen = 2
    MaxWrites = 2
    MaxRewrites = 2
    MaxCrashes = 2
INVARIANTS
    HardenedSurvives
PROPERTIES
    LogKeepsHistory
    EveryWriteAnswered
    RewriteFinishes
    EventuallyHardened
CHECK_DEADLOCK FALSE
