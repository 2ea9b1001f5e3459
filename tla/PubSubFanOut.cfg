SPECIFICATION SafeSpec
CONSTANTS
    c1 = c1
    c2 = c2
    c3 = c3
    a = a
    Client = {c1, c2, c3}
    Channel = {a}
    Seldom = {}
    None = none
    MaxClients = 2
    ChanCap = 1
    OutCap = 1
    MaxMessages = 2
SYMMETRY PeerSymmetry
INVARIANTS
    TypeOK
    NeverDeaf
    ToldWhenStopped
    OrphansOnlyFromErrors
    ClientsCounted
PROPERTIES
    FeedSpec
CHECK_DEADLOCK FALSE
