SPECIFICATION MCSpec
CONSTANTS
    c1 = c1
    a = a
    b = b
    Client = {c1}
    Channel = {a, b}
    Seldom = {b}
    None = none
    MaxClients = 1
    ChanCap = 1
    OutCap = 1
    MaxMessages = 3
PROPERTIES
    FeedSpec
    SlowIsEnded
    OwedIsDelivered
CHECK_DEADLOCK FALSE
