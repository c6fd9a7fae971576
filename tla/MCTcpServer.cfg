CONSTANTS
    base = base
    io1 = io1
    io2 = io2
    u1 = u1
    BaseLoop = base
    Users = {}
    Pools <- PoolSizes
    FdLimits = {2}
    NameWidth = 2
    MaxAccepts = 3
SPECIFICATION FairSpec
INVARIANTS
    TypeOK
    ServerKnowsConnections
    NoCallerOfDeadServer
PROPERTIES
    ClosedIsFreed
    PeersAreAccepted
    DestructorReturns
CHECK_DEADLOCK FALSE
