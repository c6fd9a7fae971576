CONSTANTS
    base = base
    io1 = io1
    io2 = io2
    u1 = u1
    BaseLoop = base
    Users = {u1}
    Pools <- SmallPools
    FdLimits = {3}
    NameWidth = 2
    MaxAccepts = 2
SPECIFICATION Spec
INVARIANTS
    NoDeadChannelIsActive
    FreedIsUnregistered
PROPERTIES
    ImplementsConnectionLife
CHECK_DEADLOCK FALSE
