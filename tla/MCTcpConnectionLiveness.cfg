CONSTANTS
    m1 = m1
    m2 = m2
    Messages = {m1}
    Size <- Sizes
    Users = {u1}
    SharedLoops = {FALSE, TRUE}
    HighWaterMark = 2
    SndBuf = 1
    MaxInput = 1
SPECIFICATION FairSpec
PROPERTIES
    DownIsDestroyed
    PeerGoneIsNoticed
    ShutdownSendsFin
CHECK_DEADLOCK FALSE
