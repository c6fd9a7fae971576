CONSTANTS
    m1 = m1
    m2 = m2
    Messages = {m1, m2}
    Size <- Sizes
    Users = {u1}
    SharedLoops = {FALSE}
    HighWaterMark = 2
    SndBuf = 2
    MaxInput = 1
SPECIFICATION Spec
INVARIANT GivesUpWriting
CHECK_DEADLOCK FALSE
