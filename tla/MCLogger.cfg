CONSTANTS
    m1 = m1
    m2 = m2
    m3 = m3
    Threads = {t1, t2}
    Messages = {m1, m2, m3}
    NoMessage = none
    Level <- Levels
    MaxTime = 2
SPECIFICATION FairSpec
INVARIANTS
    NoLostNotify
    TagIsNotStale
    TimeIsAfterLineBefore
PROPERTIES
    ImplementsTaskQueue
    EveryCallIsWritten
CHECK_DEADLOCK FALSE
