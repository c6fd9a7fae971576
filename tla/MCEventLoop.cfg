CONSTANTS
    Owner = owner
    Callers = {t1, t2}
    Functors = {f1, f2, f3, e1}
    EarlyFunctors = {e1}
    Channels = {c1}
    WakeupChannel = wakeup
    EventfdMax = 2
SPECIFICATION FairSpec
INVARIANTS
    NoLostWakeup
    NoLostQuit
PROPERTIES
    ImplementsTaskQueue
    QueuedFunctorsRun
    QuitStopsLoop
