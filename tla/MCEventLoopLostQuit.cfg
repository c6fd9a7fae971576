CONSTANTS
    Owner = owner
    Callers = {t1}
    Functors = {f1, f2}
    EarlyFunctors = {}
    Channels = {c1}
    WakeupChannel = wakeup
    EventfdMax = 1
SPECIFICATION FairSpec
PROPERTY QuitIsNeverLost
