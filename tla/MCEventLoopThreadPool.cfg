CONSTANTS
    MaxThreads = 3
    MaxCalls = 2
SPECIFICATION FairSpec
INVARIANTS
    SharedOutEvenly
    LoopsAreLive
    NoUseAfterDestroy
PROPERTIES
    StartReturns
    QuitThenJoined
CHECK_DEADLOCK FALSE
