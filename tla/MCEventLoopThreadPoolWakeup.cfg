CONSTANTS
    MaxThreads = 1
    MaxCalls = 1
SPECIFICATION Spec
INVARIANT WakeupReachesLoop
CHECK_DEADLOCK FALSE
