CONSTANTS
    Bytes = {a, b}
    NoByte = zero
    kCheapPrepend = 1
    kInitialSize = 2
    ExtraSize = 3
    MaxAppend = 3
    MaxReadable = 4
SPECIFICATION Spec
INVARIANT SizeBounded
PROPERTY
    ImplementsByteQueue
CHECK_DEADLOCK FALSE
