CONSTANTS
    SOURCES = 2
    BYTE = 6
    Code <- mcCode
    Vector <- mcVector
    Ram <- mcRam
    StackTop = 34
    MaxDepth = 2
    MaxCalls = 2
SPECIFICATION FairSpec
INVARIANTS HandlersRunAlone
PROPERTIES LostOnlyWithinTheTick PendingEndsHalt ReturnsRestore
