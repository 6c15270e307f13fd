SPECIFICATION FairSpec
CONSTANTS
    OrderLocks = {o1, o2}
    FileLocks = {f1}
    MaxCalls = 4
CHECK_DEADLOCK FALSE
INVARIANTS
    TypeOK
    EntryWhileInUse
PROPERTIES
    ImplementsFifoLock
    NoCallStarves
