\* Three threads and 4 acquisitions, shared ones nested up to two deep.
CONSTANTS
    t1 = t1
    t2 = t2
    t3 = t3
    Threads = {t1, t2, t3}
    NoOne = NoOne
    MaxDepth = 2
    MaxCalls = 4
SPECIFICATION FairSpec
INVARIANTS TypeOK NoLostWakeup
PROPERTIES ImplementsSharedLock CallsEnd
CHECK_DEADLOCK FALSE
