\* Two callers, a heap of two Pthreads of which one may be cached, three creations, one reference.
SPECIFICATION FairSpec
CONSTANTS
    c1 = c1
    c2 = c2
    p1 = p1
    p2 = p2
    None = None
    Callers <- MCCallers
    Pthreads <- MCPthreads
    MaxThreads = 1
    GcThreshold = 1
    MaxCachedThreads = 1
    MaxCreates = 3
    MaxRefs = 1
INVARIANTS RefsCounted OnePlace UsedStaysLinked TotalCounted
PROPERTIES DeadIsCollected JoinReturns
CHECK_DEADLOCK FALSE
