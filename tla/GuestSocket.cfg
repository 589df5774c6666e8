\* Two threads, two calls, one abort, shutdown of writing, close.
SPECIFICATION FairSpec
CONSTANTS
    t1 = t1
    t2 = t2
    Threads <- MCThreads
    RecvSpace = 1
    SendSpace = 1
    Kinds <- MCKinds
    AbortFlags <- MCAbortFlags
    MaxCalls = 2
    MaxAborts = 1
    Shutdowns = {1}
INVARIANTS WaitersSound
PROPERTIES ClosedCallsEnd BrokenCallsEnd
CHECK_DEADLOCK FALSE
