\* A receive sleeps, the program shuts down both directions.
SPECIFICATION Spec
CONSTANTS
    t1 = t1
    t2 = t2
    Threads <- MCThreads
    RecvSpace = 1
    SendSpace = 1
    Kinds <- MCKinds
    AbortFlags <- MCAbortFlags
    MaxCalls = 2
    MaxAborts = 1
    Shutdowns = {2}
INVARIANT ReadsReturnNow
CHECK_DEADLOCK FALSE
