\* Three threads, a recursive mutex, a deferral array of one entry and six calls; one thread is canceled.
CONSTANTS
    t1 = t1
    t2 = t2
    t3 = t3
    Threads = {t1, t2, t3}
    NoOne = NoOne
    Recursive = TRUE
    MaxDeferWaiters = 1
    Cancellable = {t1}
    MaxCount = 1
    MaxCalls = 6
SPECIFICATION FairSpec
INVARIANTS TypeOK SleepQueueSound RecursionRestored SignalNotLost
PROPERTIES WaitsEnd
CHECK_DEADLOCK FALSE
