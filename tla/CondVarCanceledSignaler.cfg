\* Three threads, of which one may be canceled, and six calls.
CONSTANTS
    t1 = t1
    t2 = t2
    t3 = t3
    Threads = {t1, t2, t3}
    NoOne = NoOne
    Recursive = FALSE
    MaxDeferWaiters = 1
    Cancellable = {t2}
    MaxCount = 0
    MaxCalls = 6
SPECIFICATION FairSpec
PROPERTIES SignaledWaiterWakes
CHECK_DEADLOCK FALSE
