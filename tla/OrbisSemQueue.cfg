\* Three threads: two waiters of different priority and need, and a third that signals,
\* cancels or deletes.
CONSTANTS
    t1 = t1
    t2 = t2
    t3 = t3
    Threads = {t1, t2, t3}
    NoOne = NoOne
    Prio <- MCPrio
    Needs = {1, 2}
    SignalCounts = {1}
    SetCounts <- Reset
    InitCounts = {0}
    MaxCounts = {2}
    Timeouts = {1}
    Overrun = 0
    IntMax = 3
    U32 = 4
    MaxCalls = 4
SYMMETRY SamePriority
SPECIFICATION Spec
INVARIANTS ListSound NoEligibleSleeper
PROPERTIES PaidOnce ServedInOrder
CHECK_DEADLOCK FALSE
