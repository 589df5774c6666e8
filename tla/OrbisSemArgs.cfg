\* Two threads and every kind of argument: invalid creation, zero timeouts, negative and
\* overflowing signal counts, a count set by cancel.
CONSTANTS
    t1 = t1
    t2 = t2
    t3 = t3
    Threads = {t1, t2}
    NoOne = NoOne
    Prio <- MCPrio
    Needs = {1, 2}
    SignalCounts <- SignalArguments
    SetCounts <- ResetOrSet
    InitCounts <- InitArguments
    MaxCounts = {0, 2}
    Timeouts = {0, 1}
    Overrun = 1
    IntMax = 3
    U32 = 4
    MaxCalls = 3
SPECIFICATION FairSpec
INVARIANTS TypeOK
PROPERTIES CallsEnd
CHECK_DEADLOCK FALSE
