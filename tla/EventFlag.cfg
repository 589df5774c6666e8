\* Three threads and four calls.
CONSTANTS
    t1 = t1
    t2 = t2
    t3 = t3
    Threads = {t1, t2, t3}
    NoOne = NoOne
    Prio <- MCPrio
    Bits = {1, 2}
    Requests <- MCRequests
    InitPatterns <- MCInitPatterns
    SetPatterns <- MCSetPatterns
    ClearPatterns <- MCClearPatterns
    CancelPatterns <- MCCancelPatterns
    MaxCalls = 4
SPECIFICATION FairSpec
INVARIANTS TypeOK WaitersSound NoEligibleSleeper FreedAfterWaiters
PROPERTIES HonestReturn CallsEnd
CHECK_DEADLOCK FALSE
