\* Two guest threads, two buffers, three calls of any kind.
CONSTANTS
    g1 = g1
    g2 = g2
    Threads = {g1, g2}
    NoOne = NoOne
    NumBuffers = 2
    MaxPending = 16
    Calls <- MCCalls
    MaxCalls = 3
    CounterSize = 16
SPECIFICATION FairSpec
INVARIANTS Counted AsleepOnlyIdle FlipIrqInOrder LabelHeld
PROPERTIES CallsEnd FlipsReachScreen
CHECK_DEADLOCK FALSE
