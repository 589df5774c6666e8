\* Two bytes into a receive window of one, both sides may end their stream or close, one mishap.
SPECIFICATION FairSpec
CONSTANTS
    a = a
    b = b
    Sides <- MCSides
    Openers = {a}
    Iss <- MCIss
    IssA = 14
    IssB = 3
    MaxBytes <- MCMaxBytes
    BytesA = 2
    BytesB = 0
    Finishers = {a, b}
    Aborters = {a}
    MaxFaults = 1
    M = 16
    RecvBuffer = 1
    SendBuffer = 2
    Mss = 2
    CwndCap = 4
    SynRetries = 1
    DataRetries = 1
INVARIANTS TimerArmed
PROPERTIES ImplementsStreams
CHECK_DEADLOCK FALSE
