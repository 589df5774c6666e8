\* Four segments of one byte across the wrap, two mishaps: enough for three duplicate ACKs.
SPECIFICATION FairSpec
CONSTANTS
    a = a
    b = b
    Sides <- MCSides
    Openers = {a}
    Iss <- MCIss
    IssA = 30
    IssB = 3
    MaxBytes <- MCMaxBytes
    BytesA = 4
    BytesB = 0
    Finishers = {}
    Aborters = {}
    MaxFaults = 2
    M = 32
    RecvBuffer = 4
    SendBuffer = 4
    Mss = 1
    CwndCap = 8
    SynRetries = 1
    DataRetries = 2
PROPERTIES ImplementsStreams AckedOrClosed
CHECK_DEADLOCK FALSE
