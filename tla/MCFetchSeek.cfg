SPECIFICATION Spec
CONSTANTS
    b1 = b1
    b2 = b2
    Brokers <- MCBrokers
    None = None
    Starts <- MCStarts
    Seeks <- MCSeeks
    AutoReset <- MCReset
    QueuedMin = 1
    BatchSize = 2
    MaxEnd = 3
    MaxCalls = 3
    MaxFaults = 1
INVARIANT AlwaysInPlace
CHECK_DEADLOCK FALSE
