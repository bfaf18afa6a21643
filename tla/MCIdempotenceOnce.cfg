SPECIFICATION Spec
CONSTANTS
    MaxMsgid = 3
    BatchNum = 2
    MaxRetries = 1
    MaxInflight = 5
    Gapless = FALSE
    ScanGap = FALSE
    MaxMoves = 0
    MaxFaults = 2
INVARIANT WrittenOnce
