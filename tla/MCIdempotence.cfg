SPECIFICATION FairSpec
CONSTANTS
    MaxMsgid = 2
    BatchNum = 2
    MaxRetries = 1
    MaxInflight = 5
    Gapless = FALSE
    ScanGap = TRUE
    MaxMoves = 1
    MaxFaults = 2
INVARIANT InOnePlace
INVARIANT ReportsTrue
INVARIANT OnceInOrder
INVARIANT OneEpochInFlight
PROPERTY ReportFinal
PROPERTY InconsistentIfLost
PROPERTY ReportedOrFatal
