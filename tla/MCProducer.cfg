SPECIFICATION FairSpec
CONSTANTS
    Threads = {t1, t2}
    Main = main
    Messages = 2
    MaxQueue = 2
    RetryCounts <- AnyRetry
    FlushWaits <- AnyFlush
    MinId = 0
    MaxId = 0
INVARIANT AcceptedInOnePlace
INVARIANT QueueAccounted
INVARIANT ReturnCodeTruthful
INVARIANT ErrcodeIsError
INVARIANT InfiniteFlushLosesNothing
PROPERTY ProgramEnds
PROPERTY ImplementsContract
