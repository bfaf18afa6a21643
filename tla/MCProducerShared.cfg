SPECIFICATION Spec
CONSTANTS
    Threads = {t1, t2}
    Main = main
    Messages = 2
    MaxQueue = 1
    RetryCounts <- MixedRetry
    FlushWaits <- InfiniteFlush
    MinId = 0
    MaxId = 1
INVARIANT PartitionIsCallers
