SPECIFICATION Spec
CONSTANTS
    PROPS_MAX = 3
    PARTITIONID_MAX = 4095
    Topic = "test"
    Scopes <- AllScopes
    Argcs = {2, 3, 4}
    NamedFiles <- AllFiles
    DefaultFiles <- SomeFiles
    MutexInitFails = TRUE
INVARIANT TypeOK
INVARIANT TemporariesFreed
INVARIANT StateHasProducer
INVARIANT ReleasedOnce
INVARIANT SectionConfigured
INVARIANT OnlyFirstLeft
