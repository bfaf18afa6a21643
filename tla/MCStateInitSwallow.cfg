SPECIFICATION Spec
CONSTANTS
    PROPS_MAX = 3
    PARTITIONID_MAX = 4095
    Topic = "test"
    Scopes <- GoodScope
    Argcs = {3}
    NamedFiles <- ShortFiles
    DefaultFiles <- OneFile
    MutexInitFails = FALSE
INVARIANT MadeFromFile
