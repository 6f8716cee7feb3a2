SPECIFICATION FairSpec
CONSTANTS
    InitHead = 1
    MaxHeight = 4
    LogHeights <- Logs
    BadLogs <- Bad
    FinalityBlock = 2
    StartHeight = 0
    BlockBatchSize = 2
    Width = 16
    MaxCrashes = 1
    MaxErrs = 2
    Kinds = {"evm", "wasm", "icon"}
INVARIANTS TypeOK Covered
PROPERTY EventuallyHeard
CHECK_DEADLOCK FALSE
