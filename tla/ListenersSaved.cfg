SPECIFICATION Spec
CONSTANTS
    InitHead = 1
    MaxHeight = 4
    LogHeights <- Logs
    BadLogs <- None
    FinalityBlock = 0
    StartHeight = 0
    BlockBatchSize = 2
    Width = 16
    MaxCrashes = 0
    MaxErrs = 0
    Kinds = {"icon"}
INVARIANT SavedIsProcessed
CHECK_DEADLOCK FALSE
