CONSTANTS
    a = a  b = b  m1 = m1  m2 = m2  m3 = m3
    Chains = {a, b}
    Msgs = {m1}
    Src <- OneSrc
    Dst <- MixDst
    Sn <- OwnSn
    Deduped = {m1}
    FinalityChains = {}
    Endless = {b}
    MaxTxRetry = 1
    PageLimit = 1
    Objs = {o1, o2}
    NoObj = NoObj
    Gors = {g1}
    MaxIngest = 1
    MaxCrashes = 0
    MaxDbErrs = 0
    MaxOps = 1
    CleanerOn = TRUE
SPECIFICATION FairSpec
INVARIANTS Durable NoSilentLoss
PROPERTY EventuallySettled
CHECK_DEADLOCK FALSE
