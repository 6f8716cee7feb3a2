CONSTANTS
    a = a  b = b  m1 = m1  m2 = m2  m3 = m3
    Chains = {a, b}
    Msgs = {m3}
    Src <- OneSrc
    Dst <- MixDst
    Sn <- OwnSn
    Deduped = {}
    FinalityChains = {}
    Endless = {}
    MaxTxRetry = 1
    PageLimit = 1
    Objs = {o1, o2}
    NoObj = NoObj
    Gors = {g1, g2}
    MaxIngest = 2
    MaxCrashes = 1
    MaxDbErrs = 1
    MaxOps = 1
    CleanerOn = TRUE
SPECIFICATION FairSpec
PROPERTIES UnknownForgotten
CHECK_DEADLOCK FALSE
