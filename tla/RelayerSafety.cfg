CONSTANTS
    a = a  b = b  m1 = m1  m2 = m2  m3 = m3
    Chains = {a, b}
    Msgs = {m1}
    Src <- OneSrc
    Dst <- MixDst
    Sn <- OwnSn
    Deduped = {m1}
    FinalityChains = {b}
    Endless = {b}
    MaxTxRetry = 1
    PageLimit = 1
    Objs = {o1, o2}
    NoObj = NoObj
    Gors = {g1, g2}
    MaxIngest = 1
    MaxCrashes = 1
    MaxDbErrs = 1
    MaxOps = 0
    CleanerOn = FALSE
SPECIFICATION Spec
SYMMETRY Slots
INVARIANTS TypeOK RouteMutex Durable NoSilentLoss SafetyInv
PROPERTY KeepsPromise
CHECK_DEADLOCK FALSE
