CONSTANTS
    m1 = m1  m2 = m2
    Msgs = {m1, m2}
    NoMsg = NoMsg
    Sn <- OwnSn
    MsgHeight <- SameBlock
    SrcKnown = {m1, m2}
    FinalityBlock = 2
    PageLimit = 1
    Fates = {"gone", "failed"}
    MaxHeight = 5
    MaxReorgs = 2
    MaxErrs = 1
    MaxCrashes = 1
SPECIFICATION FairSpec
INVARIANTS FinalIsFinal FinalInv UndoneRemembered
PROPERTIES UndoneGenerated
CHECK_DEADLOCK FALSE
