SPECIFICATION FairSpec
CONSTANTS
    Procs = {p1, p2, p3}
    NoProc = NoProc
    MaxRuns = 3
    MaxKills = 1
    Editors = {e1, e2}
    NoEditor = NoEditor
    ChainCfgs <- SomeChains
    Written <- ByHand
    MaxEdits = 3
    MaxBreaks = 1
    Keys = {k1, k2}
    Wallet = k1
    Passwords = {s1, s2}
    NoKey = NoKey
    Chains = {"evm", "icon", "cosmos"}
    MaxKeyOps = 3
    MaxCuts = 1
    Parts = {"console", "config", "keystore"}
INVARIANTS TypeOK ServedByOwner SocketRemoved EditsKept SignsAsConfigured Restorable
PROPERTY CommandsEnd
CHECK_DEADLOCK FALSE
