SPECIFICATION FairSpec
CONSTANTS
    Msgs = {m1, m2}
    Emits = {m1}
    Admins = {a1}
    SetAdmins = {a1}
    NoCaller = NoCaller
    NoWallet = NoWallet
    MaxFails = 1
    MaxCrashes = 1
    Kinds = {"wasm", "icon"}
INVARIANTS TypeOK NoFalseSuccess
PROPERTIES EventuallyExecuted EventuallyCleared
CHECK_DEADLOCK FALSE
