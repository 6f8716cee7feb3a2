CONSTANTS
    Routes = {r1, r2}
    Admins = {}
    NoCaller = NoCaller
    Shared = Shared
    FirstNonce = 1
    MaxFails = 0
    MaxNonce = 3
    MaxCrashes = 0
SPECIFICATION Spec
INVARIANTS NoReplacement
CHECK_DEADLOCK FALSE
