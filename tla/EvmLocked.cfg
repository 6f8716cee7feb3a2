CONSTANTS
    Routes = {r1, r2}
    Admins = {}
    NoCaller = NoCaller
    Shared = Shared
    FirstNonce = 0
    MaxFails = 2
    MaxNonce = 3
    MaxCrashes = 1
SPECIFICATION Spec
SYMMETRY Same
INVARIANTS StableNonce LockInv LockPreventsReplacement
CHECK_DEADLOCK FALSE
