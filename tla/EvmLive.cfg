CONSTANTS
    Routes = {r1}
    Admins = {a1}
    NoCaller = NoCaller
    Shared = Shared
    FirstNonce = 0
    MaxFails = 2
    MaxNonce = 3
    MaxCrashes = 0
SPECIFICATION FairSpec
PROPERTIES AttemptsEnd
CHECK_DEADLOCK FALSE
