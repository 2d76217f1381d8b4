CONSTANTS
    MaxMods = 3
    Size <- MCSize
    Outcome <- MCOutcomeFailing
    MaxCancels = 1
    MaxVerify = 0
    MaxCrashes = 1
    MayClose = FALSE
SPECIFICATION Spec
CHECK_DEADLOCK FALSE
INVARIANT CatchUpFindsRoot
