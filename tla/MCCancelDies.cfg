CONSTANTS
    MaxMods = 2
    Size <- MCSize
    Outcome <- MCOutcome
    MaxCancels = 1
    MaxVerify = 0
    MaxCrashes = 0
    MayClose = FALSE
SPECIFICATION Spec
CHECK_DEADLOCK FALSE
PROPERTIES
    OnlyCrashesEndTheProcess
