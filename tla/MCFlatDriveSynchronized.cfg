CONSTANTS
    MaxMods = 2
    Size <- MCSize
    Outcome <- MCOutcomeNoList
    MaxCancels = 0
    MaxVerify = 0
    MaxCrashes = 1
    MayClose = TRUE
SPECIFICATION FairSpec
CHECK_DEADLOCK FALSE
PROPERTIES
    EventuallySynchronized
    ClosedOrDownloading
