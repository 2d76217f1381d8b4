CONSTANTS
    r1 = r1
    r2 = r2
    r3 = r3
    r4 = r4
    NoDownload = NoDownload
    Replicators = {r1, r2, r3, r4}
    N = 2
    MaxWindow = 1
    MaxInfos = 2
SPECIFICATION ViewerFairSpec
CHECK_DEADLOCK FALSE
INVARIANTS
    PlaylistIsPlayable
PROPERTIES
    ViewerGetsAll
