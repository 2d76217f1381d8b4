CONSTANTS
    r1 = r1
    r2 = r2
    Replicators = {r1, r2}
    Damaged = {{}, {r2}}
    MaxVerifications = 2
    MaxDisturbances = 1
SPECIFICATION FairSpec
CHECK_DEADLOCK FALSE
INVARIANTS
    PublishedByQuorum
    OpinionsAreJustified
    NoFalseAlarm
    NothingIsLeftOver
PROPERTIES
    EveryVerificationEnds
