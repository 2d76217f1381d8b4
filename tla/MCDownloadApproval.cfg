CONSTANTS
    r1 = r1
    r2 = r2
    r3 = r3
    Replicators = {r1, r2, r3}
    Members = {r1, r2}
    MinReplicators = 1
    MaxChanges = 1
    MaxFaults = 1
SPECIFICATION FairSpec
CHECK_DEADLOCK FALSE
INVARIANTS
    TransactionsAreQuorums
    OwnOpinionComesBack
PROPERTIES
    EventuallyPublished
