CONSTANTS
    r1 = r1
    r2 = r2
    r3 = r3
    r4 = r4
    Replicators = {r1, r2, r3, r4}
    Members = {r1, r3}
    Deviant = {r3}
    Live = {r1, r2}
    Down = {r4}
    MinReplicators = 2
    MaxChanges = 3
SPECIFICATION FairSpec
CHECK_DEADLOCK FALSE
INVARIANTS
    QuorumDecides
    ApprovalIsUnanimous
    SentIsPending
PROPERTIES
    EventuallyApproved
