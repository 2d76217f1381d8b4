CONSTANTS
    r1 = r1
    r2 = r2
    c1 = c1
    Replicators = {r1, r2}
    Clients = {c1}
    Joining = {r2}
    Prepaid = {1, 2}
    ReceiptLimit = 0
    MaxSize = 2
    MaxEvents = 1
SPECIFICATION Spec
CHECK_DEADLOCK FALSE
INVARIANTS
    AccountsAreConsistent
    TrafficIsCovered
    AgreeWhenDelivered
PROPERTIES
    AcceptedNeverShrinks
