SPECIFICATION Spec
CONSTANTS
    c1 = c1
    a1 = a1
    w1 = w1
    NoID = NoID
    Consignments = {c1}
    PaymentIDs = {c1}
    Auths = {a1}
    Workers = {w1}
    MaxRetries = 3
    MaxFaults = 0
    Faults = {}
CHECK_DEADLOCK FALSE
PROPERTY
    FollowsStatusOrder
