SPECIFICATION Spec
CONSTANTS
    v1 = v1
    v2 = v2
    r1 = r1
    r2 = r2
    Vessels = {v1, v2}
    Reservations = {r1, r2}
    Limit <- MCLimit
    Demand <- MCDemand
    MaxRetries = 1
    ServerActions = {"release", "confirm"}
    Faults = {"vesselDown", "vesselReplyLost", "redisDown", "redisReplyLost"}
    MaxFaults = 2
CHECK_DEADLOCK FALSE
INVARIANTS
    TypeOK
    CountersMatchOperations
    NeverOverbooked
    WithinLimits
    FailureIsCompensated
    AcceptedIsHeld
PROPERTIES
    ConfirmedNotCleanedUp
