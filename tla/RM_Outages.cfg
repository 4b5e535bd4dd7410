SPECIFICATION FairSpec
CONSTANTS
    r1 = r1
    w1 = w1
    w2 = w2
    Reservations = {r1}
    Workers = {w1, w2}
    MaxRetries = 2
    MaxFaults = 3
    Faults = {"redisDown", "vesselDown", "vesselReplyLost"}
CHECK_DEADLOCK FALSE
INVARIANTS
    ConfirmedImpliesVesselConfirm
    NotBothOutcomes
    CapturedNeverForgotten
PROPERTIES
    ImplementsOutcome
    CapturedIsAnswered
    LapsedIsTakenOver
