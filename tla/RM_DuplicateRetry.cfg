SPECIFICATION Spec
CONSTANTS
    r1 = r1
    w1 = w1
    Reservations = {r1}
    Workers = {w1}
    MaxRetries = 3
    MaxFaults = 4
    Faults = {"redelivery", "vesselDown"}
CHECK_DEADLOCK FALSE
INVARIANTS
    NoConflictingOps
