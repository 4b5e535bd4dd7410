SPECIFICATION Spec
CONSTANTS
    r1 = r1
    w1 = w1
    w2 = w2
    Reservations = {r1}
    Workers = {w1, w2}
    MaxRetries = 2
    MaxFaults = 3
    Faults = {"redisDown", "redisReplyLost", "postgresDown", "crash", "redelivery", "dataLapse"}
SYMMETRY WorkerSymmetry
CHECK_DEADLOCK FALSE
INVARIANTS
    TypeOK
    NoConflictingOps
