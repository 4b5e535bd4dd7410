SPECIFICATION FairSpec
CONSTANTS
    c1 = c1
    a1 = a1
    w1 = w1
    w2 = w2
    NoID = NoID
    Consignments = {c1}
    PaymentIDs = {c1}
    Auths = {a1}
    Workers = {w1, w2}
    MaxRetries = 1
    MaxFaults = 2
    Faults = {"paymentDown", "paymentReplyLost", "mongoDown", "mongoReplyLost", "crash", "redelivery"}
CHECK_DEADLOCK FALSE
INVARIANTS
    TypeOK
    CapturedIsPassedOn
    UndoneIsCancelled
    ConfirmedIsPaid
PROPERTY
    LeavesPending
