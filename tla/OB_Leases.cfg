SPECIFICATION FairSpec
CONSTANTS
    i1 = i1
    i2 = i2
    Instances = {i1, i2}
    NumRows = 2
    Stores = {"postgres", "mongo"}
    Lease = 3
    Deadline = 2
    Interval = 1
    MaxFaults = 3
    Faults = {"storeDown", "storeReplyLost", "brokerDown", "produceFails", "tooLarge", "slow", "crash"}
INVARIANTS
    TypeOK
    OnePublisher
    MarkedIsDelivered
PROPERTIES
    EventuallyPublished
