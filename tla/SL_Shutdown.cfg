SPECIFICATION FairSpec
CONSTANTS
    i1 = i1
    Instances = {i1}
    NumMessages = 2
    MaxFaults = 1
    Faults = {"handler", "rebalance", "crash", "commit", "subscribe", "shutdown"}
    Kinds = {"consignment", "reservation", "vessel", "payment", "user", "gateway"}
    ConnectRetries = 1
    MaxMishaps = 2
    Mishaps = {"startup", "listen", "serve", "shutdown"}
INVARIANTS
    TypeOK
    UsesOnlyOpen
    PassedOverHasFailed
PROPERTIES
    RepliesBeforeExit
    StoppingEnds
    EveryMessageIsTried
    ImplementsConsumer
