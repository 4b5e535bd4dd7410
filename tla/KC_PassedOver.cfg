SPECIFICATION FairConsumerSpec
CONSTANTS
    i1 = i1
    i2 = i2
    Instances = {i1, i2}
    NumMessages = 2
    MaxFaults = 1
    Faults = {"handler"}
CHECK_DEADLOCK FALSE
PROPERTIES
    FailedIsRedelivered
