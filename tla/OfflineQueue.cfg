SPECIFICATION FairSpec
CONSTANTS
    DID = {d1, d2}
    ID = {i1, i2}
    Ref = {r1, r2, r3}
    MessageTTL = 1
    MaxQueueSize = 2
    MaxTotalMessages = 2
    MaxDeliveryAttempts = 2
    EnableDLQ = TRUE
    DequeueLimit = 1
    MaxTime = 2
CHECK_DEADLOCK FALSE
INVARIANTS WithinLimits InOnePlace
PROPERTIES OldestLeaves ExpiredMakeRoom
