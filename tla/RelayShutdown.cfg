SPECIFICATION FairSpec
CONSTANTS
    m1 = m1
    m2 = m2
    d1 = d1
    d2 = d2
    None = None
    Conn = {c1, c2}
    DID = {d2}
    Msg = {m1}
    To <- OneMsg
    RequestAck = {m1}
    MaxConnections = 2
    SendBuffer = 1
    EnableOfflineQueue = TRUE
    MessageTTL = 0
    MaxQueueSize = 1
    MaxTotalMessages = 0
    BatchSize = 2
    MaxTime = 1
    MayStop = TRUE
CHECK_DEADLOCK FALSE
 
PROPERTIES HandlersReturn StopCompletes
