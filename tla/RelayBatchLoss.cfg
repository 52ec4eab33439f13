SPECIFICATION Spec
CONSTANTS
    m1 = m1
    m2 = m2
    d1 = d1
    d2 = d2
    None = None
    Conn = {c1, c2}
    DID = {d2}
    Msg = {m1, m2}
    To <- OneWay
    RequestAck = {m1}
    MaxConnections = 2
    SendBuffer = 1
    EnableOfflineQueue = TRUE
    MessageTTL = 0
    MaxQueueSize = 2
    MaxTotalMessages = 0
    BatchSize = 2
    MaxTime = 0
    MayStop = FALSE
CHECK_DEADLOCK FALSE
PROPERTIES DrainKeeps
