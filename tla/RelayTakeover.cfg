SPECIFICATION Spec
CONSTANTS
    m1 = m1
    m2 = m2
    d1 = d1
    d2 = d2
    None = None
    Conn = {c1, c2}
    DID = {d1, d2}
    Msg = {m1}
    To <- OneMsg
    RequestAck = {m1}
    MaxConnections = 2
    SendBuffer = 1
    EnableOfflineQueue = TRUE
    MessageTTL = 0
    MaxQueueSize = 2
    MaxTotalMessages = 1
    BatchSize = 2
    MaxTime = 0
    MayStop = FALSE
CHECK_DEADLOCK FALSE
INVARIANTS ConnectedIsRoutable
