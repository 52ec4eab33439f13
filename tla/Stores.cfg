SPECIFICATION Spec
CONSTANTS
    m1 = m1
    m2 = m2
    m3 = m3
    i1 = i1
    i2 = i2
    Mail = {m1, m2, m3}
    MailId <- SomeMailIds
    Recipient = {r1}
    RowTTL = 2
    RowLimit = 2
    Tries = 2
    Batch = 2
    MaxFaults = 1
    MaxTime = 3
    a1 = a1
    a2 = a2
    a3 = a3
    d1 = d1
    d2 = d2
    AgentID = {a1, a2, a3}
    DidOf <- SomeDIDs
    NoAgent = NoAgent
    Client = {c1, c2}
    MaxAgentDIDs = 1
    MaxRestarts = 1
    Thread = {t1, t2}
    Message = {x1, x2}
    Person = {p1}
    Nobody = Nobody
    MaxSaves = 2
    TaskID = {1, 2, 3}
    Session = {s1, s2}
    KindOf <- SomeKinds
    MaxTasksPerSession = 2
    MaxOpen = 1
    MaxHistoryLen = 1
    Limit = 1
    Filters <- SomeFilters
    j1 = j1
    j2 = j2
    w1 = w1
    w2 = w2
    Job = {j1, j2}
    Worker = {w1, w2}
    MaxConcurrent = 1
    MaxStarts = 2
    MaxLapses = 1
    u1 = u1
    u2 = u2
    u3 = u3
    ten = ten
    ToolUser = {u1, u2, u3}
    TenantOf <- SomeTenants
    NoTenant = NoTenant
    RemoteTask = {1}
    MaxInbox = 2
    MaxIncoming = 3
    MaxToolCalls = 3
    Account = {v1, v2}
    Customer = {k1}
    NoCustomer = NoCustomer
    KeyID = {q1}
    MaxWrites = 4
    MaxMoment = 2
CHECK_DEADLOCK FALSE
INVARIANTS
    TypesOK LossBounded
    
    StoreIndexed PagesComplete
    
PROPERTIES KeepsItsWord StuckRowsLeave TasksEnd
