SPECIFICATION Spec
CONSTANTS
    Caller = {a, b, c}
    MaxFailures = 3
    ResetTimeout = 2
    HalfOpenMax = 2
    Resets = 1
    TokenParts = 3
    Rate = 2
    BucketSize = 7
    Conn = {k, l}
    Quotas <- TwoPlans
    Default <- FallBack
    None = None
    Limit = 2
    Period = 3
    MaxCount = 3
    MaxTime = 6
    AuthRequest = {a, b}
    AuthCapacity = 2
    AuthIdle = 3
    Recorder = {a, b}
    MaxEvents = 3
    MaxSecond = 1
    ToolCall = {a, b, c}
    Quota = 1
    EventBuffer = 1
    MaxMonth = 1
    MaxRestarts = 1
    PaidPlan = {starter, team}
    MaxStripeEvents = 3
    s1 = s1
    s2 = s2
    Signup = {s1, s2}
    PaidSignup = {s2}
    SignupEmail <- SomeEmails
    Access = {a}
    Visit = {v, w}
    LinkLife = 0
    ResendWindow = 1
    MaxResends = 2
    MaxMinute = 2
    Client = {cli1, cli2}
    Tenant = {ten}
    TokenRequest = {p, q, r}
    MaxCodes = 1
    Usage = {a, b, c}
    UsageLimit = 2
    UsageWarn = 1
    LastMonth = 1
    Login = {a, b}
    Token <- SomeTokens
    KeyList <- SomeKeyLists
    NoKid = "none"
    NoLogin = NoLogin
    jwksTTL = 1
    FetchTimeout = 1
    MaxMoment = 2
    Setup <- SomeSetups
    Name <- SomeNames
    Pattern <- SomePatterns
    MaxRules = 2
    OwnStarts = 2
    AllStarts = 3
    MaxSent = 1
    Opener = {p, q}
    MaxOpens = 4
CHECK_DEADLOCK FALSE
INVARIANTS TypesOK  RecordsSound  
    AccountFollows  GrantsOnce  AccessInOrder
PROPERTIES SwitchesOnRuns Restored
