SPECIFICATION Spec
CONSTANTS
    ann = ann
    bob = bob
    cat = cat
    c1 = c1
    c2 = c2
    k1 = k1
    k2 = k2
    l1 = l1
    l2 = l2
    l3 = l3
    Peer = {ann, bob}
    Relay = Relay
    Call = {c1, c2}
    CallerOf <- SomeCallers
    CalleeOf <- SomeCallees
    MaxAttempts = 2
    DedupTTL = 0
    MaxRepeats = 1
    MaxCalls = 1
    MaxTime = 1
    MaxInbound = 2
    MaxOutbound = 2
    MaxLinks = 3
    ConnBuffer = 1
    Feed = {f}
    Caster = {x}
    SseEvents <- SomeEvents
    MaxWrites = 3
    Sender = {x, y}
    Messages <- SomeTexts
    Json <- SomeJson
    DID = {ann, bob}
    ChanId = {k1, k2}
    NameOf <- SomeNames
    NoChannel = NoChannel
    MaxRequests = 3
    Owner = ann
    Others = {bob, cat}
    Latecomer = {cat}
    Poster = {ann, bob}
    FanBuffer = 1
    FanQueue = 2
    MaxFanned = 3
    MaxReturns = 1
    Line = {l1, l2}
    LineOf <- SomeLines
    Watcher = {cat}
    Status = {"online", "busy"}
    Unset = "unset"
    MaxUpdates = 2
    Typist = {ty1, ty2}
    Topic = {to1, to2}
    TypingTime = 2
    MaxTypingNow = 4
CHECK_DEADLOCK FALSE
INVARIANTS
    TypesOK WaitersServed TakenApart LinksHeld 
     PresenceCurrent
PROPERTIES StopsClean
