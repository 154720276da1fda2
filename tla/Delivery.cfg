SPECIFICATION FairSpec
CONSTANTS
    e1 = e1
    e2 = e2
    x1 = x1
    NoEvent = NoEvent
    Unsent = Unsent
    Events <- TwoEvents
    KindOf <- KindTwo
    Resyncs <- OneResync
    Overlap = 2
    Skew = 10
    Lag = 1
    Ahead = 1
    Gap = 1
    Outages = TRUE
    HandlersFail = TRUE
    MaxTime = 2
INVARIANTS
    TypeOK
PROPERTIES
    ReachKept
    Heard
