SPECIFICATION FairSpec
CONSTANTS
    e1 = e1
    e2 = e2
    x1 = x1
    NoEvent = NoEvent
    Unsent = Unsent
    Events <- TwoEvents
    KindOf <- KindTwo
    Resyncs <- OneResync
    Overlap = 1
    Skew = 5
    Lag = 0
    Ahead = 0
    Gap = 1
    Outages = FALSE
    HandlersFail = FALSE
    MaxTime = 2
PROPERTIES
    Replayed
