SPECIFICATION FairSpec
CONSTANTS
    t1 = t1
    t2 = t2
    e1 = e1
    e2 = e2
    main = main
    s1 = s1
    NoTrigger = NoTrigger
    Triggers <- TwoTriggers
    Sources <- Message
    Before <- BeforeShared
    Main = main
    Resyncs <- OneResync
    Deletable <- FirstTrigger
    Approvals = TRUE
    SlowPosts = FALSE
    MaxLate = 0
    MaxPosts = 2
INVARIANTS
    OneReceipt
PROPERTIES
    Settles
