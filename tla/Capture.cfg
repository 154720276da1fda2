SPECIFICATION Spec
CONSTANTS
    t1 = t1
    t2 = t2
    e1 = e1
    e2 = e2
    main = main
    s1 = s1
    NoTrigger = NoTrigger
    Triggers <- TwoTriggers
    Sources <- Thread
    Before <- BeforeTwo
    Main = main
    Resyncs <- OneResync
    Deletable <- SourceTwoAndTrigger
    Approvals = TRUE
    SlowPosts = TRUE
    MaxLate = 1
    MaxPosts = 2
INVARIANTS
    TypeOK
    ReceiptIsBacked
    ContentMatchesDigest
PROPERTIES
    ForwardOnly
    ImplementsReceipting
