SPECIFICATION Spec
CONSTANTS
    o1 = o1
    o2 = o2
    r1 = r1
    r2 = r2
    r3 = r3
    k1 = k1
    k2 = k2
    NoOp = NoOp
    NoReaction = NoReaction
    Offline = Offline
    Ops <- OpsDef
    Reactions <- ReactionsDef
    TargetOf <- TargetDef
    KAs <- AssetsTwo
    KaOf <- KaTwo
    UalWithin <- UalsNested
    Configs <- Rolling
    Chains <- BaseAndDevnet
    MaxPublishesPerDay = 1
    Window = 1
    MaxTime = 1
    MaxPosts = 2
    RelayFaults = {"unreadable", "late"}
    ResyncsOverlap = FALSE
INVARIANTS
    TypeOK
    SpendAccounted
    WithinBudget
    UalOnlyIfConfirmed
    OneVmReceipt
    AnnouncedWhenDone
PROPERTIES
    OnlyTheGateSpends
    ImplementsSpending
