SPECIFICATION Spec
CONSTANTS
    c1 = c1
    c2 = c2
    g1 = g1
    g2 = g2
    k1 = k1
    k2 = k2
    npub1 = npub1
    npubX = npubX
    disabled = disabled
    devnet = devnet
    dev = dev
    other = other
    None = None
    Malformed = Malformed
    Channels <- BothChannels
    Graphs <- BothGraphs
    RawKeys <- Written
    Keys <- BothKeys
    KeyOf <- Decoded
    Modes <- TwoModes
    Chains <- TwoChains
    ChainFor <- Required
    Files <- SomeFiles
INVARIANTS
    TypeOK
    TablesFollowFile
    EventsStayInFile
