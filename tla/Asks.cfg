SPECIFICATION FairSpec
CONSTANTS
    q1 = q1
    q2 = q2
    a1 = a1
    NoQuestion = NoQuestion
    Questions <- TwoQuestions
    Authors <- OneAuthor
    AuthorOf <- Pair
    Bindings <- FirstOrBoth
    Handles <- SecondOrBoth
    RateLimit = 1
    Window = 1
    SlowPosts = TRUE
    MaxTime = 1
    MaxReplies = 2
INVARIANTS
    TypeOK
    OneReplyPerLife
    AnsweredIsPosted
    FloodBounded
PROPERTIES
    ResolvedIsFinal
    AsksResolve
