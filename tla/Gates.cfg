SPECIFICATION Spec
CONSTANTS
    MaxPosts = 2
INVARIANTS
    TypeOK
    ReceiptsAreTrue
    OneReceiptEach
    PaidOnce
