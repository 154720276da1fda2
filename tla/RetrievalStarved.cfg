SPECIFICATION Spec
CONSTANTS
    r1 = r1
    r2 = r2
    r3 = r3
    r4 = r4
    r5 = r5
    d1 = d1
    d2 = d2
    d3 = d3
    d4 = d4
    here = here
    there = there
    x = x
    y = y
    long = long
    Rows <- Five
    Assets <- Four
    AssetOf <- AssetOfFive
    Rooms <- HereOrThere
    RoomOf <- RoomOfFour
    Words <- Vocabulary
    WordsOf <- WordsOfFive
    Specific <- Long
    MaxTerms = 3
    Limit = 3
    MaxCited = 2
INVARIANTS
    SufficientIsAnswered
