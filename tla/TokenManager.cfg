SPECIFICATION FairSpec
CONSTANTS
    Tasks = {c1, c2}
    Families = {1, 2}
    Lifetimes <- MCLifetimes
    Window = 1
    Retries = 1
    Rotation = TRUE
    LostAnswers = TRUE
    Relogin = TRUE
    Cancels = TRUE
    MaxSerial = 2
    MaxTime = 1
    Nobody = Nobody
INVARIANTS
    FamilyIntact
    PairConsistent
PROPERTIES
    NoNeedlessGrant
    EveryCallReturns
