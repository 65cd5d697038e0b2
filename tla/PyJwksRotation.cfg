SPECIFICATION Spec
CONSTANTS
    Callers = {c1, c2}
    Loops = {"loop"}
    LoopOf <- MCOneLoop
    Uris = {"u"}
    Stripes = {"s"}
    StripeOf <- MCOneStripe
    Keys <- MCKeys
    KeySets <- MCRotating
    Candidates <- MCCandidates
    Tokens <- MCRotated
    MaxAges = {1}
    MaxEntries = 1
    MinTTL = 1
    MaxTTL = 1
    EnvTTL = 1
    Cooldown = 1
    MaxFlight = 1
    MaxTime = 2
    Nobody = Nobody
    NoEntry = NoEntry
    NoKid = NoKid
INVARIANTS
    SingleFlight
    RevokedKeyBound
    RotationAbsorbed
    NoLateOverwrite
SYMMETRY MCSymmetry
