SPECIFICATION Spec
CONSTANTS
    Callers = {c1, c2}
    Loops = {"l1", "l2"}
    LoopOf <- MCTwoLoops
    Uris = {"u", "v"}
    Stripes = {"s"}
    StripeOf <- MCOneStripe
    Keys <- MCKeys
    KeySets <- MCStatic
    Candidates <- MCCandidates
    Tokens <- MCStaticTokens
    MaxAges = {5}
    MaxEntries = 1
    MinTTL = 1
    MaxTTL = 1
    EnvTTL = 1
    Cooldown = 1
    MaxFlight = 1
    MaxTime = 1
    Nobody = Nobody
    NoEntry = NoEntry
    NoKid = NoKid
INVARIANTS
    TypeOK
    CacheWellFormed
