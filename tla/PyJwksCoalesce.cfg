SPECIFICATION FairSpec
CONSTANTS
    Callers = {c1, c2}
    Loops = {"loop"}
    LoopOf <- MCOneLoop
    Uris = {"u"}
    Stripes = {"s"}
    StripeOf <- MCOneStripe
    Keys <- MCKeys
    KeySets <- MCStatic
    Candidates <- MCCandidates
    Tokens <- MCStaticTokens
    MaxAges = {3}
    MaxEntries = 1
    MinTTL = 1
    MaxTTL = 3
    EnvTTL = 3
    Cooldown = 1
    MaxFlight = 1
    MaxTime = 2
    Nobody = Nobody
    NoEntry = NoEntry
    NoKid = NoKid
PROPERTIES
    RefreshCoalesced
