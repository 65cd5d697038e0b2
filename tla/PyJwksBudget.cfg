SPECIFICATION BudgetSpec
CONSTANTS
    Callers = {c1, c2}
    Loops = {"loop"}
    LoopOf <- MCOneLoop
    Uris = {"u"}
    Stripes = {"s"}
    StripeOf <- MCOneStripe
    Keys <- MCKeys
    KeySets <- MCStatic
    Candidates <- MCCandidates
    Tokens <- MCForged
    MaxAges = {3}
    MaxEntries = 1
    MinTTL = 1
    MaxTTL = 1
    EnvTTL = 1
    Cooldown = 2
    MaxFlight = 1
    MaxTime = 1
    Nobody = Nobody
    NoEntry = NoEntry
    NoKid = NoKid
PROPERTIES
    OncePerCaller
    EveryCallReturns
