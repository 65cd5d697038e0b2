SPECIFICATION Spec
CONSTANTS
    Callers = {c1, c2}
    Uris = {"u1", "u2"}
    Handles = {"h1", "h2"}
    UriOf <- MCOwnUri
    Kids <- MCKids
    KeySets <- MCRotating
    Ops = {"open", "resolve", "force"}
    MaxEntries = 1
    TTL = 1
    Cooldown = 1
    MaxFlight = 1
    Outages = {"u2"}
    Clears = TRUE
    MaxTime = 3
    NoEntry = NoEntry
INVARIANTS
    FetchedFresh
    QuietRefresh
    NotPoisoned
    Bounded
CONSTRAINT MCScope
SYMMETRY MCSymmetry
