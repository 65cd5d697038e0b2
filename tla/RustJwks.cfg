SPECIFICATION Spec
CONSTANTS
    Tasks = {c1, c2}
    Uris = {"u1", "u2"}
    Gates = {g1, g2}
    Kids <- MCKids
    KeySets <- MCRotating
    Ops = {"resolve", "force"}
    MaxEntries = 1
    TTL = 1
    Cooldown = 1
    MaxFlight = 1
    Outages = TRUE
    Cancels = TRUE
    MaxTime = 1
    Nobody = Nobody
    NoGate = NoGate
    NoEntry = NoEntry
INVARIANTS
    Bounded
    QuietRefresh
    GatesReclaimed
CONSTRAINT MCScope
SYMMETRY MCSymmetry
