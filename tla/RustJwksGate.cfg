SPECIFICATION FairSpec
CONSTANTS
    Tasks = {c1, c2, c3}
    Uris = {"u"}
    Gates = {g1, g2, g3}
    Kids <- MCKids
    KeySets <- MCStatic
    Ops = {"fetch"}
    MaxEntries = 1
    TTL = 1
    Cooldown = 1
    MaxFlight = 1
    Outages = FALSE
    Cancels = TRUE
    MaxTime = 0
    Nobody = Nobody
    NoGate = NoGate
    NoEntry = NoEntry
INVARIANT SingleFlight
