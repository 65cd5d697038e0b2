SPECIFICATION Spec
CONSTANTS
    Browsers = {b1, b2}
    Requests = {r1, r2}
    MaxFlows = 2
    Subjects = {s1, s2}
    Hasty = {b1}
    Faulty = {2}
    fetch_userinfo = TRUE
    NoBrowser = NoBrowser
    NoSub = NoSub
INVARIANTS
    OwnLogin
    FlowSpent
    LogoutFinal
    GenuineAccepted
SYMMETRY MCSymmetry
