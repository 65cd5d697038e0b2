SPECIFICATION HarnessSpec
CONSTANTS
    Flows = {"f1", "f2"}
    Slots = {1, 2}
    Plans <- MCPlans
    Deliveries = 2
    Logouts <- MCLogouts
INVARIANTS
    FlowOnce
    OwnLogin
    
    GenuineAccepted
    
CHECK_DEADLOCK FALSE
