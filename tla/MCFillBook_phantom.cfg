SPECIFICATION Spec
CONSTANTS
    Sleeves = {s1, s2}
    Setups <- ExpiryDay
    MaxOrders = 4
    MaxCrashes = 1
INVARIANTS
    SleevesOwnBook
