SPECIFICATION FairSpec
CONSTANTS
    Sleeves = {s1, s2}
    Setups <- AllSetups
    MaxOrders = 3
    MaxCrashes = 1
INVARIANTS
    TypeOK
    CalmBooksAgree
    CalmNeverShort
    GuardSendsOnce
PROPERTIES
    FillsCountOnce
    QuietAccountReconciles
