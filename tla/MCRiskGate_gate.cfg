SPECIFICATION Spec
CONSTANTS
    call1 = call1
    call2 = call2
    put1 = put1
    put2 = put2
    putLate = putLate
    Shares = shares
    Contracts <- MCContracts
    Right <- MCRight
    Expiry <- MCExpiry
    Strike <- MCStrike
    Orders <- MCOrders
    Prices <- MCPrices
    StartCash = 30
    MaxOrderNotional = 14
    MaxPositionNotional = 14
    MaxGross = 1
    PremiumPct = 20
    BufferPct = 5
    MaxQty = 1
    MaxCash = 36
    MaxSales = 2
INVARIANTS
    TypeOK
    SharesShortByBatchOnly
    PutGroupsSecured
PROPERTIES
    SpendingKeepsCollateral
    OptionTradesStayCovered
