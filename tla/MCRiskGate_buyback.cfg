SPECIFICATION Spec
CONSTANTS
    call1 = call1
    call2 = call2
    put1 = put1
    put2 = put2
    putLate = putLate
    Shares = shares
    Contracts <- MCContracts
    Right <- MCRight
    Expiry <- MCExpiry
    Strike <- MCStrike
    Orders <- MCOrders
    Prices <- MCPrices
    StartCash = 50
    MaxOrderNotional = 28
    MaxPositionNotional = 28
    MaxGross = 1
    PremiumPct = 20
    BufferPct = 5
    MaxQty = 2
    MaxCash = 60
    MaxSales = 2
INVARIANTS
    BuyBackAllowed
