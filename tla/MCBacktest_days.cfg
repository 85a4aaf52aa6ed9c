SPECIFICATION Spec
CONSTANTS
    Setups <- SomeSetups
    LastDay = 4
    Prices = {8, 10}
    Capitals = {30}
    StartingCash = 24
    Strike = 8
    Expiry = 3
    TimeValue = 1
    Multiplier = 2
    HalfSpread = 1
    Impact = 1
    OptionHalfSpread = 1
    SaleFee = 1
    ContractFee = 1
    MaxSignals = 2
    Horizon = 20
    MaxSpan = 4
    Sharpes <- MCSharpes
INVARIANTS
    TypeOK
    NetLiquidation
    LongOnlyStaysLong
    ExpiredAreSettled
    MarksAreOfToday
    WalkForwardSound
PROPERTIES
    TradesOneDayLater
    EveryFillCosts
CHECK_DEADLOCK FALSE
