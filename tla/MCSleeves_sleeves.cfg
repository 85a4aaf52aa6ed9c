SPECIFICATION Spec
CONSTANTS
    shareA = shareA
    shareB = shareB
    shareC = shareC
    putA2 = putA2
    putA4 = putA4
    lowPutA4 = lowPutA4
    callA2 = callA2
    putB4 = putB4
    dayCallA = dayCallA
    dayPutA = dayPutA
    dayCallB = dayCallB
    dayCallC = dayCallC
    Setups <- SomeSetups
    Names <- MCNames
    Instruments <- MCInstruments
    Under <- MCUnder
    Right <- MCRight
    Strike <- MCStrike
    Expiry <- MCExpiry
    MinDte = 1
    MaxDte = 3
    ExitDte = 0
    MaxNames = 2
    MaxEntries = 2
    SecuredPct = 90
    PerNameCap = 3
    Capitals = {0, 10}
    Lots = {1, 2}
    Targets = {1500, 3400}
    LastDay = 3
    Funded = {"zero_dte", "momentum", "put_income"}
    BaseWeights <- MCBaseWeights
    Scores <- MCScores
    MinWeights = {0, 2, 8}
    StrategyCaps = {5, 8, 20}
    Equities <- MCEquities
    VolTargets = {0, 2}
    Volatilities = {0, 3, 9}
INVARIANTS
    TypeOK
    SignKept
    OneContractPerName
    NamesCapped
    FlatBeforeClose
    CapitalSplitSound
PROPERTIES
    CollateralCapped
CHECK_DEADLOCK FALSE
