SPECIFICATION Spec
CONSTANTS
    Clients = {c1, c2}
    Runner = loop
    NStrategies = 2
    MaxSignals = 2
    MaxExpiring = 2
    MaxExposure = 3
    MaxCrashes = 1
    TerminalTouch = TRUE
    DbFaults = TRUE
SYMMETRY ClientSymmetry
INVARIANTS
    TypeOK
    LateOrdersBounded
    FlattenIsFinal
PROPERTIES
    NeverAutoReleases
    KeepsPromise
