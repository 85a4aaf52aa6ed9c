SPECIFICATION FairSpec
CONSTANTS
    Clients = {c1, c2}
    Runner = loop
    NStrategies = 2
    MaxSignals = 2
    MaxExpiring = 2
    MaxExposure = 3
    MaxCrashes = 1
    TerminalTouch = FALSE
    DbFaults = FALSE
INVARIANTS
    KillNeverForgotten
    DashboardShowsKill
PROPERTIES
    KillIsSwept
