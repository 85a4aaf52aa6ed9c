SPECIFICATION Spec
CONSTANTS
    Setups <- BrokerFaults
    Levels = {89, 97, 100}
    StartingCash = 100
    DailyLossPct = 2
    DrawdownPct = 10
    MaxTradesPerHour = 2
    MaxErrors = 2
    DayBudget = 3
    RunBudget = 2
    MaxCallCost = 2
    HourTicks = 1
    DayTicks = 2
    MaxSignals = 2
    MaxCrashes = 1
PROPERTIES
    KillIsEarned
