SPECIFICATION Spec
CONSTANTS
    f1 = f1
    f2 = f2
    a = a
    b = b
    None = None
    Forecasts <- TwoForecasts
    Passes <- TwoPasses
    Horizon = 1
    Settle = 1
    GiveUp = 3
    Interval = 2
    PassLimit = 1
    MaxRestarts = 1
    SlowSettings <- SlowOrNot
INVARIANTS
    LedgerInv
PROPERTIES
    BaselineStands
    OutcomeStands
    EveryForecastIsConcluded
