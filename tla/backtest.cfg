SPECIFICATION BacktestSpec
CONSTANTS
    n1 = n1
    n2 = n2
    n3 = n3
    e1 = e1
    ncr = ncr
    elsewhere = elsewhere
    old = old
    edited = edited
    None = None
    Torn = Torn
    Pollutants <- Pm
    LimitsOf <- Limits
    DayHours = 2
    MinHours = 1
    MaxStations = 2
    Fault = 99
    Cases <- FourCases
    CaseOf <- Where
    Order <- ByDate
    Pattern <- TwoToOne
    Stations <- Around
    Recorded <- Readings
    MonthHours = 8
    Archive <- Cams
    Horizon = 3
    Forecasters <- TwoForecasters
    Told <- SomeBands
    Costs <- SomeCosts
    Budgets <- SomeBudgets
    PastAnswers <- SomeAnswers
    MaxRuns = 2
    MaxFaults = 1
INVARIANTS
    WithinBudget
    SampleIsSpread
PROPERTIES
    CleanRunIsRepeatable
CHECK_DEADLOCK FALSE
