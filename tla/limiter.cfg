SPECIFICATION Spec
CONSTANTS
    w1 = w1
    c1 = c1
    c2 = c2
    None = None
    Loop = Loop
    Clients <- TwoClients
    Workers <- OneWorker
    ReportsPerDay = 2
    ReportsPerClient = 1
    Window = 2
    DayLength = 3
    MaxTime = 4
SYMMETRY Symmetries
INVARIANTS
    DailyBudget
