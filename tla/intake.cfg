SPECIFICATION Spec
CONSTANTS
    r1 = r1
    r2 = r2
    c1 = c1
    c2 = c2
    None = None
    Clients <- TwoClients
    Reports <- TwoReports
    Uploads <- SomeUploads
    ReportsPerDay = 1
    ReportsPerClient = 1
    Window = 2
    DayLength = 3
    MaxPhotos = 2
    MaxTime = 4
INVARIANTS
    IntakeInv
    UploadsAccountedFor
PROPERTIES
    EveryRequestIsAnswered
CHECK_DEADLOCK FALSE
