SPECIFICATION Spec
CONSTANTS
    h1 = h1
    h2 = h2
    None = None
    MaxDay = 4
    Authorities <- TwoAuthorities
    Reports <- AllReports
    Handlers <- OneHandler
    Dates <- EarlyAndLate
    ActDuringRun = FALSE
    Crashes = TRUE
    WritesFail = TRUE
    LiveSettings <- LiveOnOrOff
INVARIANTS
    SentIsOnRecord
    RtiNeverEarly
    RegisterKeepsPrivate
PROPERTIES
    EnvelopeMatchesRecord
    PageSeesTheRun
    KeepsPromise
CHECK_DEADLOCK FALSE
