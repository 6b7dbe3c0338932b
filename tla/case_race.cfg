SPECIFICATION Spec
CONSTANTS
    h1 = h1
    h2 = h2
    None = None
    MaxDay = 1
    Authorities <- OneAuthority
    Reports <- VoiceOnly
    Handlers <- TwoHandlers
    Dates <- Early
    ActDuringRun = TRUE
    Crashes = TRUE
    WritesFail = TRUE
    LiveSettings <- LiveOff
INVARIANTS
    EnvelopeBacked
PROPERTIES
    EscalationNeverEarly
    ReportIsConcluded
CHECK_DEADLOCK FALSE
