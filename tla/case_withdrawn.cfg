SPECIFICATION Spec
CONSTANTS
    h1 = h1
    h2 = h2
    None = None
    MaxDay = 2
    Authorities <- OneAuthority
    Reports <- VoiceOnly
    Handlers <- OneHandler
    Dates <- Early
    ActDuringRun = TRUE
    Crashes = FALSE
    WritesFail = FALSE
    LiveSettings <- LiveOff
PROPERTIES
    WithdrawalStands
CHECK_DEADLOCK FALSE
