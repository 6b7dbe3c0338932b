SPECIFICATION Spec
CONSTANTS
    flash = flash
    lite = lite
    x = x
    y = y
    road = road
    w1 = w1
    w2 = w2
    Models = {flash, lite}
    Chain <- FastChain
    Cooldown = 1
    Requests <- Viewers
    KeyOf <- Wants
    Waypoints <- Places
    RiskAt <- Risks
    TTL = 1
    MaxClock = 2
    MaxOutages = 3
    FaultOf <- Troubles
    MaxLosses = 1
SYMMETRY Alike
INVARIANTS
    BoughtOnce
    KeptIsWhole
    RecordedAsServed
PROPERTIES
    HealthyModelIsFound
CHECK_DEADLOCK FALSE
