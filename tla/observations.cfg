SPECIFICATION ObservationsSpec
CONSTANTS
    HotspotRadius = 2
    HotspotWindow = 2
    MinSignals = 1
    MinRadius = 1
    UncorroboratedCap = 600
    ExposureRadius = 4
    Settlements <- MCSettlements
    Limit <- MCLimit
    ClusterRadius = 2
    ClusterWindow = 1
    MinReports = 2
    MaxDay = 1
    CaseIds = {"c2"}
    OnRecord <- MCOnRecord
    CasePlaces = {0, 5}
    Contact <- MCContact
    Evidence <- MCEvidence
    Floor = 450
    SensorId = "d1"
    SensorPlace = 1
    SensorReadings <- MCSensorReadings
    SensorReliability = 500
    Stations <- MCStations
    StationPlace <- MCStationPlace
    Parameter = "co"
    Unit = "ug/m3"
    Airs <- MCAirs
    Burned <- MCBurned
    FireKinds <- MCFireKinds
    MaxEvents = 1
    ScanEnabled = TRUE
    ScanRadius = 4
    ScanDays = 1
    OpenAqRadius = 2
    FirmsTop = 1
    Corridors <- MCCorridors
    NodeCountry = "IN"
    Retention = 2
INVARIANTS
    MapIsAPartition
    ConfidenceIsBacked
    DoubledOnlyAfterGap
    ClustersAreOnTheMap
    CleanPassShowsFires
    NameSurvivesGrowth
