SPECIFICATION Spec
CONSTANTS
    a1 = a1
    a2 = a2
    h1 = h1
    h2 = h2
    quiet = quiet
    strong = strong
    p1 = p1
    p2 = p2
    None = None
    AlertIds <- TwoAlerts
    Handlers <- TwoHandlers
    Sightings <- TwoSightings
    Corroborated <- OneStrong
    Dates <- TwoDates
    Pictures <- TwoPictures
    Redrafts = {TRUE, FALSE}
    LiveSettings = {TRUE, FALSE}
SYMMETRY Interchangeable
INVARIANTS
    EnvelopeMatchesAlert
    OnlyCorroboratedIsAlerted
PROPERTIES
    PictureIsTheOneRead
