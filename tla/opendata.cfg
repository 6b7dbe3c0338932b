SPECIFICATION Spec
CONSTANTS
    Nodes = {"north", "south"}
    NodeId <- MCNodeId
    Country <- MCCountry
    PublishesFeed <- MCPublishesFeed
    NeighbourFeeds <- MCNeighbourFeeds
    MaxStage = 2
    MaxEvents = 2
    MaxExports = 2
    MaxLoads = 2
INVARIANTS
    DetectionsAreTheirOwn
    SignalsBackTheMap
    UploadsAreWhole
    CurrentIsTheNewest
CHECK_DEADLOCK FALSE
