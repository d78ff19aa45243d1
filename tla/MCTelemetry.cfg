CONSTANTS
    Sightings = {p1, p2}
    Requests <- SomeRequests
    h1 = h1
    h2 = h2
    n1 = n1
    NoHWID = NoHWID
    NoName = NoName
    MaxClient = 3
    MaxEvent = 3
    MaxHour = 2
    Retention = 1
    batchSize = 1
SPECIFICATION MCSpec
INVARIANTS
    
    RollupCoversEvents
PROPERTIES
    PruneSparesTheWindow
    ExpiredEventsGo
CHECK_DEADLOCK FALSE
