CONSTANTS
    Conns = {c1}
    subscriberBuffer = 1
    MaxEvents = 2
    Asks <- ClientAsks
SPECIFICATION MCSpec
INVARIANTS
    StaleMeansOwed
PROPERTIES
    StreamConverges
    StreamEnds
CHECK_DEADLOCK FALSE
