CONSTANTS
    Clients = {c1}
    Conns = {n1, n2, n3}
    NoClient = NoClient
SPECIFICATION Spec
INVARIANTS
    IInv
    CurrentOrSuperseded
    NoDoubleClose
    NoOrphanEntry
PROPERTIES
    SupersededCloses
    NoGhostPresence
    ImplementsPresence
CHECK_DEADLOCK FALSE
