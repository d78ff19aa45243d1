CONSTANTS
    Requests = {q1, q2}
    Versions = {v1, v2}
    Filenames = {f1}
    Contents = {c1, c2}
    Slots = {"stable", "critical"}
    CreateRank <- CreateOrder
    UpdateRank <- UpdateOrder
    Nobody = Nobody
    NoVersion = NoVersion
    NoFile = NoFile
    NoContent = NoContent
SPECIFICATION Spec
SYMMETRY Symmetry
INVARIANT
    ChecksumDescribesServed
CHECK_DEADLOCK FALSE
