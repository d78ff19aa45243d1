CONSTANTS
    Admins = {a1, a2}
    Docs = {d1}
    MaxRevision = 3
    NoDoc = NoDoc
    Nobody = Nobody
SPECIFICATION SafetySpec
PROPERTIES PublishedRevisionGrows
CHECK_DEADLOCK FALSE
