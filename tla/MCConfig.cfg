CONSTANTS
    Admins = {a1, a2}
    Docs = {d1, d2}
    MaxRevision = 3
    NoDoc = NoDoc
    Nobody = Nobody
    PreviewDocs <- SomeDocs
    PreviewHosts <- SomeHosts
SPECIFICATION MCSpec
INVARIANTS
    IInv
    AtMostOnePublished
    MirrorFaithful
    LastOverrideWins
    EffectiveStaysValid
PROPERTIES
    NeverUnpublished
    PublishedIsForever
    MirrorConverges
CHECK_DEADLOCK FALSE
