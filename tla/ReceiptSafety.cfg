CONSTANTS
    Request = {r1, r2, r3, r4}
    FileName = {photo}
    None = None
    Torn = Torn
SYMMETRY Symmetry
SPECIFICATION Spec
INVARIANTS
    TypeOK
    NoDanglingImage
    ForeignImageNeedsKeyClash
    RemovedStaysRemoved
    StaleImageNeedsOverlap
    OrphanExplained
    CompleteUploadStored
    RemovalComplete
