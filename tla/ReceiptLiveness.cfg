CONSTANTS
    Request = {r1, r2, r3}
    FileName = {photo}
    None = None
    Torn = Torn
SPECIFICATION Spec
INVARIANTS
    IndInv
PROPERTIES
    ArchiveSpec
    EveryRequestAnswered
