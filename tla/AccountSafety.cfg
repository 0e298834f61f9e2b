CONSTANTS
    Request = {r1, r2, r3, r4}
    Email = {e1}
    Company = {c1, c2}
    None = None
SYMMETRY Symmetry
SPECIFICATION Spec
INVARIANTS
    TypeOK
    IndInv
    DuplicateNeedsRace
    IdentityNeedsReason
    CompanyConfinement
CHECK_DEADLOCK FALSE
