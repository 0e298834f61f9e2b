CONSTANTS
    Request = {r1, r2, r3}
    Email = {e1, e2}
    Company = {c1}
    None = None
SPECIFICATION Spec
INVARIANT IdentityNeedsReason
PROPERTIES
    EveryRequestAnswered
    DirectorySpec
CHECK_DEADLOCK FALSE
