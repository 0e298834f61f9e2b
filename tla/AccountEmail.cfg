CONSTANTS
    Request = {r1, r2, r3}
    Email = {e1, e2}
    Company = {c1, c2}
    None = None
SPECIFICATION Spec
INVARIANT EmailUnique
CHECK_DEADLOCK FALSE
