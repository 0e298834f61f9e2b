CONSTANTS
    r1 = r1
    r2 = r2
    ann = ann
    bob = bob
    eve = eve
    c1 = c1
    c2 = c2
    mail1 = mail1
    mail2 = mail2
    x1 = x1
    x2 = x2
    x3 = x3
    Request = {r1, r2}
    Account = {ann, bob}
    Company = {c1}
    Receipt = {x1, x2}
    Named = {c1}
    CompanyOf <- PairCompanyOf
    EmailOf <- PairEmailOf
    Registered = {ann, bob}
    Owner <- PairOwner
    Job <- PairJob
    PageLimit = 1
    RefusesAcks = TRUE
    Nobody = Nobody
    Failed = Failed
SPECIFICATION Spec
CHECK_DEADLOCK FALSE
SYMMETRY Symmetry
INVARIANTS
    StuckNeedsCause
    AdmittedWasStored
