CONSTANTS
    r1 = r1
    r2 = r2
    ann = ann
    bob = bob
    eve = eve
    c1 = c1
    c2 = c2
    mail1 = mail1
    mail2 = mail2
    x1 = x1
    x2 = x2
    x3 = x3
    Request = {r1}
    Account = {ann, bob, eve}
    Company = {c1, c2}
    Receipt = {x1, x2, x3}
    Named = {c1}
    CompanyOf <- MCCompanyOf
    EmailOf <- MCEmailOf
    Registered = {ann, bob}
    Owner <- MCOwner
    Job <- MCJob
    PageLimit = 3
    RefusesAcks = FALSE
    Nobody = Nobody
    Failed = Failed
SPECIFICATION Spec
CHECK_DEADLOCK FALSE
INVARIANT CompanyFailureHandled
