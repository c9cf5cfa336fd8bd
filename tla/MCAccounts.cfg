\* Two admins at work on up to two accounts of two organizations.
SPECIFICATION Spec
CONSTANTS
    o1 = o1
    o2 = o2
    n1 = n1
    t1 = t1
    a1 = a1
    a2 = a2
    r1 = r1
    Orgs = {o1, o2}
    Names = {n1}
    TokenNames = {t1}
    Admins = {a1, a2}
    Requests = {r1}
    MaxAccounts = 2
    MaxKeys = 4
SYMMETRY Symmetry
INVARIANTS
    AccessIsListed
    NeverHalfFilled
    JobsKeepTheirAccount
PROPERTIES
    SecretNeverReverts
\* A page whose keys are used up cannot be completed (the bound).
CHECK_DEADLOCK FALSE
