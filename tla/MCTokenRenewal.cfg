CONSTANTS
    a1 = a1
    a2 = a2
    i1 = i1
    i2 = i2
    p1 = p1
    x1 = x1
    x2 = x2
    x3 = x3
    q1 = q1
    q2 = q2
    Accounts = {a1}
    Invoices = {i1, i2}
    Payments = {p1}
    Redemptions = {}
    Requests = {q1, q2}
    Owner <- MCOwnerOne
    Newest = 2
    Renewal <- MCRenewal
    Campaign <- MCCampaign
    Rate <- MCRate
    Bundle <- MCBundle
    MinimumCharge = 1
    OpenRowsBlock = FALSE
    MaxTime = 1
SPECIFICATION Spec
INVARIANTS
    TypeOK
    TokensConserved
    ReservedBacked
    OneIncludedCohort
PROPERTIES
    NoRevival
