CONSTANTS
    a1 = a1
    a2 = a2
    i1 = i1
    i2 = i2
    p1 = p1
    x1 = x1
    x2 = x2
    x3 = x3
    q1 = q1
    q2 = q2
    Accounts = {a1, a2}
    Invoices = {}
    Payments = {p1}
    Redemptions = {x1, x2, x3}
    Requests = {q1}
    Owner <- MCOwnerTwo
    Newest = 2
    Renewal <- MCRenewal
    Campaign <- MCCampaign
    Rate <- MCRate
    Bundle <- MCBundle
    MinimumCharge = 1
    OpenRowsBlock = FALSE
    MaxTime = 2
SPECIFICATION Spec
CHECK_DEADLOCK FALSE
INVARIANTS
    CampaignCapped
PROPERTIES
    EarliestFirst
