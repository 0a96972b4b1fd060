CONSTANTS
    r1 = r1
    r2 = r2
    c1 = c1
    c2 = c2
    documents = documents
    concurrent_runs = concurrent_runs
    Requests = {r1, r2}
    Callers = {c1, c2}
    Limits = {documents, concurrent_runs}
    TTL <- MCTTL
    Snapshots <- MCSnapshots
    MaxAmount = 2
    MaxVersion = 3
    MaxTime = 2
SPECIFICATION Spec
SYMMETRY CallerSymmetry
INVARIANTS
    TypeOK
    CounterConservation
    SingleCreator
    NeverExpiredEarly
PROPERTIES
    NoOverAdmission
    ReservationsFinal
