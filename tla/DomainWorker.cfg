SPECIFICATION Spec
CONSTANTS
    j1 = j1
    j2 = j2
    m1 = m1
    m2 = m2
    m3 = m3
    w1 = w1
    w2 = w2
    NoJob = NoJob
    Nobody = Nobody
    Jobs <- TwoJobs
    Messages <- ThreeMessages
    JobOf <- Mixed
    Workers <- TwoWorkers
    Handled <- OneJob
    MaxAttempts = 2
    LeaseTicks = 1
    BatchSize = 2
    MaxReceives = 2
    MaxCrashes = 1
INVARIANTS TypeOK SucceededAfterEffects
PROPERTY KeepsTheAgreement
SYMMETRY Symmetric
CHECK_DEADLOCK FALSE
