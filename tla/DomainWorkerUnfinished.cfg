SPECIFICATION Spec
CONSTANTS
    j1 = j1
    j2 = j2
    m1 = m1
    m2 = m2
    m3 = m3
    w1 = w1
    w2 = w2
    NoJob = NoJob
    Nobody = Nobody
    Jobs <- OneJob
    Messages <- OneMessage
    JobOf <- Single
    Workers <- OneWorker
    Handled <- OneJob
    MaxAttempts = 2
    LeaseTicks = 1
    BatchSize = 1
    MaxReceives = 2
    MaxCrashes = 0
INVARIANTS UnfinishedJobsHaveMessage
CHECK_DEADLOCK FALSE
