SPECIFICATION FairSpec
CONSTANTS
    a1 = a1
    a2 = a2
    a3 = a3
    s1 = s1
    w1 = w1
    w2 = w2
    NoAttempt = NoAttempt
    NoWorker = NoWorker
    Attempts = {a1, a2}
    Students = {s1}
    StudentOf <- OneStudent
    Workers = {w1, w2}
    Talked = {s1}
    WorkerLimit = 2
    PerUser = 2
    DailyCap = 3
    AttemptCap = 3
    LiveGrace = 1
    OrphanGrace = 2
    SessionCap = 1
    MaxFaults = 1
    MaxEscapes = 1
    MaxCrashes = 0
    MaxResets = 0
CHECK_DEADLOCK FALSE
INVARIANT
    SlotsAreHeld
PROPERTY
    ClosedIsFinal
    FinalizedRecordCloses
    EveryHandlerEnds
