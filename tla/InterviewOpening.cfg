SPECIFICATION Spec
CONSTANTS
    a1 = a1
    a2 = a2
    a3 = a3
    s1 = s1
    w1 = w1
    w2 = w2
    NoAttempt = NoAttempt
    NoWorker = NoWorker
    Attempts = {a1, a2, a3}
    Students = {s1}
    StudentOf <- OneStudent
    Workers = {w1, w2}
    Talked = {s1}
    WorkerLimit = 2
    PerUser = 1
    DailyCap = 3
    AttemptCap = 1
    LiveGrace = 1
    OrphanGrace = 2
    SessionCap = 3
    MaxFaults = 0
    MaxEscapes = 0
    MaxCrashes = 1
    MaxResets = 1
SYMMETRY AttemptSymmetry
CHECK_DEADLOCK FALSE
INVARIANTS
    TypeOK
    FleetCap
    AttemptsCapped
    ServedIsRunning
