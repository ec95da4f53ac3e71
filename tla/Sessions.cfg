SPECIFICATION Spec
CONSTANTS
    Workers = {w1, w2}
    NoWorker = NoWorker
    Calls = {c1, c2, c3}
    Offered = {"change", "password", "google", "disable", "enable", "delete"}
    TTL = 1
    Lag = 1
    Backoff = 1
    MaxVersion = 2
    MaxTime = 3
    MaxFaults = 1
SYMMETRY Symmetric
INVARIANTS TypeOK RevocationReaches AdmittedOnEvidence
PROPERTIES NoCookieLongAfterBar
CHECK_DEADLOCK FALSE
