SPECIFICATION FairSpec
CONSTANTS
    e1 = e1
    e2 = e2
    e3 = e3
    r1 = r1
    r2 = r2
    Nobody = Nobody
    Events <- TwoEvents
    Relays <- TwoRelays
    Routable <- FirstEvent
    Poison <- NoEvents
    MaxAttempts = 2
    LeaseTicks = 2
    Backoff <- ShortBackoff
    Limit = 2
    MaxCrashes = 1
INVARIANT TypeOK
PROPERTIES NoLiveLeaseStolen EventuallySettled KeepsTheLedger
CHECK_DEADLOCK FALSE
