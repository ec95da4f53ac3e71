SPECIFICATION Spec
CONSTANTS
    e1 = e1
    e2 = e2
    e3 = e3
    u1 = u1
    u2 = u2
    u3 = u3
    v1 = v1
    p1 = p1
    a1 = a1
    t1 = t1
    c1 = c1
    c2 = c2
    n1 = n1
    f1 = f1
    f2 = f2
    ku = ku
    kv = kv
    kp = kp
    ka = ka
    kt = kt
    kc = kc
    kn = kn
    kf = kf
    kg = kg
    Nobody = Nobody
    Requests <- EditRequests
    Keys <- EditKeys
    Entries <- MCEntries
    Written = {e1}
    KeyOf <- EditKeyOf
    CommandOf <- EditCommandOf
    Allowed <- EditRequests
    MaxExpiries = 1
CHECK_DEADLOCK FALSE
INVARIANTS
    TypeOK
    SuccessIsReal
    UpdatesFollowTheirVersion
    SeenAsPublished
