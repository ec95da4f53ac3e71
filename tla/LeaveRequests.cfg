SPECIFICATION Spec
CONSTANTS
    l1 = l1
    l2 = l2
    c1 = c1
    c2 = c2
    c3 = c3
    c4 = c4
    c5 = c5
    a1 = a1
    p1 = p1
    p2 = p2
    Lines = {a1}
    FormOf <- OneForm
    Staff = {p1, p2}
    Nobody = Nobody
    Mentor = Mentor
    Leaves = {l1, l2}
    Legacy = {l1}
    Calls = {c1, c2, c3, c4, c5}
    Checked = {l1, l2}
    Overlaps <- TouchingDays
SYMMETRY CallSymmetry
CHECK_DEADLOCK FALSE
INVARIANTS
    TypeOK
    SignedOutcome
    AuditCountsChanges
    AgreementIsOwn
    ToldOfOutcome
