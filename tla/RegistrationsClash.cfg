SPECIFICATION Spec
CONSTANTS
    f1 = f1
    f2 = f2
    f3 = f3
    m1 = m1
    m2 = m2
    u1 = u1
    u2 = u2
    NoFile = NoFile
    Forms <- TwoForms
    Apps = {a1, a2}
    Emails <- TwoEmails
    Usns <- TwoUsns
    EmailOf <- OwnAddress
    UsnOf <- OneUsn
    OnDomain <- TwoEmails
    Calls = {c1, c2, c3}
SYMMETRY Symmetric
INVARIANTS NoAccountUnapproved
CHECK_DEADLOCK FALSE
