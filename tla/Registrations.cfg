SPECIFICATION Spec
CONSTANTS
    f1 = f1
    f2 = f2
    f3 = f3
    m1 = m1
    m2 = m2
    u1 = u1
    u2 = u2
    NoFile = NoFile
    Forms <- ThreeForms
    Apps = {a1, a2}
    Emails <- TwoEmails
    Usns <- TwoUsns
    EmailOf <- SharedAddress
    UsnOf <- SharedUsn
    OnDomain <- TwoEmails
    Calls = {c1, c2, c3, c4}
SYMMETRY Symmetric
INVARIANTS TypeOK ApprovedIsSeated StaffKeepOut FilesOwnedOnce AnsweredWithOwn InvitedCanSignIn
CHECK_DEADLOCK FALSE
