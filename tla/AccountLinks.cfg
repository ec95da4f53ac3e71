SPECIFICATION Spec
CONSTANTS
    Calls = {c1, c2, c3}
    MaxExpired = 1
    Old = {o1, o2}
    NoToken = NoToken
SYMMETRY Symmetric
INVARIANTS TypeOK OneEffect SpentForItsEffect Superseded
CHECK_DEADLOCK FALSE
