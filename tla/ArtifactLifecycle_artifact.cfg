SPECIFICATION Spec
CONSTANTS
    Keys = {k1, k2}
    Scopes = {s1}
    Procs = {p1, p2}
    None = None
SYMMETRY Symmetry
INVARIANTS LiveKeysAreRecorded HiddenRowsAreOwed FencedKeysAreRevoked
CHECK_DEADLOCK FALSE
