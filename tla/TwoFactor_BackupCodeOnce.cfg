SPECIFICATION Spec
CONSTANTS
    Req = {r1, r2}
    Secret = {s1, s2}
    NoSecret = NoSecret
    Batch = {b1, b2}
    Size = 2
SYMMETRY Symmetry
INVARIANTS
    BackupCodeOnce
CHECK_DEADLOCK FALSE
