SPECIFICATION FairSpec
CONSTANTS
    Req = {r1, r2, r3}
    MaxAttempts = 5
    MaxFailures = 4
INVARIANTS
    TypeOK
    WrongBounded
    TtlOwed
PROPERTIES
    LockLifts
