SPECIFICATION Spec
CONSTANTS
    Jti = {j1, j2, j3}
    Req = {r1, r2}
    NoJti = NoJti
INVARIANTS
    OneSuccessor
