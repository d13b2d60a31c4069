SPECIFICATION SignInSpec
CONSTANTS
    Jti = {j1, j2, j3}
    Req = {r1, r2}
    NoJti = NoJti
    Login = {l1}
    NoLogin = NoLogin
SYMMETRY Symmetry
INVARIANTS
    SignInTypeOK
    LatePresentationFails
    RevocationComplete
    ReuseOnlyAfterRetirement
    DeliveredAccounted
PROPERTIES
    LedgerSpec
    LoginsSpec
    InactiveOpensNothing
