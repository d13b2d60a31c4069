SPECIFICATION Spec
CONSTANTS
    Req = {r1, r2}
    User = {u1, u2}
    Inv = {i1, i2}
    Org = {o1, o2}
    NoOrg = NoOrg
    NoUser = NoUser
    Stranger = Stranger
    NoArg = NoArg
    Offered = {"user", "super_admin"}
SYMMETRY Symmetry
INVARIANTS
    TypeOK
    OnlyFoundersAndInvited
    OneAccountUnlessMoved
    RoleFitsUnlessMixed
    PendingBounded
PROPERTIES
    OrphansOnlyByFailure
    RevokedIsFinal
    StaysUnlessInvited
