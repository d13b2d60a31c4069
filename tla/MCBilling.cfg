SPECIFICATION Spec
CONSTANTS
    Req = {r1, r2}
    Org = {o1, o2}
    Sub = {s1, s2}
    Payer = {p1}
    Paid = {"pro"}
    None = None
    Reported = {"active", "canceled"}
    MaxEvents = 2
    MaxRemoved = 1
SYMMETRY Symmetry
INVARIANTS
    TypeOK
    OwnSubscription
    OwnCustomer
    OwnPlan
    OneEventUnlessMixed
    AckedShownUnlessLost
    RefusedOnlyIfShared
CHECK_DEADLOCK FALSE
