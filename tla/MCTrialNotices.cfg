SPECIFICATION Spec
CONSTANTS
    Org = {o1, o2}
    Person = {p1}
    Recipients <- MCRecipients
    None = None
    PerDay = 3
    TrialDays = 5
    Late = 2
    Extension = {10}
    Horizon = 9
    MaxReruns = 1
SYMMETRY Symmetry
INVARIANTS
    TypeOK
    WarnedUnlessExcused
    NoticesBounded
    OnlyTrials
