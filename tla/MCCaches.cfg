SPECIFICATION FairSpec
CONSTANTS
    Req = {r1, r2}
    Flag = {f1}
    Slug = {}
    Member = {m1}
    Value = {v1, v2}
    None = None
INVARIANTS
    TypeOK
    FlagFreshUnlessRaced
PROPERTIES
    ChangesCount
