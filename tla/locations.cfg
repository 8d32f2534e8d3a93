CONSTANTS
    p1 = p1
    p2 = p2
    r1 = r1
    Plz = {p1, p2}
    Malformed = {bad}
    Found = {p1}
    Region <- MCRegion
    Given = {p1}
    Companies = {own, k1, k2}
    Own = own
    Jobs = {j1}
    Accounts = {e1}
    Origins = {o1, o2}
    Calls = {c1, c2}
    CacheMax = 0
    None = None
    Confs <- MCConfs
    MaxCalls = 3
    MaxRestarts = 1
SPECIFICATION Spec
SYMMETRY Symmetry
INVARIANTS
    TypeOK
    PlaceFollowsCode
    OutageStaysLocal
    IntakeOnce
    EstimateOnlyIfNeeded
