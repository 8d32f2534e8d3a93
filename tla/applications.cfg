CONSTANTS
    Apps = {a1, a2}
    Files = {cv, photo}
    Cv = cv
    Tokens = {t1}
    Erasers = {job, e1}
    Job = job
    None = None
    TokenExp = 0
    Retention = 1
    Batch = 1
    MaxTime = 1
    MaxFaults = 1
SPECIFICATION FairSpec
INVARIANTS
    TypeOK
    RowsTellObjects
    ReplayOnlyWhenLate
PROPERTIES
    ErasureIsReal
    HeldIsKept
    RequestedIsErased
