CONSTANTS
    Contacts = {alice}
    Codes = {k1, k2}
    Requests = {r1}
    Verifiers = {v1, v2}
    None = None
    Ttl = 2
    MaxAttempts = 2
    Cooldown = 1
    Hour = 1
    Day = 1
    MaxPerHour = 1
    MaxPerDay = 1
    Grace = 0
    IssuanceKeep = 2
    TokenTtl = 1
    MaxTime = 3
    MaxIssues = 2
SPECIFICATION Spec
SYMMETRY Symmetry
INVARIANTS
    TypeOK
    OneTokenPerIssue
    GuessBudget
    DeliveryIsCounted
