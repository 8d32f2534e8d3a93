CONSTANTS
    Contacts = {alice}
    Codes = {k1}
    Requests = {r1, r2}
    Verifiers = {v1}
    None = None
    Ttl = 2
    MaxAttempts = 1
    Cooldown = 1
    Hour = 1
    Day = 1
    MaxPerHour = 3
    MaxPerDay = 3
    Grace = 0
    IssuanceKeep = 1
    TokenTtl = 1
    MaxTime = 2
    MaxIssues = 2
SPECIFICATION Spec
SYMMETRY Symmetry
PROPERTY RollbackOwnChallenge
