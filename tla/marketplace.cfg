CONSTANTS
    Employers = {e1}
    Companies = {c1, c2}
    Workers = {w1}
    Jobs = {j1}
    Calls = {h1, h2}
    None = None
    Lock = 2
    MaxTime = 3
SPECIFICATION Spec
SYMMETRY Symmetry
INVARIANTS
    TypeOK
    DataNeedsConsent
    ReachedWasPublished
    NothingOfTheGone
    StrayNeedsRace
PROPERTY OnlyLateAnswersOverridden
