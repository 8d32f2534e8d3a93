CONSTANTS
    Drafts = {d1}
    Users = {u1, u2}
    Emails = {e1, e2}
    LastStep = 2
    Answers = {a1, a2}
    PlacesStep = 2
    Profiles <- MCProfiles
    Calls = {c1, c2}
    None = None
SPECIFICATION Spec
SYMMETRY Symmetry
INVARIANTS
    TypeOK
    NoAnswerLost
PROPERTY PromotedOnce
