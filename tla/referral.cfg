CONSTANTS
    u1 = u1
    p1 = p1
    p2 = p2
    Users = {u1}
    Partners = {p1, p2}
    Self <- MCSelf
    Calls = {h1, h2}
    Prices = {0}
    Fallback = 1
    None = None
SPECIFICATION FairSpec
INVARIANTS
    TypeOK
PROPERTIES
    OnlyOverlapDemotes
    PlacementArrives
