CONSTANTS
    t1 = t1
    phone1 = phone1
    Ids = {i1, i2}
    Slugs = {s1, s2}
    Phones = {phone1, phone2}
    Passwords = {p1, p2}
    Ibans = {iban}
    Tokens = {t1}
    ContactOf <- MCContactOf
    Handlers = {h1, h2}
    Null = Null
    MaxCalls = 5
SPECIFICATION PartnersSpec
SYMMETRY Symmetry
INVARIANTS
    VerifiedWasProven
    OneAccountPerProof
    OnlyLateLoginOutlives
