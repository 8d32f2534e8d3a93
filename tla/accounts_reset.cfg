CONSTANTS
    Users = {u1}
    Channels = {"email", "sms"}
    Contacts = {c1}
    Passwords = {p1, p2}
    Resets = {i1}
    Handlers = {h1, h2}
    None = None
    MaxVersion = 1
SPECIFICATION Spec
SYMMETRY Symmetry
INVARIANT ResetUsedOnce
