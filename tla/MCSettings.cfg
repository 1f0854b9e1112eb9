SPECIFICATION Spec
CONSTANTS
    Processes = {p1, p2}
    Updates = {u1, u2}
    Earlier = Earlier
    Fields = {domain, token}
    Required = {domain}
    Encrypted = {token}
    Values = {v1, v2}
    Blank = Blank
INVARIANTS
    TypeOK
    StaleCacheHasCause
    LostSaveHasCause
SYMMETRY Symmetry
