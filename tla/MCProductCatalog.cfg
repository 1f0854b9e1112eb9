SPECIFICATION Spec
CONSTANTS
    Products = {p1, p2}
    Imageless = {p1}
    Requests = {r1, r2}
    NoProduct = NoProduct
    Earlier = Earlier
    MaxVersion = 3
    MaxHooks = 2
    Faults = {"duplicate", "embedding", "database", "crash"}
INVARIANTS
    TypeOK
    StaleRowHasCause
    TornRowHasCause
    CompletedIsFindable
    ForgottenHasCause
SYMMETRY Symmetry
CHECK_DEADLOCK FALSE
