SPECIFICATION Spec
CONSTANTS
    Requests = {r1, r2}
    NoContent = NoContent
    MaxTries = 1
    Faults = {}
INVARIANTS
    CompletedIsIndexed
CHECK_DEADLOCK FALSE
