SPECIFICATION Spec
CONSTANTS
    Requests = {r1, r2, r3}
    NoContent = NoContent
    MaxTries = 2
    Faults = {"redis", "database", "timeout", "crash", "nopool"}
INVARIANTS
    TypeOK
    NoOrphanChunks
    ProcessingIsWorkedOn
    SequentialUseIndexes
PROPERTIES
    OutdatedHasCause
SYMMETRY Symmetry
CHECK_DEADLOCK FALSE
