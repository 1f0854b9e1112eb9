SPECIFICATION FairSpec
CONSTANTS
    Jobs = {j1, j2}
    MaxTries = 2
    Tokens = {1, 2}
    Faults = {"llm", "raise", "redis", "database", "timeout", "crash", "nopool"}
INVARIANTS
    TypeOK
    TotalNeverOvercharges
    SilenceNeedsFault
    StoredBeforeSent
PROPERTIES
    LossNeedsStaleTotal
    JobsSettle
    RunsAsHandoff
CHECK_DEADLOCK FALSE
