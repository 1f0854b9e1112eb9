SPECIFICATION FairSpec
CONSTANTS
    Calls = {c1}
    MaxRetries = 3
    FailMax = 1
    MaxParts = 2
INVARIANTS
    TypeOK
    AnswerIsWhole
    RaisedIsReported
PROPERTIES
    CallsEnd
