SPECIFICATION Spec
CONSTANTS
    Calls = {c1}
    MaxRetries = 3
    FailMax = 5
    MaxParts = 1
PROPERTIES
    BreakerOpens
