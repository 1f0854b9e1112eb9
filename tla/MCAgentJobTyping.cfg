SPECIFICATION FairSpec
CONSTANTS
    Jobs = {j1, j2}
    MaxTries = 2
    Tokens = {1, 2}
    Faults = {"llm"}
PROPERTIES
    TypingIsAnswered
CHECK_DEADLOCK FALSE
