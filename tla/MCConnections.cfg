SPECIFICATION FairSpec
CONSTANTS
    Sockets = {s1, s2, s3}
    Messages = {m1, m2}
    NoMessage = NoMessage
INVARIANTS
    TypeOK
    MissHasCause
    StaleStatusHasCause
    RegisteredWhileHandled
PROPERTIES
    DrainsEventually
