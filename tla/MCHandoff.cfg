SPECIFICATION Spec
CONSTANTS
    Staff = {alice, bob}
    Superadmins = {alice}
    NoStaff = NoStaff
    Requests = {r1, r2}
    Messages = {m1, m2}
    MaxTries = 2
    Inline = TRUE
    MaxTickets = 1
SYMMETRY Symmetry
INVARIANTS
    TypeOK
    KillSwitchHorizon
    AssigneeExists
    WaitingHasTicket
PROPERTIES
    HandlingEndsByReleaseOrLateRun
    AnomalyNeedsStaleRead
    KillSwitchKept
