SPECIFICATION Spec
CONSTANTS
    Staff = {alice, bob}
    Superadmins = {alice}
    NoStaff = NoStaff
    Requests = {r1, r2}
    Messages = {m1}
    MaxTries = 2
    Inline = FALSE
    MaxTickets = 1
PROPERTIES
    HumanHandlingReturnsToAI
