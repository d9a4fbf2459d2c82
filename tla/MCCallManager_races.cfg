\* Notices, timers and threads that outlive their session.
SPECIFICATION Spec
CONSTANTS
    Conns = {c1, c2}
    Dials = {d1, d2}
    None = None
    MaxAttempts = 1
    RequireSas = FALSE
    UserMay = {"call", "cancel", "accept", "reject", "hangup"}
    MaxDrops = 0
    MaxTimers = 0
SYMMETRY Symmetry
INVARIANTS
    TypeOK
    SessionIffInCall
    FreeEndpointNotBusy
    RingingIsAnswerable
    ForgottenIsQuiet
    DialingIsDriven
