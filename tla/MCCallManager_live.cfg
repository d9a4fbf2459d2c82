\* Progress, with threads that outlive their session.
SPECIFICATION FairSpec
CHECK_DEADLOCK FALSE
CONSTANTS
    Conns = {c1, c2}
    Dials = {d1}
    None = None
    MaxAttempts = 1
    RequireSas = TRUE
    UserMay = {"call", "hangup", "confirm"}
    MaxDrops = 0
    MaxTimers = 0
PROPERTIES
    DialingEnds
    BrokenSessionEnds
