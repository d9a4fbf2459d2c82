\* A confirmation during a re-dial opens the next session.
SPECIFICATION HistorySpec
CHECK_DEADLOCK FALSE
CONSTANTS
    Conns = {c1, c2}
    Dials = {d1}
    None = None
    MaxAttempts = 1
    RequireSas = TRUE
    UserMay = {"call", "accept", "reject", "hangup", "confirm"}
    MaxDrops = 0
    MaxTimers = 0
SYMMETRY Symmetry
INVARIANT SasGate
