\* The instance of run audio, mixed sessions included: is a nonce reused?
\* An instance that has used up its keys stops: no deadlock check.
SPECIFICATION Spec
CHECK_DEADLOCK FALSE
SYMMETRY Symmetry
CONSTANTS
    Keys = {k1, k2}
    None = None
    QueueSize = 2
    MaxSequence = 2
    ConstantRate = TRUE
    RequireSas = TRUE
    MaxSpoken = 2
INVARIANT
    NonceNeverReused
