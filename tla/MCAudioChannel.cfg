\* Two sessions of two microphone frames each over a queue of two; the
\* counter runs out after two packets. Not followed beyond the state in which
\* both sessions are mixed up, of which no property speaks.
\* An instance that has used up its keys stops: no deadlock check.
SPECIFICATION Spec
CHECK_DEADLOCK FALSE
SYMMETRY Symmetry
CONSTRAINT SomeUnmixed
CONSTANTS
    Keys = {k1, k2}
    None = None
    QueueSize = 2
    MaxSequence = 2
    ConstantRate = TRUE
    RequireSas = TRUE
    MaxSpoken = 2
INVARIANTS
    TypeOK
    NonceUnique
    NoStaleAudio
    HeldUntilConfirmed
    NoSilentStop
PROPERTIES
    AudioStreamSpec
