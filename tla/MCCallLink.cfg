\* Buffers that one packet fills, so that two packets of each end and a ping
\* block everybody at once.
SPECIFICATION Spec
CONSTANTS
    Capacity = 1
    Ephemeral <- Ephemerals
    Hangers = {"callee"}
    MaxSkew = 1
    OnionLen = 62
    None = None
CHECK_DEADLOCK FALSE
INVARIANTS
    TypeOK
    SessionAgreed
PROPERTIES
    ChannelSpec
    NobodyLeftBehind
    DialEnds
    LockIsReleased
