\* Two onions and a loopback address, two identities, one name; a clock that
\* passes the window, and an address that is none.
SPECIFICATION PeerSpec
CONSTANTS
    Onions = {o1, o2}
    Loopbacks = {l1}
    Oddities = {x1}
    Keys = {k1, k2}
    Names = {n1}
    Passphrases = {p1}
    Ephemerals = {e1, e2}
    AddressOf <- Address
    EphemeralOf <- Ephemeral
    Times = {1, 2, 3}
    MaxSkew = 1
    OnionLen = 62
    None = None
    WritesFail = TRUE
    o1 = o1
    o2 = o2
    k1 = k1
    k2 = k2
    e1 = e1
    e2 = e2
SYMMETRY Symmetry
INVARIANTS
    TypeOK
    PinsKept
    NameFollowsIdentity
    ForgottenStaysForgotten
    OnlyVouched
    GenuineIsUnderstood
