\* Two passphrases, so that a wrong one exists; two events pending at most;
\* enough services for a fresh one always to exist.
SPECIFICATION Spec
CONSTANTS
    Services = {s1, s2, s3, s4, s5}
    Identities = {i1, i2}
    Passphrases = {p1, p2}
    MaxPending = 2
    MaxFaults = 2
    Ready = Ready
    Garbage = Garbage
    None = None
SYMMETRY Symmetry
INVARIANTS
    TypeOK
    ShownIsServed
    SelfKept
    AddressFileFollowsKey
PROPERTIES
    KeyFileSafe
