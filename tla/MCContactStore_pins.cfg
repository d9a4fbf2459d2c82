\* One session opens the file of another and cannot decrypt it.  No write
\* fails: the passphrase alone is to blame.
SPECIFICATION Spec
CONSTANTS
    Onions = {o1, o2}
    Loopbacks = {l1}
    Keys = {k1, k2}
    Names = {n1}
    Passphrases = {p1}
    None = None
    WritesFail = FALSE
SYMMETRY Symmetry
INVARIANT
    PinnedIdentitySticks
