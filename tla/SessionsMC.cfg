SPECIFICATION Spec
CONSTANTS
    Tokens = {t1, t2, t3}
    Devices = {d1, d2}
    Requests = {r1, r2}
    None = None
    MaxVersion = 2
    MaxLinks = 2
SYMMETRY Symmetry
INVARIANTS
    TypeOK
    TokensFollowPassword
    SignedOutForACause
PROPERTIES
    LinkWorksOnce
    KeepsPromise
CHECK_DEADLOCK FALSE
