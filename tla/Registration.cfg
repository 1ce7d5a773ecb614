SPECIFICATION FairSpec
CONSTANTS
    Addresses = {a1}
    Requests = {r1, r2}
    Passwords = {p1, p2}
    Unknown = Unknown
    GoogleIds = {g1}
    Ids = {i1, i2, i3}
    None = None
INVARIANTS
    TypeOK
    Welcomed
    VerifiedOnce
PROPERTIES
    AccountKept
    GetsVerified
CHECK_DEADLOCK FALSE
