SPECIFICATION FairSpec
CONSTANTS
    Users = {u1}
    Keys = {k1}
    Requests = {r1}
    Resets = {t1}
    Passwords = {p1, p2}
    Random = Random
    None = None
    MAX_ATTEMPTS = 2
    MaxHits = 4
PROPERTY LockedRecovers
