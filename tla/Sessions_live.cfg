SPECIFICATION FairSpec
CONSTANTS
    Tokens = {t1, t2, t3}
    Families = {f1, f2}
    Users = {u1}
    Requests = {r1, r2}
    None = None
    REFRESH_TOKEN_TTL_DAYS = 0
    RetentionDays = 0
    MaxDay = 0
INVARIANTS
    AtMostOneActive
PROPERTIES
    NoStarvation
CHECK_DEADLOCK FALSE
