SPECIFICATION Spec
CONSTANTS
    Tokens = {t1, t2, t3}
    Families = {f1}
    Users = {u1}
    Requests = {r1, r2}
    None = None
    REFRESH_TOKEN_TTL_DAYS = 0
    RetentionDays = 0
    MaxDay = 0
SYMMETRY Symmetric
PROPERTIES
    ReuseKillsFamily
CHECK_DEADLOCK FALSE
