SPECIFICATION Spec
CONSTANTS
    Tokens = {t1, t2, t3}
    Families = {f1}
    Users = {u1}
    Requests = {r1, r2}
    None = None
    REFRESH_TOKEN_TTL_DAYS = 1
    RetentionDays = 1
    MaxDay = 2
SYMMETRY Symmetric
INVARIANTS
    TypeOK
    RotationAtomic
    DisabledOwnerRefused
    DeletedOnlyExpired
PROPERTIES
    StatusOnlyAdvances
    ImplementsFamilies
CHECK_DEADLOCK FALSE
