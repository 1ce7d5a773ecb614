SPECIFICATION Spec
CONSTANTS
    u1 = u1
    Users = {u1}
    Sids = {s1, s2}
    Requests = {r1, r2}
    None = None
    UserOf <- OneUser
    TicksPerSecond = 2
    ACCESS_TOKEN_TTL_SECONDS = 2
    CacheSeconds = 1
SYMMETRY Interchangeable
CONSTRAINT OneSessionBusy
INVARIANTS
    TypeOK
    BlacklistCovers

    
