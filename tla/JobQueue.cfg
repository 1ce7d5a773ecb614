SPECIFICATION Spec
CONSTANTS
    Jobs = {j1, j2}
    Replicas = {p1}
    Requests = {r1, r2}
    None = None
    QUEUE_ATTEMPTS = 2
    WORKER_CONCURRENCY = 1
    MaxStalled = 1
SYMMETRY Symmetric
INVARIANTS
    TypeOK
    SentOnce
    LogTruthful
    ReceivedOnce
    NothingAbandoned
PROPERTIES
    ImplementsMails
