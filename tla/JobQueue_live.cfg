SPECIFICATION FairSpec
CONSTANTS
    Jobs = {j1}
    Replicas = {p1, p2}
    Requests = {r1}
    None = None
    QUEUE_ATTEMPTS = 3
    WORKER_CONCURRENCY = 1
    MaxStalled = 1
PROPERTIES
    JobsSettle
    ShutdownEnds
