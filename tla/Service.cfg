CONSTANTS
    Client = {c1, c2}
    Worker = {w1, w2}
    Caller = {}
    max_connections = 1
    max_requests_per_connection = 1
    MaxRequests = 1
    MaxStarts = 2
SPECIFICATION FairSpec
INVARIANTS
    ConnectionsBounded
    StopIsBarrier
    AnsweredIsCommitted
PROPERTIES
    StopReturns
    ShutdownIsNoticed
    QueueWakesWorkers
CHECK_DEADLOCK FALSE
