CONSTANTS
    Client = {c1}
    Worker = {w1, w2}
    Caller = {signal}
    max_connections = 2
    max_requests_per_connection = 0
    MaxRequests = 1
    MaxStarts = 1
SPECIFICATION Spec
INVARIANTS
    StopIsBarrier
CHECK_DEADLOCK FALSE
