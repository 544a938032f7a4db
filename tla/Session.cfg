SPECIFICATION FairSpec
CONSTANTS
    Thread = {t1, t2}
    OpCode = {"Retire", "Ping"}
    HeaderUnits = 2
    RequestSizes = {1, 3}
    BodySizes = {1, 2, 3}
    ClientBounds = {1, 3}
    server_max_frame_payload = 2
    max_requests_per_connection = 3
    MaxCalls = 3
    MaxFaults = 1
CHECK_DEADLOCK FALSE
INVARIANTS
    AnswersAreOwn
    LostStaysLost
    SharedClientIsSafe

    
