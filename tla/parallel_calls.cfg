SPECIFICATION StreamSpec
CONSTANTS
    MaxRetries = 1
    MaxStreamCalls = 2
    MaxPieces = 1
INVARIANTS EachCallIsEmitted
CHECK_DEADLOCK FALSE
