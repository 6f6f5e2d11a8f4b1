SPECIFICATION AllFairSpec
CONSTANTS
    r1 = r1
    r2 = r2
    w1 = w1
    w2 = w2
    None = None
    Requests <- MCRequest
    Boots <- MCBoots
    Answer <- MCShort
    MaxChunk = 1
    MaxOutput = 1
    MaxEvents = 1
    MaxResults = 1
    MaxLease = 2
    MaxEpoch = 1
    Faults = {"lost", "crash", "restart"}
    MaxFaults = 1
CHECK_DEADLOCK FALSE
PROPERTIES
    StreamEnds
    BusyEnds
    Recovers
