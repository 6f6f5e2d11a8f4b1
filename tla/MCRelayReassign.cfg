SPECIFICATION AllSpec
CONSTANTS
    r1 = r1
    r2 = r2
    w1 = w1
    w2 = w2
    None = None
    Requests <- MCRequests
    Boots <- MCBoot
    Answer <- MCShort
    MaxChunk = 1
    MaxOutput = 1
    MaxEvents = 1
    MaxResults = 1
    MaxLease = 1
    MaxEpoch = 0
    Faults = {}
    MaxFaults = 0
CHECK_DEADLOCK FALSE
INVARIANTS
    NoEarlyReassign
