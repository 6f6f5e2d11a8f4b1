SPECIFICATION AllSpec
SYMMETRY BootSymmetry
CONSTANTS
    r1 = r1
    r2 = r2
    w1 = w1
    w2 = w2
    None = None
    Requests <- MCRequest
    Boots <- MCBoots
    Answer <- MCAnswer
    MaxChunk = 1
    MaxOutput = 1
    MaxEvents = 1
    MaxResults = 1
    MaxLease = 2
    MaxEpoch = 1
    Faults = {"late", "crash", "model", "restart"}
    MaxFaults = 1
CHECK_DEADLOCK FALSE
INVARIANTS
    AnswerKept
PROPERTIES
    RelaySpec
