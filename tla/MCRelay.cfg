SPECIFICATION Spec
CONSTANTS
    r1 = r1
    r2 = r2
    w1 = w1
    w2 = w2
    None = None
    Requests <- MCRequests
    Boots <- MCBoot
    MaxChunk = 1
    MaxOutput = 1
    MaxEvents = 2
    MaxResults = 2
    MaxLease = 1
    MaxEpoch = 0
SYMMETRY Symmetry
CHECK_DEADLOCK FALSE
INVARIANTS
    TypeOK
    InOrder
    Complete
PROPERTIES
    ChannelSpec
