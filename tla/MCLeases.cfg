SPECIFICATION Spec
CONSTANTS
    r1 = r1
    r2 = r2
    w1 = w1
    w2 = w2
    None = None
    Requests <- MCRequests
    Boots <- MCBoots
    MaxChunk = 1
    MaxOutput = 0
    MaxEvents = 1
    MaxResults = 1
    MaxLease = 2
    MaxEpoch = 1
SYMMETRY BothSymmetry
CHECK_DEADLOCK FALSE
INVARIANTS
    JobHasOwner
    BusyMarker
    OneStream
PROPERTIES
    LeaseKept
