SPECIFICATION ReplySpec
CONSTANTS
    viaWorker = viaWorker
    direct = direct
    Requests <- MCRequests
    Pumped <- MCPumped
    ReplySlots = 1
    QueueSize = 1
    MaxTexts = 2
CHECK_DEADLOCK FALSE
INVARIANTS
    SlotHeldThroughCleanup
