SPECIFICATION MCSpec
CONSTANTS
    None = None
    Clients <- MCClients
    Calls <- MCCalls
    ApiLimit = 1
    ChatLimit = 2
    ProactiveLimit = 1
    GlobalLimit = 3
    MaxActive = 2
    MaxClients = 2
    Short = 1
    Long = 2
    MaxTime = 2
    viaWorker = viaWorker
    direct = direct
    Requests <- MCRequests
    Pumped <- MCPumped
    ReplySlots = 1
    QueueSize = 1
    MaxTexts = 2
    MaxPieces = 3
    MaxSoft = 2
    Threads <- MCThreads
    Lifetime = 2
    Maximum = 2
    MaxTokens = 3
    MaxClock = 2
\* Calls and requests are used up.
CHECK_DEADLOCK FALSE
INVARIANTS
    PartsTypeOK
    WindowsHold
    ActiveCounts
    Delivered
    AnswerStands
PROPERTIES
    SlotSpec
    NothingLeftBehind
    ServiceIsContract
    TokensHold
