SPECIFICATION MCSpec
CONSTANTS
    None = None
    Capacity = 2
    MaxBatch = 1
    MaxEvents = 4
    MaxFaults = 1
    MaxRestarts = 1
    Commands <- MCCommands
    MaxWorkers = 2
    Nobody = Nobody
\* Commands are used up.
CHECK_DEADLOCK FALSE
INVARIANTS
    PartsTypeOK
    NothingSilent
    StoredOnce
    StopIsFinal
PROPERTIES
    Drains
    CommandsReturn
