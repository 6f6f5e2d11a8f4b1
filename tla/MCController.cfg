SPECIFICATION CoreSpec
CONSTANTS
    Commands = {"first", "second"}
    MaxWorkers = 1
    Nobody = Nobody
CHECK_DEADLOCK FALSE
PROPERTIES
    ClosedIsStopped
