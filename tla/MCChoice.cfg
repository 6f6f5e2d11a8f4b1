CONSTANTS
    MaxSubmits = 2
    Ambiguous <- MCAmbiguous
    MaxExchanges = 1
    None = None
    Empty = Empty
    Typed = Typed
SPECIFICATION ChatSpec
INVARIANT ChoiceKeepsItsLabel
\* The visitor may simply stop.
CHECK_DEADLOCK FALSE
