CONSTANTS
    Labels = {l1}
    Callers <- MCCallers
    MaxPumps = 3
    MaxPushed = 1
    MaxCommands = 3
    MaxCalls = 2
    MaxLosses = 1
SPECIFICATION Spec
INVARIANTS
    PumpsAccountedFor
    ClosedForGood
PROPERTIES
    CloseEnds
CHECK_DEADLOCK FALSE
