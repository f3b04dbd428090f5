SPECIFICATION Spec
CONSTANTS
    Leader = Leader
    Descendants = {d1, d2}
    Timeouts = {1, 4}
    ToolTimeout = 4
    Grace = 1
    MaxLines = 2
    Horizon = 7
INVARIANTS KilledGroupGone 
PROPERTY DrainInTime
CHECK_DEADLOCK FALSE
