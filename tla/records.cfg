SPECIFICATION Spec
CONSTANTS
    LossyCapacity = 1
    ReliableCapacity = 20
    MaxRounds = 2
    MaxDeltas = 2
    MaxCalls = 2
    Faults = {"engine", "disk", "crash"}
CHECK_DEADLOCK FALSE
INVARIANTS ResultsKept ReplayAnswersCalls
PROPERTY PrinterEnds
