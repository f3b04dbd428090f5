SPECIFICATION Spec
CONSTANTS
    Runner = {r1}
    r1 = r1
    r2 = r2
    Cuts <- EveryCut
    MaxRuns = 4
    MaxMaps = 2
INVARIANTS Coherent TicketsOnce 
CHECK_DEADLOCK FALSE
