SPECIFICATION EngineSpec
CONSTANTS
    mid = mid
    small = small
    worker = worker
    Keys = {mid, small}
    Classes = {worker}
    Turns = {t1, t2}
    Installers = {i1}
    NoKey = NoKey
    NoAlias = NoAlias
    Budget = 66
    MinContext = 5
    LoadsAtOnce = 3
    Capacity = 1
    PerSequence = 30
    Responses <- MCResponses
    Weights <- MCWeights
    PerToken <- MCPerToken
    Requests <- MCRequests
    Measured = {}
INVARIANTS NothingLeaks ToldOnce
PROPERTIES UsesResidentSet DroppedIsReleased
