SPECIFICATION Spec
CONSTANTS
    big = big
    mid = mid
    small = small
    worker = worker
    scout = scout
    Keys = {big, mid, small}
    Classes = {worker, scout}
    Turns = {t1}
    NoKey = NoKey
    NoAlias = NoAlias
    Budget = 66
    MinContext = 5
    LoadsAtOnce = 2
    Weights <- MCWeights
    PerToken <- MCPerToken
    Requests <- MCRequests
    Measured = {}
INVARIANTS LeasedIsLoaded QueueMatchesSlots
PROPERTIES ReservationKept SoleLoadFits
