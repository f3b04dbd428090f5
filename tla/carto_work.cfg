SPECIFICATION Spec
CONSTANTS
    None = None
    s1 = s1
    s2 = s2
    t1 = t1
    t2 = t2
    Session = {s1, s2}
    Ticket = {t1, t2, t3}
    Fog = {f1}
    Callers <- WorkCallers
    OwnTicketsOnly <- WorkOwnOnly
    Charted <- TwoTickets
    Planned <- NoPlan
    Research <- ThirdTicket
    Hitl <- Nothing
    Humans <- Nothing
    Mortal <- Everyone
    Lease = 2
    MaxClock = 0
    MaxJournal = 7
    MaxFaults = 0
CHECK_DEADLOCK FALSE
INVARIANT RebuildIsNoOp
INVARIANT OneResolution
INVARIANT AlwaysReplayable
INVARIANT FrontierNeverStuck
 
