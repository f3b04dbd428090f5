SPECIFICATION Spec
CONSTANTS
    None = None
    s1 = s1
    s2 = s2
    t1 = t1
    t2 = t2
    Session = {s1, s2}
    Ticket = {t1, t2}
    Fog = {}
    Callers <- RebuildCallers
    OwnTicketsOnly <- Nothing
    Charted <- Nothing
    Planned <- PlanChain
    Research <- Nothing
    Hitl <- OneTicket
    Humans <- Everyone
    Mortal <- Everyone
    Lease = 2
    MaxClock = 0
    MaxJournal = 5
    MaxFaults = 1
CHECK_DEADLOCK FALSE
INVARIANT DbBacked
