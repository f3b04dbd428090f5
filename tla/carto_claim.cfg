SPECIFICATION Spec
CONSTANTS
    None = None
    s1 = s1
    s2 = s2
    t1 = t1
    t2 = t2
    Session = {s1, s2, s3}
    Ticket = {t1, t2}
    Fog = {}
    Callers <- ClaimCallers
    OwnTicketsOnly <- Nothing
    Charted <- AllTickets
    Planned <- NoPlan
    Research <- Nothing
    Hitl <- Nothing
    Humans <- Nothing
    Mortal <- Everyone
    Lease = 2
    MaxClock = 3
    MaxJournal = 6
    MaxFaults = 0
CHECK_DEADLOCK FALSE
INVARIANT OneHolder
