SPECIFICATION Spec
CONSTANTS
    TicketCount = 4
    Name <- FourNames
    Namings <- NamingsOfFour
INVARIANTS ForwardEdgesKept BudgetSuffices StartsTakeable
CHECK_DEADLOCK FALSE
