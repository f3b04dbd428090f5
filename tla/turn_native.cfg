SPECIFICATION AttendedSpec
CONSTANTS
    MaxCalls = 2
    RoundTripLimit = 2
    Policy <- AskToWrite
    Mode = "interactive"
    NativeTools = TRUE
    CancelsOnDrop = FALSE
    ToolTimeout = 1
    CancelGrace = 1
INVARIANTS HistoryWellFormed CancelStopsSoon  
PROPERTIES OnlyPermittedRun TemplateKept TurnEnds
