SPECIFICATION FairSession
CONSTANTS
    MaxCalls = 1
    RoundTripLimit = 0
    Policy <- WritesAsk
    Mode = "interactive"
    NativeTools = FALSE
    CancelsOnDrop = FALSE
    ToolTimeout = 0
    CancelGrace = 0
    Texts = {"prompt", "/acp"}
    Keys = {"cancel", "dark", "quit", "crash"}
    Routes = {"local"}
    MaxTyped = 3
    MaxChannel = 1
INVARIANTS InTypedOrder ConversationWellFormed PromptReachesPerson
PROPERTIES LeavingEnds
