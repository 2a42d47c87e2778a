CONSTANTS
    Garbled = Garbled
    NoTail = NoTail
    LocalAvailable = FALSE
    Impacts = {0}
    Amounts = {1, 2}
    MaxVerdicts = 0
    MaxTokens = 100
    PromptsTried <- MCPromptsTried
    Pins = {"flash"}
    AgentMayThrow = TRUE
    MaxTurns = 3
    MaxFaults = 2
    MaxClears = 1
    MaxOthers = 1
SPECIFICATION SSpec
INVARIANTS
    KillLosesOnlyTheTurn
    SpendingIsCounted
    NothingCountedTwice
    ShrinkingIsSurfaced
    NextTurnHeals
CHECK_DEADLOCK FALSE
