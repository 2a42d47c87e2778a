CONSTANTS
    LocalAvailable = TRUE
    Impacts <- MCImpacts
    Amounts = {1}
    MaxVerdicts = 6
    MaxTokens = 1
SPECIFICATION Spec
INVARIANTS
    FlagTellsHistory
PROPERTY
    ImplementsPolicy
