CONSTANTS
    Models = 3
    Attempts = 2
    OnStepMayThrow = TRUE
SPECIFICATION CallSpec
INVARIANTS
    ChainIsWalked
    OnlyOurFaultAborts
    UnreportedWereGivenUp
PROPERTY
    EveryCallEnds
