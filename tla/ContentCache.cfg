CONSTANTS
    Contents = {c1, c2}
    Procs = {p1, p2}
    Observed = p1
    NoContent = NoContent
    MaxFaults = 2
    MaxKills = 1
SPECIFICATION StoreSpec
INVARIANTS
    EntriesAreWhole
    OnlyFaultsLoseContent
PROPERTY
    ImplementsContract
SYMMETRY Symmetry
