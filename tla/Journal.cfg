CONSTANTS
    Garbled = Garbled
    NoTail = NoTail
    MaxMessages = 5
    MaxCuts = 3
SPECIFICATION Spec
INVARIANTS
    RecordsInOrder
    LossesAreReported
    EachCutLosesOne
