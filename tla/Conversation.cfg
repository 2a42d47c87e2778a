CONSTANTS
    p1 = p1
    p2 = p2
    ls = ls
    make = make
    reset = reset
    nothing = nothing
    torn = torn
    noTail = noTail
    Procs = {p1, p2}
    Kinds <- MCKinds
    Commands = {ls, make, reset}
    AllowList = {ls}
    DenyList = {reset}
    NoCommand = nothing
    Garbled = torn
    NoTail = noTail
    MaxStarts = 2
    MaxLines = 3
    MaxCalls = 2
    MaxRedactions = 1
    MaxFaults = 2
SPECIFICATION Spec
SYMMETRY Symmetry
INVARIANTS
    BuiltInOrder
    WhatRanWasCleared
CHECK_DEADLOCK FALSE
