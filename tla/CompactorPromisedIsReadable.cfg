CONSTANTS
    talk = talk
    big = big
    mid = mid
    small = small
    tiny = tiny
    trace = trace
    image = image
    quote = quote
    Contents <- MCContents
    Messages <- MCMessages
    PlaceholderTokens <- MCPlaceholderTokens
    BreakEvenTokens = 2
    PressureLimit = 9
    HardLimit = 14
    ExpectedRequests = 2
    KeepRecentTurns = 0
    MaxMessages = 6
    MaxFaults = 1
    MaxSessions = 1
SPECIFICATION Spec
INVARIANT PromisedIsReadable
CHECK_DEADLOCK FALSE
