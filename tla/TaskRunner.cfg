CONSTANTS
    Models = 2
    MaxReplies = 2
    Unset = Unset
    Tools = {t1, t2}
    MaxMs = 3
SPECIFICATION TSpec
INVARIANTS
    WeatherIsNotFailure
    OneAgentOnTheTree
    OkMeansAnswered
    BreakdownIsBounded
PROPERTY
    EveryTaskEnds
