CONSTANTS
    Reads = {g1}
    Writes = {w1}
    Logouts = {x1}
    once = once
    twice = twice
    other = other
    Keys = {once, twice, other}
    Limit <- Limits
    Window = 3
    SweepEvery = 2
    MaxKeys = 2
    MaxTime = 7

SPECIFICATION PartsSpec

INVARIANTS
    OutcomesAreTrue
    RefusedOnlyAcrossChange
    LogoutEndsSession
    WithinBudget
    RefusedForAReason

PROPERTIES
    EveryRequestEnds
