CONSTANTS
    v1 = v1
    v2 = v2
    Versions = {v1, v2}
    Calls = {c1, c2, c3}
    Size <- Sizes
    Cache = 2
    StaleAfter = 0
    Retention = 1
    MaxClock = 2
    MaxCrashes = 1
    NoVersion = NoVersion
SPECIFICATION FairSpec
INVARIANTS ReservationsFit ReadyHasObject ExpiredIsClean
PROPERTY EveryJobEnds
