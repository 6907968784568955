CONSTANTS
    main = main
    side = side
    Repositories = {main, side}
    Default = main
    Calls = {c1, c2, c3, c4}
    Workers = {w1, w2}
    MaxFaults = 1
SPECIFICATION FairSpec
INVARIANTS ActiveIsSeeded 
PROPERTIES WorkEnds
CHECK_DEADLOCK FALSE
