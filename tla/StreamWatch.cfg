CONSTANTS
    Watchers = {c1}
    Pruners = {p1, p2}
    Retention = 1
    Idles = FALSE
    MaxEvents = 5
    MaxClock = 3
SPECIFICATION FairSpec
CHECK_DEADLOCK FALSE
PROPERTY WatchingEnds
