CONSTANTS
    Runs = {r1, r2}
    Recoverers = {}
    Maintainers = {}
    Outcomes = {succeeded}
    MaxAttempts = 1
    Laggards = {r1}
    Faults = {"crash", "archive"}
    HeartbeatInterval = 1
    HeartbeatTimeout = 2
    NoOutcome = NoOutcome
    NoRun = NoRun
SPECIFICATION FairSpec
CHECK_DEADLOCK FALSE
INVARIANT HealthyRunStaysRunning
PROPERTIES EveryRunEnds EveryResultIsRecorded
