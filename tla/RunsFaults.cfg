CONSTANTS
    Runs = {r1}
    Recoverers = {v1}
    Maintainers = {m1}
    Outcomes = {succeeded, failed}
    MaxAttempts = 2
    Laggards = {r1}
    Faults = {"crash", "loss", "revoke", "pipeline"}
    HeartbeatInterval = 1
    HeartbeatTimeout = 2
    NoOutcome = NoOutcome
    NoRun = NoRun
SPECIFICATION Spec
CHECK_DEADLOCK FALSE
INVARIANTS AckMeansFinal NoResultIsForgotten ReplayIsAccepted
