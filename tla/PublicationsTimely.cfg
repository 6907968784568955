CONSTANTS
    Ops = {o1, o2}
    Workers = {w1, w2}
    Clients = {c1, c2}
    Keys = {k1, k2}
    r1 = r1
    r2 = r2
    a1 = a1
    a2 = a2
    Requests = {r1}
    Artifacts = {a1, a2}
    ArtifactOf <- OneFamily
    ClaimTimeout = 0
    Faults = {"crash"}
    MaxClock = 2
    MaxCrashes = 1
    NoOp = NoOp
    NoWorker = NoWorker
    NoKey = NoKey
    NoRequest = NoRequest
SPECIFICATION FairSpec
INVARIANTS ClaimIsExclusive LogTellsState LogIsLegal IdempotentCreate
PROPERTIES KeepsPromise AbandonedOrFinished
