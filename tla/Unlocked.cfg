CONSTANTS
    Runs = {r1, r2}
    Early = {r1}
    Batches = {b1, b2}
    Readers = {q1}
    Viewers = {v1}
    Values = {x, y}
    Tags = {t1}
    Editors = {e1, e2}
    Names = {production}
    MaxVersions = 2
    Sharers = {s1, s2}
    MaxGrants = 2
    MaxUses = 1
    MaxClock = 2
    AccessLife = 2
    KeyLife = 1
    LoggingLife = 2
    LastClock = 5
    Watchers = {c1}
    Pruners = {p1, p2}
    Retention = 1
    Idles = FALSE
    MaxEvents = 5
    LastDate = 3
SPECIFICATION PartsSpec
SYMMETRY Identical
CHECK_DEADLOCK FALSE
INVARIANTS AckedBatchStays LateContentWasAdmitted SnapshotIsSound ProgressIsBacked
INVARIANTS AliasesResolve UseIsCovered CredentialsRunOut
INVARIANTS DeliveredInOrder OutcomeIsTrue
