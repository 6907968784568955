CONSTANTS
    manifest = manifest
    file = file
    small = small
    large = large
    Keys = {manifest, file}
    Outputs = {manifest, file}
    Children <- OneDirectory
    Publications = {p1}
    Uploads = {u1, u2}
    Paths = {f1, f2}
    Contents = {small, large}
    Size <- Sizes
    MaxCount = 1
    MaxBytes = 3
    MaxObjects = 1
    Pruners = {w1}
    Limit = 1
    MaxOperations = 3
    MaxFailures = 1
SPECIFICATION FairSpec
INVARIANTS PublishedBytesStay RowsMatchObjects QuotaIsKept
PROPERTY RetentionEnds
