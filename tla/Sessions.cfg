CONSTANTS
    Clients = {c1, c2}
    Stores = {keyring, cookie}
    AccessLife = 1
    BrowserLife = 1
    RefreshLife = 1
    MaxTokens = 3
    MaxClock = 2
SPECIFICATION Spec
SYMMETRY Identical
CHECK_DEADLOCK FALSE
INVARIANTS OneLiveToken ReuseHasACause AccessRunsOut
