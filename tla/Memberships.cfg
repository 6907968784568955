CONSTANTS
    f = f
    p = p
    Principals = {f, p}
    Founder = f
    Strangers = {p}
    Calls = {1, 2}
    Workers = {w1, w2}
    Granted = {"viewer"}
    MaxFailures = 1
SPECIFICATION FairSpec
PROPERTIES ChangesFollowDatabase InSyncIsEarned AccessConverges
