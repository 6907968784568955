CONSTANTS
    f = f
    p = p
    Principals = {f, p}
    Founder = f
    Strangers = {}
    Calls = {1, 2, 3, 4}
    Workers = {w1}
    Granted = {"maintainer"}
    MaxFailures = 0
SPECIFICATION Spec
INVARIANTS MaintainerRemains
