\* A global and a local pathway, a global agent and an inner one with a default, no program careless.  The bounds stop it.
SPECIFICATION Spec
CONSTANTS
    g = g
    l = l
    inner = inner
    Name = {g, l}
    Global = {g}
    Agent = {outer, inner}
    Around <- Scopes
    Optional = {inner}
    Data = {d}
    Unbound = Unbound
    PromoteAt = 1
    CacheSize = 2
    MaxDepth = 2
    MaxEpoch = 1
    MaxFilling = 1
    Careless = {}
INVARIANTS
    ServedIsFresh
CHECK_DEADLOCK FALSE
