\* A flat weave over a pathway a promoted agent names.
SPECIFICATION Spec
CONSTANTS
    g = g
    l = l
    inner = inner
    Name = {g, l}
    Global = {g}
    Agent = {outer, inner}
    Around <- Scopes
    Optional = {inner}
    Data = {d}
    Unbound = Unbound
    PromoteAt = 1
    CacheSize = 2
    MaxDepth = 2
    MaxEpoch = 1
    MaxFilling = 1
    Careless = {"weave"}
INVARIANTS
    ServedIsFresh
CHECK_DEADLOCK FALSE
