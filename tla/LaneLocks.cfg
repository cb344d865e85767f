\* Three sessions and one sweeper; no --force; sessions die before the hours are up.
SPECIFICATION Spec
CONSTANTS
    Session = {r, s, t}
    Sweeper = {w}
    a = a
    b = b
    Path = {a, b}
    Batches <- OneOrBoth
    Forcing = {}
    LongSessions = FALSE
    None = None
    MaxCommands = 5
INVARIANTS
    HoldersHaveLocks
    NothingLeftBehind
PROPERTY
    KeepsTheBook
CHECK_DEADLOCK FALSE
SYMMETRY Symmetric
