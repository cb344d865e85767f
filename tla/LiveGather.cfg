\* Two calls, around a gather of two tasks.  A settled run may stop.
SPECIFICATION LiveGatherSpec
CONSTANTS
    MaxCalls = 2
    N = 2
INVARIANTS
    BarrierHolds
    SleepIsWatched
    Handshake
    LedgerComplete
PROPERTIES
    GatherEnds
    KeepsPromise
    SettledOnce
    CallsReturn
    LooksSynchronous
CHECK_DEADLOCK FALSE
