\* Two programs in a row on one interpreter, two fibers, two channels.
SPECIFICATION FairSpec
CONSTANTS
    MaxFibers = 2
    Channel = {c1, c2}
    Cap <- SlotsApart
    StepCap = 4
    MaxOps = 3
    MaxRuns = 2
INVARIANTS
    IInv
PROPERTIES
    PumpReturns
