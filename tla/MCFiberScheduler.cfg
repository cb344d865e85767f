\* Three fibers on one channel of capacity one.
SPECIFICATION Spec
CONSTANTS
    MaxFibers = 3
    Channel = {c1}
    Cap <- OneSlot
    StepCap = 3
    MaxOps = 4
    MaxRuns = 1
INVARIANTS
    ExactlyOnce
    ReceiverOrder
    DeadlockIsReal
    NoSilentFailure
PROPERTIES
    NoOvertaking
    OutcomeSettled
    ChannelsKeepContract
