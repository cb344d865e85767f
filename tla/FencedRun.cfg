\* One capability of each metering, three calls, one edit of the receipt.
SPECIFICATION RunSpec
CONSTANTS
    Cap = {c, v}
    ByValue = {v}
    CallsBack = {v}
    RequireManifest = TRUE
    Amounts = {2}
    Ceilings = {2}
    None = None
    MaxNeeds = 2
    MaxCalls = 3
    Key = key
    OtherKey = other
    MaxEdits = 1
INVARIANTS
    BudgetHolds
    LedgerIsComplete
    ReceiptIsTheLedger
CHECK_DEADLOCK FALSE
