\* The comment that the ledger is returned even when the run fails.
SPECIFICATION LiveSpec
CONSTANT MaxCalls = 2
INVARIANTS
    AuditSurvives
CHECK_DEADLOCK FALSE
