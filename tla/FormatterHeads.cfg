\* Prefix forms under a call or an index.
SPECIFICATION Spec
CONSTANTS
    Word <- Words
    Number = {"1"}
    String = {"'k'", "'failed'"}
    Sources <- Heads
INVARIANTS
    GroupingKept
CHECK_DEADLOCK FALSE
