CONSTANTS
    Docs = {1, 2, 3, 4, 5}
    BadIds = {3}
    Limit = 2
    MaxDeadlines = 2
    MaxErrors = 1
    MaxInserts = 1
SPECIFICATION Spec
CHECK_DEADLOCK FALSE
INVARIANT TypeOK
INVARIANT NoDuplicateDelivery
INVARIANT StreamComplete
