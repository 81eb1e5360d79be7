CONSTANTS
    Workers = {w1, w2}
    d1 = d1
    d2 = d2
    i1 = i1
    i2 = i2
    Dates <- MCDates
    IssuersOf <- MCIssuersOf
    MaxListErrors = 1
    Capacity = 2
    MaxSignals = 2
    NoTuple = NoTuple
SPECIFICATION Spec
CHECK_DEADLOCK FALSE
INVARIANT TypeOK
INVARIANT CompletedMeansAllProcessed
INVARIANT CompletedCoversStoreWithoutListErrors
PROPERTY Terminates
