CONSTANTS
    Workers = {w1, w2}
    d1 = d1
    d2 = d2
    i1 = i1
    i2 = i2
    Dates <- MCDates
    IssuersOf <- MCIssuersOf
    MaxListErrors = 0
    Capacity = 2
    MaxSignals = 1
    NoTuple = NoTuple
SPECIFICATION Spec
CHECK_DEADLOCK FALSE
PROPERTY SignalLeadsToExit
