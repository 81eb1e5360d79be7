\* The mock and the Firestore backend under the same four client calls, one of which may fail on
\* Firestore, over two serials and two checkpoint values: both refine StorageBackend, and the
\* mock's listings agree with its loads.
CONSTANTS
    Days = {1, 2}
    IssuerIds = {1, 2}
    s1 = s1
    l1 = l1
    s2 = s2
    SerialIds = {s1, s2}
    Logs = {l1}
    Entries = {1, 2}
    Unset = Unset
    MaxErrors = 1
    MaxCalls = 4
SPECIFICATION Spec
INVARIANT MockListingsConsistent
PROPERTY MockRefinesBackend
PROPERTY FirestoreRefinesBackend
CHECK_DEADLOCK FALSE
