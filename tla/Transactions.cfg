CONSTANTS
    Partitions = {p1, p2}
    Versions = {"TV1", "TV2", "TV3"}
    Disciplined = TRUE
    MaxRecords = 2
    MaxTxns = 2
    MaxEpoch = 3
    MaxFaults = 2
SPECIFICATION Spec
INVARIANTS PendingExact CommitIsWhole EndsAsAsked
PROPERTIES FatalIsEarned
SYMMETRY Symmetry
CHECK_DEADLOCK FALSE
