CONSTANTS
    Partitions = {p1, p2}
    Versions = {"TV1"}
    Disciplined = TRUE
    MaxRecords = 2
    MaxTxns = 2
    MaxEpoch = 3
    MaxFaults = 2
SPECIFICATION Spec
INVARIANTS AbortIsFinal
SYMMETRY Symmetry
CHECK_DEADLOCK FALSE
