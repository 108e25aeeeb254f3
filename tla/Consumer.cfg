CONSTANTS
    Partitions = {p1, p2}
    Pollers = {a, b}
    MaxPoll = 2
    Resets = {"Earliest"}
    Places = {0}
    MaxChanges = 2
    MaxVersions = 2
SPECIFICATION Spec
INVARIANTS DeliveredExactly ContinuesLog
SYMMETRY Symmetry
CHECK_DEADLOCK FALSE
