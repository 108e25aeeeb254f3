CONSTANTS
    Partitions = {p1, p2}
    Pollers = {a, b}
    Parameters = {x, y}
    I32_MAX = 4
    MaxSessions = 2
    MaxFetches = 2
SPECIFICATION Spec
INVARIANTS ServedIsAsked InStep
SYMMETRY Symmetry
CHECK_DEADLOCK FALSE
