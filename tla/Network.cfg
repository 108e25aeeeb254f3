CONSTANTS
    Spare = 2
    Addresses = {a, b}
    Coordinators = {a}
    Tasks = {x, y}
    Ids = {1}
    max_total_connections = 2
    MaxDials = 3
    MaxCloses = 1
    MaxTotal = 2
    MaxSubscriptions = 3
    MaxLost = 1
SPECIFICATION MCSpec
INVARIANTS CodecsAgree HandshakeFinds WithinCap PoolAnswers ReporterExact
SYMMETRY Symmetry
CHECK_DEADLOCK FALSE
