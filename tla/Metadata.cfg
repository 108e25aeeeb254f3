CONSTANTS
    b1 = b1
    b2 = b2
    t1 = t1
    t2 = t2
    Brokers = {b1, b2}
    Topics = {t1, t2}
    Moving = {t1}
    Seeds = {b1}
    Uses <- MCUses
    Tasks = {x, y}
    First = t1
    Home <- MCHome
    Calls_of <- Operations
    Workloads <- MCWorkloads
SPECIFICATION Spec
INVARIANTS RequestsServed CallIsTrue
PROPERTIES EpochNeverBack
CHECK_DEADLOCK FALSE
