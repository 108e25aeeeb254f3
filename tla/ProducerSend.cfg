CONSTANTS
    Ops = {o1, o2, o3}
    Third = {o3}
    Small = {1}
    Callers = {c1, c2}
    Flushers = {c1}
    MaxGen = 1
    Sizes = {1, 2, 4}
    memory_capacity = 3
    max_request_size = 4
    Chain = {0, 1}
    U16_MAX = 1
SPECIFICATION MCSpec
INVARIANTS BarrierExact MemoryExact InterceptorsServed
PROPERTIES KeepsPromise KeepsPromiseFairly WaitEnds
CHECK_DEADLOCK FALSE
