CONSTANTS
    I16_MAX = 2
    SEQ_SPACE = 100
    Partitions = {p1, p2}
    Brokers = {b1}
    InitialModes = {"Plain", "Idempotent", "TV1"}
    MAX_IN_FLIGHT_PER_BROKER = 2
    MAX_SPLIT_DEPTH = 1
    PRUNE_SLACK = 1024
    Outcomes <- AllOutcomes
    MaxRecords = 2
    MaxFlushes = 0
    MaxSequence = 4
    MaxGeneration = 3
    MaxSetIdentity = 2
SPECIFICATION FairSpec
INVARIANTS StampsAccounted SlotsMatchRequests StampsUnique RecordsAccounted
PROPERTIES OutcomeFinal Progress
CHECK_DEADLOCK FALSE
