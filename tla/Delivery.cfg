CONSTANTS
    I16_MAX = 3
    SEQ_SPACE = 100
    Partitions = {p1}
    Brokers = {b1}
    InitialModes = {"Idempotent", "Plain"}
    MAX_IN_FLIGHT_PER_BROKER = 1
    MAX_SPLIT_DEPTH = 1
    PRUNE_SLACK = 0
    Outcomes = {}
    MaxRecords = 2
    MaxFlushes = 1
    MaxSequence = 4
    MaxGeneration = 3
    MaxSetIdentity = 2
    PRODUCER_STATE_BATCHES = 1
    PRE_KIP360 = TRUE
    ProducerIds = {0, 1}
    Refusals = {"NotLeaderForPartition", "UnknownServerError"}
    SizeLimit = 2
    LimitMayDrop = TRUE
    Retention = TRUE
    MaxSends = 3
SPECIFICATION DeliverySpec
INVARIANTS OutcomeIsTrue LogInOrder AlwaysInSequence
CHECK_DEADLOCK FALSE
