CONSTANTS
    Requests = {r1, r2, r3}
    Silent = {s1}
    MAX_IN_FLIGHT = 2
    ID_SPACE = 2
    MaxMutes = 1
    MaxDrops = 1
    None = None
SPECIFICATION FairSpec
INVARIANTS SlotsExact AnswersAreTrue
PROPERTIES WritesAllowed EveryoneAnswered
CHECK_DEADLOCK FALSE
