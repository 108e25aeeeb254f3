CONSTANTS
    Nodes = {n1, n2}
    Offsets = {0, 1}
    Controls = {{}, {1}}
    Committers = {c}
    Modes = {"Implicit", "Explicit"}
    Answers = {"Accept", "Release", "Renew"}
    MaxPoll = 2
    I32_MAX = 2
    MaxCalls = 2
    MaxFaults = 1
SPECIFICATION Spec
INVARIANTS BookExact AcksAreTrue LocksKept
CHECK_DEADLOCK FALSE
