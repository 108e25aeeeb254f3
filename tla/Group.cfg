CONSTANTS
    Topics = {1}
    Width = 2
    Kinds <- MCKinds
    Unresolved = {1}
    MaxGenerations <- MCMaxGenerations
    MaxTroubles = 1
SPECIFICATION Spec
INVARIANTS Exclusive MemberSettled
CHECK_DEADLOCK FALSE
