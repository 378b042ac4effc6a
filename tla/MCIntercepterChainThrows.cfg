SPECIFICATION FairSpec
CONSTANTS
    Chains <- MCChains
    Faults = {"throws"}
    MaxEnds = 3
PROPERTY ThrownIsReplied
CHECK_DEADLOCK FALSE
