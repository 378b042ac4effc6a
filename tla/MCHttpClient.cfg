CONSTANTS
    MaxRequests = 3
    MaxBreaks = 1
    MaxCalls = 1
SPECIFICATION ClientFairSpec
INVARIANTS Truthful NoFalseFailure
PROPERTIES Answered
CHECK_DEADLOCK FALSE
