SPECIFICATION Spec
CONSTANTS
    Kinds = {"get", "post", "expect"}
    Pipelining = FALSE
    MaxRequests = 2
INVARIANT AppWhenComplete
CHECK_DEADLOCK FALSE
