SPECIFICATION FairSpec
CONSTANTS
    Kinds = {"get", "post", "noapp", "toolarge", "bigbody", "badparts", "upgrade"}
    Pipelining = FALSE
    MaxRequests = 3
INVARIANTS OneAtATime WholeRequests
PROPERTY Settled
CHECK_DEADLOCK FALSE
