CONSTANTS
    Users = {u1}
    Main = main
    PoolSize = 2
    MaxClients = 1
SPECIFICATION FairSpec
INVARIANT NoneLeftBehind
PROPERTIES StopEndsRun Accepts
CHECK_DEADLOCK FALSE
