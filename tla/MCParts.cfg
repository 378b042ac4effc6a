SPECIFICATION PartsSpec
CONSTANTS
    Threads = {t1, t2}
    MaxPushes = 3
    NDEBUG = FALSE
    Apps <- MCApps
    Paths <- MCPaths
    RootUrl <- MCRootUrl
    Routes <- MCRoutes
    Requests <- MCRequests
    MaxRoutes = 3
    FrameStreams <- MCFrameStreams
    Throws <- MCThrows
    LengthCap = 1000
    XOR <- MCXOR
    Characters <- MCCharacters
    MaxFragment = 2
    Connections <- MCConnections
INVARIANTS ReplyIntact FramesAsSent ReplyAsSent RightHandler RightApplication RequestAsSent DataAsSent
PROPERTY Ends
CHECK_DEADLOCK FALSE
