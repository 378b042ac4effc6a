SPECIFICATION PartsSpec
CONSTANTS
    Threads = {t1}
    MaxPushes = 1
    NDEBUG = TRUE
    Apps <- MCApps
    Paths <- MCPaths
    RootUrl <- MCRootUrl
    Routes <- MCRoutes
    Requests <- MCRequests
    MaxRoutes = 3
    FrameStreams <- MCFrameStreams
    Throws <- MCThrows
    LengthCap = 1000
    XOR <- MCXOR
    Characters <- MCCharacters
    MaxFragment = 2
    Connections <- MCConnections
INVARIANT DefaultServes
CHECK_DEADLOCK FALSE
