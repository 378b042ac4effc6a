CONSTANTS
    AutoReconnect = TRUE
    EarlyCommands = TRUE
    Malformed = {3}
    Interval = 2
    MaxCommands = 4
    MaxBreaks = 2
    MaxCalls = 2
SPECIFICATION SteadySpec
INVARIANTS OneOperation CallbacksInOrder ReplyMatches
PROPERTIES Answers ConnectsAtFirst
CHECK_DEADLOCK FALSE
