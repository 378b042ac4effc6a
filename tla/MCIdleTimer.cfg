CONSTANTS
    Users = {u1}
    Main = main
    Pool = pool
    FirstInterval = 2
    DetectInterval = 1
    Intervals <- MCIntervals
    MaxSpent = 1
    MaxLate = 1
    MaxCalls = 3
    Files = {page, inc}
    Includes = {inc}
    MaxTime = 3
    MaxEdits = 4
    MaxFails = 1
SPECIFICATION IdleSpec
INVARIANTS OnTime TimerKept NoGap
PROPERTIES Detects Fresh
CHECK_DEADLOCK FALSE
