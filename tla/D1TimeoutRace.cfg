SPECIFICATION Spec
CONSTANTS
    Task = {t1}
    Run = {r1}
    Token = {k1}
    Handler = {h1, h2}
    NoTask = NoTask
    NoRun = NoRun
    NoToken = NoToken
    LeaseDuration = 2
    MaxAttempts = 1
    MaxClock = 3
    MaxCrashes = 0
SYMMETRY Symmetry
PROPERTIES TimedOutHasExpired
CHECK_DEADLOCK FALSE
