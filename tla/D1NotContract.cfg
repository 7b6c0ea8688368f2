SPECIFICATION Spec
CONSTANTS
    Task = {t1}
    Run = {r1}
    Token = {k1}
    Handler = {h1}
    NoTask = NoTask
    NoRun = NoRun
    NoToken = NoToken
    LeaseDuration = 1
    MaxAttempts = 1
    MaxClock = 2
    MaxCrashes = 0
PROPERTIES KeepsContract
CHECK_DEADLOCK FALSE
