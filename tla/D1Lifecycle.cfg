SPECIFICATION Spec
CONSTANTS
    Task = {t1}
    Run = {r1, r2, r3}
    Token = {k1, k2}
    Handler = {h1, h2}
    NoTask = NoTask
    NoRun = NoRun
    NoToken = NoToken
    LeaseDuration = 1
    MaxAttempts = 2
    MaxClock = 2
    MaxCrashes = 1
SYMMETRY Symmetry
INVARIANTS TypeOK RunningOwns TaskBacked AttemptsNumbered ReportsAreTrue ReportsAreOwed
PROPERTIES LeaseStays KeepsContractButForRefusals
CHECK_DEADLOCK FALSE
