SPECIFICATION FairSpec
CONSTANTS
    Task = {t1, t2}
    Run = {r1, r2, r3}
    Token = {k1, k2}
    NoTask = NoTask
    NoRun = NoRun
    NoToken = NoToken
    LeaseDuration = 1
    MaxAttempts = 2
    MaxClock = 3
INVARIANTS TypeOK TaskFollowsRun SingleNonterminalRun
PROPERTIES ExpiredRunsEnd
CHECK_DEADLOCK FALSE
