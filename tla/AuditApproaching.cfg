SPECIFICATION AuditSpec
CONSTANTS
    Requests = {q1, q2}
    Resources = {tokens}
    Amounts = {2, 3}
    EntryIds = {e1}
    Audits = {a1}
    a1 = a1
    tokens = tokens
    t1 = t1
    r1 = r1
    r2 = r2
    v1 = v1
    x1 = x1
    m1 = m1
    Tasks = {t1}
    Runs = {r1, r2}
    Verifiers = {v1}
    Results = {x1}
    Messages = {m1, m2}
    TimeoutMessage = m2
    LongMessages = {}
    SoftLimit <- NoSoftLimit
    RepeatedFailureMin = 2
    RetryLoopMin = 2
    IdenticalFailureMin = 2
    ApproachingDivisor = 2
    Scenes <- MCScenes
    MaxChanges = 0
INVARIANTS ApproachingIsReported
CHECK_DEADLOCK FALSE
