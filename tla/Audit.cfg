SPECIFICATION AuditSpec
CONSTANTS
    Requests = {q1, q2, q3, q4}
    Resources = {tokens, dollars}
    Amounts = {1, 2}
    EntryIds = {e1}
    Audits = {a1, a2}
    a1 = a1
    tokens = tokens
    t1 = t1
    r1 = r1
    r2 = r2
    v1 = v1
    x1 = x1
    m1 = m1
    Tasks = {t1}
    Runs = {r1, r2}
    Verifiers = {v1}
    Results = {x1}
    Messages = {m1, m2}
    TimeoutMessage = m2
    LongMessages = {m1, m2}
    SoftLimit <- MCSoftLimit
    RepeatedFailureMin = 2
    RetryLoopMin = 2
    IdenticalFailureMin = 1
    ApproachingDivisor = 2
    Scenes <- MCScenes
    MaxChanges = 1
INVARIANTS AuditTypeOK NeverOvergranted AcknowledgedIsRecorded CalmAuditIsExact
CHECK_DEADLOCK FALSE
SYMMETRY Symmetry
