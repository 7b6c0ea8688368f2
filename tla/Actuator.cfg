\* Two workers: a coding one beside a synthetic-noop, with faults of any kind, or two
\* coding ones without.
CONSTANTS
    w1 = w1
    w2 = w2
    Workers = {w1, w2}
    HardLimit = 2
    Reservation = 1
    Costs = {1, 2}
    FailureLimit = 2
    Scenarios <- FaultsOrCompany
SPECIFICATION FairSpec
INVARIANTS TypeOK OutcomeIsTrue SilentWhenLost LaunchesAreCharged SpendIsBounded
PROPERTIES ClaimedRunsEnd
CHECK_DEADLOCK FALSE
