\* Two master runs, one after the other or overlapping.
CONSTANTS
    Masters = {m1, m2}
    ExistingTasks <- OneTask
    Keys <- TwoKeys
    UnknownIds <- Nowhere
    Decisions <- AnyDecision
    TokenLimit = 3
    CostLimit = 4
    Estimate = 2
    CostReserve = 1
    Usages <- CheapAndDear
    MaxAttempts = 1
    MaxVersions = 2
    MaxChanges = 1
    Scenes <- AloneAndTogether
SPECIFICATION Spec
INVARIANTS TypeOK CompletedRunsTellTheirTasks OvershootIsBounded NewTasksAreActive FinishedHadGrounds
SYMMETRY Symmetry
CHECK_DEADLOCK FALSE
