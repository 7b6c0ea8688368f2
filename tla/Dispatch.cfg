\* Two dispatches, one after the other or overlapping, with and without faults; room for
\* a second repair and one task more, at a cost beyond the reservation of the latter.
CONSTANTS
    Dispatches = {d1, d2}
    Tasks <- FourTasks
    DependencyIds <- ChainDeps
    RepairAttempt <- SecondRepair
    HardLimit = 7
    MaxAssignments = 2
    CodingBudgetGate = TRUE
    Launching = {TRUE, FALSE}
    Overlaps = {TRUE, FALSE}
    Costs = {2}
    MaxFaults = 1
SPECIFICATION Spec
INVARIANTS TypeOK DependenciesFirst OneWorkerPerTask CommittedWithinLimit AssignedIsLaunched
SYMMETRY Symmetry
CHECK_DEADLOCK FALSE
