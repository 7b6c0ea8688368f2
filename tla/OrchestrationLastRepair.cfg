SPECIFICATION Spec
CONSTANTS
    Cycles = {c1}
    MaxRepairs = 1
    MaxAttempts = 3
    MaxFaults = 0
INVARIANTS EveryRepairIsVerified
