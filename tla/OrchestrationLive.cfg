SPECIFICATION FairSpec
CONSTANTS
    Cycles = {c1}
    MaxRepairs = 2
    MaxAttempts = 4
    MaxFaults = 0
PROPERTIES LineageIsSettled
