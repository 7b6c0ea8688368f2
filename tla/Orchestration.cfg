\* Two cycles that overlap, and one fault: a crash, a lost answer or a late completion.
SPECIFICATION Spec
CONSTANTS
    Cycles = {c1, c2}
    MaxRepairs = 2
    MaxAttempts = 2
    MaxFaults = 1
SYMMETRY Symmetry
INVARIANTS TypeOK OnlyPassedIsPromoted OneVerificationAtATime RepairsAreNumbered RejectedAfterAllRepairs OnePromotion
PROPERTIES KeepsPromise
