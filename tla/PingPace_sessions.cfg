SPECIFICATION Spec
CONSTANTS
    Diffs <- MCDiffs
    MaxTrip = 5000
    IntMax = 7000
    Frac = 2
    SecMs = 3
    MinGap = 2
    MinUser = 1
    AddendMax = 1000
    Sessions <- MCSessions
    MaxSent = 6
    MaxAddend = 2000
INVARIANTS
    PaceTypeOK
    RateLimited
    BurstBounded
    SleepIsEnough
    SummarySound
