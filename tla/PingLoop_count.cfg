SPECIFICATION FairSpec
CONSTANTS
    SeqMod = 8
    Family = 4
    Quiet = FALSE
    MaxProbes = 3
    MaxErrors = 2
    MaxRepeats = 1
    MaxBad = 1
    MaxRefunds = 0
    Npackets = 2
    Deadline = FALSE
    Interval = 1
    LingerTime = 20000
    Timing = TRUE
    RTTs = {0, 600}
INVARIANTS NeverOversends WaitIsTimed CleanEndIsComplete
PROPERTIES ExitingEnds SessionEnds
