SPECIFICATION FairSpec
CONSTANTS
    SeqMod = 8
    Family = 6
    Quiet = TRUE
    MaxProbes = 3
    MaxErrors = 1
    MaxRepeats = 1
    MaxBad = 1
    MaxRefunds = 1
    Npackets = 2
    Deadline = TRUE
    Interval = 1
    LingerTime = 20000
    Timing = TRUE
    RTTs = {0, 600}
INVARIANT ExitStatusMeaning
PROPERTY SessionEnds
