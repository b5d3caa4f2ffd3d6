SPECIFICATION FairSpec
CONSTANTS
    SeqMod = 8
    Family = 4
    Quiet = FALSE
    MaxProbes = 2
    MaxErrors = 1
    MaxRepeats = 1
    MaxBad = 0
    MaxRefunds = 0
    Npackets = 2
    Deadline = FALSE
    Interval = 0
    LingerTime = 20000
    Timing = FALSE
    RTTs = {0, 600}
PROPERTIES SessionEnds
