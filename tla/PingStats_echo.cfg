SPECIFICATION StatSpec
CONSTANTS
    SeqMod = 6
    Family = 4
    Quiet = FALSE
    MaxProbes = 7
    MaxErrors = 1
    MaxRepeats = 1
    MaxBad = 1
    MaxRefunds = 1
INVARIANTS StatTypeOK InFlightSound AnswersAccounted
PROPERTY EchoSpec
