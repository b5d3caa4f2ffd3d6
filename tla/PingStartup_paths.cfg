SPECIFICATION Spec
CONSTANTS
    Commands <- MCCommands
    Targets <- MCTargets
    MinUser = 2
    MinMulticast = 1000
    MaxUserPreload = 3
    MaxData <- MCMaxData
    MaxQueries = 2
    MaxReplies = 3
INVARIANTS
    StartupTypeOK
    PrivilegesDropped
    RunsAsAsked
    UserLimits
    NonceSound
