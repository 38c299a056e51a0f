SPECIFICATION Spec
CONSTANTS
    Repos <- OneRepo
    Files <- TwoFiles
    Manifest = "manifest"
    Templates <- TwoPushes
    LongerNames <- NoneContinued
    Overwriting <- Either
    Runs = {p, q}
    Starts <- AnyStart
    RepoList <- JustOrders
    MaxEdits = 2
    MaxTrouble = 0
PROPERTY OptOutRespected
SYMMETRY Places
