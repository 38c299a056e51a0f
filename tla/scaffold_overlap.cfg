SPECIFICATION Spec
CONSTANTS
    Repos <- OneRepo
    Files <- TwoFiles
    Manifest = "manifest"
    Templates <- TwoPushes
    LongerNames <- NoneContinued
    Overwriting <- Either
    Runs = {p, q}
    Starts <- AnyStart
    RepoList <- JustOrders
    MaxEdits = 2
    MaxTrouble = 1
INVARIANTS IInv ExitZeroMeansSettled OneVersionPerBranch
PROPERTY RespectsTheTeam
SYMMETRY Places
