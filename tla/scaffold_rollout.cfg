SPECIFICATION FairSpec
CONSTANTS
    Repos <- TwoRepos
    Files <- TwoFiles
    Manifest = "manifest"
    Templates <- ThreePushes
    LongerNames <- NoneContinued
    Overwriting <- Either
    Runs = {p}
    Starts <- OneOfEach
    RepoList <- InOrder
    MaxEdits = 1
    MaxTrouble = 2
INVARIANT ExitZeroMeansSettled
PROPERTY RepeatingHelps
