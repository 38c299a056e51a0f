SPECIFICATION FairSpec
CONSTANTS
    Envs <- DevAndProd
    NoEnv = "none"
    Clients <- OnlyDev
    EnvMutable = FALSE
    Troubles <- Recoverable
    MaxRev = 2
    MaxIds = 7
    MaxLag = 1
    MaxTrouble = 2
INVARIANT LeavingInv
PROPERTIES MirrorsTenant EventuallyInSync DeletionCompletes
CHECK_DEADLOCK FALSE
