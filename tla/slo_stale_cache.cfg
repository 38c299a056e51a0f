SPECIFICATION Spec
CONSTANTS
    Envs <- DevAndProd
    NoEnv = "none"
    Clients <- OnlyDev
    EnvMutable = FALSE
    Troubles <- NoTrouble
    MaxRev = 2
    MaxIds = 2
    MaxLag = 1
    MaxTrouble = 0
INVARIANT AtMostOneLive
CHECK_DEADLOCK FALSE
