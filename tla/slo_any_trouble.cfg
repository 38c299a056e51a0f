SPECIFICATION Spec
CONSTANTS
    Envs <- DevAndProd
    NoEnv = "none"
    Clients <- DevAndProd
    EnvMutable = TRUE
    Troubles <- AnyTrouble
    MaxRev = 2
    MaxIds = 2
    MaxLag = 2
    MaxTrouble = 2
INVARIANTS IInv AcceptedInv SyncedWasAccepted RecordedInItsTenant
PROPERTIES CleanDelete FinalizerFirst StraysExplained
CHECK_DEADLOCK FALSE
