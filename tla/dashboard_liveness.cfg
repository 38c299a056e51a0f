SPECIFICATION FairSpec
CONSTANTS
    SLONames <- TwoSLOs
    RefLists <- NoneOrBoth
    Troubles <- Recoverable
    MaxRev = 2
    MaxIds = 6
    MaxChanges = 3
    MaxLag = 1
    MaxTrouble = 1
PROPERTIES MirrorsTenant  DeletionCompletes MissingSLOShown
CHECK_DEADLOCK FALSE
