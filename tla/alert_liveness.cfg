SPECIFICATION FairSpec
CONSTANTS
    SLONames <- Availability
    RefLists <- OneOrNone
    Troubles <- Recoverable
    MaxRev = 2
    MaxIds = 6
    MaxChanges = 2
    MaxLag = 1
    MaxTrouble = 1
PROPERTIES MirrorsTenant EventuallyInSync DeletionCompletes
CHECK_DEADLOCK FALSE
