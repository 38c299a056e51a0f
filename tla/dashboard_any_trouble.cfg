SPECIFICATION Spec
CONSTANTS
    SLONames <- TwoSLOs
    RefLists <- OneOrBoth
    Troubles <- AnyTrouble
    MaxRev = 2
    MaxIds = 2
    MaxChanges = 3
    MaxLag = 2
    MaxTrouble = 2
INVARIANT IInv
PROPERTIES TilesMatchLabels CleanDelete
CHECK_DEADLOCK FALSE
