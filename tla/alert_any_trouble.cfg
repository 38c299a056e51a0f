SPECIFICATION Spec
CONSTANTS
    SLONames <- Availability
    RefLists <- OneOrNone
    Troubles <- AnyTrouble
    MaxRev = 2
    MaxIds = 2
    MaxChanges = 3
    MaxLag = 2
    MaxTrouble = 2
INVARIANT IInv
PROPERTIES NamesItsSLO CleanDelete
CHECK_DEADLOCK FALSE
