SPECIFICATION Spec
CONSTANTS
    SLOIds <- ThreeIds
    NoSLO = "none"
    MaxRefs = 6
INVARIANTS NoOverlap OnlyTheFifthLeaves NoHoles EverySLOShown
