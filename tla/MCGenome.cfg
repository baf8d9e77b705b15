SPECIFICATION Spec
CONSTANTS
    X86 = TRUE
    HaveClang = TRUE
    CellWidth = 8
    Ops10Pool <- MCOps10Pool
    SuperPool <- MCSuperPool
    FoldPool <- MCFoldPool
    Draws <- MCDraws
    Picks <- MCPicks
    Mixes <- MCMixes
    HandMade <- MCHandMade
    Drawn <- MCDrawn
    Base <- S6
    Varied <- MCVaried
    Partners <- MCPartners
    MaxSteps = 2
INVARIANTS
    OpcodesApart
    OverlaysHaveTheirOpcodes
    SecondRepairIsEnough
PROPERTIES
    SameIdSameFiles
CHECK_DEADLOCK FALSE
