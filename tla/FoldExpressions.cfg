SPECIFICATION FoldSpec
CONSTANTS
    WordBits = 6
    MaxItems = 5
    Extent = 4
    FoldOperands <- MCOperands
    Placements <- MCPlacements
INVARIANTS
    FoldingSeen
    FoldingMoves
    FoldingFaithful
    EndsOnConstants
CHECK_DEADLOCK FALSE
