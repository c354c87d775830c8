SPECIFICATION ToolSpec
CONSTANTS
    WordBits = 8
    MergeLimit = 16
    ShortReach = 7
    LongReach = 15
    MaxShift = 24
    PageSize = 4
    Names <- MCNames
    SectionNames <- MCSectionNames
    BegName <- MCBegName
    EndName <- MCEndName
    CommandLines <- MCBranch
INVARIANT
    BranchesStay
